-------------------------------- MODULE BpfQuery --------------------------------
(***************************************************************************)
(* Counter::attach_bpf and Counter::query_bpf (src/src/count/mod.rs): the  *)
(* IDs of the BPF programs on a tracepoint, which the kernel writes into a *)
(* buffer whose length the caller chooses with a u32.                      *)
(*                                                                         *)
(* Rust's `2 + buf_len' on u32 wraps in a release build and panics in a    *)
(* debug build: Wraps says which.  The kernel's answer is external; the    *)
(* programs come and go between calls, by other counters too.              *)
(***************************************************************************)
EXTENDS Integers, Sequences

CONSTANTS Progs,     \* IDs of programs
          MaxProgs,  \* kernel: BPF_TRACE_MAX_PROGS
          Bits,      \* bits of the u32, fewer in an instance
          BufLens,   \* what the callers pass
          Wraps      \* BOOLEAN: overflow-checks are off

Max32 == 2^Bits - 1

ASSUME QueryAssumption == /\ MaxProgs \in Nat \ {0} /\ Bits \in Nat \ {0, 1}
                          /\ 2^Bits \in Nat /\ MaxProgs + 2 <= Max32
                          /\ BufLens \subseteq 0..Max32
                          /\ Wraps \in BOOLEAN

VARIABLES attached,  \* kernel: the IDs on the tracepoint, in order
          stage,     \* query_bpf: idle, ioctl, parse or, after a panic, panicked
          buf_len,   \* its argument
          buf,       \* its Vec of MaybeUninit words
          errno,     \* what the ioctl returned; 0 is Ok
          answer     \* what the last call returned, with what was there to see

queryVars == <<attached, stage, buf_len, buf, errno, answer>>

Uninit == -1

NoAnswer == [kind |-> "none"]

-----------------------------------------------------------------------------
(* The programs on the tracepoint (external but for the call).              *)

\* attach_bpf, here or through another counter on the tracepoint.
AttachBpf(p) ==
  /\ \A i \in 1..Len(attached) : attached[i] # p
  /\ Len(attached) < MaxProgs
  /\ attached' = Append(attached, p)
  /\ UNCHANGED <<stage, buf_len, buf, errno, answer>>

\* An event with a program on it is closed.
Detach(p) ==
  /\ \E i \in 1..Len(attached) :
       /\ attached[i] = p
       /\ attached' = SubSeq(attached, 1, i - 1) \o SubSeq(attached, i + 1, Len(attached))
  /\ UNCHANGED <<stage, buf_len, buf, errno, answer>>

-----------------------------------------------------------------------------
(* Counter::query_bpf.                                                      *)

\* Mutant of BufWords: no room for prog_cnt.
BufWordsShort(n) == 1 + n

\* Words of the buffer: a sum of u32.
BufWords(n) == 2 + n

\* vec![uninit; (2 + buf_len)]; buf[0] = buf_len.
Alloc(n) ==
  /\ stage = "idle"
  /\ buf_len' = n
  /\ LET words == BufWords(n)
         len == words % (Max32 + 1)
         panics == (words > Max32 /\ ~Wraps) \/ len = 0
     IN  IF panics
         THEN stage' = "panicked" /\ buf' = <<>>
         ELSE /\ stage' = "ioctl"
              /\ buf' = [i \in 1..len |-> IF i = 1 THEN n ELSE Uninit]
  /\ answer' = NoAnswer
  /\ UNCHANGED <<attached, errno>>

\* What the kernel makes of a request for n IDs (external).
QueryErrno(n) ==
  IF n > MaxProgs THEN "E2BIG"
  ELSE IF n > 0 /\ Len(attached) > n THEN "ENOSPC" ELSE "OK"

\* The words it writes: prog_cnt, then n IDs or zeroes.  With n = 0 it only counts.
QueryWrites(n) ==
  [i \in 2..(n + 2) |-> IF i = 2 THEN Len(attached)
                        ELSE IF i - 2 <= Len(attached) THEN attached[i - 2] ELSE 0]

Ioctl ==
  /\ stage = "ioctl"
  /\ \/ /\ errno' = QueryErrno(buf[1])
        /\ buf' = IF errno' = "E2BIG" THEN buf
                  ELSE [i \in DOMAIN buf \cup 2..(buf[1] + 2) |->
                          IF i = 1 THEN buf[1] ELSE
                          IF i <= buf[1] + 2 THEN QueryWrites(buf[1])[i] ELSE buf[i]]
     \/ errno' \in {"EPERM", "EINVAL", "ENOMEM"} /\ UNCHANGED buf
  /\ answer' = [kind |-> "none", seen |-> attached]
  /\ stage' = "parse"
  /\ UNCHANGED <<attached, buf_len>>

\* Mutant of Parse: the error that carries an answer is an error.
ParseNoSpace ==
  /\ stage = "parse" /\ stage' = "idle"
  /\ \/ /\ errno = "OK" /\ 2 + buf[2] <= Len(buf)
        /\ answer' = [kind |-> "Ok", ids |-> SubSeq(buf, 3, 2 + buf[2]), lost |-> 0,
                      seen |-> answer.seen]
     \/ /\ errno # "OK"
        /\ answer' = [kind |-> "Err", errno |-> errno, seen |-> answer.seen]
  /\ UNCHANGED <<attached, buf_len, buf, errno>>

\* Ok(buf[2..2 + prog_cnt]), which must lie in the buffer; for ENOSPC all of it and
\* the number that is lost; any other error is returned.
Parse ==
  /\ stage = "parse"
  /\ \/ /\ errno = "OK" /\ 2 + buf[2] > Len(buf)
        /\ stage' = "panicked" /\ UNCHANGED answer
     \/ /\ errno = "OK" /\ 2 + buf[2] <= Len(buf)
        /\ stage' = "idle"
        /\ answer' = [kind |-> "Ok", ids |-> SubSeq(buf, 3, 2 + buf[2]), lost |-> 0,
                      seen |-> answer.seen]
     \/ /\ errno = "ENOSPC"
        /\ stage' = "idle"
        /\ answer' = [kind |-> "Ok", ids |-> SubSeq(buf, 3, Len(buf)),
                      lost |-> buf[2] - buf_len, seen |-> answer.seen]
     \/ /\ errno \notin {"OK", "ENOSPC"}
        /\ stage' = "idle" /\ answer' = [kind |-> "Err", errno |-> errno, seen |-> answer.seen]
  /\ UNCHANGED <<attached, buf_len, buf, errno>>

-----------------------------------------------------------------------------
QueryInit ==
  /\ attached = <<>>
  /\ stage = "idle"
  /\ buf_len = 0
  /\ buf = <<>>
  /\ errno = "OK"
  /\ answer = NoAnswer

QueryNext ==
  \/ \E p \in Progs : AttachBpf(p) \/ Detach(p)
  \/ \E n \in BufLens : Alloc(n)
  \/ Ioctl \/ Parse

QuerySpec == QueryInit /\ [][QueryNext]_queryVars

-----------------------------------------------------------------------------
\* The kernel writes only the words that were allocated, even when their number
\* wrapped: what is too long to allocate is too long for the kernel.
WritesFit == stage = "parse" => Len(buf) = BufWords(buf_len) % (Max32 + 1)

\* Ok means what the documentation says: the IDs that were attached, in order, and
\* how many of them did not fit.  The kernel's other errors are passed on.
AnswerIsExact ==
  /\ answer.kind = "Ok" =>
       /\ Len(answer.ids) + answer.lost = Len(answer.seen)
       /\ answer.ids = SubSeq(answer.seen, 1, Len(answer.ids))
       /\ answer.lost > 0 => Len(answer.ids) = buf_len
  /\ answer.kind = "Err" => answer.errno # "ENOSPC"

\* `If the buffer is not large enough to contain all IDs, it also indicates how many
\* IDs were lost': a call that meets more programs than it has room for answers.
LostAreTold == "seen" \in DOMAIN answer /\ Len(answer.seen) > buf_len => stage # "panicked"

-----------------------------------------------------------------------------
(* The inductive invariant behind the first two.                           *)

\* The buffer of a call: its argument is the first word.
Allocated ==
  /\ buf \in Seq(Int \cup Progs)
  /\ Len(buf) = BufWords(buf_len) % (Max32 + 1) /\ Len(buf) > 0
  /\ buf[1] = buf_len

\* The kernel has answered it: it is large enough for what is read of it.
Answered(seen) ==
  /\ Len(buf) = buf_len + 2
  /\ buf[2] = Len(seen)
  /\ \A i \in 1..buf_len : i <= Len(seen) => buf[i + 2] = seen[i]

QueryInv ==
  /\ attached \in Seq(Progs) /\ buf_len \in 0..Max32
  /\ stage \in {"idle", "ioctl", "parse", "panicked"}
  /\ stage = "ioctl" => Allocated
  /\ stage = "parse" =>
       /\ Allocated
       /\ answer.kind = "none" /\ answer.seen \in Seq(Progs)
       /\ errno \in {"OK", "ENOSPC"} => Answered(answer.seen)
       /\ errno = "OK" => buf_len = 0 \/ Len(answer.seen) <= buf_len
       /\ errno = "ENOSPC" => Len(answer.seen) > buf_len
  /\ AnswerIsExact
=============================================================================
