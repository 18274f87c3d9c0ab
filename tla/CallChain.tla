-------------------------------- MODULE CallChain --------------------------------
(***************************************************************************)
(* parse_call_chain (src/src/sample/record/sample.rs): a call chain is one *)
(* array of words, in which a marker begins each context (user, kernel,    *)
(* guest, ...) and all other words are the instruction pointers of the     *)
(* context before them, or the cookie of a deferred user context.          *)
(*                                                                         *)
(* A word has 2^Width values.  The markers are taken from the MaxMarker    *)
(* largest (in C: -MaxMarker..-1, with PERF_CONTEXT_MAX = -4095).          *)
(***************************************************************************)
EXTENDS Integers, Sequences

CONSTANTS Width, MaxMarker,
          Contexts,     \* CallChain's variants, and later kernels' ones
          Known,        \* those this version has a variant for
          Marker,       \* of each context, the word that begins it
          Ips,          \* instruction pointers that are met
          Cookies,      \* of a deferred context
          MaxStack,     \* kernel: instruction pointers of one chain
          MaxContexts   \* kernel: sysctl perf_event_max_contexts_per_stack

Deferred == "UserDeferred"

Mod(n) == n % 2^Width

\* PERF_CONTEXT_*
IsMarker(w) == w >= 2^Width - MaxMarker

ASSUME ChainAssumption ==
  /\ Width \in Nat /\ 2^Width \in Nat /\ MaxMarker \in 1..(2^Width - 1)
  /\ Known \subseteq Contexts
  /\ \A k \in Contexts : Marker[k] \in 0..(2^Width - 1) /\ IsMarker(Marker[k])
  /\ \A k, l \in Contexts : Marker[k] = Marker[l] => k = l
  /\ \A ip \in Ips : ip \in 0..(2^Width - 1) /\ ~IsMarker(ip)
  /\ Cookies \subseteq 0..(2^Width - 1)
  /\ MaxStack \in Nat /\ MaxContexts \in Nat

VARIABLES pc,      \* write: the kernel's; then parse_call_chain's
          words,   \* data->callchain, the ips of the sample
          sent,    \* history: the contexts the kernel wrote
          at,      \* iter: words taken from it
          chains   \* call_chains

chainVars == <<pc, words, sent, at, chains>>

Ctx(k, ips) == [ctx |-> k, ips |-> ips]

\* The last of a sequence of contexts has one more word.
Extended(ctxs, w) == [ctxs EXCEPT ![Len(ctxs)].ips = Append(@, w)]

-----------------------------------------------------------------------------
(* The kernel (external): get_perf_callchain.  Markers and cookies count    *)
(* against one limit, instruction pointers against another.                 *)

IpCount == Len(words) - Len(sent)

Written(k) == \E i \in DOMAIN sent : sent[i].ctx = k

\* A context's marker.  The kernel stops where the limit cuts it.
WriteMarker ==
  /\ pc = "write" /\ Len(sent) < MaxContexts
  /\ \E k \in Contexts \ {Deferred} :
       /\ ~Written(k)
       /\ words' = Append(words, Marker[k])
       /\ sent' = Append(sent, Ctx(k, <<>>))
  /\ UNCHANGED <<pc, at, chains>>

WriteIp ==
  /\ pc = "write" /\ words # <<>> /\ IpCount < MaxStack
  /\ \E ip \in Ips : /\ words' = Append(words, ip)
                     /\ sent' = Extended(sent, ip)
  /\ UNCHANGED <<pc, at, chains>>

\* A deferred user context comes last, and in place of the user's: its marker, and
\* its cookie, which counts as one more context.
WriteDeferred ==
  /\ pc = "write" /\ Deferred \in Known /\ ~Written("User") /\ Len(sent) < MaxContexts
  /\ \E c \in Cookies :
       LET cookie == IF Len(sent) + 1 < MaxContexts THEN <<c>> ELSE <<>>
       IN  /\ words' = Append(words, Marker[Deferred]) \o cookie
           /\ sent' = Append(sent, Ctx(Deferred, cookie))
  /\ pc' = "parse"
  /\ UNCHANGED <<at, chains>>

WriteEnd ==
  /\ pc = "write"
  /\ pc' = "parse"
  /\ UNCHANGED <<words, sent, at, chains>>

-----------------------------------------------------------------------------
(* parse_call_chain.                                                        *)

\* The arm of the match on a marker.
KindOf(w) == IF \E k \in Known : Marker[k] = w
             THEN CHOOSE k \in Known : Marker[k] = w
             ELSE "Unknown"

More == at < Len(words)

\* Mutant of Stops: the range of the markers has 0 in it, too.
StopsAtZero(w) == Mod(w + MaxMarker) <= MaxMarker

\* take_ips ends at a marker: ip.wrapping_add(4095) < 4095.
Stops(w) == Mod(w + MaxMarker) < MaxMarker

\* The next word is a marker.  A cookie is one word, of whatever value; if it is not
\* there unwrap_unchecked is undefined, and may make any word of it.
TakeMarker ==
  /\ pc = "parse" /\ More
  /\ LET k == KindOf(words[at + 1])
     IN  IF k = Deferred
         THEN \E c \in IF at + 2 <= Len(words) THEN {words[at + 2]}
                     ELSE Cookies \cup Ips :
                /\ chains' = Append(chains, Ctx(k, <<c>>))
                /\ at' = at + 2
                /\ UNCHANGED pc
         ELSE /\ chains' = Append(chains, Ctx(k, <<>>))
              /\ at' = at + 1
              /\ pc' = "take_ips"
  /\ UNCHANGED <<words, sent>>

\* take_ips: one turn of its loop.
TakeIp ==
  /\ pc = "take_ips"
  /\ IF More /\ ~Stops(words[at + 1])
     THEN chains' = Extended(chains, words[at + 1]) /\ at' = at + 1 /\ UNCHANGED pc
     ELSE pc' = "parse" /\ UNCHANGED <<chains, at>>
  /\ UNCHANGED <<words, sent>>

Return ==
  /\ pc = "parse" /\ ~More
  /\ pc' = "done"
  /\ UNCHANGED <<words, sent, at, chains>>

-----------------------------------------------------------------------------
ChainInit == pc = "write" /\ words = <<>> /\ sent = <<>> /\ at = 0 /\ chains = <<>>

ChainNext ==
  \/ WriteMarker \/ WriteIp \/ WriteDeferred \/ WriteEnd
  \/ TakeMarker \/ TakeIp \/ Return

ChainSpec == ChainInit /\ [][ChainNext]_chainVars

-----------------------------------------------------------------------------
\* The contexts that are returned are those the kernel wrote, each with its own
\* instruction pointers, 0 and the smallest marker's neighbour included.  A marker
\* which this version does not know keeps contexts apart just as well.  No word past
\* the end of the chain is taken.
ChainsAreExact ==
  /\ at <= Len(words)
  /\ pc = "done" =>
       chains = [i \in DOMAIN sent |->
                   Ctx(KindOf(Marker[sent[i].ctx]), sent[i].ips)]

-----------------------------------------------------------------------------
(* The same, inductive.                                                     *)

SentOK ==
  /\ words \in Seq(Nat)
  /\ sent \in Seq([ctx : Contexts, ips : Seq(Ips \cup Cookies)])
  /\ \A i, j \in DOMAIN sent : sent[i].ctx = sent[j].ctx => i = j
  /\ \A i \in DOMAIN sent :
       IF sent[i].ctx = Deferred
       THEN /\ i = Len(sent) /\ Len(sent[i].ips) = 1 /\ pc # "write"
            /\ Deferred \in Known
       ELSE sent[i].ips \in Seq(Ips)

\* The i-th context the kernel wrote is at pos[i], the next one right after it.
Laid(pos) ==
  /\ pos[1] = 0 /\ pos[Len(sent) + 1] = Len(words)
  /\ \A i \in DOMAIN sent :
       /\ pos[i + 1] = pos[i] + 1 + Len(sent[i].ips) /\ pos[i + 1] <= Len(words)
       /\ words[pos[i] + 1] = Marker[sent[i].ctx]
       /\ \A j \in DOMAIN sent[i].ips : words[pos[i] + 1 + j] = sent[i].ips[j]

\* What becomes of the i-th context.
Parsed(i) == Ctx(KindOf(Marker[sent[i].ctx]), sent[i].ips)

\* The cursor is where a context begins, or among the last one's instruction pointers.
CursorOK(pos) ==
  LET n == Len(chains)
  IN  \/ pc = "write" /\ at = 0 /\ chains = <<>>
      \/ /\ pc \in {"parse", "done"}
         /\ n <= Len(sent) /\ at = pos[n + 1]
         /\ \A i \in 1..n : chains[i] = Parsed(i)
         /\ pc = "done" => n = Len(sent)
      \/ /\ pc = "take_ips"
         /\ n \in DOMAIN sent /\ sent[n].ctx # Deferred
         /\ \A i \in 1..(n - 1) : chains[i] = Parsed(i)
         /\ chains[n].ctx = Parsed(n).ctx
         /\ at = pos[n] + 1 + Len(chains[n].ips) /\ at <= pos[n + 1]
         /\ \A j \in DOMAIN chains[n].ips : chains[n].ips[j] = sent[n].ips[j]

ChainInv ==
  /\ SentOK
  /\ chains \in Seq([ctx : Known \cup {"Unknown"}, ips : Seq(Nat)])
  /\ \E pos \in [1..(Len(sent) + 1) -> 0..Len(words)] : Laid(pos) /\ CursorOK(pos)
=============================================================================
