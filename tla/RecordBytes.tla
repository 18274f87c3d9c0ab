------------------------------- MODULE RecordBytes -------------------------------
(***************************************************************************)
(* The bytes of a record, for the parsers that walk them with a cursor     *)
(* (deref_offset in src/src/ffi/mod.rs).  A record is what the kernel laid *)
(* down, atom after atom: a u64, a u16 or a string is one atom, of its     *)
(* width.  A read of w bytes at a cursor gives an atom's value if exactly  *)
(* that atom is there, and Torn if the cursor has lost its way.            *)
(***************************************************************************)
EXTENDS Integers, Sequences, SequencesExt

CONSTANT Bases          \* what the address of the bytes may be modulo 8

VARIABLES base,         \* address of the bytes, modulo 8
          kind,         \* header.type
          id_all,       \* attr.sample_id_all
          flags,        \* attr.sample_type
          format,       \* attr.read_format
          branch,       \* attr.branch_sample_type: {"hw_index", "counters"} of it
          rec,          \* the bytes after the header
          meant,        \* history: what the kernel wrote, by field
          ptr,          \* the parser's cursor
          got,          \* the fields parsed, by field
          reach         \* history: end of the bytes the parser has looked at

config == <<base, kind, id_all, flags, format, branch>>
parsed == <<ptr, got, reach>>

St == INSTANCE Stat

\* A function that has a value at x, too.
With(f, x, v) == [y \in DOMAIN f \cup {x} |-> IF y \in DOMAIN f THEN f[y] ELSE v]

\* What an atom holds: a field's value (n tells elements of an array apart), or
\* a number the parser acts upon, in n.
Val(of, n) == [of |-> of, n |-> n]

Atom(w, of, n) == [w |-> w, val |-> Val(of, n)]

Word(of) == Atom(8, of, 0)
Nr(n) == Atom(8, "nr", n)
Words(of, n) == [i \in 1..n |-> Atom(8, of, i)]

\* n bytes of data, or none.
Blob(of, n) == IF n = 0 THEN <<>> ELSE <<Atom(n, of, n)>>

\* The zero bytes up to a multiple of 8, after n bytes.
Pad(n) == Blob("pad", (8 - (n % 8)) % 8)

Torn == Val("torn", 0)

\* The first part, in an order, of those in a set.
First(order, fs) == order[CHOOSE i \in DOMAIN order :
                            order[i] \in fs /\ \A j \in 1..(i - 1) : order[j] \notin fs]

-----------------------------------------------------------------------------
(* The kernel's side (external).                                            *)

Empty == [size |-> 0, at |-> [p \in {} |-> Nr(0)]]

\* perf_output_put and perf_output_copy, atom by atom.
Lay(bytes, atoms) ==
  LET laid[i \in 0..Len(atoms)] ==
        IF i = 0 THEN bytes
        ELSE LET r == laid[i - 1]
             IN  [size |-> r.size + atoms[i].w, at |-> With(r.at, r.size, atoms[i])]
  IN  laid[Len(atoms)]

\* What a reader of the record is to be told: neither counts nor filling.
Payload(atoms) ==
  LET told[i \in 0..Len(atoms)] ==
        IF i = 0 THEN <<>>
        ELSE IF atoms[i].val.of \in {"nr", "pad"} THEN told[i - 1]
        ELSE Append(told[i - 1], atoms[i].val)
  IN  told[Len(atoms)]

\* The kernel writes the part f of the record.
Write(f, atoms) ==
  /\ rec' = Lay(rec, atoms)
  /\ meant' = With(meant, f, Payload(atoms))
  /\ UNCHANGED <<config, parsed>>

\* perf_output_read, of the events in group.
StatAtoms(group) ==
  LET w == St!KernelWords(group, format) IN [i \in DOMAIN w |-> Atom(8, "stat", w[i])]

-----------------------------------------------------------------------------
(* The parser's side.                                                       *)

\* *(ptr as *const T)
Get(p, w) ==
  IF p \in DOMAIN rec.at /\ rec.at[p].w = w THEN rec.at[p].val ELSE Torn

\* n values of the same width, one after the other.
GetAll(p, w, n) == [i \in 1..n |-> Get(p + w * (i - 1), w)]

\* slice::from_raw_parts(ptr, n)
GetBytes(p, n) == IF n = 0 THEN <<>> ELSE <<Get(p, n)>>

\* CStr::from_ptr: as long as it is, with its NUL.
StrLen(p) ==
  IF p \in DOMAIN rec.at /\ rec.at[p].val.of = "str" THEN rec.at[p].w ELSE 1

\* Mutant of AlignOffset: an aligned address is moved too.
AlignOffsetAlways(p) == p + 8 - ((base + p) % 8)

\* ptr.add(ptr.align_offset(8)): the address counts, which is base + p.
AlignOffset(p) == p + ((8 - ((base + p) % 8)) % 8)

\* The field's values; the cursor after it; the end of what was looked at.
Take(f, vals, to, end) ==
  /\ got' = With(got, f, vals)
  /\ ptr' = to
  /\ reach' = end
  /\ UNCHANGED <<config, rec, meant>>

\* Stat::from_ptr_offset, in at most max words; what they mean is Stat!FromPtr.
TakeStat(f, max) ==
  LET word[i \in 1..max] == Get(ptr + 8 * (i - 1), 8)
      n == St!WordsParsed([i \in 1..max |-> word[i].n], format)
  IN  Take(f, [i \in 1..n |-> word[i]], ptr + 8 * n, ptr + 8 * n)

-----------------------------------------------------------------------------
Nothing == [f \in {} |-> <<>>]

\* The kernel is about to write the record.
Blank == base \in Bases /\ rec = Empty /\ meant = Nothing /\ ptr = 0 /\ got = Nothing /\ reach = 0
=============================================================================
