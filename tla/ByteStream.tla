------------------------------ MODULE ByteStream ------------------------------
(***************************************************************************)
(* What an AuxTracer promises to the user of its iterator: the bytes of    *)
(* the AUX area come out in the order they were traced, none missing and   *)
(* none twice, in pieces that are never empty.  AuxRing implements this.   *)
(***************************************************************************)
EXTENDS Integers, Sequences

VARIABLES unread,       \* traced and not yet handed to the user
          delivered     \* handed to the user

vars == <<unread, delivered>>

Init == unread = <<>> /\ delivered = <<>>

Trace == /\ Len(unread') > Len(unread)
         /\ SubSeq(unread', 1, Len(unread)) = unread
         /\ UNCHANGED delivered

Deliver(n) == /\ delivered' = delivered \o SubSeq(unread, 1, n)
              /\ unread' = SubSeq(unread, n + 1, Len(unread))

Next == Trace \/ \E n \in 1..Len(unread) : Deliver(n)

Spec == Init /\ [][Next]_vars
=============================================================================
