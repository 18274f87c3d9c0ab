----------------------------- MODULE RecordQueue -----------------------------
(***************************************************************************)
(* What a sampler promises to the user of its record iterator: the records *)
(* the kernel emits come out whole, once each and in the order in which    *)
(* they were emitted.  RecordRing implements this specification.           *)
(***************************************************************************)
EXTENDS Sequences

CONSTANT Records        \* the records the kernel may emit, as byte strings

VARIABLES unread,       \* emitted and not yet handed to the user
          delivered     \* handed to the user, oldest first

vars == <<unread, delivered>>

TypeOK == /\ unread \in Seq(Records)
          /\ delivered \in Seq(Records)

Init == /\ unread = <<>>
        /\ delivered = <<>>

Emit(r) == /\ unread' = Append(unread, r)
           /\ UNCHANGED delivered

Deliver == /\ unread # <<>>
           /\ delivered' = Append(delivered, Head(unread))
           /\ unread' = Tail(unread)

Next == Deliver \/ \E r \in Records : Emit(r)

Spec == Init /\ [][Next]_vars
=============================================================================
