-------------------------------- MODULE MCBatch --------------------------------
(* Small instances of Batch for TLC. *)
EXTENDS Batch, TLC

CONSTANTS m1, m2, b1, b2, a, b, c

WriteItem(r) == [id |-> r, write |-> TRUE, parsed |-> TRUE]
ReadItem(r) == [id |-> r, write |-> FALSE, parsed |-> TRUE]
RefusedItem(r) == [id |-> r, write |-> TRUE, parsed |-> FALSE]

\* The second message is the first one sent again.
SameOuter == [m \in Message |-> b1]

\* A write, a read, and a repeat of the write's id.
WriteReadRepeat == <<WriteItem(a), ReadItem(b), RefusedItem(a)>>

\* The requester resends the batch as it was.
Resent == [m \in Message |-> WriteReadRepeat]

\* The requester puts the items of the batch into a new one, in another
\* order, and with more.
NewOuter == m1 :> b1 @@ m2 :> b2
Regrouped == m1 :> <<WriteItem(a), WriteItem(b)>>
          @@ m2 :> <<WriteItem(b), WriteItem(a), ReadItem(c)>>

Nowhere == {}
AllButExecuteAndQuota == Site \ {"execute", "recorditems"}

\* The two messages carry the same batch.
Interchangeable == Permutations(Message)
=============================================================================
