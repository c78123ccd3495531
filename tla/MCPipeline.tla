------------------------------ MODULE MCPipeline ------------------------------
(* Small instances of Pipeline for TLC. *)
EXTENDS Pipeline, TLC

CONSTANTS w1, w2, p1, m1, m2, m3

\* Two threads of one process.
OneProcess == [w \in Worker |-> p1]

\* Every message carries the same request id: the later ones are resends.
SameId == [m \in Message |-> CHOOSE r \in RequestId : TRUE]

AllWrites == [m \in Message |-> "write"]
WriteAndRead == m1 :> "write" @@ m2 :> "read"
WritesAndMalformed == m1 :> "write" @@ m2 :> "write" @@ m3 :> "malformed"

Nowhere == {}
AtExecute == {"execute"}
EverySite == Site
AllButExecute == Site \ {"execute"}
AllButMark == Site \ {"mark"}

\* Threads of one process are interchangeable, and so are messages that
\* carry the same request.
Interchangeable == Permutations(Message) \cup Permutations(Worker)
=============================================================================
