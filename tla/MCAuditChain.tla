----------------------------- MODULE MCAuditChain -----------------------------
(* Small instances of AuditChain for TLC: within the bounds on the number of *)
(* rows the hash is injective, a record paired with the previous hash.       *)
EXTENDS AuditChain

Genesis == <<>>

\* Hashes[n] holds the hashes of chains of at most n entries.
Hashes[n \in 0..(MaxEntries + MaxBatch)] ==
    IF n = 0 THEN {Genesis}
    ELSE {Genesis} \cup (Record \X Hashes[n - 1])

HashSet == Hashes[MaxEntries + MaxBatch]

PairHash(record, prev) == IF <<record, prev>> \in HashSet THEN <<record, prev>> ELSE Genesis
=============================================================================
