------------------------------ MODULE AuditChain ------------------------------
(***************************************************************************)
(* The tamper-evident audit log of app/audit_log.py: rows in a sheet (or   *)
(* lines in a file), each carrying the hash of the one before it, while    *)
(* the hash to chain the next row to lives in the memory of the process    *)
(* that appends.  scripts/verify_audit_chain.py recomputes the chain.      *)
(*                                                                         *)
(* The hash is a constant operator into a set of hashes.                   *)
(***************************************************************************)
EXTENDS Naturals, Sequences

CONSTANTS Process,          \* service instances that may ever run
          Record,           \* audit records
          Hash,             \* hash values
          GenesisHash,      \* GENESIS_HASH
          ComputeEntryHash(_, _),   \* compute_entry_hash(record, prev_hash)
          MaxBatch,         \* bound: records per append_many
          MaxEntries        \* bound: rows ever appended

ASSUME HashAssumption ==
    /\ GenesisHash \in Hash
    /\ \A r \in Record, h \in Hash : ComputeEntryHash(r, h) \in Hash

ASSUME AuditAssumption ==
    /\ MaxBatch \in Nat \ {0}
    /\ MaxEntries \in Nat

VARIABLES rows,         \* the sheet
          running,      \* instances that are up
          prevHash,     \* _prev_hash of each instance
          pending,      \* entries append_many has chained but not yet written
          faults        \* what has disturbed the chain so far, see Fault

vars == <<rows, running, prevHash, pending, faults>>

-----------------------------------------------------------------------------

\* Two instances at once; an append that landed and was seen to fail; one
\* that left a prefix (a file).
Fault == {"overlap", "lost", "partial"}

EntryType == [record : Record, prev : Hash, hash : Hash]

Entry(record, prev) ==
    [record |-> record, prev |-> prev, hash |-> ComputeEntryHash(record, prev)]

\* The hash the entry after position n must be chained to.
HashBefore(entries, n) == IF n = 1 THEN GenesisHash ELSE entries[n - 1].hash

\* Mutant: the wrong column of the last row is read.
LastRecord(entries, otherwise) ==
    IF entries = <<>> THEN otherwise ELSE entries[Len(entries)].record

LastHash(entries, otherwise) ==
    IF entries = <<>> THEN otherwise ELSE entries[Len(entries)].hash

EntryVerifies(entries, n) ==
    /\ entries[n].prev = HashBefore(entries, n)
    /\ entries[n].hash = ComputeEntryHash(entries[n].record, entries[n].prev)

VerifyChain(entries) == \A n \in DOMAIN entries : EntryVerifies(entries, n)

\* Mutant: the break reported is the last one.
LastBreak(entries) ==
    LET broken == {n \in DOMAIN entries : ~EntryVerifies(entries, n)} IN
    IF broken = {} THEN 0 ELSE CHOOSE n \in broken : \A k \in broken : n >= k

\* Index of the first entry that does not verify; 0 stands for None.
FirstBreak(entries) ==
    LET broken == {n \in DOMAIN entries : ~EntryVerifies(entries, n)} IN
    IF broken = {} THEN 0 ELSE CHOOSE n \in broken : \A k \in broken : n <= k

-----------------------------------------------------------------------------

Init ==
    /\ rows = <<>>
    /\ running = {}
    /\ prevHash = [p \in Process |-> GenesisHash]
    /\ pending = [p \in Process |-> <<>>]
    /\ faults = {}

\* Two instances up at once, and what is appended meanwhile, is a rollout.
NoteOverlap ==
    faults' = IF running = {} THEN faults ELSE faults \cup {"overlap"}

\* Mutant: every instance starts a chain of its own.
StartAtGenesis(p) ==
    /\ p \notin running
    /\ running' = running \cup {p}
    /\ prevHash' = [prevHash EXCEPT ![p] = GenesisHash]
    /\ NoteOverlap
    /\ UNCHANGED <<rows, pending>>

\* An instance starts, alone or during a rollout, and loads the hash of the
\* last row once and for all.
Start(p) ==
    /\ p \notin running
    /\ running' = running \cup {p}
    /\ prevHash' = [prevHash EXCEPT ![p] = LastHash(rows, GenesisHash)]
    /\ NoteOverlap
    /\ UNCHANGED <<rows, pending>>

\* An instance is stopped or dies, between any two steps.
Stop(p) ==
    /\ p \in running
    /\ running' = running \ {p}
    /\ pending' = [pending EXCEPT ![p] = <<>>]
    /\ UNCHANGED <<rows, prevHash, faults>>

\* One round of _chain's loop: the next record of this append is chained to
\* the one before it.
ChainRecord(p, record) ==
    /\ p \in running
    /\ Len(pending[p]) < MaxBatch
    /\ Len(rows) + Len(pending[p]) < MaxEntries
    /\ pending' = [pending EXCEPT
                     ![p] = Append(@, Entry(record, LastHash(@, prevHash[p])))]
    /\ UNCHANGED <<rows, running, prevHash, faults>>

\* The write succeeds, and only then does the hash in memory advance.
AppendMany(p) ==
    /\ pending[p] # <<>>
    /\ rows' = rows \o pending[p]
    /\ prevHash' = [prevHash EXCEPT ![p] = LastHash(pending[p], @)]
    /\ pending' = [pending EXCEPT ![p] = <<>>]
    /\ UNCHANGED <<running, faults>>

\* The first n pending rows landed although the write raised.
LandInPart(p, n) ==
    /\ rows' = rows \o SubSeq(pending[p], 1, n)
    /\ faults' = CASE n = 0 -> faults
                   [] n = Len(pending[p]) -> faults \cup {"lost"}
                   [] OTHER -> faults \cup {"partial"}

\* Mutant: the hash in memory advances even though the write failed.
AppendFailsAdvancing(p) ==
    /\ pending[p] # <<>>
    /\ \E n \in 0..Len(pending[p]) : LandInPart(p, n)
    /\ prevHash' = [prevHash EXCEPT ![p] = LastHash(pending[p], @)]
    /\ pending' = [pending EXCEPT ![p] = <<>>]
    /\ UNCHANGED running

\* The write raises: nothing landed, or everything did and the response was
\* lost, or (a file) the first lines did.  The pipeline logs the records
\* elsewhere and goes on.
AppendFails(p) ==
    /\ pending[p] # <<>>
    /\ \E n \in 0..Len(pending[p]) : LandInPart(p, n)
    /\ pending' = [pending EXCEPT ![p] = <<>>]
    /\ UNCHANGED <<running, prevHash>>

Next == \E p \in Process :
    \/ Start(p) \/ Stop(p)
    \/ \E record \in Record : ChainRecord(p, record)
    \/ AppendMany(p) \/ AppendFails(p)

Spec == Init /\ [][Next]_vars

-----------------------------------------------------------------------------

TypeOK ==
    /\ rows \in Seq(EntryType)
    /\ running \subseteq Process
    /\ prevHash \in [Process -> Hash]
    /\ pending \in [Process -> Seq(EntryType)]
    /\ faults \subseteq Fault

\* With a single writer whose appends either land or visibly do nothing, the
\* production check passes for ever: restarts, failed appends and batches
\* never fork or gap the chain.
ChainVerifies == faults = {} => VerifyChain(rows)

\* "During a Cloud Run revision rollout an old and a new instance can briefly
\* both append.  max-instances=1 plus the process-wide request lock rule
\* [a fork] out otherwise" (scripts/verify_audit_chain.py).
OnlyOverlapForks == "overlap" \notin faults => VerifyChain(rows)

\* "A failed append never leaves the next record chained to rows that aren't
\* in the sheet" (SheetsAuditLog.append_many): whatever fails, restarts or
\* overlaps, each row is chained to the start or to an EARLIER row.
LinksResolve ==
    \A n \in DOMAIN rows :
        \/ rows[n].prev = GenesisHash
        \/ \E k \in 1..(n - 1) : rows[n].prev = rows[k].hash

\* A fork never heals and never moves: the first break the operator's check
\* reports stays where it is, whatever is appended later, so the entries
\* before it can be trusted.
BreakIsStable ==
    [][FirstBreak(rows) # 0 => FirstBreak(rows') = FirstBreak(rows)]_vars
=============================================================================
