--------------------------- MODULE AuditChainProofs ---------------------------
(***************************************************************************)
(* Theorems about AuditChain, for every set of instances, every hash       *)
(* operator and every bound:                                               *)
(*   TypeCorrect        the state always has its type;                     *)
(*   NothingDangles     whatever fails, LinksResolve;                      *)
(*   SingleWriterChain  until two writers overlap or an append lands        *)
(*                      although it failed, the chain verifies;            *)
(*   FirstBreakStays    BreakIsStable: the first break never moves.        *)
(***************************************************************************)
EXTENDS AuditChain, SequenceTheorems, WellFoundedInduction, TLAPS

\* Entries made by _chain have the type of a row.
LEMMA EntryTyped ==
    ASSUME NEW record \in Record, NEW prev \in Hash
    PROVE  Entry(record, prev) \in EntryType
BY HashAssumption DEF Entry, EntryType

\* The hash at the end of a chain is a hash.
LEMMA LastHashTyped ==
    ASSUME NEW s \in Seq(EntryType), NEW h \in Hash
    PROVE  LastHash(s, h) \in Hash
<1>1. CASE s = <<>>
  BY <1>1 DEF LastHash
<1>2. CASE s # <<>>
  <2>1. Len(s) \in 1..Len(s)
    BY <1>2, EmptySeq, LenProperties
  <2>2. s[Len(s)] \in EntryType
    BY <2>1, ElementOfSeq
  <2> QED BY <1>2, <2>2 DEF LastHash, EntryType
<1> QED BY <1>1, <1>2

\* A prefix of a sequence of entries.
LEMMA Prefix ==
    ASSUME NEW s \in Seq(EntryType), NEW n \in 0..Len(s)
    PROVE  /\ SubSeq(s, 1, n) \in Seq(EntryType)
           /\ Len(SubSeq(s, 1, n)) = n
           /\ \A i \in 1..n : SubSeq(s, 1, n)[i] = s[i]
<1>1. Len(s) \in Nat
  BY LenProperties
<1>2. \A i \in 1..n : s[i] \in EntryType
  BY <1>1, ElementOfSeq
<1> QED BY <1>1, <1>2, SubSeqProperties

\* What append_many leaves in the sheet is a prefix of what it chained, the
\* whole of it when the append succeeds.
LEMMA RowsGrowByPrefix ==
    ASSUME TypeOK, NEW p \in Process, AppendMany(p) \/ AppendFails(p)
    PROVE  \E n \in 0..Len(pending[p]) : rows' = rows \o SubSeq(pending[p], 1, n)
<1>1. pending[p] \in Seq(EntryType)
  BY DEF TypeOK
<1>2. CASE AppendMany(p)
  <2>1. pending[p] = SubSeq(pending[p], 1, Len(pending[p]))
    BY <1>1, SubSeqFull
  <2>2. Len(pending[p]) \in 0..Len(pending[p])
    BY <1>1, LenProperties
  <2> QED BY <1>2, <2>1, <2>2 DEF AppendMany
<1>3. CASE AppendFails(p)
  BY <1>3 DEF AppendFails, LandInPart
<1> QED BY <1>2, <1>3

-----------------------------------------------------------------------------

\* Every step keeps the types.
LEMMA TypeStep == TypeOK /\ [Next]_vars => TypeOK'
<1> SUFFICES ASSUME TypeOK, [Next]_vars PROVE TypeOK'
  OBVIOUS
<1>1. CASE UNCHANGED vars
  BY <1>1 DEF TypeOK, vars
<1>2. ASSUME NEW p \in Process, Start(p) PROVE TypeOK'
  <2>1. LastHash(rows, GenesisHash) \in Hash
    BY LastHashTyped, HashAssumption DEF TypeOK
  <2> QED BY <1>2, <2>1 DEF TypeOK, Start, NoteOverlap, Fault
<1>3. ASSUME NEW p \in Process, Stop(p) PROVE TypeOK'
  BY <1>3, EmptySeq DEF TypeOK, Stop
<1>4. ASSUME NEW p \in Process, NEW record \in Record, ChainRecord(p, record)
      PROVE  TypeOK'
  <2>1. pending[p] \in Seq(EntryType) /\ prevHash[p] \in Hash
    BY DEF TypeOK
  <2>2. Entry(record, LastHash(pending[p], prevHash[p])) \in EntryType
    BY <2>1, LastHashTyped, EntryTyped
  <2>3. Append(pending[p], Entry(record, LastHash(pending[p], prevHash[p]))) \in Seq(EntryType)
    BY <2>1, <2>2, AppendProperties
  <2> QED BY <1>4, <2>3 DEF TypeOK, ChainRecord
<1>5. ASSUME NEW p \in Process, AppendMany(p) \/ AppendFails(p)
      PROVE  TypeOK'
  <2>1. pending[p] \in Seq(EntryType) /\ prevHash[p] \in Hash
    BY DEF TypeOK
  <2>2. PICK n \in 0..Len(pending[p]) : rows' = rows \o SubSeq(pending[p], 1, n)
    BY <1>5, RowsGrowByPrefix
  <2>3. rows' \in Seq(EntryType)
    BY <2>1, <2>2, Prefix, ConcatProperties DEF TypeOK
  <2>4. LastHash(pending[p], prevHash[p]) \in Hash
    BY <2>1, LastHashTyped
  <2>5. prevHash' \in [Process -> Hash]
    BY <1>5, <2>4 DEF TypeOK, AppendMany, AppendFails
  <2>6. pending' \in [Process -> Seq(EntryType)]
    BY <1>5, EmptySeq DEF TypeOK, AppendMany, AppendFails
  <2>7. faults' \subseteq Fault
    <3>1. CASE AppendMany(p)
      BY <3>1 DEF TypeOK, AppendMany
    <3>2. CASE AppendFails(p)
      BY <3>2 DEF TypeOK, AppendFails, LandInPart, Fault
    <3> QED BY <1>5, <3>1, <3>2
  <2> QED BY <1>5, <2>3, <2>5, <2>6, <2>7 DEF TypeOK, AppendMany, AppendFails
<1> QED BY <1>1, <1>2, <1>3, <1>4, <1>5 DEF Next

\* The initial state has its type.
LEMMA TypeInit == Init => TypeOK
BY HashAssumption, EmptySeq DEF Init, TypeOK

\* The sheet, the hash in memory and the entries under way always have
\* their types.
THEOREM TypeCorrect == Spec => []TypeOK
BY TypeInit, TypeStep, PTL DEF Spec

-----------------------------------------------------------------------------
(* LinksResolve.  It is not inductive: it says nothing of the hashes that  *)
(* instances remember, nor of the entries they have chained and not yet    *)
(* written.  The strengthening says that both lead back into the sheet.    *)

\* The hash is the genesis or that of one of the entries.
Resolves(h, entries) ==
    \/ h = GenesisHash
    \/ \E k \in DOMAIN entries : h = entries[k].hash

\* Each entry is linked to the one before it, the first one to prev.
Linked(prev, entries) ==
    \A n \in DOMAIN entries :
        entries[n].prev = IF n = 1 THEN prev ELSE entries[n - 1].hash

\* What a stopped instance had not written is gone.
StoppedForgets == \A p \in Process : p \notin running => pending[p] = <<>>

NothingDanglesInv ==
    /\ TypeOK
    /\ LinksResolve
    /\ StoppedForgets
    /\ \A p \in Process : Resolves(prevHash[p], rows)
    /\ \A p \in Process : Linked(prevHash[p], pending[p])

\* What resolves in the sheet resolves in a longer sheet.
LEMMA ResolvesStably ==
    ASSUME NEW s \in Seq(EntryType), NEW t \in Seq(EntryType),
           NEW h, Resolves(h, s)
    PROVE  Resolves(h, s \o t)
<1>1. /\ s \o t \in Seq(EntryType)
      /\ Len(s) \in Nat /\ Len(t) \in Nat
      /\ Len(s \o t) = Len(s) + Len(t)
      /\ DOMAIN s = 1..Len(s) /\ DOMAIN (s \o t) = 1..Len(s \o t)
      /\ \A i \in 1..Len(s) : (s \o t)[i] = s[i]
  BY ConcatProperties, LenProperties
<1>2. CASE h = GenesisHash
  BY <1>2 DEF Resolves
<1>3. ASSUME NEW k \in DOMAIN s, h = s[k].hash PROVE Resolves(h, s \o t)
  <2>1. k \in DOMAIN (s \o t) /\ (s \o t)[k] = s[k]
    BY <1>1, <1>3
  <2> QED BY <1>3, <2>1 DEF Resolves
<1> QED BY <1>2, <1>3 DEF Resolves

\* The hash an instance remembers after its append resolves in the sheet.
LEMMA LastHashResolves ==
    ASSUME NEW s \in Seq(EntryType), NEW t \in Seq(EntryType),
           NEW h, Resolves(h, s)
    PROVE  Resolves(LastHash(t, h), s \o t)
<1>1. /\ s \o t \in Seq(EntryType)
      /\ Len(s) \in Nat /\ Len(t) \in Nat
      /\ Len(s \o t) = Len(s) + Len(t)
      /\ DOMAIN (s \o t) = 1..Len(s \o t)
      /\ \A i \in 1..Len(s) + Len(t) : (s \o t)[i] = IF i <= Len(s) THEN s[i] ELSE t[i - Len(s)]
  BY ConcatProperties, LenProperties
<1>2. CASE t = <<>>
  BY <1>2, ResolvesStably DEF LastHash
<1>3. CASE t # <<>>
  <2>1. Len(t) > 0
    BY <1>1, <1>3, EmptySeq
  <2>2. Len(s \o t) \in DOMAIN (s \o t) /\ (s \o t)[Len(s \o t)] = t[Len(t)]
    BY <1>1, <2>1
  <2> QED BY <1>3, <2>2 DEF Resolves, LastHash
<1> QED BY <1>2, <1>3

\* A linked chain can be appended to a sheet in which its start resolves.
LEMMA LinkedExtends ==
    ASSUME NEW s \in Seq(EntryType), NEW t \in Seq(EntryType), NEW h,
           Resolves(h, s), Linked(h, t),
           \A n \in DOMAIN s : \/ s[n].prev = GenesisHash
                               \/ \E k \in 1..(n - 1) : s[n].prev = s[k].hash,
           NEW n \in DOMAIN (s \o t)
    PROVE  \/ (s \o t)[n].prev = GenesisHash
           \/ \E k \in 1..(n - 1) : (s \o t)[n].prev = (s \o t)[k].hash
<1>1. /\ Len(s) \in Nat /\ Len(t) \in Nat
      /\ s \o t \in Seq(EntryType)
      /\ DOMAIN s = 1..Len(s) /\ DOMAIN t = 1..Len(t)
      /\ DOMAIN (s \o t) = 1..(Len(s) + Len(t))
      /\ \A i \in 1..Len(s) + Len(t) : (s \o t)[i] = IF i <= Len(s) THEN s[i] ELSE t[i - Len(s)]
  BY ConcatProperties, LenProperties
<1>2. CASE n <= Len(s)
  <2>1. n \in DOMAIN s /\ (s \o t)[n] = s[n]
    BY <1>1, <1>2
  <2>2. \A k \in 1..(n - 1) : (s \o t)[k] = s[k]
    BY <1>1, <1>2
  <2> QED BY <2>1, <2>2
<1>3. CASE n = Len(s) + 1
  <2>1. 1 \in DOMAIN t /\ (s \o t)[n] = t[1]
    BY <1>1, <1>3
  <2>2. (s \o t)[n].prev = h
    BY <2>1 DEF Linked
  <2>3. \A k \in DOMAIN s : k \in 1..(n - 1) /\ (s \o t)[k] = s[k]
    BY <1>1, <1>3
  <2> QED BY <2>2, <2>3 DEF Resolves
<1>4. CASE n > Len(s) + 1
  <2>1. /\ n - Len(s) \in DOMAIN t
        /\ (s \o t)[n] = t[n - Len(s)]
        /\ n - 1 \in 1..(n - 1)
        /\ (s \o t)[n - 1] = t[n - Len(s) - 1]
    BY <1>1, <1>4
  <2>2. t[n - Len(s)].prev = t[n - Len(s) - 1].hash
    BY <1>1, <1>4, <2>1 DEF Linked
  <2> QED BY <2>1, <2>2
<1> QED BY <1>1, <1>2, <1>3, <1>4

\* A prefix of a linked chain is linked to the same start.
LEMMA LinkedPrefix ==
    ASSUME NEW t \in Seq(EntryType), NEW h, Linked(h, t), NEW n \in 0..Len(t)
    PROVE  Linked(h, SubSeq(t, 1, n))
<1>1. /\ Len(t) \in Nat /\ DOMAIN t = 1..Len(t)
      /\ DOMAIN SubSeq(t, 1, n) = 1..n
      /\ \A i \in 1..n : SubSeq(t, 1, n)[i] = t[i]
  BY Prefix, LenProperties
<1> QED BY <1>1 DEF Linked

\* _chain links the next entry to the last one.
LEMMA LinkedAppend ==
    ASSUME NEW t \in Seq(EntryType), NEW h \in Hash, Linked(h, t), NEW record \in Record
    PROVE  Linked(h, Append(t, Entry(record, LastHash(t, h))))
<1> DEFINE e == Entry(record, LastHash(t, h))
<1>1. e \in EntryType /\ e.prev = LastHash(t, h)
  BY LastHashTyped, EntryTyped DEF Entry
<1> HIDE DEF e
<1>2. /\ Len(t) \in Nat /\ DOMAIN t = 1..Len(t)
      /\ Append(t, e) \in Seq(EntryType)
      /\ DOMAIN Append(t, e) = 1..(Len(t) + 1)
      /\ \A i \in 1..Len(t) : Append(t, e)[i] = t[i]
      /\ Append(t, e)[Len(t) + 1] = e
  BY <1>1, AppendProperties, LenProperties
<1>3. e.prev = IF Len(t) = 0 THEN h ELSE t[Len(t)].hash
  BY <1>1, EmptySeq DEF LastHash
<1>4. Linked(h, Append(t, e))
  BY <1>2, <1>3 DEF Linked
<1> QED BY <1>4 DEF e

LEMMA NothingDanglesInit == Init => NothingDanglesInv
<1> SUFFICES ASSUME Init PROVE NothingDanglesInv
  OBVIOUS
<1>1. TypeOK
  BY TypeInit
<1>2. rows = <<>> /\ \A p \in Process : prevHash[p] = GenesisHash /\ pending[p] = <<>>
  BY DEF Init
<1> QED BY <1>1, <1>2 DEF NothingDanglesInv, LinksResolve, StoppedForgets, Resolves, Linked

\* Every step of every instance keeps StoppedForgets.
LEMMA StoppedForgetsStep == TypeOK /\ StoppedForgets /\ [Next]_vars => StoppedForgets'
<1> SUFFICES ASSUME TypeOK, StoppedForgets, [Next]_vars PROVE StoppedForgets'
  OBVIOUS
<1>1. CASE UNCHANGED vars
  BY <1>1 DEF StoppedForgets, vars
<1>2. ASSUME NEW p \in Process, Start(p) \/ Stop(p) PROVE StoppedForgets'
  BY <1>2 DEF StoppedForgets, Start, Stop, TypeOK
<1>3. ASSUME NEW p \in Process, NEW record \in Record, ChainRecord(p, record)
      PROVE  StoppedForgets'
  BY <1>3 DEF StoppedForgets, ChainRecord, TypeOK
<1>4. ASSUME NEW p \in Process, AppendMany(p) \/ AppendFails(p) PROVE StoppedForgets'
  BY <1>4 DEF StoppedForgets, AppendMany, AppendFails, TypeOK
<1> QED BY <1>1, <1>2, <1>3, <1>4 DEF Next

LEMMA NothingDanglesStep == NothingDanglesInv /\ [Next]_vars => NothingDanglesInv'
<1> SUFFICES ASSUME NothingDanglesInv, [Next]_vars PROVE NothingDanglesInv'
  OBVIOUS
<1>1. TypeOK /\ TypeOK' /\ StoppedForgets /\ StoppedForgets'
  BY TypeStep, StoppedForgetsStep DEF NothingDanglesInv
<1>2. CASE UNCHANGED vars
  BY <1>1, <1>2 DEF NothingDanglesInv, LinksResolve, Resolves, Linked, vars
<1>3. ASSUME NEW p \in Process, Start(p) PROVE NothingDanglesInv'
  <2>1. rows' = rows /\ pending' = pending
    BY <1>3 DEF Start
  <2>2. Resolves(LastHash(rows, GenesisHash), rows)
    <3>1. CASE rows = <<>>
      BY <3>1 DEF LastHash, Resolves
    <3>2. CASE rows # <<>>
      <4>1. Len(rows) \in DOMAIN rows
        BY <1>1, <3>2, EmptySeq, LenProperties DEF TypeOK
      <4> QED BY <3>2, <4>1 DEF LastHash, Resolves
    <3> QED BY <3>1, <3>2
  <2>3. \A q \in Process : Resolves(prevHash'[q], rows')
    BY <1>1, <1>3, <2>1, <2>2 DEF Start, TypeOK, NothingDanglesInv
  \* Only a stopped instance starts, and a stopped one has nothing pending.
  <2>4. \A q \in Process : Linked(prevHash'[q], pending'[q])
    <3>1. pending[p] = <<>>
      BY <1>1, <1>3 DEF Start, StoppedForgets
    <3>2. \A q \in Process : q # p => prevHash'[q] = prevHash[q]
      BY <1>1, <1>3 DEF Start, TypeOK
    <3> QED BY <2>1, <3>1, <3>2 DEF NothingDanglesInv, Linked
  <2> QED BY <1>1, <2>1, <2>3, <2>4 DEF NothingDanglesInv, LinksResolve
<1>4. ASSUME NEW p \in Process, Stop(p) PROVE NothingDanglesInv'
  <2>1. rows' = rows /\ prevHash' = prevHash
    BY <1>4 DEF Stop
  <2>2. \A q \in Process : pending'[q] = IF q = p THEN <<>> ELSE pending[q]
    BY <1>1, <1>4 DEF Stop, TypeOK
  <2>3. \A q \in Process : Linked(prevHash'[q], pending'[q])
    BY <2>1, <2>2 DEF NothingDanglesInv, Linked
  <2> QED BY <1>1, <2>1, <2>3 DEF NothingDanglesInv, LinksResolve
<1>5. ASSUME NEW p \in Process, NEW record \in Record, ChainRecord(p, record)
      PROVE  NothingDanglesInv'
  <2>1. rows' = rows /\ prevHash' = prevHash
    BY <1>5 DEF ChainRecord
  <2>2. \A q \in Process : pending'[q] =
           IF q = p THEN Append(pending[q], Entry(record, LastHash(pending[q], prevHash[q])))
                    ELSE pending[q]
    BY <1>1, <1>5 DEF ChainRecord, TypeOK
  <2>3. \A q \in Process : /\ pending[q] \in Seq(EntryType) /\ prevHash[q] \in Hash
                           /\ Linked(prevHash[q], pending[q])
    BY DEF NothingDanglesInv, TypeOK
  <2>4. \A q \in Process : Linked(prevHash'[q], pending'[q])
    BY <2>1, <2>2, <2>3, LinkedAppend
  <2> QED BY <1>1, <2>1, <2>4 DEF NothingDanglesInv, LinksResolve
<1>6. ASSUME NEW p \in Process, AppendMany(p) \/ AppendFails(p)
      PROVE  NothingDanglesInv'
  <2>1. /\ rows \in Seq(EntryType)
        /\ pending[p] \in Seq(EntryType)
        /\ Resolves(prevHash[p], rows)
        /\ Linked(prevHash[p], pending[p])
    BY DEF NothingDanglesInv, TypeOK
  <2>2. PICK n \in 0..Len(pending[p]) : rows' = rows \o SubSeq(pending[p], 1, n)
    BY <1>1, <1>6, RowsGrowByPrefix
  <2> DEFINE landed == SubSeq(pending[p], 1, n)
  <2>3. landed \in Seq(EntryType) /\ Linked(prevHash[p], landed)
    BY <2>1, Prefix, LinkedPrefix
  <2> HIDE DEF landed
  <2>4. rows' = rows \o landed
    BY <2>2 DEF landed
  <2>5. LinksResolve'
    <3>1. \A k \in DOMAIN (rows \o landed) :
              \/ (rows \o landed)[k].prev = GenesisHash
              \/ \E j \in 1..(k - 1) : (rows \o landed)[k].prev = (rows \o landed)[j].hash
      BY <2>1, <2>3, LinkedExtends DEF NothingDanglesInv, LinksResolve
    <3> QED BY <2>4, <3>1 DEF LinksResolve
  <2>6. \A q \in Process : Resolves(prevHash[q], rows')
    BY <2>1, <2>3, <2>4, ResolvesStably DEF NothingDanglesInv
  <2>7. \A q \in Process : Resolves(prevHash'[q], rows')
    <3>1. CASE AppendFails(p)
      BY <2>6, <3>1 DEF AppendFails
    <3>2. CASE AppendMany(p)
      <4>1. rows' = rows \o pending[p]
        BY <3>2 DEF AppendMany
      <4>2. Resolves(LastHash(pending[p], prevHash[p]), rows')
        BY <2>1, <4>1, LastHashResolves
      <4> QED BY <1>1, <2>6, <3>2, <4>2 DEF AppendMany, TypeOK
    <3> QED BY <1>6, <3>1, <3>2
  <2>8. \A q \in Process : /\ pending'[q] = IF q = p THEN <<>> ELSE pending[q]
                           /\ q # p => prevHash'[q] = prevHash[q]
    BY <1>1, <1>6 DEF AppendMany, AppendFails, TypeOK
  <2>9. \A q \in Process : Linked(prevHash'[q], pending'[q])
    BY <2>8 DEF NothingDanglesInv, Linked
  <2> QED BY <1>1, <2>5, <2>7, <2>9 DEF NothingDanglesInv
<1> QED BY <1>2, <1>3, <1>4, <1>5, <1>6 DEF Next

\* Whatever fails, restarts or overlaps, no row is ever chained to a hash
\* that is not the start of the chain or an earlier row of the sheet.
THEOREM NothingDangles == Spec => []LinksResolve
<1>1. NothingDanglesInv => LinksResolve
  BY DEF NothingDanglesInv
<1> QED BY <1>1, NothingDanglesInit, NothingDanglesStep, PTL DEF Spec

-----------------------------------------------------------------------------
(* ChainVerifies.  Until a fault there is one writer whose appends are all  *)
(* or nothing; the strengthening says that the hash in its memory is that  *)
(* of the last row.                                                        *)

\* The entries form a chain that starts from prev.
Chained(prev, entries) ==
    \A n \in DOMAIN entries :
        /\ entries[n].prev = IF n = 1 THEN prev ELSE entries[n - 1].hash
        /\ entries[n].hash = ComputeEntryHash(entries[n].record, entries[n].prev)

OneWriter ==
    /\ \A p, q \in running : p = q
    /\ \A p \in running : prevHash[p] = LastHash(rows, GenesisHash)
    /\ Chained(GenesisHash, rows)
    /\ \A p \in Process : Chained(prevHash[p], pending[p])

SingleWriterInv ==
    /\ TypeOK
    /\ StoppedForgets
    /\ faults = {} => OneWriter

\* Two chains, the second from where the first ends, are one chain.
LEMMA ChainedConcat ==
    ASSUME NEW s \in Seq(EntryType), NEW t \in Seq(EntryType), NEW h,
           Chained(h, s), Chained(LastHash(s, h), t)
    PROVE  /\ Chained(h, s \o t)
           /\ LastHash(s \o t, h) = LastHash(t, LastHash(s, h))
<1>1. /\ Len(s) \in Nat /\ Len(t) \in Nat
      /\ s \o t \in Seq(EntryType)
      /\ Len(s \o t) = Len(s) + Len(t)
      /\ DOMAIN s = 1..Len(s) /\ DOMAIN t = 1..Len(t)
      /\ DOMAIN (s \o t) = 1..(Len(s) + Len(t))
      /\ \A i \in 1..Len(s) + Len(t) : (s \o t)[i] = IF i <= Len(s) THEN s[i] ELSE t[i - Len(s)]
  BY ConcatProperties, LenProperties
<1>2. /\ s = <<>> <=> Len(s) = 0
      /\ t = <<>> <=> Len(t) = 0
      /\ s \o t = <<>> <=> Len(s \o t) = 0
  BY <1>1, EmptySeq
<1>3. LastHash(s \o t, h) = LastHash(t, LastHash(s, h))
  <2>1. CASE Len(t) = 0
    <3>1. t = <<>> /\ s \o t = s
      BY <1>2, <2>1, ConcatEmptySeq
    <3> QED BY <3>1 DEF LastHash
  <2>2. CASE Len(t) > 0
    <3>1. (s \o t)[Len(s \o t)] = t[Len(t)]
      BY <1>1, <2>2
    <3>2. t # <<>> /\ s \o t # <<>>
      BY <1>1, <1>2, <2>2
    <3> QED BY <3>1, <3>2 DEF LastHash
  <2> QED BY <1>1, <2>1, <2>2
<1>4. ASSUME NEW n \in DOMAIN (s \o t)
      PROVE  /\ (s \o t)[n].prev = IF n = 1 THEN h ELSE (s \o t)[n - 1].hash
             /\ (s \o t)[n].hash = ComputeEntryHash((s \o t)[n].record, (s \o t)[n].prev)
  <2>1. CASE n <= Len(s)
    <3>1. /\ n \in DOMAIN s /\ (s \o t)[n] = s[n]
          /\ n # 1 => (s \o t)[n - 1] = s[n - 1]
      BY <1>1, <2>1
    <3> QED BY <3>1 DEF Chained
  <2>2. CASE n = Len(s) + 1
    <3>1. 1 \in DOMAIN t /\ (s \o t)[n] = t[1]
      BY <1>1, <2>2
    <3>2. LastHash(s, h) = IF n = 1 THEN h ELSE s[Len(s)].hash
      BY <1>1, <1>2, <2>2 DEF LastHash
    <3>3. n # 1 => (s \o t)[n - 1] = s[Len(s)]
      BY <1>1, <2>2
    <3> QED BY <3>1, <3>2, <3>3 DEF Chained
  <2>3. CASE n > Len(s) + 1
    <3>1. /\ n - Len(s) \in DOMAIN t /\ n - Len(s) # 1 /\ n # 1
          /\ (s \o t)[n] = t[n - Len(s)]
          /\ (s \o t)[n - 1] = t[n - Len(s) - 1]
      BY <1>1, <2>3
    <3> QED BY <3>1 DEF Chained
  <2> QED BY <1>1, <2>1, <2>2, <2>3
<1> QED BY <1>3, <1>4 DEF Chained

\* _chain makes a chain.
LEMMA ChainedAppend ==
    ASSUME NEW t \in Seq(EntryType), NEW h \in Hash, Chained(h, t), NEW record \in Record
    PROVE  Chained(h, Append(t, Entry(record, LastHash(t, h))))
<1> DEFINE e == Entry(record, LastHash(t, h))
<1>1. /\ e \in EntryType
      /\ e.prev = LastHash(t, h)
      /\ e.hash = ComputeEntryHash(e.record, e.prev)
  BY LastHashTyped, EntryTyped DEF Entry
<1> HIDE DEF e
<1>2. /\ Len(t) \in Nat /\ DOMAIN t = 1..Len(t)
      /\ Append(t, e) \in Seq(EntryType)
      /\ DOMAIN Append(t, e) = 1..(Len(t) + 1)
      /\ \A i \in 1..Len(t) : Append(t, e)[i] = t[i]
      /\ Append(t, e)[Len(t) + 1] = e
  BY <1>1, AppendProperties, LenProperties
<1>3. e.prev = IF Len(t) = 0 THEN h ELSE t[Len(t)].hash
  BY <1>1, EmptySeq DEF LastHash
<1>4. Chained(h, Append(t, e))
  BY <1>1, <1>2, <1>3 DEF Chained
<1> QED BY <1>4 DEF e

LEMMA SingleWriterInit == Init => SingleWriterInv
<1> SUFFICES ASSUME Init PROVE SingleWriterInv
  OBVIOUS
<1>1. TypeOK
  BY TypeInit
<1>2. /\ rows = <<>> /\ running = {}
      /\ \A p \in Process : prevHash[p] = GenesisHash /\ pending[p] = <<>>
  BY DEF Init
<1> QED BY <1>1, <1>2 DEF SingleWriterInv, OneWriter, StoppedForgets, Chained

\* A fault is never forgotten.
LEMMA FaultsStay == TypeOK /\ [Next]_vars => faults \subseteq faults'
BY DEF Next, vars, Start, NoteOverlap, Stop, ChainRecord, AppendMany, AppendFails, LandInPart

LEMMA SingleWriterStep == SingleWriterInv /\ [Next]_vars => SingleWriterInv'
<1> SUFFICES ASSUME SingleWriterInv, [Next]_vars PROVE SingleWriterInv'
  OBVIOUS
<1>0. TypeOK /\ TypeOK' /\ StoppedForgets /\ StoppedForgets'
  BY TypeStep, StoppedForgetsStep DEF SingleWriterInv
<1> SUFFICES ASSUME faults' = {} PROVE OneWriter'
  BY <1>0 DEF SingleWriterInv
<1>1. TypeOK /\ TypeOK' /\ StoppedForgets /\ StoppedForgets' /\ faults = {} /\ OneWriter
  BY <1>0, FaultsStay DEF SingleWriterInv
<1>2. CASE UNCHANGED vars
  BY <1>1, <1>2 DEF OneWriter, Chained, LastHash, vars
<1>3. ASSUME NEW p \in Process, Start(p) PROVE OneWriter'
  <2>1. /\ rows' = rows /\ pending' = pending
        /\ running = {} /\ running' = {p}
        /\ pending[p] = <<>>
    BY <1>1, <1>3 DEF Start, NoteOverlap, StoppedForgets
  <2>2. /\ prevHash'[p] = LastHash(rows, GenesisHash)
        /\ \A q \in Process : q # p => prevHash'[q] = prevHash[q]
    BY <1>1, <1>3 DEF Start, TypeOK
  <2>3. \A q \in Process : Chained(prevHash'[q], pending'[q])
    BY <1>1, <2>1, <2>2 DEF OneWriter, Chained
  <2> QED BY <1>1, <2>1, <2>2, <2>3 DEF OneWriter
<1>4. ASSUME NEW p \in Process, Stop(p) PROVE OneWriter'
  <2>1. rows' = rows /\ prevHash' = prevHash /\ running' \subseteq running
    BY <1>4 DEF Stop
  <2>2. \A q \in Process : pending'[q] = IF q = p THEN <<>> ELSE pending[q]
    BY <1>1, <1>4 DEF Stop, TypeOK
  <2>3. \A q \in Process : Chained(prevHash'[q], pending'[q])
    BY <1>1, <2>1, <2>2 DEF OneWriter, Chained
  <2> QED BY <1>1, <2>1, <2>3 DEF OneWriter
<1>5. ASSUME NEW p \in Process, NEW record \in Record, ChainRecord(p, record)
      PROVE  OneWriter'
  <2>1. rows' = rows /\ prevHash' = prevHash /\ running' = running
    BY <1>5 DEF ChainRecord
  <2>2. \A q \in Process : pending'[q] =
           IF q = p THEN Append(pending[q], Entry(record, LastHash(pending[q], prevHash[q])))
                    ELSE pending[q]
    BY <1>1, <1>5 DEF ChainRecord, TypeOK
  <2>3. \A q \in Process : /\ pending[q] \in Seq(EntryType) /\ prevHash[q] \in Hash
                           /\ Chained(prevHash[q], pending[q])
    BY <1>1 DEF OneWriter, TypeOK
  <2>4. \A q \in Process : Chained(prevHash'[q], pending'[q])
    BY <2>1, <2>2, <2>3, ChainedAppend
  <2> QED BY <1>1, <2>1, <2>4 DEF OneWriter
\* Only a running instance has anything to append.
<1>6. ASSUME NEW p \in Process, AppendMany(p) PROVE OneWriter'
  <2>1. /\ p \in running
        /\ rows \in Seq(EntryType) /\ pending[p] \in Seq(EntryType)
        /\ prevHash[p] = LastHash(rows, GenesisHash)
        /\ rows' = rows \o pending[p] /\ running' = running
    BY <1>1, <1>6 DEF AppendMany, StoppedForgets, OneWriter, TypeOK
  <2>2. /\ prevHash'[p] = LastHash(pending[p], prevHash[p])
        /\ \A q \in Process : /\ pending'[q] = IF q = p THEN <<>> ELSE pending[q]
                              /\ q # p => prevHash'[q] = prevHash[q]
    BY <1>1, <1>6 DEF AppendMany, TypeOK
  <2>3. /\ Chained(GenesisHash, rows')
        /\ prevHash'[p] = LastHash(rows', GenesisHash)
    BY <1>1, <2>1, <2>2, ChainedConcat DEF OneWriter
  <2>4. \A q \in Process : Chained(prevHash'[q], pending'[q])
    BY <1>1, <2>2 DEF OneWriter, Chained
  <2>5. \A q \in running' : prevHash'[q] = LastHash(rows', GenesisHash)
    BY <1>1, <2>1, <2>3 DEF OneWriter
  <2> QED BY <1>1, <2>1, <2>3, <2>4, <2>5 DEF OneWriter
<1>7. ASSUME NEW p \in Process, AppendFails(p) PROVE OneWriter'
  <2>1. rows \in Seq(EntryType) /\ running' = running /\ prevHash' = prevHash
    BY <1>1, <1>7 DEF AppendFails, TypeOK
  <2>2. rows' = rows \o SubSeq(pending[p], 1, 0)
    BY <1>1, <1>7 DEF AppendFails, LandInPart
  <2>3. rows' = rows
    BY <2>1, <2>2, SubSeqEmpty, ConcatEmptySeq
  <2>4. \A q \in Process : pending'[q] = IF q = p THEN <<>> ELSE pending[q]
    BY <1>1, <1>7 DEF AppendFails, TypeOK
  <2>5. \A q \in Process : Chained(prevHash'[q], pending'[q])
    BY <1>1, <2>1, <2>4 DEF OneWriter, Chained
  <2> QED BY <1>1, <2>1, <2>3, <2>5 DEF OneWriter
<1> QED BY <1>2, <1>3, <1>4, <1>5, <1>6, <1>7 DEF Next

\* Until two instances overlap or an append that was seen to fail has landed
\* after all, the operator's check passes, whatever crashes, restarts and
\* fails.
THEOREM SingleWriterChain == Spec => []ChainVerifies
<1>1. SingleWriterInv => ChainVerifies
  BY DEF SingleWriterInv, OneWriter, Chained, ChainVerifies, VerifyChain, EntryVerifies, HashBefore
<1> QED BY <1>1, SingleWriterInit, SingleWriterStep, PTL DEF Spec
-----------------------------------------------------------------------------
(* The break that the operator's check reports.                            *)

\* Every non-empty set of naturals has a least element: from the library's
\* well-foundedness of <.
LEMMA LeastNumber ==
    ASSUME NEW S, S \subseteq Nat, S # {}
    PROVE  \E n \in S : \A k \in S : n <= k
<1> DEFINE R == {ss \in Nat \X Nat : ss[1] < ss[2]}
<1>1. IsWellFoundedOn(R, Nat)
  BY NatLessThanWellFounded DEF OpToRel
<1>2. PICK x \in S : \A y \in S : ~(<<y, x>> \in R)
  BY <1>1, WFMin
<1>3. ASSUME NEW y \in S PROVE x <= y
  <2>1. ~(<<y, x>> \in R) /\ <<y, x>> \in Nat \X Nat /\ <<y, x>>[1] = y /\ <<y, x>>[2] = x
    BY <1>2
  <2>2. ~(y < x)
    BY <2>1
  <2> QED BY <2>2
<1> QED BY <1>3

\* The first break is the position of an entry that does not verify, and all
\* entries before it do; there is none exactly if the chain verifies.
LEMMA FirstBreakIs ==
    ASSUME NEW entries \in Seq(EntryType)
    PROVE  /\ FirstBreak(entries) = 0 <=> VerifyChain(entries)
           /\ FirstBreak(entries) # 0 =>
                 /\ FirstBreak(entries) \in 1..Len(entries)
                 /\ ~EntryVerifies(entries, FirstBreak(entries))
                 /\ \A k \in 1..(FirstBreak(entries) - 1) : EntryVerifies(entries, k)
<1> DEFINE broken == {n \in DOMAIN entries : ~EntryVerifies(entries, n)}
           Least(n) == \A k \in broken : n <= k
<1>0. Len(entries) \in Nat /\ DOMAIN entries = 1..Len(entries)
  BY LenProperties
<1>1. broken \subseteq Nat /\ 0 \notin broken /\ (broken = {} <=> VerifyChain(entries))
  BY <1>0 DEF VerifyChain
<1>2. FirstBreak(entries) = IF broken = {} THEN 0 ELSE CHOOSE n \in broken : Least(n)
  BY DEF FirstBreak
<1>3. ASSUME broken # {} PROVE FirstBreak(entries) \in broken /\ Least(FirstBreak(entries))
  <2> HIDE DEF broken
  <2>1. \E n \in broken : Least(n)
    BY <1>1, <1>3, LeastNumber
  <2> QED BY <1>2, <1>3, <2>1
<1>4. ASSUME broken # {}
      PROVE  \A k \in 1..(FirstBreak(entries) - 1) : EntryVerifies(entries, k)
  <2> SUFFICES ASSUME NEW k \in 1..(FirstBreak(entries) - 1), ~EntryVerifies(entries, k)
               PROVE  FALSE
    OBVIOUS
  <2>1. FirstBreak(entries) \in 1..Len(entries)
    BY <1>0, <1>3, <1>4
  <2>2. k \in DOMAIN entries /\ k \in Nat /\ k < FirstBreak(entries)
    BY <1>0, <2>1
  <2>3. FirstBreak(entries) <= k
    BY <1>3, <1>4, <2>2
  <2> QED BY <2>1, <2>2, <2>3
<1>5. CASE broken = {}
  <2> HIDE DEF broken
  <2> QED BY <1>1, <1>2, <1>5
<1>6. CASE broken # {}
  <2>1. FirstBreak(entries) \in DOMAIN entries /\ ~EntryVerifies(entries, FirstBreak(entries))
    BY <1>3, <1>6
  <2>2. FirstBreak(entries) # 0
    BY <1>0, <2>1
  <2> QED BY <1>0, <1>1, <1>4, <1>6, <2>1, <2>2
<1> QED BY <1>5, <1>6

\* Whether an entry verifies depends on it and on the one before it only.
LEMMA VerifiesAsBefore ==
    ASSUME NEW s \in Seq(EntryType), NEW t \in Seq(EntryType), NEW n \in 1..Len(s)
    PROVE  EntryVerifies(s \o t, n) <=> EntryVerifies(s, n)
<1>1. Len(s) \in Nat /\ \A k \in 1..Len(s) : (s \o t)[k] = s[k]
  BY ConcatProperties, LenProperties
<1>2. HashBefore(s \o t, n) = HashBefore(s, n)
  <2>1. CASE n = 1
    BY <2>1 DEF HashBefore
  <2>2. CASE n # 1
    <3>1. n - 1 \in 1..Len(s)
      BY <1>1, <2>2
    <3> QED BY <1>1, <2>2, <3>1 DEF HashBefore
  <2> QED BY <2>1, <2>2
<1> QED BY <1>1, <1>2 DEF EntryVerifies

LEMMA BreakStays ==
    ASSUME NEW s \in Seq(EntryType), NEW t \in Seq(EntryType), FirstBreak(s) # 0
    PROVE  FirstBreak(s \o t) = FirstBreak(s)
<1> DEFINE b == FirstBreak(s)
           c == FirstBreak(s \o t)
<1>1. s \o t \in Seq(EntryType) /\ Len(s \o t) = Len(s) + Len(t) /\ Len(s) \in Nat /\ Len(t) \in Nat
  BY ConcatProperties, LenProperties
<1>2. b \in 1..Len(s) /\ ~EntryVerifies(s, b) /\ \A k \in 1..(b - 1) : EntryVerifies(s, k)
  BY FirstBreakIs
<1> HIDE DEF b, c
<1>3. c # 0
  <2>1. ~EntryVerifies(s \o t, b) /\ b \in DOMAIN (s \o t)
    BY <1>1, <1>2, VerifiesAsBefore, LenProperties
  <2>2. ~VerifyChain(s \o t)
    BY <2>1 DEF VerifyChain
  <2> QED BY <1>1, <2>2, FirstBreakIs DEF c
<1>4. /\ c \in 1..Len(s \o t) /\ ~EntryVerifies(s \o t, c)
      /\ \A k \in 1..(c - 1) : EntryVerifies(s \o t, k)
  BY <1>1, <1>3, FirstBreakIs DEF c
<1>5. ~(b < c)
  <2> SUFFICES ASSUME b < c PROVE FALSE
    OBVIOUS
  <2>1. b \in 1..(c - 1)
    BY <1>1, <1>2, <1>4
  <2> QED BY <1>2, <1>4, <2>1, VerifiesAsBefore
<1>6. ~(c < b)
  <2> SUFFICES ASSUME c < b PROVE FALSE
    OBVIOUS
  <2>1. c \in 1..(b - 1) /\ c \in 1..Len(s)
    BY <1>1, <1>2, <1>4
  <2> QED BY <1>2, <1>4, <2>1, VerifiesAsBefore
<1>7. b \in Nat /\ c \in Nat
  BY <1>1, <1>2, <1>4
<1>8. b = c
  BY <1>5, <1>6, <1>7
<1> QED BY <1>8 DEF b, c

\* What is appended after a fork, by whichever instance, never moves the
\* break that the check reports: the entries before it stay trustworthy.
THEOREM FirstBreakStays == Spec => BreakIsStable
<1>1. TypeOK /\ [Next]_vars =>
         [FirstBreak(rows) # 0 => FirstBreak(rows') = FirstBreak(rows)]_vars
  <2> SUFFICES ASSUME TypeOK, Next, FirstBreak(rows) # 0
               PROVE  FirstBreak(rows') = FirstBreak(rows)
    BY DEF vars
  <2>1. PICK p \in Process :
           Start(p) \/ Stop(p) \/ (\E record \in Record : ChainRecord(p, record))
           \/ AppendMany(p) \/ AppendFails(p)
    BY DEF Next
  <2>2. CASE AppendMany(p) \/ AppendFails(p)
    <3>1. PICK n \in 0..Len(pending[p]) : rows' = rows \o SubSeq(pending[p], 1, n)
      BY <2>2, RowsGrowByPrefix
    <3>2. rows \in Seq(EntryType) /\ SubSeq(pending[p], 1, n) \in Seq(EntryType)
      BY Prefix DEF TypeOK
    <3> QED BY <3>1, <3>2, BreakStays
  <2>3. CASE Start(p) \/ Stop(p) \/ \E record \in Record : ChainRecord(p, record)
    BY <2>3 DEF Start, Stop, ChainRecord
  <2> QED BY <2>1, <2>2, <2>3
<1> QED BY <1>1, TypeInit, TypeStep, PTL DEF Spec, BreakIsStable
=============================================================================
