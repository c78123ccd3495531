----------------------------- MODULE BatchProofs -----------------------------
(***************************************************************************)
(* Theorems about Batch, for every set of messages, batches of any length, *)
(* every cap and all faults:                                               *)
(*   TypeCorrect            the state always has its type;                 *)
(*   CapHolds               the cap holds item by item;                    *)
(*   TurnedAwayAtTheCap     nobody is turned away while there is room;     *)
(*   RemainingCovered       what is said to remain remains;                *)
(*   AuditedBeforeCompleted no id is finished without its audit record;    *)
(*   ClaimsArePaid          an item that holds its id has been charged;    *)
(*   ItemRepliesAreHonest   the answer about an item is what happened;     *)
(*   WrittenAtMostOnce      no write is repeated;                          *)
(*   WrittenIdsStayClaimed  nor does its id ever look free again;          *)
(*   ContractKept           each id lives as ResendContract says.          *)
(***************************************************************************)
EXTENDS Batch, TLAPS, FiniteSetTheorems, SequenceTheorems, WellFoundedInduction

-----------------------------------------------------------------------------
(* What a requester and the services are assumed to do; each theorem says  *)
(* which of these it needs.                                                *)

\* Google's answer to a write is never lost.
WritesAreAnswered == "execute" \notin LostAt

\* The answer to the append of quota rows is never lost.
QuotaIsAnswered == "recorditems" \notin LostAt

\* A requester uses the id of an item for writes or for other verbs, never
\* for both.
OneKindPerId ==
    \A m, n \in Message : \A i \in Index(m), j \in Index(n) :
        IdAt(m, i) = IdAt(n, j) => (ItemsOf[m][i].write <=> ItemsOf[n][j].write)

\* A requester never uses the id of a batch for an item of another batch.
OuterIdsApart == \A m, n \in Message : \A i \in Index(n) : IdAt(n, i) # OuterOf[m]

-----------------------------------------------------------------------------
(* The inductive invariants.                                               *)

Said == [outer : Reply, items : Seq(Reply), remaining : Nat \cup {NoCount}]

TypeInv == TypeOK /\ said \in [Message -> Said \cup {NoReply}]

Early == run.at \in {"idle", "count", "lookup", "claim", "readitems"}
Planned == run.at \in {"recorditems", "claimitems"}
Working == run.at \in {"items", "effect"}
Ending == run.at \in {"send", "audit", "finalize"}

Started(i) == run.items[i].started

\* Which parts of the activation are there in which phase.  Items are
\* settled in their order, and `effect` follows the write of the last one.
ShapeInv ==
    /\ Early => run.items = <<>> /\ run.todo = {} /\ run.consumed = 0 /\ ~run.returned
    /\ run.at \in {"idle", "count", "lookup", "claim"} => ~run.started
    /\ run.at \in {"lookup", "claim", "readitems", "recorditems"} =>
          run.used \in Nat /\ run.used < MaxRequestsPerDay
    /\ Planned \/ Working => Len(run.items) = Len(ItemsOf[run.msg]) /\ ~run.returned
    /\ Ending => /\ run.todo = {}
                 /\ IF run.returned THEN Len(run.items) = Len(ItemsOf[run.msg])
                                    ELSE run.items = <<>>
    /\ \A i \in DOMAIN run.items :
          /\ run.items[i].wrote => Started(i)
          /\ Started(i) => ~Planned /\ \A j \in run.todo : i < j
    /\ At("effect") => \E i \in DOMAIN run.items :
          run.items[i].wrote /\ \A j \in DOMAIN run.items : Started(j) => j <= i

BaseInv == TypeInv /\ ShapeInv

\* What was spent for the run, and what was recorded of it.
LedgerRun ==
    /\ ran \subseteq charged
    /\ run.at \in {"claimitems", "items", "effect"} => {run.msg} \X run.todo \subseteq charged
    /\ \A i \in DOMAIN run.items : Started(i) => <<run.msg, i>> \in ran
    /\ At("finalize") =>
          /\ <<run.msg, 0>> \in audits
          /\ run.returned => \A i \in Index(run.msg) : <<run.msg, i>> \in audits

LedgerInv == BaseInv /\ LedgerRun /\ AuditBeforeCompleted

\* What the run will say of the items is what was done.
WorkRun ==
    /\ run.msg # NoMessage => run.msg \in messages
    /\ \A m \in Message : m \notin messages =>
          said[m] = NoReply /\ \A i \in Index(m) : ~Wrote(<<m, i>>)
    /\ run.at \notin {"idle", "audit", "finalize"} => said[run.msg] = NoReply
    /\ run.msg # NoMessage => \A i \in Index(run.msg) :
          Wrote(<<run.msg, i>>) <=> i \in DOMAIN run.items /\ run.items[i].wrote
    /\ \A i \in DOMAIN run.items : ItemsOf[run.msg][i].write =>
          (run.items[i].wrote <=> run.items[i].reply = "completed")

WorkInv == BaseInv /\ WorkRun /\ HonestItems

Performed(r) == \E k \in ItemKey : Wrote(k) /\ IdOfKey(k) = r

\* An item the run still has to do, or has done.
Live(i) == i \in run.todo \/ Started(i)

\* The rows of the ids the run deals with.
RowRun ==
    /\ At("claim") => requestStatus[OuterOf[run.msg]].status \notin {"effect_done", "completed"}
    /\ run.started => requestStatus[OuterOf[run.msg]].status = "processing"
    /\ \A i, j \in DOMAIN run.items :
          Live(i) /\ Live(j) /\ IdAt(run.msg, i) = IdAt(run.msg, j) => i = j
    /\ \A i \in DOMAIN run.items : Live(i) /\ ~run.items[i].wrote =>
          LET status == requestStatus[IdAt(run.msg, i)].status IN
          /\ ~Performed(IdAt(run.msg, i))
          /\ IF Planned THEN status \in {"absent", "failed", "processing"}
                        ELSE status = "processing"

\* Only items that are writes write.
WritesAreWrites == \A k \in ItemKey : Wrote(k) => ItemsOf[k[1]][k[2]].write

RowInv == WorkInv /\ WriteAtMostOnce /\ EffectStaysClaimed /\ WritesAreWrites /\ RowRun

\* The daily count, from the moment it is read to the reply.
QuotaRun ==
    /\ run.at \in {"lookup", "claim", "readitems", "recorditems"} =>
          dailyCount <= run.used /\ run.consumed = 0
    /\ run.items # <<>> => run.used \in Nat
    /\ At("recorditems") => run.used + Cardinality(run.todo) <= MaxRequestsPerDay
    /\ \A i \in DOMAIN run.items : run.items[i].reply = "rate_limited" =>
          IF At("recorditems") THEN run.used + Cardinality(run.todo) >= MaxRequestsPerDay
                               ELSE run.used + run.consumed >= MaxRequestsPerDay
    /\ run.reply = "rate_limited" =>
          Ending /\ run.used \in Nat /\ run.used + run.consumed >= MaxRequestsPerDay

QuotaInv == BaseInv /\ CapRespected /\ QuotaRun /\ RateLimitedMeansNoneLeft

\* With every answer to the quota append, the count the reply is computed
\* from is at least the sheet's.
SpentInv == QuotaInv /\ (run.used \in Nat => dailyCount <= run.used + run.consumed)

-----------------------------------------------------------------------------
(* Induction over the naturals, from the library's well-foundedness of <.  *)

LEMMA LeastNumber ==
    ASSUME NEW S, S \subseteq Nat, S # {}
    PROVE  \E n \in S : \A k \in S : n <= k
<1> DEFINE R == {ss \in Nat \X Nat : ss[1] < ss[2]}
<1>1. IsWellFoundedOn(R, Nat)
  BY NatLessThanWellFounded DEF OpToRel
<1>2. PICK x \in S : \A y \in S : ~(<<y, x>> \in R)
  BY <1>1, WFMin
<1>3. ASSUME NEW y \in S PROVE x <= y
  <2>1. ~(<<y, x>> \in R) /\ <<y, x>> \in Nat \X Nat /\ <<y, x>>[1] = y /\ <<y, x>>[2] = x
    BY <1>2
  <2>2. ~(y < x)
    BY <2>1
  <2> QED BY <2>2
<1> QED BY <1>3

LEMMA SetInduction ==
    ASSUME NEW S, 0 \in S, \A n \in Nat : n \in S => n + 1 \in S
    PROVE  Nat \subseteq S
<1> SUFFICES ASSUME Nat \ S # {} PROVE FALSE
  OBVIOUS
<1>1. PICK n \in Nat \ S : \A k \in Nat \ S : n <= k
  BY LeastNumber
<1>2. n - 1 \in Nat /\ n - 1 \in S
  BY <1>1
<1> QED BY <1>1, <1>2

-----------------------------------------------------------------------------
(* Taken: the plan that ReadItems makes of a batch.                        *)

\* The recursive definition has a solution, so that it can be unfolded.
LEMMA TakenIs ==
    ASSUME NEW m \in Message, NEW used, Len(ItemsOf[m]) \in Nat,
           NEW taken, taken = Taken(m, used)
    PROVE  /\ taken[0] = {}
           /\ \A n \in Index(m) :
                 /\ Verdict(m, used, taken[n - 1], n) = "run" => taken[n] = taken[n - 1] \cup {n}
                 /\ Verdict(m, used, taken[n - 1], n) # "run" => taken[n] = taken[n - 1]
<1> DEFINE L == Len(ItemsOf[m])
           Step(T, n) == IF Verdict(m, used, T, n) = "run" THEN T \cup {n} ELSE T
           Whole(f) == f = [n \in 0..L |-> IF n = 0 THEN {} ELSE Step(f[n - 1], n)]
           UpTo(f, n) == /\ f = [k \in 0..n |-> f[k]] /\ f[0] = {}
                         /\ \A k \in 1..n : f[k] = Step(f[k - 1], k)
           S == {n \in Nat : \E f : UpTo(f, n)}
<1> HIDE DEF Step
<1>1. 0 \in S
  <2>1. UpTo([k \in 0..0 |-> {}], 0)
    OBVIOUS
  <2> QED BY <2>1
<1>2. ASSUME NEW n \in Nat, n \in S PROVE n + 1 \in S
  <2>1. PICK f : UpTo(f, n)
    BY <1>2
  <2> DEFINE g == [k \in 0..(n + 1) |-> IF k = n + 1 THEN Step(f[n], n + 1) ELSE f[k]]
  <2>2. ASSUME NEW k \in 1..(n + 1) PROVE g[k] = Step(g[k - 1], k)
    <3>1. k - 1 \in 0..(n + 1) /\ k - 1 # n + 1 /\ g[k - 1] = f[k - 1]
      OBVIOUS
    <3>2. CASE k = n + 1
      BY <3>1, <3>2
    <3>3. CASE k # n + 1
      BY <2>1, <3>1, <3>3
    <3> QED BY <3>2, <3>3
  <2>3. g[0] = {} /\ g = [k \in 0..(n + 1) |-> g[k]]
    BY <2>1
  <2> HIDE DEF g
  <2>4. UpTo(g, n + 1)
    BY <2>2, <2>3
  <2> HIDE DEF UpTo
  <2> QED BY <2>4
<1>3. PICK f : UpTo(f, L)
  <2> HIDE DEF S
  <2>1. L \in S
    BY <1>1, <1>2, SetInduction
  <2> USE DEF S
  <2> QED BY <2>1
<1>4. Whole(f)
  <2> DEFINE body == [n \in 0..L |-> IF n = 0 THEN {} ELSE Step(f[n - 1], n)]
  <2>1. ASSUME NEW n \in 0..L PROVE f[n] = body[n]
    BY <1>3
  <2>2. f = [n \in 0..L |-> f[n]]
    BY <1>3
  <2> QED BY <2>1, <2>2
<1>5. taken = CHOOSE g : Whole(g)
  BY DEF Taken, Step
<1>6. Whole(taken)
  BY <1>4, <1>5
<1> HIDE DEF Whole
<1>7. taken = [n \in 0..L |-> IF n = 0 THEN {} ELSE Step(taken[n - 1], n)]
  BY <1>6 DEF Whole
<1>8. taken[0] = {}
  BY <1>7
<1>9. ASSUME NEW n \in Index(m) PROVE taken[n] = Step(taken[n - 1], n)
  <2>1. n \in 0..L /\ n # 0
    BY DEF Index
  <2>2. taken[n] = [k \in 0..L |-> IF k = 0 THEN {} ELSE Step(taken[k - 1], k)][n]
    BY <1>7
  <2> QED BY <2>1, <2>2
<1> QED BY <1>8, <1>9 DEF Step

LEMMA ItemsAre ==
    ASSUME NEW m \in Message
    PROVE  /\ ItemsOf[m] \in Seq(Item) /\ Len(ItemsOf[m]) \in Nat
           /\ OuterOf[m] \in RequestId
           /\ \A i \in Index(m) : ItemsOf[m][i] \in Item /\ IdAt(m, i) \in RequestId
<1>1. ItemsOf[m] \in Seq(Item) /\ OuterOf[m] \in RequestId
  BY BatchAssumption
<1>2. ASSUME NEW i \in Index(m) PROVE ItemsOf[m][i] \in Item
  BY <1>1, ElementOfSeq DEF Index
<1> QED BY <1>1, <1>2 DEF IdAt, Item

LEMMA OneMore ==
    ASSUME NEW S, IsFiniteSet(S), NEW x
    PROVE  /\ IsFiniteSet(S \cup {x}) /\ Cardinality(S) \in Nat
           /\ Cardinality(S \cup {x}) \in Nat
           /\ Cardinality(S \cup {x}) <= Cardinality(S) + 1
<1>1. Cardinality(S) \in Nat
  BY FS_CardinalityType
<1>2. IsFiniteSet(S \cup {x})
  BY FS_AddElement
<1>3. Cardinality(S \cup {x}) \in Nat
  BY <1>2, FS_CardinalityType
<1>4. Cardinality(S \cup {x}) = IF x \in S THEN Cardinality(S) ELSE Cardinality(S) + 1
  BY FS_AddElement
<1> QED BY <1>1, <1>2, <1>3, <1>4

\* The plan grows item by item: what is taken of the first items does not
\* depend on the later ones, no two taken items have the same id, and their
\* number stays within what is left for today.
LEMMA TakenGrows ==
    ASSUME NEW m \in Message, NEW used \in Nat, used < MaxRequestsPerDay,
           NEW taken, taken = Taken(m, used), NEW n \in 0..Len(ItemsOf[m])
    PROVE  /\ taken[n] \subseteq 1..n
           /\ IsFiniteSet(taken[n]) /\ used + Cardinality(taken[n]) <= MaxRequestsPerDay
           /\ \A k \in 0..n : taken[k] = taken[n] \cap (1..k)
           /\ \A i, j \in taken[n] : IdAt(m, i) = IdAt(m, j) => i = j
<1> DEFINE L == Len(ItemsOf[m])
           Fits(k) == IsFiniteSet(taken[k]) /\ used + Cardinality(taken[k]) <= MaxRequestsPerDay
           Prefix(k) == taken[k] \subseteq 1..k /\ \A h \in 0..k : taken[h] = taken[k] \cap (1..h)
           Distinct(k) == \A i, j \in taken[k] : IdAt(m, i) = IdAt(m, j) => i = j
           S == {k \in Nat : k <= L => Fits(k) /\ Prefix(k) /\ Distinct(k)}
<1>0. L \in Nat /\ MaxRequestsPerDay \in Nat
  BY ItemsAre, MaxAssumption
<1>1. taken[0] = {}
  BY <1>0, TakenIs
<1>2. ASSUME NEW k \in Index(m)
      PROVE  /\ Verdict(m, used, taken[k - 1], k) = "run" => taken[k] = taken[k - 1] \cup {k}
             /\ Verdict(m, used, taken[k - 1], k) # "run" => taken[k] = taken[k - 1]
  BY <1>0, <1>2, TakenIs
<1>3. 0 \in S
  <2>1. Fits(0)
    BY <1>0, <1>1, FS_EmptySet
  <2>2. Prefix(0) /\ Distinct(0)
    BY <1>1
  <2> QED BY <2>1, <2>2
<1>4. ASSUME NEW k \in Nat, k \in S PROVE k + 1 \in S
  <2> SUFFICES ASSUME k + 1 <= L PROVE Fits(k + 1) /\ Prefix(k + 1) /\ Distinct(k + 1)
    OBVIOUS
  <2>1. Fits(k) /\ Prefix(k) /\ Distinct(k)
    BY <1>0, <1>4
  <2>2. k + 1 \in Index(m) /\ (k + 1) - 1 = k
    BY <1>0 DEF Index
  <2>3. CASE Verdict(m, used, taken[k], k + 1) # "run"
    <3>1. taken[k + 1] = taken[k]
      BY <1>2, <2>2, <2>3
    <3>2. Prefix(k + 1)
      <4>1. taken[k + 1] \subseteq 1..(k + 1)
        BY <2>1, <3>1
      <4>2. ASSUME NEW h \in 0..(k + 1) PROVE taken[h] = taken[k + 1] \cap (1..h)
        <5>1. CASE h = k + 1
          BY <4>1, <5>1
        <5>2. CASE h # k + 1
          BY <2>1, <3>1, <5>2
        <5> QED BY <5>1, <5>2
      <4> QED BY <4>1, <4>2
    <3> QED BY <2>1, <3>1, <3>2
  <2>4. CASE Verdict(m, used, taken[k], k + 1) = "run"
    <3>1. taken[k + 1] = taken[k] \cup {k + 1}
      BY <1>2, <2>2, <2>4
    <3>2. /\ ~(used + Cardinality(taken[k]) >= MaxRequestsPerDay)
          /\ ~ \E j \in taken[k] : IdAt(m, j) = IdAt(m, k + 1)
      BY <2>4 DEF Verdict
    <3>3. Fits(k + 1)
      <4>1. IsFiniteSet(taken[k])
        BY <2>1
      <4>2. /\ IsFiniteSet(taken[k] \cup {k + 1}) /\ Cardinality(taken[k]) \in Nat
            /\ Cardinality(taken[k] \cup {k + 1}) \in Nat
            /\ Cardinality(taken[k] \cup {k + 1}) <= Cardinality(taken[k]) + 1
        BY <4>1, OneMore
      <4> QED BY <1>0, <3>1, <3>2, <4>2
    <3>4. Prefix(k + 1)
      <4>1. taken[k + 1] \subseteq 1..(k + 1)
        BY <2>1, <3>1
      <4>2. ASSUME NEW h \in 0..(k + 1) PROVE taken[h] = taken[k + 1] \cap (1..h)
        <5>1. CASE h = k + 1
          BY <4>1, <5>1
        <5>2. CASE h # k + 1
          <6>1. h \in 0..k /\ k + 1 \notin 1..h
            BY <5>2
          <6> QED BY <2>1, <3>1, <6>1
        <5> QED BY <5>1, <5>2
      <4> QED BY <4>1, <4>2
    <3>5. Distinct(k + 1)
      <4> SUFFICES ASSUME NEW i \in taken[k + 1], NEW j \in taken[k + 1],
                          IdAt(m, i) = IdAt(m, j)
                   PROVE  i = j
        OBVIOUS
      <4> QED BY <2>1, <3>1, <3>2
    <3> QED BY <3>3, <3>4, <3>5
  <2> QED BY <2>3, <2>4
<1>5. n \in S
  <2> HIDE DEF S
  <2>1. n \in Nat
    BY <1>0
  <2> QED BY <1>3, <1>4, <2>1, SetInduction
<1> QED BY <1>0, <1>5

\* The plan for a whole batch: each runnable item got the verdict `run`, and
\* an item that is turned away for the cap leaves no slot.
LEMMA PlanIs ==
    ASSUME NEW m \in Message, NEW used \in Nat, used < MaxRequestsPerDay,
           NEW taken, taken = Taken(m, used), NEW plan, plan = taken[Len(ItemsOf[m])]
    PROVE  /\ plan \subseteq Index(m) /\ IsFiniteSet(plan)
           /\ used + Cardinality(plan) <= MaxRequestsPerDay
           /\ \A i, j \in plan : IdAt(m, i) = IdAt(m, j) => i = j
           /\ \A i \in Index(m) :
                 LET verdict == Verdict(m, used, taken[i - 1], i) IN
                 /\ verdict = "run" <=> i \in plan
                 /\ verdict \in {"run", "duplicate", "rate_limited"}
                 /\ verdict = "rate_limited" => used + Cardinality(plan) >= MaxRequestsPerDay
           /\ \A i \in plan :
                 ~IsDuplicateRequestStatus(requestStatus[IdAt(m, i)], ItemsOf[m][i].write)
<1> DEFINE L == Len(ItemsOf[m])
<1>0. L \in Nat /\ L \in 0..L /\ MaxRequestsPerDay \in Nat
  BY ItemsAre, MaxAssumption
<1>1. /\ plan \subseteq Index(m) /\ IsFiniteSet(plan)
      /\ used + Cardinality(plan) <= MaxRequestsPerDay
      /\ \A i, j \in plan : IdAt(m, i) = IdAt(m, j) => i = j
      /\ \A k \in 0..L : taken[k] = plan \cap (1..k)
  BY <1>0, TakenGrows DEF Index
<1>2. ASSUME NEW i \in Index(m)
      PROVE  LET verdict == Verdict(m, used, taken[i - 1], i) IN
             /\ verdict = "run" <=> i \in plan
             /\ verdict \in {"run", "duplicate", "rate_limited"}
             /\ verdict = "rate_limited" => used + Cardinality(plan) >= MaxRequestsPerDay
  <2> DEFINE verdict == Verdict(m, used, taken[i - 1], i)
  <2>1. /\ i \in 0..L /\ i - 1 \in 0..L /\ i \in 1..i /\ i \notin 1..(i - 1)
    BY <1>0 DEF Index
  <2>2. /\ verdict = "run" => taken[i] = taken[i - 1] \cup {i}
        /\ verdict # "run" => taken[i] = taken[i - 1]
    BY <1>0, TakenIs
  <2>3. taken[i] = plan \cap (1..i) /\ taken[i - 1] = plan \cap (1..(i - 1))
    BY <1>1, <2>1
  <2>4. verdict = "run" <=> i \in plan
    BY <2>1, <2>2, <2>3
  <2>5. verdict = "rate_limited" => used + Cardinality(plan) >= MaxRequestsPerDay
    <3>1. verdict = "rate_limited" => used + Cardinality(taken[i - 1]) >= MaxRequestsPerDay
      BY DEF Verdict
    <3>2. taken[i - 1] \in SUBSET plan
      BY <2>3
    <3>3. /\ Cardinality(taken[i - 1]) <= Cardinality(plan)
          /\ Cardinality(taken[i - 1]) \in Nat /\ Cardinality(plan) \in Nat
      BY <1>1, <3>2, FS_Subset, FS_CardinalityType
    <3> QED BY <1>0, <3>1, <3>3
  <2> QED BY <2>4, <2>5 DEF Verdict
<1>3. ASSUME NEW i \in plan
      PROVE  ~IsDuplicateRequestStatus(requestStatus[IdAt(m, i)], ItemsOf[m][i].write)
  <2>1. Verdict(m, used, taken[i - 1], i) = "run"
    BY <1>1, <1>2
  <2> QED BY <2>1 DEF Verdict
<1> QED BY <1>1, <1>2, <1>3

-----------------------------------------------------------------------------
(* The activation: how each kind of step changes it.                       *)

LEMMA Goes ==
    ASSUME TypeOK, NEW at \in Phase, Goto(at)
    PROVE  /\ run' \in RunState /\ run'.at = at
           /\ run'.msg = run.msg /\ run'.started = run.started /\ run'.used = run.used
           /\ run'.consumed = run.consumed /\ run'.todo = run.todo /\ run'.items = run.items
           /\ run'.returned = run.returned /\ run'.reply = run.reply
           /\ run'.replied = run.replied
BY DEF TypeOK, RunState, Goto

LEMMA Answers ==
    ASSUME TypeOK, NEW reply \in Reply, Answer(reply)
    PROVE  /\ run' \in RunState /\ run'.at = "send" /\ run'.reply = reply
           /\ run'.msg = run.msg /\ run'.started = run.started /\ run'.used = run.used
           /\ run'.consumed = run.consumed /\ run'.todo = run.todo /\ run'.items = run.items
           /\ run'.returned = run.returned /\ run'.replied = run.replied
BY DEF TypeOK, RunState, Answer, Phase

LEMMA Errs ==
    ASSUME TypeOK, AnswerError
    PROVE  /\ run' \in RunState /\ run'.at = "send" /\ run'.reply = "error"
           /\ run'.todo = {} /\ run'.items = <<>>
           /\ run'.msg = run.msg /\ run'.started = run.started /\ run'.used = run.used
           /\ run'.consumed = run.consumed
           /\ run'.returned = run.returned /\ run'.replied = run.replied
<1> DEFINE sent == [run EXCEPT !.at = "send", !.reply = "error"]
           cleared == [sent EXCEPT !.todo = {}]
<1>1. "send" \in Phase /\ "error" \in Reply /\ <<>> \in Seq(ItemState)
  BY DEF Phase, Reply
<1>2. sent \in RunState
  BY <1>1 DEF TypeOK, RunState
<1>3. cleared \in RunState
  BY <1>2 DEF RunState
<1>4. run' = [cleared EXCEPT !.items = <<>>]
  BY DEF AnswerError, TypeOK, RunState
<1>5. run' \in RunState
  BY <1>1, <1>3, <1>4 DEF RunState
<1> QED BY <1>5 DEF AnswerError, TypeOK, RunState

LEMMA Settles ==
    ASSUME TypeOK, NEW i \in DOMAIN run.items, NEW reply \in Reply, NEW wrote \in BOOLEAN,
           NEW at \in Phase, Settle(i, reply, wrote, at)
    PROVE  /\ run' \in RunState /\ run'.at = at
           /\ run'.todo = run.todo \ {i}
           /\ run'.items = [run.items EXCEPT ![i] =
                               [reply |-> reply, started |-> TRUE, wrote |-> wrote]]
           /\ run'.msg = run.msg /\ run'.started = run.started /\ run'.used = run.used
           /\ run'.consumed = run.consumed /\ run'.reply = run.reply
           /\ run'.returned = run.returned /\ run'.replied = run.replied
<1> DEFINE item == [reply |-> reply, started |-> TRUE, wrote |-> wrote]
           items == [run.items EXCEPT ![i] = item]
<1>1. item \in ItemState
  BY DEF ItemState
<1>2. items \in Seq(ItemState)
  BY <1>1 DEF TypeOK, RunState
<1>3. run.todo \ {i} \in SUBSET Nat
  BY DEF TypeOK, RunState
<1>4. run' = [run EXCEPT !.at = at, !.todo = run.todo \ {i}, !.items = items]
  BY DEF TypeOK, RunState, Settle
<1> HIDE DEF items
<1> QED BY <1>2, <1>3, <1>4 DEF TypeOK, RunState, items

LEMMA Counts ==
    ASSUME TypeOK, NEW o, CountToday(o), ~Raised(o)
    PROVE  /\ run' \in RunState /\ run'.used = dailyCount
           /\ IF dailyCount >= MaxRequestsPerDay
              THEN run'.at = "send" /\ run'.reply = "rate_limited"
              ELSE run'.at = "lookup" /\ run'.reply = run.reply
           /\ run'.msg = run.msg /\ run'.started = run.started
           /\ run'.consumed = run.consumed /\ run'.todo = run.todo /\ run'.items = run.items
           /\ run'.returned = run.returned /\ run'.replied = run.replied
<1> DEFINE full == dailyCount >= MaxRequestsPerDay
           counted == [run EXCEPT !.used = dailyCount]
           moved == [counted EXCEPT !.at = IF full THEN "send" ELSE "lookup"]
<1>1. counted \in RunState
  BY DEF TypeOK, RunState, StoreTypeOK
<1>2. moved \in RunState
  BY <1>1 DEF RunState, Phase
<1>3. run' = [moved EXCEPT !.reply = IF full THEN "rate_limited" ELSE @]
  BY DEF CountToday, TypeOK, RunState
<1>4. run' \in RunState
  BY <1>2, <1>3 DEF RunState, Reply
<1> QED BY <1>4 DEF CountToday, TypeOK, RunState

LEMMA Claims ==
    ASSUME TypeOK, NEW o, ClaimRequest(o), ~Raised(o)
    PROVE  /\ run' \in RunState /\ run'.at = "readitems" /\ run'.started
           /\ run'.msg = run.msg /\ run'.used = run.used
           /\ run'.consumed = run.consumed /\ run'.todo = run.todo /\ run'.items = run.items
           /\ run'.returned = run.returned /\ run'.reply = run.reply
           /\ run'.replied = run.replied
<1>1. run' = [run EXCEPT !.at = "readitems", !.started = TRUE]
  BY DEF ClaimRequest
<1>2. "readitems" \in Phase
  BY DEF Phase
<1> QED BY <1>1, <1>2 DEF TypeOK, RunState

LEMMA Records ==
    ASSUME TypeOK, IsFiniteSet(run.todo), NEW o, RecordItems(o), ~Raised(o)
    PROVE  /\ run' \in RunState /\ run'.at = "claimitems"
           /\ run'.consumed = Cardinality(run.todo)
           /\ run'.msg = run.msg /\ run'.started = run.started /\ run'.used = run.used
           /\ run'.todo = run.todo /\ run'.items = run.items
           /\ run'.returned = run.returned /\ run'.reply = run.reply
           /\ run'.replied = run.replied
<1>1. Cardinality(run.todo) \in Nat
  BY FS_CardinalityType
<1>2. run' = [run EXCEPT !.at = "claimitems", !.consumed = Cardinality(run.todo)]
  BY DEF RecordItems
<1>3. "claimitems" \in Phase
  BY DEF Phase
<1> QED BY <1>1, <1>2, <1>3 DEF TypeOK, RunState

LEMMA Concludes ==
    ASSUME TypeOK, Conclude
    PROVE  /\ run' \in RunState /\ run'.at = "send" /\ run'.returned /\ run'.reply = "completed"
           /\ run'.msg = run.msg /\ run'.started = run.started /\ run'.used = run.used
           /\ run'.consumed = run.consumed /\ run'.todo = run.todo /\ run'.items = run.items
           /\ run'.replied = run.replied
BY DEF TypeOK, RunState, Conclude, Phase, Reply

LEMMA Sends ==
    ASSUME TypeOK, NEW o, SendReply(o)
    PROVE  /\ run' \in RunState /\ run'.at = "audit" /\ run'.replied = ~Raised(o)
           /\ run'.msg = run.msg /\ run'.started = run.started /\ run'.used = run.used
           /\ run'.consumed = run.consumed /\ run'.todo = run.todo /\ run'.items = run.items
           /\ run'.returned = run.returned /\ run'.reply = run.reply
<1>1. run' = [run EXCEPT !.at = "audit", !.replied = ~Raised(o)]
  BY DEF SendReply
<1>2. "audit" \in Phase
  BY DEF Phase
<1>3. (~Raised(o)) \in BOOLEAN
  BY Zenon
<1> DEFINE replied == ~Raised(o)
<1> HIDE DEF replied
<1>4. /\ run' = [run EXCEPT !.at = "audit", !.replied = replied]
      /\ replied \in BOOLEAN
  BY <1>1, <1>3 DEF replied
<1>5. /\ run' \in RunState /\ run'.at = "audit" /\ run'.replied = replied
      /\ run'.msg = run.msg /\ run'.started = run.started /\ run'.used = run.used
      /\ run'.consumed = run.consumed /\ run'.todo = run.todo /\ run'.items = run.items
      /\ run'.returned = run.returned /\ run'.reply = run.reply
  BY <1>2, <1>4 DEF TypeOK, RunState
<1> QED BY <1>5 DEF replied

LEMMA Freshly ==
    ASSUME NEW at \in Phase, NEW m \in Message \cup {NoMessage}
    PROVE  Fresh(at, m) \in RunState
<1>1. <<>> \in Seq(ItemState) /\ "error" \in Reply
  BY DEF Reply
<1> QED BY <1>1 DEF Fresh, RunState

LEMMA CurrentIs ==
    ASSUME TypeOK, run.todo # {}
    PROVE  Current \in run.todo /\ \A j \in run.todo : Current <= j
<1>1. \E i \in run.todo : \A j \in run.todo : i <= j
  BY LeastNumber DEF TypeOK, RunState
<1> QED BY <1>1 DEF Current

LEMMA KeyIs ==
    /\ \A m \in Message : \A i \in Index(m) : <<m, i>> \in ItemKey
    /\ \A k \in ItemKey : k[1] \in Message /\ k[2] \in Index(k[1]) /\ k = <<k[1], k[2]>>
BY DEF ItemKey

\* A tuple with one entry per item.
LEMMA ListIs ==
    ASSUME NEW m \in Message, NEW S, NEW f \in [Index(m) -> S]
    PROVE  f \in Seq(S) /\ Len(f) = Len(ItemsOf[m]) /\ DOMAIN f = Index(m)
<1>1. Len(ItemsOf[m]) \in Nat
  BY ItemsAre
<1>2. f \in Seq(S)
  BY <1>1, SeqDef DEF Index
<1> QED BY <1>1, <1>2, LenProperties DEF Index
\* The plan is made: the runnable items are fresh, the others answered.
LEMMA Plans ==
    ASSUME BaseInv, NEW o, ReadItems(o), ~Raised(o)
    PROVE  /\ run' \in RunState /\ run'.at = "recorditems"
           /\ run'.msg = run.msg /\ run'.started = run.started /\ run'.used = run.used
           /\ run'.consumed = run.consumed /\ run'.returned = run.returned
           /\ run'.reply = run.reply /\ run'.replied = run.replied
           /\ run'.todo \subseteq Index(run.msg) /\ IsFiniteSet(run'.todo)
           /\ run.used + Cardinality(run'.todo) <= MaxRequestsPerDay
           /\ \A i, j \in run'.todo : IdAt(run.msg, i) = IdAt(run.msg, j) => i = j
           /\ \A i \in run'.todo :
                 ~IsDuplicateRequestStatus(requestStatus[IdAt(run.msg, i)], ItemsOf[run.msg][i].write)
           /\ Len(run'.items) = Len(ItemsOf[run.msg]) /\ DOMAIN run'.items = Index(run.msg)
           /\ \A i \in Index(run.msg) :
                 /\ ~run'.items[i].started /\ ~run'.items[i].wrote
                 /\ run'.items[i].reply \in {"error", "duplicate", "rate_limited"}
                 /\ run'.items[i].reply = "rate_limited" =>
                       run.used + Cardinality(run'.todo) >= MaxRequestsPerDay
<1> DEFINE m == run.msg
           taken == Taken(m, run.used)
           plan == taken[Len(ItemsOf[m])]
           verdict(i) == Verdict(m, run.used, taken[i - 1], i)
           items == [i \in Index(m) |-> IF verdict(i) = "run" THEN FreshItem
                                        ELSE [FreshItem EXCEPT !.reply = verdict(i)]]
<1>1. /\ TypeOK /\ m \in Message /\ run.used \in Nat /\ run.used < MaxRequestsPerDay
  BY DEF BaseInv, TypeInv, TypeOK, RunState, ShapeInv, ReadItems, At
<1>2. /\ plan \subseteq Index(m) /\ IsFiniteSet(plan)
      /\ run.used + Cardinality(plan) <= MaxRequestsPerDay
      /\ \A i, j \in plan : IdAt(m, i) = IdAt(m, j) => i = j
      /\ \A i \in Index(m) :
            /\ verdict(i) = "run" <=> i \in plan
            /\ verdict(i) \in {"run", "duplicate", "rate_limited"}
            /\ verdict(i) = "rate_limited" => run.used + Cardinality(plan) >= MaxRequestsPerDay
      /\ \A i \in plan :
            ~IsDuplicateRequestStatus(requestStatus[IdAt(m, i)], ItemsOf[m][i].write)
  BY <1>1, PlanIs
<1>3. run' = [run EXCEPT !.at = "recorditems", !.todo = plan, !.items = items]
  BY DEF ReadItems
<1> HIDE DEF plan, taken, verdict
<1>4. FreshItem \in ItemState /\ \A r \in Reply : [FreshItem EXCEPT !.reply = r] \in ItemState
  BY DEF FreshItem, ItemState, Reply
<1>5. /\ items \in [Index(m) -> ItemState]
      /\ \A i \in Index(m) :
            /\ ~items[i].started /\ ~items[i].wrote
            /\ items[i].reply \in {"error", "duplicate", "rate_limited"}
            /\ items[i].reply = "rate_limited" => verdict(i) = "rate_limited"
  <2>1. ASSUME NEW i \in Index(m)
        PROVE  /\ items[i] \in ItemState /\ ~items[i].started /\ ~items[i].wrote
               /\ items[i].reply \in {"error", "duplicate", "rate_limited"}
               /\ items[i].reply = "rate_limited" => verdict(i) = "rate_limited"
    <3>1. CASE verdict(i) = "run"
      BY <1>4, <3>1 DEF FreshItem
    <3>2. CASE verdict(i) \in {"duplicate", "rate_limited"}
      <4>1. items[i] = [FreshItem EXCEPT !.reply = verdict(i)] /\ verdict(i) \in Reply
        BY <3>2 DEF Reply
      <4> QED BY <1>4, <3>2, <4>1 DEF FreshItem
    <3> QED BY <1>2, <3>1, <3>2
  <2> QED BY <2>1
<1> HIDE DEF items
<1>6. items \in Seq(ItemState) /\ Len(items) = Len(ItemsOf[m]) /\ DOMAIN items = Index(m)
  BY <1>1, <1>5, ListIs
<1>7. plan \in SUBSET Nat /\ "recorditems" \in Phase
  BY <1>1, <1>2, ItemsAre DEF Index, Phase
<1>8. /\ run' \in RunState /\ run'.at = "recorditems" /\ run'.todo = plan /\ run'.items = items
      /\ run'.msg = run.msg /\ run'.started = run.started /\ run'.used = run.used
      /\ run'.consumed = run.consumed /\ run'.returned = run.returned
      /\ run'.reply = run.reply /\ run'.replied = run.replied
  BY <1>1, <1>3, <1>6, <1>7 DEF TypeOK, RunState
<1> QED BY <1>2, <1>5, <1>6, <1>8

-----------------------------------------------------------------------------
(* Types and shape.                                                        *)

LEMMA BaseInit == Init => BaseInv
<1> SUFFICES ASSUME Init PROVE BaseInv
  OBVIOUS
<1>1. Idle \in RunState
  BY Freshly DEF Idle, Phase
<1>2. StoreTypeOK
  BY DEF Init, StoreInit, StoreTypeOK, StatusRow
<1>3. TypeInv
  BY <1>1, <1>2 DEF Init, TypeInv, TypeOK, Idle, Fresh
<1>4. DOMAIN run.items = {}
  BY DEF Init, Idle, Fresh
<1>5. ShapeInv
  BY <1>4 DEF Init, ShapeInv, Early, Planned, Working, Ending, At, Idle, Fresh
<1> QED BY <1>3, <1>5 DEF BaseInv
RunTyped ==
    /\ run \in RunState
    /\ run.msg = NoMessage <=> run.at = "idle"
    /\ run.msg # NoMessage =>
          run.todo \subseteq Index(run.msg) /\ Len(run.items) \in {0, Len(ItemsOf[run.msg])}

WorldTyped ==
    /\ charged \subseteq ItemKey
    /\ effects \in [ItemKey -> Nat]
    /\ ran \subseteq ItemKey
    /\ audits \subseteq Message \X Nat
    /\ said \in [Message -> Said \cup {NoReply}]

LEMMA Typed == TypeInv <=> StoreTypeOK /\ RunTyped /\ WorldTyped
<1>1. (\E m \in Message : TRUE) => \A r \in Said \cup {NoReply} : r = NoReply \/ r.outer \in Reply
  BY DEF Said
<1>2. WorldTyped => \A m \in Message : said[m] = NoReply \/ said[m].outer \in Reply
  BY <1>1 DEF WorldTyped
<1> QED BY <1>2 DEF TypeInv, TypeOK, RunTyped, WorldTyped

\* What is known of a run in a given phase.
LEMMA RunIs ==
    ASSUME BaseInv, ~At("idle")
    PROVE  /\ run.msg \in Message /\ run.todo \subseteq Index(run.msg) /\ IsFiniteSet(run.todo)
           /\ run.items \in Seq(ItemState) /\ DOMAIN run.items = 1..Len(run.items)
           /\ \A i \in DOMAIN run.items : run.items[i] \in ItemState
           /\ DOMAIN run.items \subseteq Index(run.msg)
           /\ Planned \/ Working \/ run.returned => DOMAIN run.items = Index(run.msg)
<1>1. /\ run \in RunState /\ run.msg # NoMessage
      /\ run.todo \subseteq Index(run.msg) /\ Len(run.items) \in {0, Len(ItemsOf[run.msg])}
  BY DEF BaseInv, TypeInv, TypeOK, At
<1>2. run.msg \in Message /\ run.items \in Seq(ItemState)
  BY <1>1 DEF RunState
<1>3. IsFiniteSet(run.todo)
  <2>1. IsFiniteSet(Index(run.msg))
    BY <1>2, ItemsAre, FS_Interval DEF Index
  <2> QED BY <1>1, <2>1, FS_Subset
<1>4. DOMAIN run.items = 1..Len(run.items) /\ Len(run.items) \in Nat
  BY <1>2, LenProperties
<1>5. \A i \in DOMAIN run.items : run.items[i] \in ItemState
  BY <1>2, <1>4, ElementOfSeq
<1>6. DOMAIN run.items \subseteq Index(run.msg)
  BY <1>1, <1>2, <1>4, ItemsAre DEF Index
<1>7. Planned \/ Working \/ run.returned => Len(run.items) = Len(ItemsOf[run.msg])
  <2>1. run.returned => Ending
    BY <1>1 DEF BaseInv, ShapeInv, Early, Planned, Working, Ending, RunState, Phase
  <2> QED BY <2>1 DEF BaseInv, ShapeInv
<1> QED BY <1>1, <1>2, <1>3, <1>4, <1>5, <1>6, <1>7 DEF Index

LEMMA NoItems == DOMAIN <<>> = {} /\ Len(<<>>) = 0
OBVIOUS

\* Whatever raises before the items are run leaves a run that only answers.
LEMMA ErrorShape ==
    ASSUME BaseInv, ~At("idle"), Early \/ Planned, AnswerError
    PROVE  RunTyped' /\ ShapeInv'
<1>1. /\ run.msg \in Message /\ ~run.returned /\ TypeOK
  BY RunIs DEF BaseInv, TypeInv, ShapeInv
<1>2. /\ run' \in RunState /\ run'.at = "send" /\ run'.todo = {} /\ run'.items = <<>>
      /\ run'.msg = run.msg /\ ~run'.returned
  BY <1>1, Errs
<1>3. DOMAIN run'.items = {} /\ Len(run'.items) = 0
  BY <1>2, NoItems
<1>4. RunTyped'
  BY <1>1, <1>2, <1>3, BatchAssumption DEF RunTyped
<1>5. ShapeInv'
  BY <1>2, <1>3 DEF ShapeInv, Early, Planned, Working, Ending, At
<1> QED BY <1>4, <1>5

LEMMA RowTyped ==
    ASSUME StoreTypeOK, NEW status \in RequestStatus
    PROVE  /\ \A r : WithStatus(r, status) \in [RequestId -> StatusRow]
           /\ \A ids : WithStatuses(ids, status) \in [RequestId -> StatusRow]
BY DEF StoreTypeOK, WithStatus, WithStatuses, StatusRow

\* As far as the claim of the batch's own id.
LEMMA BaseStepStart ==
    ASSUME BaseInv, NEW o,
           (\E m \in Message : Begin(m)) \/ CountToday(o) \/ LookupRequest(o) \/ ClaimRequest(o)
    PROVE  BaseInv'
<1>0. TypeOK /\ StoreTypeOK /\ RunTyped /\ WorldTyped /\ ShapeInv
  BY Typed DEF BaseInv, TypeInv
<1>1. SUFFICES StoreTypeOK' /\ RunTyped' /\ WorldTyped' /\ ShapeInv'
  <2>1. (StoreTypeOK /\ RunTyped /\ WorldTyped => TypeInv)'
    BY Typed, PTL
  <2> QED BY <2>1 DEF BaseInv
<1>2. WorldTyped'
  BY <1>0 DEF WorldTyped, Begin, CountToday, LookupRequest, ClaimRequest, worldVars
<1>3. ASSUME NEW m \in Message, Begin(m) PROVE StoreTypeOK' /\ RunTyped' /\ ShapeInv'
  <2>1. run' = Fresh("count", m) /\ run' \in RunState
    BY <1>3, Freshly DEF Begin, Phase
  <2>2. DOMAIN run'.items = {} /\ Len(run'.items) = 0
    BY <2>1, NoItems DEF Fresh
  <2>3. StoreTypeOK'
    BY <1>0, <1>3 DEF Begin, StoreTypeOK
  <2>4. RunTyped'
    BY <2>1, <2>2, BatchAssumption DEF RunTyped, Fresh
  <2>5. ShapeInv'
    BY <2>1, <2>2 DEF ShapeInv, Fresh, Early, Planned, Working, Ending, At
  <2> QED BY <2>3, <2>4, <2>5
<1>4. CASE CountToday(o)
  <2>1. /\ At("count") /\ Early /\ run.items = <<>> /\ run.todo = {} /\ run.consumed = 0
        /\ ~run.returned /\ ~run.started
        /\ run.at = "lookup" \/ run.at = "claim" => run.used \in Nat /\ run.used < MaxRequestsPerDay
    BY <1>0, <1>4 DEF CountToday, At, Early, ShapeInv
  <2>2. StoreTypeOK'
    BY <1>0, <1>4 DEF CountToday, StoreTypeOK, storeVars
  <2>3. CASE Raised(o)
    <3>1. AnswerError
      BY <1>4, <2>3 DEF CountToday
    <3>2. ~At("idle")
      BY <2>1 DEF At
    <3> QED BY <1>2, <2>1, <2>2, <3>1, <3>2, ErrorShape
  <2>4. CASE ~Raised(o)
    <3>1. run' \in RunState /\ run'.at \in {"send", "lookup"} /\ run'.msg = run.msg
      BY <1>0, <1>4, <2>4, Counts
    <3>2. /\ run'.todo = run.todo /\ run'.items = <<>> /\ run'.consumed = run.consumed
          /\ run'.returned = run.returned /\ run'.started = run.started
      BY <1>0, <1>4, <2>1, <2>4, Counts
    <3>3. run'.at = "lookup" => run'.used \in Nat /\ run'.used < MaxRequestsPerDay
      BY <1>0, <1>4, <2>4, Counts, MaxAssumption DEF StoreTypeOK
    <3>4. DOMAIN run'.items = {} /\ Len(run'.items) = 0
      BY <3>2, NoItems
    <3>5. RunTyped'
      BY <1>0, <2>1, <3>1, <3>2, <3>4 DEF RunTyped, At
    <3>6. ShapeInv'
      BY <2>1, <3>1, <3>2, <3>3, <3>4 DEF ShapeInv, Early, Planned, Working, Ending, At
    <3> QED BY <1>2, <2>2, <3>5, <3>6
  <2> QED BY <2>3, <2>4
<1>5. CASE LookupRequest(o)
  <2>1. /\ At("lookup") /\ Early /\ run.items = <<>> /\ run.todo = {} /\ run.consumed = 0
        /\ ~run.returned /\ ~run.started
        /\ run.at = "lookup" \/ run.at = "claim" => run.used \in Nat /\ run.used < MaxRequestsPerDay
    BY <1>0, <1>5 DEF LookupRequest, At, Early, ShapeInv
  <2>2. StoreTypeOK'
    BY <1>0, <1>5 DEF LookupRequest, StoreTypeOK, storeVars
  <2>3. CASE Raised(o)
    <3>1. AnswerError
      BY <1>5, <2>3 DEF LookupRequest
    <3>2. ~At("idle")
      BY <2>1 DEF At
    <3> QED BY <1>2, <2>1, <2>2, <3>1, <3>2, ErrorShape
  <2>4. CASE ~Raised(o)
    <3>0. Answer("duplicate") \/ Goto("claim")
      BY <1>5, <2>4 DEF LookupRequest
    <3>1. run' \in RunState /\ run'.at \in {"send", "claim"} /\ run'.msg = run.msg
      BY <1>0, <3>0, Answers, Goes DEF Reply, Phase
    <3>2. /\ run'.todo = run.todo /\ run'.items = <<>> /\ run'.consumed = run.consumed
          /\ run'.returned = run.returned /\ run'.started = run.started /\ run'.used = run.used
      BY <1>0, <2>1, <3>0, Answers, Goes DEF Reply, Phase
    <3>4. DOMAIN run'.items = {} /\ Len(run'.items) = 0
      BY <3>2, NoItems
    <3>5. RunTyped'
      BY <1>0, <2>1, <3>1, <3>2, <3>4 DEF RunTyped, At
    <3>6. ShapeInv'
      BY <2>1, <3>1, <3>2, <3>4 DEF ShapeInv, Early, Planned, Working, Ending, At
    <3> QED BY <1>2, <2>2, <3>5, <3>6
  <2> QED BY <2>3, <2>4
<1>6. CASE ClaimRequest(o)
  <2>1. /\ At("claim") /\ Early /\ run.items = <<>> /\ run.todo = {} /\ run.consumed = 0
        /\ ~run.returned /\ ~run.started
        /\ run.at = "lookup" \/ run.at = "claim" => run.used \in Nat /\ run.used < MaxRequestsPerDay
    BY <1>0, <1>6 DEF ClaimRequest, At, Early, ShapeInv
  <2>2. StoreTypeOK'
    BY <1>0, <1>6, RowTyped DEF ClaimRequest, StoreTypeOK, RequestStatus
  <2>3. CASE Raised(o)
    <3>1. AnswerError
      BY <1>6, <2>3 DEF ClaimRequest
    <3>2. ~At("idle")
      BY <2>1 DEF At
    <3> QED BY <1>2, <2>1, <2>2, <3>1, <3>2, ErrorShape
  <2>4. CASE ~Raised(o)
    <3>1. /\ run' \in RunState /\ run'.at = "readitems" /\ run'.msg = run.msg
          /\ run'.todo = run.todo /\ run'.items = <<>> /\ run'.consumed = run.consumed
          /\ run'.returned = run.returned /\ run'.started /\ run'.used = run.used
      BY <1>0, <1>6, <2>1, <2>4, Claims
    <3>4. DOMAIN run'.items = {} /\ Len(run'.items) = 0
      BY <3>1, NoItems
    <3>5. RunTyped'
      BY <1>0, <2>1, <3>1, <3>4 DEF RunTyped, At
    <3>6. ShapeInv'
      BY <2>1, <3>1, <3>4 DEF ShapeInv, Early, Planned, Working, Ending, At
    <3> QED BY <1>2, <2>2, <3>5, <3>6
  <2> QED BY <2>3, <2>4
<1> QED BY <1>2, <1>3, <1>4, <1>5, <1>6
\* The plan, the quota rows and the claims.
LEMMA BaseStepPlan ==
    ASSUME BaseInv, NEW o, ReadItems(o) \/ RecordItems(o) \/ ClaimItems(o)
    PROVE  BaseInv'
<1>0. TypeOK /\ StoreTypeOK /\ RunTyped /\ WorldTyped /\ ShapeInv
  BY Typed DEF BaseInv, TypeInv
<1>1. SUFFICES StoreTypeOK' /\ RunTyped' /\ WorldTyped' /\ ShapeInv'
  <2>1. (StoreTypeOK /\ RunTyped /\ WorldTyped => TypeInv)'
    BY Typed, PTL
  <2> QED BY <2>1 DEF BaseInv
<1>2. /\ ~At("idle") /\ run.msg \in Message /\ run.todo \subseteq Index(run.msg)
      /\ IsFiniteSet(run.todo)
  <2>1. ~At("idle")
    BY DEF ReadItems, RecordItems, ClaimItems, At
  <2> QED BY <2>1, RunIs
<1>3. StoreTypeOK'
  <2>1. IsFiniteSet(run.todo) => Cardinality(run.todo) \in Nat
    BY FS_CardinalityType
  <2>2. CASE ReadItems(o)
    BY <1>0, <2>2 DEF ReadItems, StoreTypeOK, storeVars
  <2>3. CASE RecordItems(o)
    BY <1>0, <1>2, <2>1, <2>3 DEF RecordItems, StoreTypeOK
  <2>4. CASE ClaimItems(o)
    BY <1>0, <2>4, RowTyped DEF ClaimItems, StoreTypeOK, RequestStatus
  <2> QED BY <2>2, <2>3, <2>4
<1>4. WorldTyped'
  <2>1. {run.msg} \X run.todo \subseteq ItemKey
    BY <1>2, KeyIs
  <2> QED BY <1>0, <2>1 DEF WorldTyped, ReadItems, RecordItems, ClaimItems, worldVars
<1>5. CASE AnswerError
  <2>1. Early \/ Planned
    BY DEF ReadItems, RecordItems, ClaimItems, At, Early, Planned
  <2>2. RunTyped' /\ ShapeInv'
    BY <1>2, <1>5, <2>1, ErrorShape
  <2> QED BY <1>3, <1>4, <2>2
<1>6. CASE ReadItems(o) /\ ~Raised(o)
  <2>1. At("readitems") /\ ~run.returned /\ run.used \in Nat /\ run.used < MaxRequestsPerDay
    BY <1>0, <1>6 DEF ReadItems, ShapeInv, Early, At
  <2>2. /\ run' \in RunState /\ run'.at = "recorditems" /\ run'.msg = run.msg
        /\ run'.used = run.used /\ run'.returned = run.returned
        /\ run'.todo \subseteq Index(run.msg)
        /\ Len(run'.items) = Len(ItemsOf[run.msg]) /\ DOMAIN run'.items = Index(run.msg)
        /\ \A i \in Index(run.msg) : ~run'.items[i].started /\ ~run'.items[i].wrote
    BY <1>6, Plans
  <2>3. RunTyped'
    BY <1>2, <2>2, BatchAssumption DEF RunTyped
  <2>4. ShapeInv'
    BY <2>1, <2>2 DEF ShapeInv, Early, Planned, Working, Ending, At, Started
  <2> QED BY <1>3, <1>4, <2>3, <2>4
<1>7. CASE (RecordItems(o) \/ ClaimItems(o)) /\ ~Raised(o)
  <2>0. /\ Planned /\ ~run.returned /\ Len(run.items) = Len(ItemsOf[run.msg])
        /\ \A i \in DOMAIN run.items : ~run.items[i].started /\ ~run.items[i].wrote
    BY <1>0, <1>7 DEF RecordItems, ClaimItems, At, ShapeInv, Planned, Started
  <2>1. CASE RecordItems(o)
    <3>1. /\ run' \in RunState /\ run'.at = "claimitems" /\ run'.msg = run.msg
          /\ run'.todo = run.todo /\ run'.items = run.items /\ run'.returned = run.returned
      BY <1>0, <1>2, <1>7, <2>1, Records
    <3>2. RunTyped'
      BY <1>0, <1>2, <3>1, BatchAssumption DEF RunTyped
    <3>3. ShapeInv'
      BY <2>0, <3>1 DEF ShapeInv, Early, Planned, Working, Ending, At, Started
    <3> QED BY <1>3, <1>4, <3>2, <3>3
  <2>2. CASE ClaimItems(o)
    <3>1. /\ run' \in RunState /\ run'.at = "items" /\ run'.msg = run.msg
          /\ run'.todo = run.todo /\ run'.items = run.items /\ run'.returned = run.returned
      <4>1. Goto("items") /\ "items" \in Phase
        BY <1>7, <2>2 DEF ClaimItems, Phase
      <4> QED BY <1>0, <4>1, Goes
    <3>2. RunTyped'
      BY <1>0, <1>2, <3>1, BatchAssumption DEF RunTyped
    <3>3. ShapeInv'
      BY <2>0, <3>1 DEF ShapeInv, Early, Planned, Working, Ending, At, Started
    <3> QED BY <1>3, <1>4, <3>2, <3>3
  <2> QED BY <1>7, <2>1, <2>2
<1>8. AnswerError \/ ~Raised(o)
  BY DEF ReadItems, RecordItems, ClaimItems
<1> QED BY <1>5, <1>6, <1>7, <1>8

\* The item that is run, and how a step settles it: it comes after all that
\* were settled before and ahead of all that are left.
LEMMA ItemIs ==
    ASSUME BaseInv, At("items"), run.todo # {}
    PROVE  /\ Current \in run.todo /\ Current \in Index(run.msg) /\ Current \in Nat
           /\ <<run.msg, Current>> \in ItemKey /\ run.msg \in Message
           /\ DOMAIN run.items = Index(run.msg) /\ ~Started(Current)
           /\ ~run.items[Current].wrote
           /\ \A j \in run.todo \ {Current} : Current < j
           /\ \A j \in DOMAIN run.items : Started(j) => j < Current
<1>1. /\ run.msg \in Message /\ run.todo \subseteq Index(run.msg)
      /\ DOMAIN run.items = Index(run.msg) /\ Index(run.msg) \subseteq Nat
  <2>1. ~At("idle") /\ Working
    BY DEF At, Working
  <2>2. run.msg \in Message
    BY <2>1, RunIs
  <2> QED BY <2>1, <2>2, RunIs, ItemsAre DEF Index
<1>2. TypeOK /\ ShapeInv
  BY DEF BaseInv, TypeInv
<1>3. Current \in run.todo /\ \A j \in run.todo : Current <= j
  BY <1>2, CurrentIs
<1>4. \A j \in run.todo \ {Current} : Current < j
  BY <1>1, <1>3
<1>5. \A j \in DOMAIN run.items : Started(j) => j < Current
  BY <1>2, <1>3 DEF ShapeInv
<1>6. ~Started(Current) /\ ~run.items[Current].wrote
  BY <1>1, <1>2, <1>3, <1>5 DEF ShapeInv
<1> QED BY <1>1, <1>3, <1>4, <1>5, <1>6, KeyIs

LEMMA SettleIs ==
    ASSUME BaseInv, At("items"), run.todo # {},
           NEW reply \in Reply, NEW wrote \in BOOLEAN, NEW at \in {"items", "effect"},
           at = "effect" <=> wrote, Settle(Current, reply, wrote, at)
    PROVE  /\ RunTyped' /\ ShapeInv'
           /\ run'.at = at /\ run'.msg = run.msg /\ run'.started = run.started
           /\ run'.used = run.used /\ run'.consumed = run.consumed
           /\ run'.todo = run.todo \ {Current} /\ DOMAIN run'.items = Index(run.msg)
           /\ run'.items[Current] = [reply |-> reply, started |-> TRUE, wrote |-> wrote]
           /\ \A j \in Index(run.msg) : j # Current => run'.items[j] = run.items[j]
           /\ run'.returned = run.returned /\ run'.reply = run.reply
           /\ run'.replied = run.replied
<1> DEFINE i == Current
<1>0. TypeOK /\ RunTyped /\ ShapeInv /\ ~At("idle")
  BY Typed DEF BaseInv, TypeInv, At
<1>1. /\ run.msg \in Message /\ run.items \in Seq(ItemState)
      /\ i \in DOMAIN run.items /\ i \in run.todo /\ ~Started(i)
      /\ DOMAIN run.items = Index(run.msg) /\ i \in Nat
      /\ Len(run.items) = Len(ItemsOf[run.msg]) /\ run.todo \subseteq Index(run.msg)
      /\ \A j \in run.todo \ {i} : i < j
      /\ \A j \in DOMAIN run.items : Started(j) => j < i
      /\ ~run.returned
  BY <1>0, ItemIs, RunIs DEF ShapeInv, Working, At
<1> HIDE DEF i
<1>2. /\ run' \in RunState /\ run'.at = at
      /\ run'.todo = run.todo \ {i}
      /\ run'.items = [run.items EXCEPT ![i] =
                          [reply |-> reply, started |-> TRUE, wrote |-> wrote]]
      /\ run'.msg = run.msg /\ run'.started = run.started /\ run'.used = run.used
      /\ run'.consumed = run.consumed /\ run'.reply = run.reply
      /\ run'.returned = run.returned /\ run'.replied = run.replied
  BY <1>0, <1>1, Settles DEF Phase, i
<1>3. /\ DOMAIN run'.items = Index(run.msg) /\ Len(run'.items) = Len(ItemsOf[run.msg])
      /\ run'.items[i] = [reply |-> reply, started |-> TRUE, wrote |-> wrote]
      /\ \A j \in Index(run.msg) : j # i => run'.items[j] = run.items[j]
  BY <1>1, <1>2
<1>4. RunTyped'
  BY <1>0, <1>1, <1>2, <1>3, BatchAssumption DEF RunTyped
<1>5. \A j \in Index(run.msg) :
         /\ run'.items[j].started <=> j = i \/ Started(j)
         /\ run'.items[j].wrote <=> (j = i /\ wrote) \/ (j # i /\ run.items[j].wrote)
  BY <1>1, <1>3 DEF Started
<1>6. ShapeInv'
  <2>1. ASSUME NEW j \in DOMAIN run'.items
        PROVE  /\ run'.items[j].wrote => run'.items[j].started
               /\ run'.items[j].started => \A k \in run'.todo : j < k
    BY <1>0, <1>1, <1>2, <1>3, <1>5, <2>1 DEF ShapeInv
  <2>2. run'.at = "effect" =>
          run'.items[i].wrote /\ \A j \in DOMAIN run'.items : run'.items[j].started => j <= i
    <3> SUFFICES ASSUME run'.at = "effect" PROVE run'.items[i].wrote /\
                        \A j \in DOMAIN run'.items : run'.items[j].started => j <= i
      OBVIOUS
    <3>1. wrote
      BY <1>2
    <3>2. run'.items[i].wrote
      BY <1>1, <1>5, <3>1
    <3>3. ASSUME NEW j \in Index(run.msg), run'.items[j].started PROVE j <= i
      <4>1. j \in Nat
        BY DEF Index
      <4> QED BY <1>1, <1>5, <3>3, <4>1
    <3> QED BY <1>3, <3>2, <3>3
  <2> QED BY <1>1, <1>2, <1>3, <2>1, <2>2 DEF ShapeInv, Early, Planned, Working, Ending, At, Started
<1> QED BY <1>2, <1>3, <1>4, <1>6 DEF i
\* One item is run: what it is answered, whether it wrote, and that the one
\* agrees with the other for a write whose answer was not lost.
LEMMA ItemSteps ==
    ASSUME NEW o, RefuseItem \/ ExecuteReadItem(o) \/ ExecuteWriteItem(o)
    PROVE  /\ At("items") /\ run.todo # {}
           /\ ran' = ran \cup {<<run.msg, Current>>}
           /\ UNCHANGED <<messages, requestStatus, dailyCount, charged, said, audits>>
           /\ \E reply \in Reply, wrote \in BOOLEAN :
                 /\ Settle(Current, reply, wrote, IF wrote THEN "effect" ELSE "items")
                 /\ reply # "rate_limited"
                 /\ ItemsOf[run.msg][Current].write => (wrote <=> reply = "completed")
                 /\ wrote => ItemsOf[run.msg][Current].write
                 /\ \/ wrote /\ effects' = [effects EXCEPT ![<<run.msg, Current>>] = @ + 1]
                    \/ ~wrote /\ effects' = effects
                    \/ /\ ~WritesAreAnswered /\ ~wrote
                       /\ effects' = [effects EXCEPT ![<<run.msg, Current>>] = @ + 1]
<1> DEFINE write == ItemsOf[run.msg][Current].write
           landed == effects' = [effects EXCEPT ![<<run.msg, Current>>] = @ + 1]
<1>0. {"denied", "error", "completed"} \subseteq Reply
  BY DEF Reply
<1>1. AtItem /\ MarkRan /\ UNCHANGED <<storeVars, charged, said, audits>>
  BY DEF RefuseItem, ExecuteReadItem, ExecuteWriteItem
<1>2. CASE RefuseItem
  <2>1. Settle(Current, "denied", FALSE, "items") /\ effects' = effects
    BY <1>2 DEF RefuseItem
  <2> QED BY <1>0, <1>1, <2>1 DEF AtItem, MarkRan, storeVars
<1>3. CASE ExecuteReadItem(o)
  <2>1. effects' = effects /\ ~write
    BY <1>3 DEF ExecuteReadItem
  <2>2. \/ Settle(Current, "error", FALSE, "items")
        \/ Settle(Current, "completed", FALSE, "items")
    BY <1>3 DEF ExecuteReadItem, SettleError
  <2> QED BY <1>0, <1>1, <2>1, <2>2 DEF AtItem, MarkRan, storeVars
<1>4. CASE ExecuteWriteItem(o)
  <2>1. o \in Outcome("execute") /\ write
    BY <1>4 DEF ExecuteWriteItem
  <2>2. CASE Raised(o)
    <3>1. Settle(Current, "error", FALSE, "items")
      BY <1>4, <2>2 DEF ExecuteWriteItem, SettleError
    <3>2. effects' = effects \/ (~WritesAreAnswered /\ landed)
      BY <1>4, <2>1, <2>2 DEF ExecuteWriteItem, Outcome, Raised, Landed, WritesAreAnswered
    <3> QED BY <1>0, <1>1, <2>1, <3>1, <3>2 DEF AtItem, MarkRan, storeVars
  <2>3. CASE ~Raised(o)
    <3>1. Settle(Current, "completed", TRUE, "effect")
      BY <1>4, <2>3 DEF ExecuteWriteItem
    <3>2. landed
      BY <1>4, <2>1, <2>3 DEF ExecuteWriteItem, Outcome, Raised, Landed
    <3> QED BY <1>0, <1>1, <2>1, <3>1, <3>2 DEF AtItem, MarkRan, storeVars
  <2> QED BY <2>2, <2>3
<1> QED BY <1>2, <1>3, <1>4

\* The items, the rows of their writes, and the conclusion.
LEMMA BaseStepItems ==
    ASSUME BaseInv, NEW o,
           \/ RefuseItem \/ ExecuteReadItem(o) \/ ExecuteWriteItem(o)
           \/ RecordItemEffect(o) \/ Conclude
    PROVE  BaseInv'
<1>0. TypeOK /\ StoreTypeOK /\ RunTyped /\ WorldTyped /\ ShapeInv
  BY Typed DEF BaseInv, TypeInv
<1>1. SUFFICES StoreTypeOK' /\ RunTyped' /\ WorldTyped' /\ ShapeInv'
  <2>1. (StoreTypeOK /\ RunTyped /\ WorldTyped => TypeInv)'
    BY Typed, PTL
  <2> QED BY <2>1 DEF BaseInv
<1>2. /\ ~At("idle") /\ Working /\ ~run.returned
  BY <1>0 DEF RefuseItem, ExecuteReadItem, ExecuteWriteItem, AtItem,
              RecordItemEffect, Conclude, At, ShapeInv, Working
<1>3. CASE RefuseItem \/ ExecuteReadItem(o) \/ ExecuteWriteItem(o)
  <2>1. /\ At("items") /\ run.todo # {} /\ ran' = ran \cup {<<run.msg, Current>>}
        /\ UNCHANGED <<messages, requestStatus, dailyCount, charged, said, audits>>
        /\ \/ effects' = effects
           \/ effects' = [effects EXCEPT ![<<run.msg, Current>>] = @ + 1]
    BY <1>3, ItemSteps
  <2>2. PICK reply \in Reply, wrote \in BOOLEAN :
               Settle(Current, reply, wrote, IF wrote THEN "effect" ELSE "items")
    BY <1>3, ItemSteps
  <2>3. RunTyped' /\ ShapeInv'
    BY <2>1, <2>2, SettleIs
  <2>4. <<run.msg, Current>> \in ItemKey
    BY <2>1, ItemIs
  <2>5. WorldTyped'
    BY <1>0, <2>1, <2>4 DEF WorldTyped
  <2>6. StoreTypeOK'
    BY <1>0, <2>1 DEF StoreTypeOK
  <2> QED BY <2>3, <2>5, <2>6
<1>4. CASE RecordItemEffect(o)
  <2>1. Goto("items") /\ UNCHANGED <<messages, dailyCount, worldVars>>
    BY <1>4 DEF RecordItemEffect
  <2>2. /\ run' \in RunState /\ run'.at = "items" /\ run'.msg = run.msg
        /\ run'.todo = run.todo /\ run'.items = run.items /\ run'.returned = run.returned
    BY <1>0, <2>1, Goes DEF Phase
  <2>3. RunTyped'
    BY <1>0, <1>2, <2>2, RunIs, BatchAssumption DEF RunTyped
  <2>4. ShapeInv'
    BY <1>0, <1>2, <2>2 DEF ShapeInv, Early, Planned, Working, Ending, At, Started
  <2>5. StoreTypeOK'
    BY <1>0, <1>4, RowTyped DEF RecordItemEffect, StoreTypeOK, RequestStatus
  <2> QED BY <1>0, <2>1, <2>3, <2>4, <2>5 DEF WorldTyped, worldVars
<1>5. CASE Conclude
  <2>1. UNCHANGED <<storeVars, worldVars>> /\ run.todo = {}
    BY <1>5 DEF Conclude
  <2>2. /\ run' \in RunState /\ run'.at = "send" /\ run'.msg = run.msg
        /\ run'.todo = run.todo /\ run'.items = run.items /\ run'.returned
    BY <1>0, <1>5, Concludes
  <2>3. RunTyped'
    BY <1>0, <1>2, <2>2, RunIs, BatchAssumption DEF RunTyped
  <2>4. ShapeInv'
    BY <1>0, <1>2, <2>1, <2>2 DEF ShapeInv, Early, Planned, Working, Ending, At, Started
  <2> QED BY <1>0, <2>1, <2>3, <2>4 DEF WorldTyped, worldVars, StoreTypeOK, storeVars
<1> QED BY <1>3, <1>4, <1>5

\* The reply that a send makes known, if it arrives.
LEMMA SaidIs ==
    ASSUME BaseInv, NEW o, SendReply(o)
    PROVE  \E remaining \in Remaining \cap (Nat \cup {NoCount}) :
              LET reply == [outer |-> run.reply, remaining |-> remaining,
                            items |-> [i \in DOMAIN run.items |-> run.items[i].reply]]
              IN  /\ said' = IF Landed(o) THEN [said EXCEPT ![run.msg] = reply] ELSE said
                  /\ reply \in Said
<1>0. /\ TypeOK /\ StoreTypeOK /\ ~At("idle")
  BY DEF BaseInv, TypeInv, TypeOK, SendReply, At
<1>1. PICK remaining \in Remaining :
         said' = IF Landed(o)
                 THEN [said EXCEPT ![run.msg] =
                         [outer |-> run.reply, remaining |-> remaining,
                          items |-> [i \in DOMAIN run.items |-> run.items[i].reply]]]
                 ELSE said
  BY DEF SendReply
<1>2. remaining \in Nat \cup {NoCount}
  <2>1. run.used \in Nat \cup {NoCount} /\ run.consumed \in Nat /\ dailyCount \in Nat
    BY <1>0 DEF TypeOK, RunState, StoreTypeOK
  <2> QED BY <1>1, <2>1, MaxAssumption DEF Remaining
<1>3. run.reply \in Reply
  BY <1>0 DEF TypeOK, RunState
<1>4. [i \in DOMAIN run.items |-> run.items[i].reply] \in Seq(Reply)
  <2>1. /\ DOMAIN run.items = 1..Len(run.items) /\ Len(run.items) \in Nat
        /\ \A i \in DOMAIN run.items : run.items[i].reply \in Reply
    BY <1>0, RunIs, LenProperties DEF ItemState
  <2>2. [i \in DOMAIN run.items |-> run.items[i].reply] \in [1..Len(run.items) -> Reply]
    BY <2>1
  <2> QED BY <2>1, <2>2, SeqDef
<1> DEFINE items == [i \in DOMAIN run.items |-> run.items[i].reply]
<1> HIDE DEF items
<1>5. [outer |-> run.reply, remaining |-> remaining, items |-> items] \in Said
  BY <1>2, <1>3, <1>4 DEF Said, items
<1> QED BY <1>1, <1>2, <1>5 DEF items

\* The reply, the audit records, the last rows.
LEMMA BaseStepReply ==
    ASSUME BaseInv, NEW o, SendReply(o) \/ AppendAudits \/ FinalizeStatuses(o)
    PROVE  BaseInv'
<1>0. TypeOK /\ StoreTypeOK /\ RunTyped /\ WorldTyped /\ ShapeInv
  BY Typed DEF BaseInv, TypeInv
<1>1. SUFFICES StoreTypeOK' /\ RunTyped' /\ WorldTyped' /\ ShapeInv'
  <2>1. (StoreTypeOK /\ RunTyped /\ WorldTyped => TypeInv)'
    BY Typed, PTL
  <2> QED BY <2>1 DEF BaseInv
<1>2. ~At("idle") /\ Ending /\ run.msg \in Message
  <2>1. ~At("idle") /\ Ending
    BY DEF SendReply, AppendAudits, FinalizeStatuses, At, Ending
  <2> QED BY <2>1, RunIs
<1>3. CASE SendReply(o)
  <2>1. UNCHANGED <<storeVars, charged, effects, ran, audits>>
    BY <1>3 DEF SendReply
  <2>2. /\ run' \in RunState /\ run'.at = "audit" /\ run'.msg = run.msg
        /\ run'.todo = run.todo /\ run'.items = run.items /\ run'.returned = run.returned
    BY <1>0, <1>3, Sends
  <2>3. RunTyped'
    BY <1>0, <1>2, <2>2, RunIs, BatchAssumption DEF RunTyped
  <2>4. ShapeInv'
    BY <1>0, <1>2, <2>2 DEF ShapeInv, Early, Planned, Working, Ending, At, Started
  <2>5. said' \in [Message -> Said \cup {NoReply}]
    BY <1>0, <1>3, SaidIs DEF WorldTyped
  <2> QED BY <1>0, <2>1, <2>3, <2>4, <2>5 DEF WorldTyped, StoreTypeOK, storeVars
<1>4. CASE AppendAudits
  <2>1. UNCHANGED <<storeVars, charged, effects, ran, said>> /\ Goto("finalize")
    BY <1>4 DEF AppendAudits
  <2>2. /\ run' \in RunState /\ run'.at = "finalize" /\ run'.msg = run.msg
        /\ run'.todo = run.todo /\ run'.items = run.items /\ run'.returned = run.returned
    BY <1>0, <2>1, Goes DEF Phase
  <2>3. RunTyped'
    BY <1>0, <1>2, <2>2, RunIs, BatchAssumption DEF RunTyped
  <2>4. ShapeInv'
    BY <1>0, <1>2, <2>2 DEF ShapeInv, Early, Planned, Working, Ending, At, Started
  <2>5. audits' \subseteq Message \X Nat
    BY <1>0, <1>2, <1>4, ItemsAre DEF AppendAudits, WorldTyped, Index
  <2> QED BY <1>0, <2>1, <2>3, <2>4, <2>5 DEF WorldTyped, StoreTypeOK, storeVars
<1>5. CASE FinalizeStatuses(o)
  <2>1. run' = Idle /\ UNCHANGED <<messages, dailyCount, worldVars>>
    BY <1>5 DEF FinalizeStatuses
  <2>2. Idle \in RunState /\ Idle.at = "idle" /\ Idle.msg = NoMessage /\ ~Idle.returned
        /\ Idle.todo = {} /\ Idle.items = <<>> /\ Idle.consumed = 0 /\ ~Idle.started
    BY Freshly DEF Idle, Phase, Fresh
  <2>3. RunTyped'
    BY <2>1, <2>2 DEF RunTyped
  <2>4. ShapeInv'
    BY <2>1, <2>2, NoItems DEF ShapeInv, Early, Planned, Working, Ending, At, Started
  <2>5. ASSUME NEW r \in RequestId PROVE FinalRow(r) \in StatusRow
    <3>1. \A w, a, s : FinalRequestStatus(w, a, s) \in RequestStatus
      BY DEF FinalRequestStatus, RequestStatus
    <3>2. requestStatus[r] \in StatusRow
      BY <1>0 DEF StoreTypeOK
    <3> QED BY <3>1, <3>2 DEF FinalRow, StatusRow
  <2>6. StoreTypeOK'
    BY <1>0, <1>5, <2>5 DEF FinalizeStatuses, StoreTypeOK
  <2> QED BY <1>0, <2>1, <2>3, <2>4, <2>6 DEF WorldTyped, worldVars
<1> QED BY <1>3, <1>4, <1>5

LEMMA BaseStep == BaseInv /\ [Next]_vars => BaseInv'
<1> SUFFICES ASSUME BaseInv, [Next]_vars PROVE BaseInv'
  OBVIOUS
<1>0. TypeOK /\ StoreTypeOK /\ RunTyped /\ WorldTyped /\ ShapeInv
  BY Typed DEF BaseInv, TypeInv
<1>1. (StoreTypeOK /\ RunTyped /\ WorldTyped /\ ShapeInv => BaseInv)'
  <2>1. (StoreTypeOK /\ RunTyped /\ WorldTyped => TypeInv)'
    BY Typed, PTL
  <2> QED BY <2>1 DEF BaseInv
<1>2. CASE UNCHANGED vars
  BY <1>0, <1>1, <1>2
     DEF vars, storeVars, worldVars, StoreTypeOK, RunTyped, WorldTyped, ShapeInv,
         Early, Planned, Working, Ending, At, Started
<1>3. CASE Crash
  <2>1. run' = Idle /\ UNCHANGED <<storeVars, worldVars>>
    BY <1>3 DEF Crash
  <2>2. Idle \in RunState /\ Idle.at = "idle" /\ Idle.msg = NoMessage /\ ~Idle.returned
        /\ Idle.todo = {} /\ Idle.items = <<>> /\ Idle.consumed = 0 /\ ~Idle.started
    BY Freshly DEF Idle, Phase, Fresh
  <2>3. RunTyped'
    BY <2>1, <2>2 DEF RunTyped
  <2>4. ShapeInv'
    BY <2>1, <2>2, NoItems DEF ShapeInv, Early, Planned, Working, Ending, At, Started
  <2> QED BY <1>0, <1>1, <2>1, <2>3, <2>4 DEF WorldTyped, worldVars, StoreTypeOK, storeVars
<1>4. CASE PassTime
  <2>1. UNCHANGED <<run, worldVars>> /\ (NewDay \/ \E r \in RequestId : GrowStale(r))
    BY <1>4 DEF PassTime
  <2>2. StoreTypeOK'
    <3>1. CASE NewDay
      BY <1>0, <3>1 DEF NewDay, StoreTypeOK
    <3>2. ASSUME NEW r \in RequestId, GrowStale(r) PROVE StoreTypeOK'
      <4>1. requestStatus' = [requestStatus EXCEPT ![r].stale = TRUE]
        BY <3>2 DEF GrowStale
      <4>2. requestStatus' \in [RequestId -> StatusRow]
        BY <1>0, <4>1 DEF StoreTypeOK, StatusRow
      <4> QED BY <1>0, <3>2, <4>2 DEF GrowStale, StoreTypeOK
    <3> QED BY <2>1, <3>1, <3>2
  <2>3. RunTyped' /\ ShapeInv' /\ WorldTyped'
    BY <1>0, <2>1 DEF worldVars, RunTyped, WorldTyped, ShapeInv,
         Early, Planned, Working, Ending, At, Started
  <2> QED BY <1>1, <2>2, <2>3
<1> QED BY <1>2, <1>3, <1>4, BaseStepStart, BaseStepPlan, BaseStepItems, BaseStepReply DEF Next

LEMMA BaseHolds == Spec => []BaseInv
BY BaseInit, BaseStep, PTL DEF Spec

\* Every reachable state is well formed: the tabs, the activation with one
\* item state for each item of its message, and the records of the world.
THEOREM TypeCorrect == Spec => []TypeOK
<1>1. BaseInv => TypeOK
  BY DEF BaseInv, TypeInv
<1> QED BY <1>1, BaseHolds, PTL
-----------------------------------------------------------------------------
(* The cap, and what the reply says is left.                               *)

\* Most steps neither count nor plan: they go on with what is there, or drop
\* the items.
LEMMA QuotaKept ==
    ASSUME QuotaRun, run'.used = run.used, run'.consumed = run.consumed,
           run'.at \notin {"lookup", "claim", "readitems", "recorditems"}
              \/ (/\ run.at \in {"lookup", "claim", "readitems"} /\ dailyCount' <= dailyCount
                  /\ run'.at \in {"lookup", "claim", "readitems"}
                  /\ dailyCount \in Nat /\ dailyCount' \in Nat /\ run.used \in Nat),
           run'.items = <<>> \/ (run'.items = run.items /\ ~At("recorditems")),
           run'.reply # "rate_limited" \/ (run'.reply = run.reply /\ (Ending => Ending'))
    PROVE  QuotaRun'
<1>1. ~At("recorditems")'
  BY DEF At
<1>2. CASE run'.items = <<>>
  BY <1>1, <1>2, NoItems DEF QuotaRun
<1>3. CASE run'.items = run.items /\ ~At("recorditems")
  BY <1>1, <1>3 DEF QuotaRun
<1> QED BY <1>2, <1>3

LEMMA QuotaInit == Init => QuotaInv
<1> SUFFICES ASSUME Init PROVE QuotaInv
  OBVIOUS
<1>1. run.at = "idle" /\ run.items = <<>> /\ run.reply = "error" /\ dailyCount = 0
  BY DEF Init, StoreInit, Idle, Fresh
<1>2. QuotaRun
  BY <1>1, NoItems DEF QuotaRun, At
<1>3. CapRespected
  BY <1>1, MaxAssumption DEF CapRespected
<1>4. RateLimitedMeansNoneLeft
  BY NoItems DEF Init, RateLimitedMeansNoneLeft, NoReply
<1> QED BY <1>2, <1>3, <1>4, BaseInit DEF QuotaInv

LEMMA QuotaStepStart ==
    ASSUME QuotaInv, NEW o,
           (\E m \in Message : Begin(m)) \/ CountToday(o) \/ LookupRequest(o) \/ ClaimRequest(o)
    PROVE  CapRespected' /\ QuotaRun' /\ RateLimitedMeansNoneLeft'
<1>0. TypeOK /\ StoreTypeOK /\ ShapeInv /\ QuotaRun /\ dailyCount \in Nat /\ MaxRequestsPerDay \in Nat
  BY MaxAssumption DEF QuotaInv, BaseInv, TypeInv, TypeOK, StoreTypeOK
<1>1. dailyCount' = dailyCount /\ said' = said
  BY DEF Begin, CountToday, LookupRequest, ClaimRequest, storeVars, worldVars
<1>2. CapRespected' /\ RateLimitedMeansNoneLeft'
  BY <1>1 DEF QuotaInv, CapRespected, RateLimitedMeansNoneLeft
<1>3. ASSUME NEW m \in Message, Begin(m) PROVE QuotaRun'
  <2>1. run'.at = "count" /\ run'.items = <<>> /\ run'.reply = "error"
    BY <1>3 DEF Begin, Fresh
  <2> QED BY <2>1, NoItems DEF QuotaRun, At
<1>4. CASE AnswerError
  <2>1. /\ run'.at = "send" /\ run'.reply = "error" /\ run'.items = <<>>
        /\ run'.used = run.used /\ run'.consumed = run.consumed
    BY <1>0, <1>4, Errs
  <2>2. QuotaRun'
    BY <1>0, <2>1, QuotaKept
  <2> QED BY <1>2, <2>2
<1>5. CASE CountToday(o) /\ ~Raised(o)
  <2>1. run.consumed = 0 /\ run.items = <<>> /\ run.reply \in Reply
    BY <1>0, <1>5 DEF CountToday, At, ShapeInv, Early, TypeOK, RunState
  <2>2. /\ run'.used = dailyCount /\ run'.consumed = 0 /\ run'.items = <<>>
        /\ IF dailyCount >= MaxRequestsPerDay
           THEN run'.at = "send" /\ run'.reply = "rate_limited"
           ELSE run'.at = "lookup" /\ run'.reply = run.reply
    BY <1>0, <1>5, <2>1, Counts
  <2>3. run.reply # "rate_limited"
    BY <1>0, <1>5 DEF CountToday, At, QuotaRun, Ending
  <2>4. QuotaRun'
    BY <1>0, <1>1, <2>2, <2>3, NoItems DEF QuotaRun, At, Ending
  <2> QED BY <1>2, <2>4
<1>6. CASE LookupRequest(o) /\ ~Raised(o)
  <2>1. Answer("duplicate") \/ Goto("claim")
    BY <1>6 DEF LookupRequest
  <2>2. /\ run'.at \in {"send", "claim"} /\ run'.items = run.items
        /\ run'.used = run.used /\ run'.consumed = run.consumed
        /\ run'.reply = run.reply \/ run'.reply = "duplicate"
    BY <1>0, <2>1, Answers, Goes DEF Phase, Reply
  <2>3. run.at = "lookup" /\ run.used \in Nat
    BY <1>0, <1>6 DEF LookupRequest, At, ShapeInv
  <2>4. QuotaRun'
    BY <1>0, <1>1, <2>2, <2>3, QuotaKept DEF At, Ending
  <2> QED BY <1>2, <2>4
<1>7. CASE ClaimRequest(o) /\ ~Raised(o)
  <2>2. /\ run'.at = "readitems" /\ run'.items = run.items
        /\ run'.used = run.used /\ run'.consumed = run.consumed /\ run'.reply = run.reply
    BY <1>0, <1>7, Claims
  <2>3. run.at = "claim" /\ run.used \in Nat
    BY <1>0, <1>7 DEF ClaimRequest, At, ShapeInv
  <2>4. QuotaRun'
    BY <1>0, <1>1, <2>2, <2>3, QuotaKept DEF At, Ending
  <2> QED BY <1>2, <2>4
<1>8. AnswerError \/ (\E m \in Message : Begin(m)) \/ ~Raised(o)
  BY DEF CountToday, LookupRequest, ClaimRequest
<1> QED BY <1>2, <1>3, <1>4, <1>5, <1>6, <1>7, <1>8
LEMMA QuotaStepPlan ==
    ASSUME QuotaInv, NEW o, ReadItems(o) \/ RecordItems(o) \/ ClaimItems(o)
    PROVE  CapRespected' /\ QuotaRun' /\ RateLimitedMeansNoneLeft'
<1>0. /\ BaseInv /\ TypeOK /\ StoreTypeOK /\ ShapeInv /\ QuotaRun
      /\ dailyCount \in Nat /\ MaxRequestsPerDay \in Nat /\ run.consumed \in Nat
      /\ IsFiniteSet(run.todo) /\ ~At("idle") /\ ~Ending
  <2>1. ~At("idle") /\ ~Ending
    BY DEF ReadItems, RecordItems, ClaimItems, At, Ending
  <2>2. IsFiniteSet(run.todo)
    BY <2>1, RunIs DEF QuotaInv
  <2> QED BY <2>1, <2>2, MaxAssumption
          DEF QuotaInv, BaseInv, TypeInv, TypeOK, StoreTypeOK, RunState
<1>1. RateLimitedMeansNoneLeft'
  BY DEF QuotaInv, RateLimitedMeansNoneLeft, ReadItems, RecordItems, ClaimItems, worldVars
<1>2. Cardinality(run.todo) \in Nat
  BY <1>0, FS_CardinalityType
<1>3. CapRespected'
  <2>1. CASE RecordItems(o)
    <3>1. /\ dailyCount <= run.used /\ run.used + Cardinality(run.todo) <= MaxRequestsPerDay
          /\ run.used \in Nat
      BY <1>0, <2>1 DEF RecordItems, At, QuotaRun, ShapeInv
    <3>2. dailyCount' = dailyCount \/ dailyCount' = dailyCount + Cardinality(run.todo)
      BY <2>1 DEF RecordItems
    <3> QED BY <1>0, <1>2, <3>1, <3>2 DEF QuotaInv, CapRespected
  <2>2. CASE ReadItems(o) \/ ClaimItems(o)
    BY <2>2 DEF ReadItems, ClaimItems, storeVars, QuotaInv, CapRespected
  <2> QED BY <2>1, <2>2
<1>4. CASE AnswerError
  <2>1. /\ run'.at = "send" /\ run'.reply = "error" /\ run'.items = <<>>
        /\ run'.used = run.used /\ run'.consumed = run.consumed
    BY <1>0, <1>4, Errs
  <2>2. QuotaRun'
    BY <1>0, <2>1, QuotaKept
  <2> QED BY <1>1, <1>3, <2>2
<1>5. CASE ReadItems(o) /\ ~Raised(o)
  <2>1. run.at = "readitems" /\ run.used \in Nat /\ dailyCount <= run.used /\ run.consumed = 0
        /\ dailyCount' = dailyCount
    BY <1>0, <1>5 DEF ReadItems, At, QuotaRun, ShapeInv, storeVars
  <2>2. /\ run'.at = "recorditems" /\ run'.used = run.used /\ run'.consumed = run.consumed
        /\ run'.reply = run.reply /\ DOMAIN run'.items = Index(run.msg)
        /\ run.used + Cardinality(run'.todo) <= MaxRequestsPerDay
        /\ \A i \in Index(run.msg) : run'.items[i].reply = "rate_limited" =>
              run.used + Cardinality(run'.todo) >= MaxRequestsPerDay
    BY <1>0, <1>5, Plans
  <2>3. run.reply # "rate_limited"
    BY <1>0 DEF QuotaRun
  <2>4. QuotaRun'
    BY <2>1, <2>2, <2>3 DEF QuotaRun, At
  <2> QED BY <1>1, <1>3, <2>4
<1>6. CASE RecordItems(o) /\ ~Raised(o)
  <2>1. run.at = "recorditems" /\ run.used \in Nat
        /\ \A i \in DOMAIN run.items : run.items[i].reply = "rate_limited" =>
              run.used + Cardinality(run.todo) >= MaxRequestsPerDay
    BY <1>0, <1>6 DEF RecordItems, At, QuotaRun, ShapeInv
  <2>2. /\ run'.at = "claimitems" /\ run'.used = run.used /\ run'.items = run.items
        /\ run'.consumed = Cardinality(run.todo) /\ run'.reply = run.reply
    BY <1>0, <1>6, Records
  <2>3. run.reply # "rate_limited"
    BY <1>0 DEF QuotaRun
  <2>4. QuotaRun'
    BY <2>1, <2>2, <2>3 DEF QuotaRun, At
  <2> QED BY <1>1, <1>3, <2>4
<1>7. CASE ClaimItems(o) /\ ~Raised(o)
  <2>1. run.at = "claimitems" /\ Goto("items")
    BY <1>7 DEF ClaimItems, At
  <2>2. /\ run'.at = "items" /\ run'.used = run.used /\ run'.items = run.items
        /\ run'.consumed = run.consumed /\ run'.reply = run.reply
    BY <1>0, <2>1, Goes DEF Phase
  <2>3. QuotaRun'
    BY <1>0, <2>1, <2>2, QuotaKept DEF At
  <2> QED BY <1>1, <1>3, <2>3
<1>8. AnswerError \/ ~Raised(o)
  BY DEF ReadItems, RecordItems, ClaimItems
<1> QED BY <1>4, <1>5, <1>6, <1>7, <1>8

LEMMA QuotaStepItems ==
    ASSUME QuotaInv, NEW o,
           \/ RefuseItem \/ ExecuteReadItem(o) \/ ExecuteWriteItem(o)
           \/ RecordItemEffect(o) \/ Conclude
    PROVE  CapRespected' /\ QuotaRun' /\ RateLimitedMeansNoneLeft'
<1>0. BaseInv /\ TypeOK /\ QuotaRun /\ ~Ending /\ ~At("recorditems") /\ Working
  BY DEF QuotaInv, BaseInv, TypeInv, At, Ending, Working,
         RefuseItem, ExecuteReadItem, ExecuteWriteItem, AtItem, RecordItemEffect, Conclude
<1>1. dailyCount' = dailyCount /\ said' = said
  BY DEF RefuseItem, ExecuteReadItem, ExecuteWriteItem, RecordItemEffect, Conclude,
         storeVars, worldVars
<1>2. CapRespected' /\ RateLimitedMeansNoneLeft'
  BY <1>1 DEF QuotaInv, CapRespected, RateLimitedMeansNoneLeft
<1>3. CASE RefuseItem \/ ExecuteReadItem(o) \/ ExecuteWriteItem(o)
  <2>1. PICK reply \in Reply, wrote \in BOOLEAN :
           /\ Settle(Current, reply, wrote, IF wrote THEN "effect" ELSE "items")
           /\ reply # "rate_limited"
    BY <1>3, ItemSteps
  <2>2. At("items") /\ run.todo # {}
    BY <1>3, ItemSteps
  <2>3. /\ run'.at \in {"items", "effect"} /\ run'.used = run.used
        /\ run'.consumed = run.consumed /\ run'.reply = run.reply
        /\ DOMAIN run'.items = Index(run.msg) /\ run'.items[Current].reply = reply
        /\ \A j \in Index(run.msg) : j # Current => run'.items[j] = run.items[j]
    <3>1. PICK at \in {"items", "effect"} :
             (at = "effect" <=> wrote) /\ Settle(Current, reply, wrote, at)
      BY <2>1
    <3>2. /\ run'.at = at /\ run'.used = run.used
          /\ run'.consumed = run.consumed /\ run'.reply = run.reply
          /\ DOMAIN run'.items = Index(run.msg)
          /\ run'.items[Current] = [reply |-> reply, started |-> TRUE, wrote |-> wrote]
          /\ \A j \in Index(run.msg) : j # Current => run'.items[j] = run.items[j]
      BY <1>0, <2>2, <3>1, SettleIs
    <3> QED BY <3>1, <3>2
  <2>4. DOMAIN run.items = Index(run.msg) /\ Current \in Index(run.msg)
    BY <1>0, <2>2, ItemIs
  <2>5. run.reply # "rate_limited"
    BY <1>0 DEF QuotaRun
  <2>6. run.used \in Nat
    BY <1>0, <2>4, NoItems DEF QuotaRun
  <2>7. QuotaRun'
    BY <1>0, <2>1, <2>3, <2>4, <2>5, <2>6 DEF QuotaRun, At
  <2> QED BY <1>2, <2>7
<1>4. CASE RecordItemEffect(o)
  <2>1. /\ run'.at = "items" /\ run'.used = run.used /\ run'.items = run.items
        /\ run'.consumed = run.consumed /\ run'.reply = run.reply
    BY <1>0, <1>4, Goes DEF Phase, RecordItemEffect
  <2>2. QuotaRun'
    BY <1>0, <2>1, QuotaKept DEF At
  <2> QED BY <1>2, <2>2
<1>5. CASE Conclude
  <2>1. /\ run'.at = "send" /\ run'.used = run.used /\ run'.items = run.items
        /\ run'.consumed = run.consumed /\ run'.reply = "completed"
    BY <1>0, <1>5, Concludes
  <2>2. QuotaRun'
    BY <1>0, <2>1, QuotaKept DEF At
  <2> QED BY <1>2, <2>2
<1> QED BY <1>3, <1>4, <1>5

\* The reply says nothing is left whenever it turns something away.
LEMMA QuotaStepReply ==
    ASSUME QuotaInv, NEW o, SendReply(o) \/ AppendAudits \/ FinalizeStatuses(o)
    PROVE  CapRespected' /\ QuotaRun' /\ RateLimitedMeansNoneLeft'
<1>0. BaseInv /\ TypeOK /\ StoreTypeOK /\ QuotaRun /\ WorldTyped
  BY Typed DEF QuotaInv, BaseInv, TypeInv
<1>1. CapRespected'
  BY DEF QuotaInv, CapRespected, SendReply, AppendAudits, FinalizeStatuses, storeVars
<1>2. CASE SendReply(o)
  <2>1. /\ run'.at = "audit" /\ run'.used = run.used /\ run'.items = run.items
        /\ run'.consumed = run.consumed /\ run'.reply = run.reply
    BY <1>0, <1>2, Sends
  <2>2. At("send") /\ run.at = "send"
    BY <1>2 DEF SendReply, At
  <2>3. QuotaRun'
    <3>1. ~At("recorditems") /\ Ending'
      BY <2>1, <2>2 DEF At, Ending
    <3> QED BY <1>0, <2>1, <3>1, QuotaKept
  <2>4. PICK remaining \in Remaining :
           LET reply == [outer |-> run.reply, remaining |-> remaining,
                         items |-> [i \in DOMAIN run.items |-> run.items[i].reply]]
           IN  said' = IF Landed(o) THEN [said EXCEPT ![run.msg] = reply] ELSE said
    BY <1>0, <1>2, SaidIs
  <2> DEFINE items == [i \in DOMAIN run.items |-> run.items[i].reply]
             reply == [outer |-> run.reply, remaining |-> remaining, items |-> items]
             Turned(r) == \/ r.outer = "rate_limited"
                          \/ \E i \in DOMAIN r.items : r.items[i] = "rate_limited"
  <2>5. Turned(reply) => remaining = 0
    <3> SUFFICES ASSUME Turned(reply) PROVE remaining = 0
      OBVIOUS
    <3>1. run.used \in Nat /\ run.used + run.consumed >= MaxRequestsPerDay
      <4>1. CASE run.reply = "rate_limited"
        BY <1>0, <4>1 DEF QuotaRun
      <4>2. CASE \E i \in DOMAIN run.items : run.items[i].reply = "rate_limited"
        <5>1. run.items # <<>>
          BY <4>2, NoItems
        <5>2. ~At("recorditems")
          BY <2>2 DEF At
        <5> QED BY <1>0, <4>2, <5>1, <5>2 DEF QuotaRun
      <4> QED BY <4>1, <4>2
    <3>2. run.used # NoCount
      BY <3>1, BatchAssumption
    <3> QED BY <3>1, <3>2 DEF Remaining
  <2>6. RateLimitedMeansNoneLeft'
    <3> SUFFICES ASSUME NEW n \in Message, Turned(said'[n]) PROVE said'[n].remaining = 0
      BY DEF RateLimitedMeansNoneLeft
    <3>1. CASE said'[n] = said[n]
      BY <3>1 DEF QuotaInv, RateLimitedMeansNoneLeft
    <3>2. CASE said'[n] # said[n]
      <4>1. said'[n] = reply
        BY <1>0, <2>4, <3>2 DEF WorldTyped
      <4> HIDE DEF Turned
      <4> QED BY <2>5, <4>1
    <3> QED BY <3>1, <3>2
  <2> QED BY <1>1, <2>3, <2>6
<1>3. CASE AppendAudits
  <2>1. Goto("finalize") /\ run.at = "audit" /\ said' = said
    BY <1>3 DEF AppendAudits, At
  <2>2. /\ run'.at = "finalize" /\ run'.used = run.used /\ run'.items = run.items
        /\ run'.consumed = run.consumed /\ run'.reply = run.reply
    BY <1>0, <2>1, Goes DEF Phase
  <2>3. ~At("recorditems") /\ Ending'
    BY <2>1, <2>2 DEF At, Ending
  <2>4. QuotaRun'
    BY <1>0, <2>2, <2>3, QuotaKept
  <2> QED BY <1>1, <2>1, <2>4 DEF QuotaInv, RateLimitedMeansNoneLeft
<1>4. CASE FinalizeStatuses(o)
  <2>1. run'.at = "idle" /\ run'.items = <<>> /\ run'.reply = "error" /\ said' = said
    BY <1>4 DEF FinalizeStatuses, Idle, Fresh, worldVars
  <2>2. QuotaRun'
    BY <2>1, NoItems DEF QuotaRun, At
  <2> QED BY <1>1, <2>1, <2>2 DEF QuotaInv, RateLimitedMeansNoneLeft
<1> QED BY <1>2, <1>3, <1>4

LEMMA QuotaStep == QuotaInv /\ [Next]_vars => QuotaInv'
<1> SUFFICES ASSUME QuotaInv, [Next]_vars PROVE QuotaInv'
  OBVIOUS
<1>0. BaseInv' /\ dailyCount \in Nat /\ dailyCount' \in Nat
  BY BaseStep DEF QuotaInv, BaseInv, TypeInv, TypeOK, StoreTypeOK
<1>1. SUFFICES CapRespected' /\ QuotaRun' /\ RateLimitedMeansNoneLeft'
  BY <1>0 DEF QuotaInv
<1>2. CASE UNCHANGED vars
  BY <1>2 DEF vars, storeVars, worldVars, QuotaInv, CapRespected, QuotaRun, At, Ending,
              RateLimitedMeansNoneLeft
<1>3. CASE Crash
  <2>1. /\ run'.at = "idle" /\ run'.items = <<>> /\ run'.reply = "error"
        /\ said' = said /\ dailyCount' = dailyCount
    BY <1>3 DEF Crash, Idle, Fresh, worldVars, storeVars
  <2>2. QuotaRun'
    BY <2>1, NoItems DEF QuotaRun, At
  <2> QED BY <2>1, <2>2 DEF QuotaInv, CapRespected, RateLimitedMeansNoneLeft
<1>4. CASE PassTime
  <2>1. run' = run /\ said' = said /\ dailyCount' <= dailyCount
    BY <1>0, <1>4 DEF PassTime, worldVars, NewDay, GrowStale
  <2>2. run.at \in {"lookup", "claim", "readitems", "recorditems"} => run.used \in Nat
    BY DEF QuotaInv, BaseInv, ShapeInv
  <2>3. QuotaRun'
    BY <1>0, <2>1, <2>2 DEF QuotaInv, QuotaRun, At, Ending
  <2> QED BY <1>0, <2>1, <2>3, MaxAssumption DEF QuotaInv, CapRespected, RateLimitedMeansNoneLeft
<1> QED BY <1>2, <1>3, <1>4, QuotaStepStart, QuotaStepPlan, QuotaStepItems, QuotaStepReply
        DEF Next

LEMMA QuotaHolds == Spec => []QuotaInv
BY QuotaInit, QuotaStep, PTL DEF Spec

\* The daily cap holds for every batch, however many items it has and
\* whatever answer is lost, although the count is read several calls before
\* the rows are appended.
THEOREM CapHolds == Spec => []CapRespected
<1>1. QuotaInv => CapRespected
  BY DEF QuotaInv
<1> QED BY <1>1, QuotaHolds, PTL

\* A batch, or an item of it, is turned away for the cap only by a reply
\* that says nothing is left: duplicates before it in the batch cost nothing.
THEOREM TurnedAwayAtTheCap == Spec => []RateLimitedMeansNoneLeft
<1>1. QuotaInv => RateLimitedMeansNoneLeft
  BY DEF QuotaInv
<1> QED BY <1>1, QuotaHolds, PTL
-----------------------------------------------------------------------------
(* With every answer to the quota append, what the reply promises is there. *)

\* Only the reading of the count, the quota append and a new day change what
\* SpentInv speaks of, and a run that ends forgets its count.
LEMMA SpentStep == QuotaIsAnswered /\ SpentInv /\ [Next]_vars => SpentInv'
<1> SUFFICES ASSUME QuotaIsAnswered, SpentInv, [Next]_vars PROVE SpentInv'
  OBVIOUS
<1> DEFINE Kept == run'.used = run.used /\ run'.consumed = run.consumed /\ dailyCount' = dailyCount
           Covered == run.used \in Nat => dailyCount <= run.used + run.consumed
<1>0. /\ QuotaInv /\ BaseInv /\ TypeOK /\ QuotaRun /\ Covered
      /\ dailyCount \in Nat /\ dailyCount' \in Nat /\ run.consumed \in Nat
      /\ NoCount \notin Nat
  <2>1. TypeOK /\ BaseInv /\ BaseInv'
    BY BaseStep DEF SpentInv, QuotaInv, BaseInv, TypeInv
  <2> QED BY <2>1, BatchAssumption
          DEF SpentInv, QuotaInv, BaseInv, TypeInv, TypeOK, StoreTypeOK, RunState
<1>1. SUFFICES Covered'
  <2>1. QuotaInv'
    BY <1>0, QuotaStep
  <2> QED BY <2>1 DEF SpentInv
<1>2. SUFFICES \/ Kept \/ run'.used = NoCount
               \/ run' = run /\ dailyCount' <= dailyCount
               \/ run'.used = dailyCount /\ run'.consumed = 0 /\ dailyCount' = dailyCount
               \/ /\ dailyCount' = dailyCount + run'.consumed /\ run'.consumed \in Nat
                  /\ run'.used = run.used /\ dailyCount <= run.used
  BY <1>0
<1>3. ASSUME AnswerError, dailyCount' = dailyCount PROVE Kept
  BY <1>0, <1>3, Errs
<1>4. ASSUME NEW m \in Message, Begin(m) PROVE run'.used = NoCount
  BY <1>4 DEF Begin, Fresh
<1>5. ASSUME NEW o, CountToday(o)
      PROVE  Kept \/ (run'.used = dailyCount /\ run'.consumed = 0 /\ dailyCount' = dailyCount)
  <2>1. dailyCount' = dailyCount
    BY <1>5 DEF CountToday, storeVars
  <2>2. CASE ~Raised(o)
    <3>1. run.consumed = 0
      BY <1>0, <1>5 DEF CountToday, At, BaseInv, ShapeInv, Early
    <3> QED BY <1>0, <1>5, <2>1, <2>2, <3>1, Counts
  <2> QED BY <1>3, <1>5, <2>1, <2>2 DEF CountToday
<1>6. ASSUME NEW o, LookupRequest(o) PROVE Kept
  <2>1. AnswerError \/ Answer("duplicate") \/ Goto("claim")
    BY <1>6 DEF LookupRequest
  <2>2. dailyCount' = dailyCount
    BY <1>6 DEF LookupRequest, storeVars
  <2> QED BY <1>0, <1>3, <2>1, <2>2, Answers, Goes DEF Reply, Phase
<1>7. ASSUME NEW o, ClaimRequest(o) PROVE Kept
  <2>1. dailyCount' = dailyCount
    BY <1>7 DEF ClaimRequest
  <2>2. CASE ~Raised(o)
    BY <1>0, <1>7, <2>1, <2>2, Claims
  <2> QED BY <1>3, <1>7, <2>1, <2>2 DEF ClaimRequest
<1>8. ASSUME NEW o, ReadItems(o) PROVE Kept
  <2>1. dailyCount' = dailyCount
    BY <1>8 DEF ReadItems, storeVars
  <2>2. CASE ~Raised(o)
    BY <1>0, <1>8, <2>1, <2>2, Plans
  <2> QED BY <1>3, <1>8, <2>1, <2>2 DEF ReadItems
<1>9. ASSUME NEW o, RecordItems(o)
      PROVE  \/ Kept
             \/ /\ dailyCount' = dailyCount + run'.consumed /\ run'.consumed \in Nat
                /\ run'.used = run.used /\ dailyCount <= run.used
  <2>1. CASE Raised(o)
    <3>1. ~Landed(o) /\ AnswerError
      BY <1>9, <2>1 DEF RecordItems, AppendOutcome, Outcome, QuotaIsAnswered, Raised, Landed
    <3>2. dailyCount' = dailyCount
      BY <1>9, <3>1 DEF RecordItems
    <3> QED BY <1>3, <3>1, <3>2
  <2>2. CASE ~Raised(o)
    <3>1. Landed(o)
      BY <1>9, <2>2 DEF RecordItems, AppendOutcome, Outcome, Raised, Landed
    <3>2. IsFiniteSet(run.todo) /\ run.at = "recorditems"
      BY <1>0, <1>9, RunIs DEF RecordItems, At
    <3>3. run'.consumed = Cardinality(run.todo) /\ run'.used = run.used
      BY <1>0, <1>9, <2>2, <3>2, Records
    <3>4. dailyCount' = dailyCount + Cardinality(run.todo)
      BY <1>9, <3>1 DEF RecordItems
    <3>5. Cardinality(run.todo) \in Nat
      BY <3>2, FS_CardinalityType
    <3>6. dailyCount <= run.used
      BY <1>0, <3>2 DEF QuotaRun
    <3> QED BY <3>3, <3>4, <3>5, <3>6
  <2> QED BY <2>1, <2>2
<1>10. ASSUME NEW o, ClaimItems(o) PROVE Kept
  <2>1. dailyCount' = dailyCount
    BY <1>10 DEF ClaimItems
  <2>2. AnswerError \/ Goto("items")
    BY <1>10 DEF ClaimItems
  <2> QED BY <1>0, <1>3, <2>1, <2>2, Goes DEF Phase
<1>11. ASSUME NEW o, RefuseItem \/ ExecuteReadItem(o) \/ ExecuteWriteItem(o) PROVE Kept
  <2>1. /\ At("items") /\ run.todo # {} /\ dailyCount' = dailyCount
        /\ \E reply \in Reply, wrote \in BOOLEAN :
              Settle(Current, reply, wrote, IF wrote THEN "effect" ELSE "items")
    BY <1>11, ItemSteps
  <2>2. PICK reply \in Reply, wrote \in BOOLEAN, at \in {"items", "effect"} :
           (at = "effect" <=> wrote) /\ Settle(Current, reply, wrote, at)
    BY <2>1
  <2>3. run'.used = run.used /\ run'.consumed = run.consumed
    BY <1>0, <2>1, <2>2, SettleIs
  <2> QED BY <2>1, <2>3
<1>12. ASSUME NEW o, RecordItemEffect(o) PROVE Kept
  <2>1. dailyCount' = dailyCount /\ Goto("items")
    BY <1>12 DEF RecordItemEffect
  <2> QED BY <1>0, <2>1, Goes DEF Phase
<1>13. ASSUME Conclude PROVE Kept
  <2>1. dailyCount' = dailyCount
    BY <1>13 DEF Conclude, storeVars
  <2> QED BY <1>0, <1>13, <2>1, Concludes
<1>14. ASSUME NEW o, SendReply(o) PROVE Kept
  <2>1. dailyCount' = dailyCount
    BY <1>14 DEF SendReply, storeVars
  <2> QED BY <1>0, <1>14, <2>1, Sends
<1>15. ASSUME AppendAudits PROVE Kept
  <2>1. dailyCount' = dailyCount /\ Goto("finalize")
    BY <1>15 DEF AppendAudits, storeVars
  <2> QED BY <1>0, <2>1, Goes DEF Phase
<1>16. ASSUME NEW o, FinalizeStatuses(o) \/ Crash PROVE run'.used = NoCount
  BY <1>16 DEF FinalizeStatuses, Crash, Idle, Fresh
<1>17. ASSUME PassTime PROVE run' = run /\ dailyCount' <= dailyCount
  BY <1>0, <1>17 DEF PassTime, NewDay, GrowStale
<1>18. CASE UNCHANGED vars
  BY <1>18 DEF vars, storeVars
<1> QED BY <1>4, <1>5, <1>6, <1>7, <1>8, <1>9, <1>10, <1>11, <1>12, <1>13, <1>14, <1>15,
           <1>16, <1>17, <1>18 DEF Next

\* The remaining count of a reply that arrives was computed from a count
\* that covers every row of the sheet.
LEMMA SpentTold ==
    SpentInv /\ [Next]_vars =>
        [\A m \in Message : Told(m) => said'[m].remaining + dailyCount <= MaxRequestsPerDay]_vars
<1> SUFFICES ASSUME SpentInv, Next, NEW m \in Message, Told(m)
             PROVE  said'[m].remaining + dailyCount <= MaxRequestsPerDay
  BY DEF vars
<1>0. /\ BaseInv /\ WorldTyped /\ dailyCount \in Nat /\ MaxRequestsPerDay \in Nat
      /\ run.consumed \in Nat /\ run.used \in Nat \cup {NoCount} /\ dailyCount <= MaxRequestsPerDay
      /\ (run.used \in Nat => dailyCount <= run.used + run.consumed)
  BY Typed, MaxAssumption
     DEF SpentInv, QuotaInv, CapRespected, BaseInv, TypeInv, TypeOK, StoreTypeOK, RunState
<1>1. PICK o : SendReply(o)
  BY ItemSteps DEF Next, Told, Begin, CountToday, LookupRequest, ClaimRequest, ReadItems, RecordItems,
         ClaimItems, ExecuteReadItem, ExecuteWriteItem, RecordItemEffect, FinalizeStatuses,
         RefuseItem, Conclude, AppendAudits, Crash, PassTime, worldVars
<1>2. PICK remaining \in Remaining :
         LET reply == [outer |-> run.reply, remaining |-> remaining,
                       items |-> [i \in DOMAIN run.items |-> run.items[i].reply]]
         IN  said' = IF Landed(o) THEN [said EXCEPT ![run.msg] = reply] ELSE said
  BY <1>0, <1>1, SaidIs
<1>3. said'[m].remaining = remaining /\ remaining # NoCount
  BY <1>0, <1>2 DEF Told, WorldTyped
<1> QED BY <1>0, <1>2, <1>3 DEF Remaining

\* requests_remaining_today never promises more than the sheet will grant,
\* unless the answer to a quota append was lost: the append happened, but
\* the run, which answers with an error, does not know.
THEOREM RemainingCovered ==
    ASSUME QuotaIsAnswered
    PROVE  Spec => RemainingNotOverstated
<1>1. Init => SpentInv
  <2>1. Init => run.used = NoCount
    BY DEF Init, Idle, Fresh
  <2> QED BY <2>1, QuotaInit, BatchAssumption DEF SpentInv
<1>2. SpentInv /\ [Next]_vars => SpentInv'
  BY QuotaIsAnswered, SpentStep
<1> QED BY <1>1, <1>2, SpentTold, PTL DEF Spec, RemainingNotOverstated
-----------------------------------------------------------------------------
(* Which rows a step changes, and what the last rows of a run are.         *)

LEMMA GreatestNumber ==
    ASSUME NEW n \in Nat, NEW S, S \subseteq 1..n, S # {}
    PROVE  \E i \in S : \A j \in S : j <= i
<1> DEFINE T == {n - i : i \in S}
<1>1. T \subseteq Nat /\ T # {}
  <2>1. ASSUME NEW i \in S PROVE n - i \in Nat
    <3>1. i \in 1..n
      OBVIOUS
    <3> QED BY <3>1
  <2> QED BY <2>1
<1> HIDE DEF T
<1>2. PICK t \in T : \A k \in T : t <= k
  BY <1>1, LeastNumber
<1> USE DEF T
<1>3. PICK i \in S : t = n - i
  BY <1>2
<1>4. ASSUME NEW j \in S PROVE j <= i
  <2>1. n - j \in T /\ i \in 1..n /\ j \in 1..n
    OBVIOUS
  <2>2. n - i <= n - j
    BY <1>2, <1>3, <2>1
  <2> QED BY <2>1, <2>2
<1> QED BY <1>4

LEMMA WrittenIs ==
    ASSUME BaseInv, At("effect")
    PROVE  /\ Written \in Index(run.msg) /\ Written \in DOMAIN run.items
           /\ Started(Written) /\ run.items[Written].wrote
<1>1. PICK i \in DOMAIN run.items :
         run.items[i].wrote /\ Started(i) /\ \A j \in DOMAIN run.items : Started(j) => j <= i
  BY DEF BaseInv, ShapeInv
<1>2. run.msg \in Message /\ DOMAIN run.items = Index(run.msg)
  BY RunIs DEF At, Working
<1> DEFINE Last(n) == run.items[n].started /\ \A j \in Index(run.msg) : run.items[j].started => j <= n
<1>3. Last(i)
  BY <1>1, <1>2 DEF Started
<1>4. Written \in Index(run.msg) /\ Last(Written)
  BY <1>1, <1>2, <1>3 DEF Written
<1>5. Written = i
  <2>1. i \in Nat /\ Written \in Nat
    BY <1>1, <1>2, <1>4 DEF Index
  <2> QED BY <1>1, <1>2, <1>3, <1>4, <2>1
<1> QED BY <1>1, <1>2, <1>5

\* The items whose final row is for the id r.
Mine(r) == IF run.returned THEN {i \in Index(run.msg) : Started(i) /\ IdAt(run.msg, i) = r}
                           ELSE {}

LEMMA FinalRowIs ==
    ASSUME run.msg \in Message, NEW r
    PROVE  /\ Mine(r) # {} => \E i \in Mine(r) :
                 FinalRow(r) = [status |-> FinalRequestStatus(run.items[i].wrote, run.items[i].reply,
                                                              run.replied),
                                stale |-> FALSE]
           /\ Mine(r) = {} /\ run.started /\ r = OuterOf[run.msg] =>
                 FinalRow(r) = [status |-> FinalRequestStatus(FALSE, run.reply, run.replied),
                                stale |-> FALSE]
           /\ Mine(r) = {} /\ ~(run.started /\ r = OuterOf[run.msg]) =>
                 FinalRow(r) = requestStatus[r]
<1> DEFINE last == CHOOSE i \in Mine(r) : \A j \in Mine(r) : j <= i
<1>1. Mine(r) # {} => last \in Mine(r)
  <2>1. Mine(r) \subseteq 1..Len(ItemsOf[run.msg]) /\ Len(ItemsOf[run.msg]) \in Nat
    BY ItemsAre DEF Mine, Index
  <2>2. Mine(r) # {} => \E i \in Mine(r) : \A j \in Mine(r) : j <= i
    BY <2>1, GreatestNumber
  <2> QED BY <2>2
<1>2. FinalRow(r) =
         IF Mine(r) # {}
         THEN [status |-> FinalRequestStatus(run.items[last].wrote, run.items[last].reply,
                                             run.replied), stale |-> FALSE]
         ELSE IF run.started /\ r = OuterOf[run.msg]
         THEN [status |-> FinalRequestStatus(FALSE, run.reply, run.replied), stale |-> FALSE]
         ELSE requestStatus[r]
  BY DEF FinalRow, Mine, Started
<1> HIDE DEF last
<1> QED BY <1>1, <1>2

\* The row of an id after a step: the old one, or one of the rows that the
\* run appends in its present phase.
LEMMA RowsChange ==
    ASSUME BaseInv, [Next]_vars, NEW r \in RequestId
    PROVE  \/ requestStatus'[r].status = requestStatus[r].status
           \/ /\ At("claim") /\ r = OuterOf[run.msg]
              /\ requestStatus'[r].status = "processing"
           \/ /\ At("claimitems") /\ r \in TodoIds
              /\ requestStatus'[r].status = "processing"
           \/ /\ At("effect") /\ r = IdAt(run.msg, Written)
              /\ requestStatus'[r].status = "effect_done"
           \/ /\ At("finalize")
              /\ requestStatus'[r].status = FinalRow(r).status
<1>0. requestStatus \in [RequestId -> StatusRow]
  BY DEF BaseInv, TypeInv, TypeOK, StoreTypeOK
<1>1. CASE requestStatus' = requestStatus
  BY <1>1
<1>2. ASSUME NEW o, ClaimRequest(o)
      PROVE  \/ requestStatus'[r].status = requestStatus[r].status
             \/ /\ At("claim") /\ r = OuterOf[run.msg]
                /\ requestStatus'[r].status = "processing"
  BY <1>0, <1>2 DEF ClaimRequest, WithStatus
<1>3. ASSUME NEW o, ClaimItems(o)
      PROVE  \/ requestStatus'[r].status = requestStatus[r].status
             \/ /\ At("claimitems") /\ r \in TodoIds
                /\ requestStatus'[r].status = "processing"
  BY <1>0, <1>3 DEF ClaimItems, WithStatuses
<1>4. ASSUME NEW o, RecordItemEffect(o)
      PROVE  \/ requestStatus'[r].status = requestStatus[r].status
             \/ /\ At("effect") /\ r = IdAt(run.msg, Written)
                /\ requestStatus'[r].status = "effect_done"
  BY <1>0, <1>4 DEF RecordItemEffect, WithStatus
<1>5. ASSUME NEW o, FinalizeStatuses(o)
      PROVE  \/ requestStatus'[r].status = requestStatus[r].status
             \/ At("finalize") /\ requestStatus'[r].status = FinalRow(r).status
  BY <1>5 DEF FinalizeStatuses
<1>6. CASE PassTime
  <2>1. CASE NewDay
    BY <2>1 DEF NewDay
  <2>2. ASSUME NEW id \in RequestId, GrowStale(id)
        PROVE requestStatus'[r].status = requestStatus[r].status
    BY <1>0, <2>2 DEF GrowStale, StatusRow
  <2> QED BY <1>6, <2>1, <2>2 DEF PassTime
<1>7. ASSUME NEW o, RefuseItem \/ ExecuteReadItem(o) \/ ExecuteWriteItem(o)
      PROVE  requestStatus' = requestStatus
  BY <1>7, ItemSteps
<1>8. ASSUME NEW o,
             \/ \E m \in Message : Begin(m)
             \/ CountToday(o) \/ LookupRequest(o) \/ ReadItems(o) \/ RecordItems(o)
             \/ Conclude \/ SendReply(o) \/ AppendAudits \/ Crash
      PROVE  requestStatus' = requestStatus
  BY <1>8 DEF Begin, CountToday, LookupRequest, ReadItems, RecordItems, Conclude, SendReply,
              AppendAudits, Crash, storeVars
<1>9. CASE UNCHANGED vars
  BY <1>9 DEF vars, storeVars
<1> QED BY <1>1, <1>2, <1>3, <1>4, <1>5, <1>6, <1>7, <1>8, <1>9 DEF Next

\* Nothing that was recorded is ever taken back.
LEMMA RecordsGrow ==
    ASSUME [Next]_vars
    PROVE  charged \subseteq charged' /\ ran \subseteq ran' /\ audits \subseteq audits'
<1>1. ASSUME NEW o, RefuseItem \/ ExecuteReadItem(o) \/ ExecuteWriteItem(o)
      PROVE  charged' = charged /\ ran \subseteq ran' /\ audits' = audits
  BY <1>1, ItemSteps
<1>2. ASSUME NEW o,
             \/ \E m \in Message : Begin(m)
             \/ CountToday(o) \/ LookupRequest(o) \/ ClaimRequest(o) \/ ReadItems(o)
             \/ ClaimItems(o) \/ RecordItemEffect(o) \/ Conclude \/ FinalizeStatuses(o)
             \/ Crash \/ PassTime
      PROVE  charged' = charged /\ ran' = ran /\ audits' = audits
  BY <1>2 DEF Begin, CountToday, LookupRequest, ClaimRequest, ReadItems, ClaimItems,
              RecordItemEffect, Conclude, FinalizeStatuses, Crash, PassTime, worldVars
<1>3. ASSUME NEW o, RecordItems(o) \/ SendReply(o) \/ AppendAudits
      PROVE  charged \subseteq charged' /\ ran' = ran /\ audits \subseteq audits'
  BY <1>3 DEF RecordItems, SendReply, AppendAudits
<1>4. CASE UNCHANGED vars
  BY <1>4 DEF vars, worldVars
<1> QED BY <1>1, <1>2, <1>3, <1>4 DEF Next
-----------------------------------------------------------------------------
(* The ledger: quota rows and audit records.                               *)

\* A run that has settled no item and is not about to.
LEMMA LedgerStart ==
    ASSUME LedgerRun, charged' = charged, ran' = ran,
           run'.items = <<>>, run'.at \notin {"claimitems", "items", "effect", "finalize"}
    PROVE  LedgerRun'
BY NoItems DEF LedgerRun, At

LEMMA LedgerStepPlan ==
    ASSUME LedgerInv, NEW o, ReadItems(o) \/ RecordItems(o) \/ ClaimItems(o)
    PROVE  LedgerRun'
<1>0. BaseInv /\ TypeOK /\ LedgerRun /\ ShapeInv /\ ran' = ran /\ charged \subseteq charged'
      /\ IsFiniteSet(run.todo)
  <2>1. ~At("idle")
    BY DEF ReadItems, RecordItems, ClaimItems, At
  <2>2. BaseInv /\ TypeOK /\ LedgerRun /\ ShapeInv
    BY DEF LedgerInv, BaseInv, TypeInv
  <2> QED BY <2>1, <2>2, RunIs DEF ReadItems, RecordItems, ClaimItems, worldVars
<1>1. CASE AnswerError
  <2>1. run'.items = <<>> /\ run'.at = "send"
    BY <1>0, <1>1, Errs
  <2> QED BY <1>0, <2>1, NoItems DEF LedgerRun, At
<1>2. CASE ReadItems(o) /\ ~Raised(o)
  <2>1. /\ run'.at = "recorditems" /\ DOMAIN run'.items = Index(run.msg)
        /\ \A i \in Index(run.msg) : ~run'.items[i].started
    BY <1>0, <1>2, Plans
  <2> QED BY <1>0, <2>1 DEF LedgerRun, At, Started
<1>3. CASE RecordItems(o) /\ ~Raised(o)
  <2>1. /\ run'.at = "claimitems" /\ run'.msg = run.msg
        /\ run'.todo = run.todo /\ run'.items = run.items
    BY <1>0, <1>3, Records
  <2>2. Landed(o)
    BY <1>3 DEF RecordItems, AppendOutcome, Outcome, Raised, Landed
  <2>3. charged' = charged \cup ({run.msg} \X run.todo)
    BY <1>3, <2>2 DEF RecordItems
  <2> QED BY <1>0, <2>1, <2>3 DEF LedgerRun, At, Started
<1>4. CASE ClaimItems(o) /\ ~Raised(o)
  <2>1. Goto("items") /\ run.at = "claimitems" /\ charged' = charged
    BY <1>4 DEF ClaimItems, At, worldVars
  <2>2. /\ run'.at = "items" /\ run'.msg = run.msg
        /\ run'.todo = run.todo /\ run'.items = run.items
    BY <1>0, <2>1, Goes DEF Phase
  <2> QED BY <1>0, <2>1, <2>2 DEF LedgerRun, At, Started
<1>5. AnswerError \/ ~Raised(o)
  BY DEF ReadItems, RecordItems, ClaimItems
<1> QED BY <1>1, <1>2, <1>3, <1>4, <1>5

LEMMA LedgerStepItems ==
    ASSUME LedgerInv, NEW o,
           \/ RefuseItem \/ ExecuteReadItem(o) \/ ExecuteWriteItem(o)
           \/ RecordItemEffect(o) \/ Conclude
    PROVE  LedgerRun'
<1>0. BaseInv /\ TypeOK /\ LedgerRun
  BY DEF LedgerInv, BaseInv, TypeInv
<1>1. CASE RefuseItem \/ ExecuteReadItem(o) \/ ExecuteWriteItem(o)
  <2>1. /\ At("items") /\ run.todo # {} /\ charged' = charged /\ audits' = audits
        /\ ran' = ran \cup {<<run.msg, Current>>}
        /\ \E reply \in Reply, wrote \in BOOLEAN :
              Settle(Current, reply, wrote, IF wrote THEN "effect" ELSE "items")
    BY <1>1, ItemSteps
  <2>2. PICK reply \in Reply, wrote \in BOOLEAN, at \in {"items", "effect"} :
           (at = "effect" <=> wrote) /\ Settle(Current, reply, wrote, at)
    BY <2>1
  <2>3. /\ run'.at = at /\ run'.msg = run.msg /\ run'.todo = run.todo \ {Current}
        /\ DOMAIN run'.items = Index(run.msg)
        /\ \A j \in Index(run.msg) : j # Current => run'.items[j] = run.items[j]
    BY <1>0, <2>1, <2>2, SettleIs
  <2>4. Current \in run.todo /\ DOMAIN run.items = Index(run.msg)
    BY <1>0, <2>1, ItemIs
  <2>5. <<run.msg, Current>> \in charged
    BY <1>0, <2>1, <2>4 DEF LedgerRun, At
  <2>6. \A i \in DOMAIN run'.items : run'.items[i].started => <<run.msg, i>> \in ran'
    BY <1>0, <2>1, <2>3, <2>4 DEF LedgerRun, Started
  <2> QED BY <1>0, <2>1, <2>3, <2>5, <2>6 DEF LedgerRun, At, Started
<1>2. CASE RecordItemEffect(o)
  <2>1. Goto("items") /\ run.at = "effect" /\ charged' = charged /\ ran' = ran
    BY <1>2 DEF RecordItemEffect, At, worldVars
  <2>2. /\ run'.at = "items" /\ run'.msg = run.msg
        /\ run'.todo = run.todo /\ run'.items = run.items
    BY <1>0, <2>1, Goes DEF Phase
  <2> QED BY <1>0, <2>1, <2>2 DEF LedgerRun, At, Started
<1>3. CASE Conclude
  <2>1. /\ run'.at = "send" /\ run'.msg = run.msg /\ run'.items = run.items
        /\ charged' = charged /\ ran' = ran
    BY <1>0, <1>3, Concludes DEF Conclude, worldVars
  <2> QED BY <1>0, <2>1 DEF LedgerRun, At, Started
<1> QED BY <1>1, <1>2, <1>3

LEMMA LedgerStepReply ==
    ASSUME LedgerInv, NEW o, SendReply(o) \/ AppendAudits \/ FinalizeStatuses(o)
    PROVE  LedgerRun'
<1>0. BaseInv /\ TypeOK /\ LedgerRun
  BY DEF LedgerInv, BaseInv, TypeInv
<1>1. charged' = charged /\ ran' = ran
  BY DEF SendReply, AppendAudits, FinalizeStatuses, worldVars
<1>2. CASE SendReply(o)
  <2>1. run'.at = "audit" /\ run'.msg = run.msg /\ run'.items = run.items
    BY <1>0, <1>2, Sends
  <2> QED BY <1>0, <1>1, <2>1 DEF LedgerRun, At, Started
<1>3. CASE AppendAudits
  <2>1. /\ Goto("finalize")
        /\ audits' = audits \cup ({run.msg} \X ({0} \cup (IF run.returned THEN Index(run.msg) ELSE {})))
    BY <1>3 DEF AppendAudits
  <2>2. /\ run'.at = "finalize" /\ run'.msg = run.msg /\ run'.items = run.items
        /\ run'.returned = run.returned
    BY <1>0, <2>1, Goes DEF Phase
  <2>3. /\ <<run.msg, 0>> \in audits'
        /\ run.returned => \A i \in Index(run.msg) : <<run.msg, i>> \in audits'
    BY <2>1
  <2> QED BY <1>0, <1>1, <2>2, <2>3 DEF LedgerRun, At, Started
<1>4. CASE FinalizeStatuses(o)
  <2>1. run'.at = "idle" /\ run'.items = <<>>
    BY <1>4 DEF FinalizeStatuses, Idle, Fresh
  <2> QED BY <1>0, <1>1, <2>1, LedgerStart
<1> QED BY <1>2, <1>3, <1>4

\* The records of a run are appended before its rows, each under the very
\* item whose status the row carries.
LEMMA AuditStep ==
    ASSUME LedgerInv, [Next]_vars
    PROVE  AuditBeforeCompleted'
<1> SUFFICES ASSUME NEW r \in RequestId, requestStatus'[r].status = "completed"
             PROVE  \E m \in Message :
                       \/ OuterOf[m] = r /\ <<m, 0>> \in audits'
                       \/ \E i \in Index(m) : IdAt(m, i) = r /\ <<m, i>> \in ran' /\ <<m, i>> \in audits'
  BY DEF AuditBeforeCompleted
<1>0. BaseInv /\ LedgerRun
  BY DEF LedgerInv
<1>1. ran \subseteq ran' /\ audits \subseteq audits'
  BY RecordsGrow
<1>2. CASE requestStatus[r].status = "completed"
  BY <1>1, <1>2 DEF LedgerInv, AuditBeforeCompleted
<1>3. CASE requestStatus[r].status # "completed"
  <2>1. At("finalize") /\ FinalRow(r).status = "completed"
    BY <1>0, <1>3, RowsChange
  <2>2. /\ run.msg \in Message /\ <<run.msg, 0>> \in audits
        /\ run.returned => \A i \in Index(run.msg) : <<run.msg, i>> \in audits
    <3>1. ~At("idle")
      BY <2>1 DEF At
    <3> QED BY <1>0, <2>1, <3>1, RunIs DEF LedgerRun
  <2>3. CASE Mine(r) # {}
    <3>1. PICK i \in Mine(r) : TRUE
      BY <2>3
    <3>2. run.returned /\ i \in Index(run.msg) /\ Started(i) /\ IdAt(run.msg, i) = r
      BY <3>1 DEF Mine
    <3>3. i \in DOMAIN run.items
      <4>1. ~At("idle")
        BY <2>1 DEF At
      <4> QED BY <1>0, <3>2, <4>1, RunIs
    <3>4. <<run.msg, i>> \in ran
      BY <1>0, <3>2, <3>3 DEF LedgerRun
    <3> QED BY <1>1, <2>2, <3>2, <3>4
  <2>4. CASE Mine(r) = {}
    <3>1. r = OuterOf[run.msg]
      BY <1>3, <2>1, <2>2, <2>4, FinalRowIs
    <3> QED BY <1>1, <2>2, <3>1
  <2> QED BY <2>3, <2>4
<1> QED BY <1>2, <1>3

LEMMA LedgerStep == LedgerInv /\ [Next]_vars => LedgerInv'
<1> SUFFICES ASSUME LedgerInv, [Next]_vars PROVE LedgerInv'
  OBVIOUS
<1>0. BaseInv /\ TypeOK /\ LedgerRun /\ BaseInv' /\ AuditBeforeCompleted'
  BY BaseStep, AuditStep DEF LedgerInv, BaseInv, TypeInv
<1>1. SUFFICES LedgerRun'
  BY <1>0 DEF LedgerInv
<1>2. CASE UNCHANGED vars
  BY <1>0, <1>2 DEF vars, worldVars, LedgerRun, At, Started
<1>3. CASE Crash
  <2>1. run'.at = "idle" /\ run'.items = <<>> /\ charged' = charged /\ ran' = ran
    BY <1>3 DEF Crash, Idle, Fresh, worldVars
  <2> QED BY <1>0, <2>1, LedgerStart
<1>4. CASE PassTime
  <2>1. UNCHANGED <<run, worldVars>>
    BY <1>4 DEF PassTime
  <2> QED BY <1>0, <2>1 DEF worldVars, LedgerRun, At, Started
<1>5. ASSUME NEW m \in Message, Begin(m) PROVE LedgerRun'
  <2>1. run'.at = "count" /\ run'.items = <<>> /\ charged' = charged /\ ran' = ran
    BY <1>5 DEF Begin, Fresh, worldVars
  <2> QED BY <1>0, <2>1, LedgerStart
<1>6. ASSUME NEW o, CountToday(o) \/ LookupRequest(o) \/ ClaimRequest(o) PROVE LedgerRun'
  <2>1. charged' = charged /\ ran' = ran
    BY <1>6 DEF CountToday, LookupRequest, ClaimRequest, worldVars
  <2>2. run.items = <<>>
    BY <1>0, <1>6 DEF CountToday, LookupRequest, ClaimRequest, At, BaseInv, ShapeInv, Early
  <2>3. run'.items = <<>> /\ run'.at \in {"send", "lookup", "claim", "readitems"}
    <3>1. CASE AnswerError
      BY <1>0, <3>1, Errs
    <3>2. CASE CountToday(o) /\ ~Raised(o)
      BY <1>0, <2>2, <3>2, Counts
    <3>3. CASE LookupRequest(o) /\ ~Raised(o)
      <4>1. Answer("duplicate") \/ Goto("claim")
        BY <3>3 DEF LookupRequest
      <4> QED BY <1>0, <2>2, <4>1, Answers, Goes DEF Reply, Phase
    <3>4. CASE ClaimRequest(o) /\ ~Raised(o)
      BY <1>0, <2>2, <3>4, Claims
    <3> QED BY <1>6, <3>1, <3>2, <3>3, <3>4 DEF CountToday, LookupRequest, ClaimRequest
  <2> QED BY <1>0, <2>1, <2>3, LedgerStart
<1> QED BY <1>2, <1>3, <1>4, <1>5, <1>6, LedgerStepPlan, LedgerStepItems, LedgerStepReply DEF Next

LEMMA LedgerInit == Init => LedgerInv
<1> SUFFICES ASSUME Init PROVE LedgerInv
  OBVIOUS
<1>1. LedgerRun
  BY NoItems DEF Init, LedgerRun, Idle, Fresh, At
<1>2. AuditBeforeCompleted
  BY DEF Init, StoreInit, AuditBeforeCompleted
<1> QED BY <1>1, <1>2, BaseInit DEF LedgerInv

LEMMA LedgerHolds == Spec => []LedgerInv
BY LedgerInit, LedgerStep, PTL DEF Spec

\* An id that is `completed` has its own audit record, whatever calls fail
\* and wherever the process dies.
THEOREM AuditedBeforeCompleted == Spec => []AuditBeforeCompleted
<1>1. LedgerInv => AuditBeforeCompleted
  BY DEF LedgerInv
<1> QED BY <1>1, LedgerHolds, PTL

\* Item ids are claimed only after their quota rows are there.
LEMMA ClaimedStep ==
    OuterIdsApart /\ LedgerInv /\ ClaimedIsCharged /\ [Next]_vars => ClaimedIsCharged'
<1> SUFFICES ASSUME OuterIdsApart, LedgerInv, ClaimedIsCharged, [Next]_vars,
                    NEW k \in ItemKey, requestStatus'[IdOfKey(k)].status # "absent"
             PROVE  \E l \in charged' : IdOfKey(l) = IdOfKey(k)
  <2>1. LedgerInv /\ [Next]_vars => ran' \subseteq charged'
    BY LedgerStep DEF LedgerInv, LedgerRun
  <2> QED BY <2>1 DEF ClaimedIsCharged
<1> DEFINE r == IdOfKey(k)
<1>0. BaseInv /\ LedgerRun /\ charged \subseteq charged'
  BY RecordsGrow DEF LedgerInv
<1>1. /\ k[1] \in Message /\ k[2] \in Index(k[1]) /\ r = IdAt(k[1], k[2]) /\ r \in RequestId
  BY KeyIs, ItemsAre DEF IdOfKey
<1>2. ASSUME NEW i, <<run.msg, i>> \in charged, IdAt(run.msg, i) = r
      PROVE  \E l \in charged' : IdOfKey(l) = r
  BY <1>0, <1>2 DEF IdOfKey
<1>3. ASSUME NEW i \in DOMAIN run.items, Started(i), IdAt(run.msg, i) = r
      PROVE  \E l \in charged' : IdOfKey(l) = r
  BY <1>0, <1>2, <1>3 DEF LedgerRun
<1>4. run.msg \in Message => r # OuterOf[run.msg]
  BY <1>1 DEF OuterIdsApart
<1>5. ~At("idle") => run.msg \in Message
  BY <1>0, RunIs
<1>6. CASE requestStatus[r].status # "absent"
  BY <1>0, <1>6 DEF ClaimedIsCharged
<1>7. CASE At("claim") /\ r = OuterOf[run.msg]
  BY <1>4, <1>5, <1>7 DEF At
<1>8. CASE At("claimitems") /\ r \in TodoIds
  <2>1. PICK i \in run.todo : IdAt(run.msg, i) = r
    BY <1>8 DEF TodoIds
  <2>2. <<run.msg, i>> \in charged
    BY <1>0, <1>8 DEF LedgerRun, At
  <2> QED BY <1>2, <2>1, <2>2
<1>9. CASE At("effect") /\ r = IdAt(run.msg, Written)
  BY <1>0, <1>3, <1>9, WrittenIs
<1>10. CASE At("finalize") /\ FinalRow(r).status # "absent" /\ requestStatus[r].status = "absent"
  <2>1. Mine(r) # {}
    BY <1>4, <1>5, <1>10, FinalRowIs DEF At
  <2>2. PICK i \in Mine(r) : TRUE
    BY <2>1
  <2>3. run.returned /\ i \in Index(run.msg) /\ Started(i) /\ IdAt(run.msg, i) = r
    BY <2>2 DEF Mine
  <2>4. i \in DOMAIN run.items
    BY <1>0, <1>10, <2>3, RunIs DEF At
  <2> QED BY <1>3, <2>3, <2>4
<1> QED BY <1>0, <1>1, <1>6, <1>7, <1>8, <1>9, <1>10, RowsChange

\* No item runs without a quota slot of its own, and no item id is claimed
\* that has not been paid for, however the appends fail.
THEOREM ClaimsArePaid ==
    ASSUME OuterIdsApart
    PROVE  Spec => []ClaimedIsCharged
<1>1. Init => ClaimedIsCharged
  <2>1. \A k \in ItemKey : IdOfKey(k) \in RequestId
    BY KeyIs, ItemsAre DEF IdOfKey
  <2> QED BY <2>1 DEF Init, StoreInit, ClaimedIsCharged
<1>2. LedgerInv /\ ClaimedIsCharged /\ [Next]_vars => ClaimedIsCharged'
  BY OuterIdsApart, ClaimedStep
<1> QED BY <1>1, <1>2, LedgerHolds, PTL DEF Spec
-----------------------------------------------------------------------------
(* What the reply says of the items.                                       *)

\* Most steps leave what was done and what was said alone; the items they
\* make or drop have not written.
LEMMA WorkKept ==
    ASSUME WorkInv, UNCHANGED <<messages, effects, said>>, run.msg \in Message, run'.msg = run.msg,
           \/ run'.items = run.items
           \/ /\ \A i \in DOMAIN run.items : ~run.items[i].wrote
              /\ \A i \in DOMAIN run'.items :
                    ~run'.items[i].wrote /\ run'.items[i].reply # "completed",
           run'.at \in {"idle", "audit", "finalize"} \/ run.at \notin {"idle", "audit", "finalize"}
    PROVE  WorkRun' /\ HonestItems'
<1>0. run.msg # NoMessage /\ \A k : Wrote(k)' <=> Wrote(k)
  BY BatchAssumption DEF Wrote
<1>1. HonestItems'
  BY <1>0 DEF WorkInv, HonestItems
<1>2. \A i \in Index(run.msg) :
         Wrote(<<run.msg, i>>) <=> i \in DOMAIN run'.items /\ run'.items[i].wrote
  BY <1>0 DEF WorkInv, WorkRun
<1>3. \A i \in DOMAIN run'.items : ItemsOf[run.msg][i].write =>
         (run'.items[i].wrote <=> run'.items[i].reply = "completed")
  BY DEF WorkInv, WorkRun
<1>4. \A m \in Message : m \notin messages =>
         said[m] = NoReply /\ \A i \in Index(m) : ~Wrote(<<m, i>>)
  BY DEF WorkInv, WorkRun
<1> HIDE DEF Wrote
<1>5. WorkRun'
  BY <1>0, <1>2, <1>3, <1>4 DEF WorkInv, WorkRun
<1> QED BY <1>1, <1>5

\* A run that has ended, or was cut off.
LEMMA WorkIdle ==
    ASSUME WorkInv, UNCHANGED <<messages, effects, said>>, run' = Idle
    PROVE  WorkRun' /\ HonestItems'
<1>0. \A k : Wrote(k)' <=> Wrote(k)
  BY DEF Wrote
<1>1. run'.at = "idle" /\ run'.msg = NoMessage /\ DOMAIN run'.items = {}
  BY NoItems DEF Idle, Fresh
<1> HIDE DEF Wrote
<1> QED BY <1>0, <1>1 DEF WorkInv, WorkRun, HonestItems

LEMMA WorkStepPlan ==
    ASSUME WorkInv, NEW o,
           \/ CountToday(o) \/ LookupRequest(o) \/ ClaimRequest(o)
           \/ ReadItems(o) \/ RecordItems(o) \/ ClaimItems(o)
    PROVE  WorkRun' /\ HonestItems'
<1>0. /\ BaseInv /\ TypeOK /\ ShapeInv /\ UNCHANGED <<messages, effects, said>>
      /\ run.at \in {"count", "lookup", "claim", "readitems", "recorditems", "claimitems"}
  BY DEF WorkInv, BaseInv, TypeInv, CountToday, LookupRequest, ClaimRequest, ReadItems,
         RecordItems, ClaimItems, At, storeVars, worldVars
<1>1. run.msg \in Message /\ IsFiniteSet(run.todo) /\ \A i \in DOMAIN run.items : ~run.items[i].wrote
  <2>1. ~At("idle") /\ (Early \/ Planned)
    BY <1>0 DEF At, Early, Planned
  <2>2. \A i \in DOMAIN run.items : ~run.items[i].wrote
    BY <1>0, <2>1, NoItems DEF ShapeInv
  <2> QED BY <1>0, <2>1, <2>2, RunIs
<1>2. SUFFICES
         /\ run'.msg = run.msg
         /\ \/ run'.items = run.items
            \/ \A i \in DOMAIN run'.items :
                  ~run'.items[i].wrote /\ run'.items[i].reply # "completed"
  BY <1>0, <1>1, WorkKept
<1>3. CASE AnswerError
  BY <1>0, <1>3, Errs, NoItems
<1>4. CASE CountToday(o) /\ ~Raised(o)
  BY <1>0, <1>4, Counts
<1>5. CASE LookupRequest(o) /\ ~Raised(o)
  <2>1. Answer("duplicate") \/ Goto("claim")
    BY <1>5 DEF LookupRequest
  <2> QED BY <1>0, <2>1, Answers, Goes DEF Reply, Phase
<1>6. CASE ClaimRequest(o) /\ ~Raised(o)
  BY <1>0, <1>6, Claims
<1>7. CASE ReadItems(o) /\ ~Raised(o)
  <2>1. /\ run'.msg = run.msg /\ DOMAIN run'.items = Index(run.msg)
        /\ \A i \in Index(run.msg) :
              ~run'.items[i].wrote /\ run'.items[i].reply \in {"error", "duplicate", "rate_limited"}
    BY <1>0, <1>7, Plans
  <2> QED BY <2>1
<1>8. CASE RecordItems(o) /\ ~Raised(o)
  BY <1>0, <1>1, <1>8, Records
<1>9. CASE ClaimItems(o) /\ ~Raised(o)
  <2>1. Goto("items")
    BY <1>9 DEF ClaimItems
  <2> QED BY <1>0, <2>1, Goes DEF Phase
<1>10. AnswerError \/ ~Raised(o)
  BY DEF CountToday, LookupRequest, ClaimRequest, ReadItems, RecordItems, ClaimItems
<1> QED BY <1>3, <1>4, <1>5, <1>6, <1>7, <1>8, <1>9, <1>10

LEMMA WorkStepItem ==
    ASSUME WritesAreAnswered, WorkInv, NEW o,
           RefuseItem \/ ExecuteReadItem(o) \/ ExecuteWriteItem(o)
    PROVE  WorkRun' /\ HonestItems'
<1> DEFINE key == <<run.msg, Current>>
<1>0. BaseInv /\ WorkRun /\ HonestItems /\ effects \in [ItemKey -> Nat]
  BY DEF WorkInv, BaseInv, TypeInv, TypeOK
<1>1. PICK reply \in Reply, wrote \in BOOLEAN :
         /\ Settle(Current, reply, wrote, IF wrote THEN "effect" ELSE "items")
         /\ ItemsOf[run.msg][Current].write => (wrote <=> reply = "completed")
         /\ \/ wrote /\ effects' = [effects EXCEPT ![key] = @ + 1]
            \/ ~wrote /\ effects' = effects
  BY ItemSteps
<1>2. At("items") /\ run.todo # {} /\ messages' = messages /\ said' = said
  BY ItemSteps
<1>3. /\ run.msg \in Message /\ Current \in Index(run.msg) /\ key \in ItemKey
      /\ DOMAIN run.items = Index(run.msg) /\ ~run.items[Current].wrote
  BY <1>0, <1>2, ItemIs
<1>4. PICK at \in {"items", "effect"} : (at = "effect" <=> wrote) /\ Settle(Current, reply, wrote, at)
  BY <1>1
<1>5. /\ run'.at = at /\ run'.msg = run.msg /\ DOMAIN run'.items = Index(run.msg)
      /\ run'.items[Current] = [reply |-> reply, started |-> TRUE, wrote |-> wrote]
      /\ \A j \in Index(run.msg) : j # Current => run'.items[j] = run.items[j]
  BY <1>0, <1>2, <1>4, SettleIs
<1>6. run.msg # NoMessage /\ run.msg \in messages /\ said[run.msg] = NoReply
  BY <1>0, <1>2, <1>3, BatchAssumption DEF WorkRun, At
<1>7. ASSUME NEW k \in ItemKey PROVE Wrote(k)' <=> Wrote(k) \/ (k = key /\ wrote)
  BY <1>0, <1>1, <1>3 DEF Wrote
<1>8. ASSUME NEW m \in Message, NEW i \in Index(m), m # run.msg
      PROVE  Wrote(<<m, i>>)' <=> Wrote(<<m, i>>)
  <2>1. <<m, i>> \in ItemKey /\ <<m, i>> # key
    BY <1>8, KeyIs
  <2> QED BY <1>7, <2>1
<1>9. ASSUME NEW i \in Index(run.msg) PROVE Wrote(<<run.msg, i>>)' <=> run'.items[i].wrote
  <2>1. <<run.msg, i>> \in ItemKey /\ (<<run.msg, i>> = key <=> i = Current)
    BY <1>3, KeyIs
  <2>2. Wrote(<<run.msg, i>>) <=> run.items[i].wrote
    BY <1>0, <1>3, <1>6 DEF WorkRun
  <2>3. CASE i = Current
    BY <1>3, <1>5, <1>7, <2>1, <2>2, <2>3
  <2>4. CASE i # Current
    BY <1>5, <1>7, <2>1, <2>2, <2>4
  <2> QED BY <2>3, <2>4
<1>10. HonestItems'
  <2> SUFFICES ASSUME NEW m \in Message, said[m] # NoReply, NEW i \in Index(m),
                      ItemsOf[m][i].write
               PROVE  Wrote(<<m, i>>)' <=> said[m].items # <<>> /\ said[m].items[i] = "completed"
    BY <1>2 DEF HonestItems
  <2>1. m # run.msg
    BY <1>6
  <2> QED BY <1>0, <1>8, <2>1 DEF HonestItems
<1>11. WorkRun'
  <2>1. \A i \in DOMAIN run'.items : ItemsOf[run.msg][i].write =>
           (run'.items[i].wrote <=> run'.items[i].reply = "completed")
    BY <1>0, <1>1, <1>3, <1>5 DEF WorkRun
  <2>2. \A m \in Message : m \notin messages =>
           said[m] = NoReply /\ \A i \in Index(m) : ~Wrote(<<m, i>>)'
    BY <1>0, <1>6, <1>8 DEF WorkRun
  <2> QED BY <1>2, <1>5, <1>6, <1>9, <2>1, <2>2 DEF WorkRun
<1> QED BY <1>10, <1>11

LEMMA WorkStepSend ==
    ASSUME WorkInv, NEW o, SendReply(o)
    PROVE  WorkRun' /\ HonestItems'
<1>0. /\ BaseInv /\ TypeOK /\ WorkRun /\ HonestItems /\ WorldTyped /\ ShapeInv
      /\ run.at = "send" /\ ~At("idle") /\ Ending
  BY Typed DEF WorkInv, BaseInv, TypeInv, SendReply, At, Ending
<1>1. /\ run'.at = "audit" /\ run'.msg = run.msg /\ run'.items = run.items
  BY <1>0, Sends
<1>2. UNCHANGED <<messages, effects>> /\ \A k : Wrote(k)' <=> Wrote(k)
  BY DEF SendReply, storeVars, Wrote
<1>3. run.msg \in Message /\ run.msg # NoMessage /\ run.msg \in messages
  BY <1>0, RunIs, BatchAssumption DEF WorkRun
<1> DEFINE items == [i \in DOMAIN run.items |-> run.items[i].reply]
<1>4. PICK remaining :
         said' = IF Landed(o)
                 THEN [said EXCEPT ![run.msg] = [outer |-> run.reply, remaining |-> remaining,
                                                 items |-> items]]
                 ELSE said
  BY <1>0, SaidIs
<1>5. ASSUME NEW i \in Index(run.msg), ItemsOf[run.msg][i].write
      PROVE  Wrote(<<run.msg, i>>) <=> items # <<>> /\ items[i] = "completed"
  <2>1. Wrote(<<run.msg, i>>) <=> i \in DOMAIN run.items /\ run.items[i].wrote
    BY <1>0, <1>3 DEF WorkRun
  <2>2. CASE run.returned
    <3>1. i \in DOMAIN run.items
      BY <1>0, <2>2, RunIs
    <3>2. items # <<>> /\ items[i] = run.items[i].reply
      <4>1. DOMAIN items # DOMAIN <<>>
        BY <3>1, NoItems
      <4> QED BY <3>1, <4>1
    <3> QED BY <1>0, <1>5, <2>1, <3>1, <3>2 DEF WorkRun
  <2>3. CASE ~run.returned
    <3>1. DOMAIN run.items = {} /\ run.items = <<>>
      BY <1>0, <2>3, NoItems DEF ShapeInv
    <3>2. items = <<>>
      BY <3>1
    <3> QED BY <2>1, <3>1, <3>2
  <2> QED BY <2>2, <2>3
<1> HIDE DEF items, Wrote
<1>6. ASSUME NEW m \in Message, said'[m] # said[m]
      PROVE  m = run.msg /\ said'[m].items = items
  BY <1>0, <1>4, <1>6 DEF WorldTyped
<1>7. HonestItems'
  <2> SUFFICES ASSUME NEW m \in Message, said'[m] # NoReply, NEW i \in Index(m),
                      ItemsOf[m][i].write
               PROVE  Wrote(<<m, i>>) <=> said'[m].items # <<>> /\ said'[m].items[i] = "completed"
    BY <1>2 DEF HonestItems
  <2>1. CASE said'[m] = said[m]
    BY <1>0, <2>1 DEF HonestItems
  <2>2. CASE said'[m] # said[m]
    BY <1>5, <1>6, <2>2
  <2> QED BY <2>1, <2>2
<1>8. WorkRun'
  <2>1. \A m \in Message : m \notin messages =>
           said'[m] = NoReply /\ \A i \in Index(m) : ~Wrote(<<m, i>>)
    BY <1>0, <1>3, <1>6 DEF WorkRun
  <2> QED BY <1>0, <1>1, <1>2, <1>3, <2>1 DEF WorkRun
<1> QED BY <1>7, <1>8

LEMMA WorkStep == WritesAreAnswered /\ WorkInv /\ [Next]_vars => WorkInv'
<1> SUFFICES ASSUME WritesAreAnswered, WorkInv, [Next]_vars PROVE WorkInv'
  OBVIOUS
<1>0. BaseInv /\ TypeOK /\ WorkRun /\ HonestItems /\ BaseInv'
  BY BaseStep DEF WorkInv, BaseInv, TypeInv
<1>1. SUFFICES WorkRun' /\ HonestItems'
  BY <1>0 DEF WorkInv
<1>2. CASE UNCHANGED vars
  BY <1>0, <1>2 DEF vars, storeVars, worldVars, WorkRun, HonestItems, Wrote
<1>3. CASE PassTime
  <2>1. UNCHANGED <<run, worldVars, messages>>
    BY <1>3 DEF PassTime, NewDay, GrowStale
  <2> QED BY <1>0, <2>1 DEF worldVars, WorkRun, HonestItems, Wrote
<1>4. ASSUME NEW o, Crash \/ FinalizeStatuses(o) PROVE WorkRun' /\ HonestItems'
  BY <1>4, WorkIdle DEF Crash, FinalizeStatuses, storeVars, worldVars
<1>5. ASSUME NEW m \in Message, Begin(m) PROVE WorkRun' /\ HonestItems'
  <2>1. /\ m \notin messages /\ messages' = messages \cup {m} /\ UNCHANGED <<effects, said>>
        /\ run'.at = "count" /\ run'.msg = m /\ DOMAIN run'.items = {}
    BY <1>5, NoItems DEF Begin, Fresh, worldVars
  <2>2. \A k : Wrote(k)' <=> Wrote(k)
    BY <2>1 DEF Wrote
  <2> HIDE DEF Wrote
  <2>3. HonestItems'
    BY <1>0, <2>1, <2>2 DEF HonestItems
  <2>4. WorkRun'
    BY <1>0, <2>1, <2>2 DEF WorkRun
  <2> QED BY <2>3, <2>4
<1>6. ASSUME NEW o, RecordItemEffect(o) \/ Conclude \/ AppendAudits
      PROVE  WorkRun' /\ HonestItems'
  <2>1. /\ UNCHANGED <<messages, effects, said>> /\ run.at \in {"effect", "items", "audit"}
    BY <1>6 DEF RecordItemEffect, Conclude, AppendAudits, At, storeVars, worldVars
  <2>2. /\ run'.msg = run.msg /\ run'.items = run.items
        /\ run.at = "audit" => run'.at = "finalize"
    <3>1. CASE Conclude
      BY <1>0, <3>1, Concludes DEF Conclude, At
    <3>2. CASE RecordItemEffect(o)
      BY <1>0, <3>2, Goes DEF RecordItemEffect, At, Phase
    <3>3. CASE AppendAudits
      BY <1>0, <3>3, Goes DEF AppendAudits, Phase
    <3> QED BY <1>6, <3>1, <3>2, <3>3
  <2>3. run.msg \in Message
    BY <1>0, <2>1, RunIs DEF At
  <2> QED BY <2>1, <2>2, <2>3, WorkKept
<1> QED BY <1>2, <1>3, <1>4, <1>5, <1>6, WorkStepPlan, WorkStepItem, WorkStepSend DEF Next

LEMMA WorkInit == Init => WorkInv
<1> SUFFICES ASSUME Init PROVE WorkInv
  OBVIOUS
<1>1. run.at = "idle" /\ run.msg = NoMessage /\ DOMAIN run.items = {}
  BY NoItems DEF Init, Idle, Fresh
<1>2. \A k \in ItemKey : ~Wrote(k)
  BY DEF Init, Wrote
<1> HIDE DEF Wrote
<1>3. WorkRun /\ HonestItems
  BY <1>1, <1>2, KeyIs DEF Init, WorkRun, HonestItems
<1> QED BY <1>3, BaseInit DEF WorkInv

LEMMA WorkHolds ==
    ASSUME WritesAreAnswered
    PROVE  Spec => []WorkInv
<1>1. WorkInv /\ [Next]_vars => WorkInv'
  BY WritesAreAnswered, WorkStep
<1> QED BY <1>1, WorkInit, PTL DEF Spec

\* The combined reply tells the truth about every write in the batch: an
\* item is `completed` exactly if Google carried it out, and a reply that
\* lists no items is sent only if none was.
THEOREM ItemRepliesAreHonest ==
    ASSUME WritesAreAnswered
    PROVE  Spec => []HonestItems
<1>1. WorkInv => HonestItems
  BY DEF WorkInv
<1> QED BY <1>1, WorkHolds, PTL
-----------------------------------------------------------------------------
(* One write per id, and the row that keeps it from being repeated.        *)

\* A run that deals with no item and has not claimed its own id.
LEMMA RowIdle ==
    ASSUME run'.items = <<>>, ~run'.started, run'.at # "claim"
    PROVE  RowRun'
BY NoItems DEF RowRun, At

\* A run that deals with no item: only its own id's row matters.
LEMMA RowEmpty ==
    ASSUME run'.items = <<>>, run'.at # "claim",
           run'.started => requestStatus'[OuterOf[run'.msg]].status = "processing"
    PROVE  RowRun'
BY NoItems DEF RowRun, At

\* What the items of the run are called: an item id is nobody's batch id.
LEMMA IdsApart ==
    ASSUME OuterIdsApart, BaseInv, ~At("idle")
    PROVE  /\ OuterOf[run.msg] \in RequestId
           /\ \A i \in Index(run.msg) :
                 /\ IdAt(run.msg, i) \in RequestId /\ IdAt(run.msg, i) # OuterOf[run.msg]
                 /\ <<run.msg, i>> \in ItemKey /\ IdOfKey(<<run.msg, i>>) = IdAt(run.msg, i)
           /\ \A k \in ItemKey : IdOfKey(k) \in RequestId /\ IdOfKey(k) # OuterOf[run.msg]
BY RunIs, ItemsAre, KeyIs DEF OuterIdsApart, IdOfKey

\* The write of an item whose id has performed none yet.
LEMMA RowItemWrites ==
    ASSUME WritesAreAnswered, RowInv, NEW o,
           RefuseItem \/ ExecuteReadItem(o) \/ ExecuteWriteItem(o)
    PROVE  /\ \A k \in ItemKey :
                 Wrote(k)' <=> Wrote(k) \/ (k = <<run.msg, Current>> /\ run'.items[Current].wrote)
           /\ WriteAtMostOnce' /\ WritesAreWrites'
           /\ Live(Current) /\ ~run.items[Current].wrote
           /\ ~Performed(IdAt(run.msg, Current))
           /\ requestStatus[IdAt(run.msg, Current)].status = "processing"
           /\ run'.items[Current].started
           /\ run'.at \in {"items", "effect"} /\ run'.msg = run.msg /\ run'.started = run.started
           /\ run'.todo = run.todo \ {Current}
           /\ DOMAIN run'.items = Index(run.msg) /\ Current \in Index(run.msg)
           /\ \A j \in Index(run.msg) : j # Current => run'.items[j] = run.items[j]
<1> DEFINE key == <<run.msg, Current>>
<1>0. BaseInv /\ effects \in [ItemKey -> Nat]
  BY DEF RowInv, WorkInv, BaseInv, TypeInv, TypeOK
<1>1. PICK reply \in Reply, wrote \in BOOLEAN :
         /\ Settle(Current, reply, wrote, IF wrote THEN "effect" ELSE "items")
         /\ wrote => ItemsOf[run.msg][Current].write
         /\ \/ wrote /\ effects' = [effects EXCEPT ![key] = @ + 1]
            \/ ~wrote /\ effects' = effects
  BY ItemSteps
<1>2. At("items") /\ run.todo # {}
  BY ItemSteps
<1>3. /\ run.msg \in Message /\ Current \in Index(run.msg) /\ key \in ItemKey /\ Current \in run.todo
      /\ DOMAIN run.items = Index(run.msg) /\ ~run.items[Current].wrote
  BY <1>0, <1>2, ItemIs
<1>4. PICK at \in {"items", "effect"} : (at = "effect" <=> wrote) /\ Settle(Current, reply, wrote, at)
  BY <1>1
<1>5. /\ run'.at = at /\ run'.msg = run.msg /\ run'.started = run.started
      /\ run'.todo = run.todo \ {Current} /\ DOMAIN run'.items = Index(run.msg)
      /\ run'.items[Current] = [reply |-> reply, started |-> TRUE, wrote |-> wrote]
      /\ \A j \in Index(run.msg) : j # Current => run'.items[j] = run.items[j]
  BY <1>0, <1>2, <1>4, SettleIs
<1>6. /\ Live(Current) /\ ~Performed(IdAt(run.msg, Current))
      /\ requestStatus[IdAt(run.msg, Current)].status = "processing"
  BY <1>2, <1>3 DEF RowInv, RowRun, Live, Planned, At
<1>7. \A k \in ItemKey : Wrote(k)' <=> Wrote(k) \/ (k = key /\ wrote)
  BY <1>0, <1>1, <1>3 DEF Wrote
<1>8. IdOfKey(key) = IdAt(run.msg, Current) /\ ~Wrote(key) /\ effects[key] = 0
  <2>1. IdOfKey(key) = IdAt(run.msg, Current)
    BY DEF IdOfKey
  <2>2. ~Wrote(key)
    BY <1>3, <1>6, <2>1 DEF Performed
  <2> QED BY <1>0, <1>3, <2>1, <2>2 DEF Wrote
<1>9. WriteAtMostOnce'
  <2>1. ASSUME NEW k \in ItemKey PROVE effects'[k] <= 1
    BY <1>0, <1>1, <1>3, <1>8 DEF RowInv, WriteAtMostOnce
  <2>2. ASSUME NEW k \in ItemKey, NEW l \in ItemKey, Wrote(k)', Wrote(l)', IdOfKey(k) = IdOfKey(l)
        PROVE  k = l
    BY <1>6, <1>7, <1>8, <2>2 DEF RowInv, WriteAtMostOnce, Performed
  <2>3. \A k : IdOfKey(k)' = IdOfKey(k)
    BY DEF IdOfKey, IdAt
  <2> HIDE DEF Wrote, IdOfKey
  <2> QED BY <2>1, <2>2, <2>3 DEF WriteAtMostOnce
<1>10. WritesAreWrites'
  <2>1. wrote => ItemsOf[key[1]][key[2]].write
    BY <1>1
  <2> HIDE DEF Wrote
  <2> QED BY <1>7, <2>1 DEF RowInv, WritesAreWrites
<1> QED BY <1>3, <1>5, <1>6, <1>7, <1>9, <1>10

LEMMA RowStepItem ==
    ASSUME OuterIdsApart, WritesAreAnswered, RowInv, NEW o,
           RefuseItem \/ ExecuteReadItem(o) \/ ExecuteWriteItem(o)
    PROVE  WriteAtMostOnce' /\ WritesAreWrites' /\ EffectStaysClaimed' /\ RowRun'
<1>0. /\ BaseInv /\ requestStatus' = requestStatus /\ At("items") /\ run.todo # {}
      /\ DOMAIN run.items = Index(run.msg) /\ Current \in run.todo
  BY ItemSteps, ItemIs DEF RowInv, WorkInv
<1>1. /\ \A k \in ItemKey :
            Wrote(k)' <=> Wrote(k) \/ (k = <<run.msg, Current>> /\ run'.items[Current].wrote)
      /\ WriteAtMostOnce' /\ WritesAreWrites'
      /\ Live(Current) /\ ~run.items[Current].wrote
      /\ ~Performed(IdAt(run.msg, Current))
      /\ requestStatus[IdAt(run.msg, Current)].status = "processing"
      /\ run'.items[Current].started
      /\ run'.at \in {"items", "effect"} /\ run'.msg = run.msg /\ run'.started = run.started
      /\ run'.todo = run.todo \ {Current}
      /\ DOMAIN run'.items = Index(run.msg) /\ Current \in Index(run.msg)
      /\ \A j \in Index(run.msg) : j # Current => run'.items[j] = run.items[j]
  BY RowItemWrites
<1>2. \A k : IdOfKey(k)' = IdOfKey(k)
  BY DEF IdOfKey, IdAt
<1>3. EffectStaysClaimed'
  <2> SUFFICES ASSUME NEW k \in ItemKey, Wrote(k)'
               PROVE  requestStatus[IdOfKey(k)].status \in DuplicateRequestStatuses
    BY <1>0, <1>2 DEF EffectStaysClaimed
  <2>1. CASE Wrote(k)
    BY <2>1 DEF RowInv, EffectStaysClaimed
  <2>2. CASE k = <<run.msg, Current>>
    BY <1>1, <2>2 DEF IdOfKey, DuplicateRequestStatuses
  <2> HIDE DEF Wrote
  <2> QED BY <1>1, <2>1, <2>2
<1>4. ASSUME NEW i \in Index(run.msg)
      PROVE  /\ Live(i)' <=> Live(i)
             /\ i # Current => (run'.items[i].wrote <=> run.items[i].wrote)
  <2>1. CASE i = Current
    BY <1>0, <1>1, <2>1 DEF Live, Started
  <2>2. CASE i # Current
    BY <1>0, <1>1, <2>2 DEF Live, Started
  <2> QED BY <2>1, <2>2
<1>5. ASSUME NEW i \in Index(run.msg), Live(i), ~run'.items[i].wrote
      PROVE  /\ ~Performed(IdAt(run.msg, i))'
             /\ requestStatus[IdAt(run.msg, i)].status = "processing"
  <2>1. ~run.items[i].wrote
    BY <1>1, <1>4, <1>5
  <2>2. ~Performed(IdAt(run.msg, i)) /\ requestStatus[IdAt(run.msg, i)].status = "processing"
    BY <1>0, <1>5, <2>1 DEF RowInv, RowRun, Planned, At
  <2>3. IdAt(run.msg, i) = IdAt(run.msg, Current) => i = Current
    BY <1>0, <1>1, <1>5 DEF RowInv, RowRun
  <2>4. ASSUME NEW k \in ItemKey, Wrote(k)', IdOfKey(k) = IdAt(run.msg, i) PROVE FALSE
    <3>1. ~Wrote(k)
      BY <2>2, <2>4 DEF Performed
    <3>2. k = <<run.msg, Current>> /\ run'.items[Current].wrote
      BY <1>1, <2>4, <3>1
    <3>3. IdAt(run.msg, i) = IdAt(run.msg, Current)
      BY <2>4, <3>2 DEF IdOfKey
    <3> QED BY <1>5, <2>3, <3>2, <3>3
  <2>5. IdAt(run.msg, i)' = IdAt(run.msg, i)
    BY <1>1 DEF IdAt
  <2> HIDE DEF Wrote
  <2> QED BY <1>2, <2>2, <2>4, <2>5 DEF Performed
<1>6. RowRun'
  <2>1. \A i : IdAt(run.msg, i)' = IdAt(run.msg, i)
    BY <1>1 DEF IdAt
  <2>2. ~At("claim")' /\ ~Planned'
    BY <1>1 DEF At, Planned
  <2>3. run'.started => requestStatus'[OuterOf[run'.msg]].status = "processing"
    BY <1>0, <1>1 DEF RowInv, RowRun
  <2>4. \A i, j \in DOMAIN run'.items :
           Live(i)' /\ Live(j)' /\ IdAt(run.msg, i) = IdAt(run.msg, j) => i = j
    BY <1>0, <1>1, <1>4 DEF RowInv, RowRun
  <2> HIDE DEF IdAt, Live, Performed
  <2> QED BY <1>0, <1>1, <1>4, <1>5, <2>1, <2>2, <2>3, <2>4 DEF RowRun
<1> QED BY <1>1, <1>3, <1>6
\* The plan: an item whose id has performed a write is no runnable item.
LEMMA RowStepRead ==
    ASSUME OneKindPerId, OuterIdsApart, RowInv, NEW o, ReadItems(o), ~Raised(o)
    PROVE  RowRun'
<1>0. BaseInv /\ ~At("idle") /\ UNCHANGED <<requestStatus, effects>>
  BY DEF RowInv, WorkInv, ReadItems, At, storeVars, worldVars
<1>1. /\ run'.at = "recorditems" /\ run'.msg = run.msg /\ run'.started = run.started
      /\ run'.todo \subseteq Index(run.msg)
      /\ \A i, j \in run'.todo : IdAt(run.msg, i) = IdAt(run.msg, j) => i = j
      /\ \A i \in run'.todo :
            ~IsDuplicateRequestStatus(requestStatus[IdAt(run.msg, i)], ItemsOf[run.msg][i].write)
      /\ DOMAIN run'.items = Index(run.msg)
      /\ \A i \in Index(run.msg) : ~run'.items[i].started
  BY <1>0, Plans
<1>2. /\ run.msg \in Message /\ requestStatus \in [RequestId -> StatusRow]
      /\ \A i \in Index(run.msg) : IdAt(run.msg, i) \in RequestId
  BY <1>0, IdsApart, RunIs DEF BaseInv, TypeInv, TypeOK, StoreTypeOK
<1>3. \A i \in Index(run.msg) : Live(i)' <=> i \in run'.todo
  BY <1>1 DEF Live, Started
<1>4. ASSUME NEW i \in run'.todo
      PROVE  /\ ~Performed(IdAt(run.msg, i))
             /\ requestStatus[IdAt(run.msg, i)].status \in {"absent", "failed", "processing"}
  <2> DEFINE r == IdAt(run.msg, i)
             write == ItemsOf[run.msg][i].write
  <2>1. i \in Index(run.msg) /\ r \in RequestId /\ requestStatus[r] \in StatusRow
    BY <1>1, <1>2
  <2>2. ~IsDuplicateRequestStatus(requestStatus[r], write)
    BY <1>1
  <2>3. \/ requestStatus[r].status \notin DuplicateRequestStatuses
        \/ requestStatus[r].status = "processing" /\ ~write
    BY <2>2 DEF IsDuplicateRequestStatus
  <2>4. requestStatus[r].status \in {"absent", "failed", "processing"}
    BY <2>1, <2>3 DEF StatusRow, RequestStatus, DuplicateRequestStatuses
  <2>5. ASSUME NEW k \in ItemKey, Wrote(k), IdOfKey(k) = r PROVE FALSE
    <3>1. k[1] \in Message /\ k[2] \in Index(k[1]) /\ IdAt(k[1], k[2]) = r
      BY <2>5, KeyIs DEF IdOfKey
    <3>2. requestStatus[r].status \in DuplicateRequestStatuses
      BY <2>5 DEF RowInv, EffectStaysClaimed
    <3>3. ItemsOf[k[1]][k[2]].write
      BY <2>5 DEF RowInv, WritesAreWrites
    <3>4. write
      BY <1>2, <2>1, <3>1, <3>3 DEF OneKindPerId
    <3> QED BY <2>3, <3>2, <3>4
  <2> QED BY <2>4, <2>5 DEF Performed
<1>5. \A i : IdAt(run.msg, i)' = IdAt(run.msg, i)
  BY <1>1 DEF IdAt
<1>6. \A r : Performed(r)' <=> Performed(r)
  BY <1>0 DEF Performed, Wrote, IdOfKey, IdAt
<1>7. Planned' /\ ~At("claim")'
  BY <1>1 DEF Planned, At
<1>8. run'.started => requestStatus'[OuterOf[run'.msg]].status = "processing"
  BY <1>0, <1>1 DEF RowInv, RowRun
<1> HIDE DEF IdAt, Live, Performed
<1>9. \A i \in DOMAIN run'.items : Live(i)' =>
         /\ ~Performed(IdAt(run.msg, i))'
         /\ requestStatus'[IdAt(run.msg, i)].status \in {"absent", "failed", "processing"}
  <2> SUFFICES ASSUME NEW i \in Index(run.msg), i \in run'.todo
               PROVE  /\ ~Performed(IdAt(run.msg, i))'
                      /\ requestStatus'[IdAt(run.msg, i)].status \in {"absent", "failed", "processing"}
    BY <1>1, <1>3
  <2>1. Performed(IdAt(run.msg, i))' <=> Performed(IdAt(run.msg, i))
    BY <1>5, <1>6
  <2> QED BY <1>0, <1>4, <2>1
<1> QED BY <1>1, <1>3, <1>5, <1>7, <1>8, <1>9 DEF RowRun

\* Steps that neither plan nor drop items, and change no row but that of an
\* id that has performed its write.
LEMMA RowKept ==
    ASSUME RowInv, ~At("idle"), effects' = effects,
           run'.msg = run.msg, run'.items = run.items, run'.todo = run.todo,
           run'.started = run.started, run'.at = "claim" => run.at = "claim",
           Planned' <=> Planned,
           \A r \in RequestId :
              \/ requestStatus'[r].status = requestStatus[r].status
              \/ Performed(r) /\ r # OuterOf[run.msg]
    PROVE  RowRun'
<1>1. \A i : IdAt(run.msg, i)' = IdAt(run.msg, i)
  BY DEF IdAt
<1>2. \A r : Performed(r)' <=> Performed(r)
  BY DEF Performed, Wrote, IdOfKey, IdAt
<1>3. \A i : Live(i)' <=> Live(i)
  BY DEF Live, Started
<1>4. /\ requestStatus'[OuterOf[run.msg]].status = requestStatus[OuterOf[run.msg]].status
      /\ \A i \in DOMAIN run.items : IdAt(run.msg, i) \in RequestId
  BY RunIs, ItemsAre DEF RowInv, WorkInv
<1>5. RowRun
  BY DEF RowInv
<1> HIDE DEF IdAt, Live, Performed, Planned
<1>6. \A i \in DOMAIN run'.items : Live(i)' /\ ~run'.items[i].wrote =>
         /\ ~Performed(IdAt(run.msg, i))'
         /\ IF Planned' THEN requestStatus'[IdAt(run.msg, i)].status \in {"absent", "failed", "processing"}
                        ELSE requestStatus'[IdAt(run.msg, i)].status = "processing"
  <2> SUFFICES ASSUME NEW i \in DOMAIN run.items, Live(i), ~run.items[i].wrote
               PROVE  /\ ~Performed(IdAt(run.msg, i))'
                      /\ IF Planned'
                         THEN requestStatus'[IdAt(run.msg, i)].status \in {"absent", "failed", "processing"}
                         ELSE requestStatus'[IdAt(run.msg, i)].status = "processing"
    BY <1>3
  <2>1. /\ ~Performed(IdAt(run.msg, i))
        /\ IF Planned THEN requestStatus[IdAt(run.msg, i)].status \in {"absent", "failed", "processing"}
                      ELSE requestStatus[IdAt(run.msg, i)].status = "processing"
    BY <1>5 DEF RowRun
  <2>2. Performed(IdAt(run.msg, i))' <=> Performed(IdAt(run.msg, i))
    BY <1>1, <1>2
  <2> QED BY <1>4, <2>1, <2>2
<1> QED BY <1>1, <1>3, <1>4, <1>5, <1>6 DEF RowRun, At

\* Once a write happened, every row that is appended for its id keeps it used up.
LEMMA ClaimKept ==
    ASSUME OuterIdsApart, RowInv, [Next]_vars, effects' = effects
    PROVE  EffectStaysClaimed'
<1> SUFFICES ASSUME NEW k \in ItemKey, Wrote(k)
             PROVE  requestStatus'[IdOfKey(k)].status \in DuplicateRequestStatuses
  BY DEF EffectStaysClaimed, Wrote, IdOfKey, IdAt
<1> DEFINE r == IdOfKey(k)
<1>0. BaseInv /\ r \in RequestId /\ Performed(r)
  BY KeyIs, ItemsAre DEF RowInv, WorkInv, IdOfKey, Performed
<1>1. requestStatus[r].status \in DuplicateRequestStatuses
  BY DEF RowInv, EffectStaysClaimed
<1>2. CASE At("finalize") /\ requestStatus'[r].status = FinalRow(r).status
  <2>1. run.msg \in Message /\ r # OuterOf[run.msg] /\ ~Planned
    BY <1>0, <1>2, RunIs, IdsApart DEF At, Planned
  <2>2. CASE Mine(r) # {}
    <3>1. PICK i \in Mine(r) :
             FinalRow(r) = [status |-> FinalRequestStatus(run.items[i].wrote, run.items[i].reply,
                                                          run.replied),
                            stale |-> FALSE]
      BY <2>1, <2>2, FinalRowIs
    <3>2. run.returned /\ i \in Index(run.msg) /\ Live(i) /\ IdAt(run.msg, i) = r
      BY <3>1 DEF Mine, Live
    <3>3. i \in DOMAIN run.items
      BY <1>0, <1>2, <3>2, RunIs DEF At
    <3>4. run.items[i].wrote
      BY <1>0, <2>1, <3>2, <3>3 DEF RowInv, RowRun
    <3> QED BY <1>2, <3>1, <3>4 DEF FinalRequestStatus, DuplicateRequestStatuses
  <2>3. CASE Mine(r) = {}
    BY <1>1, <1>2, <2>1, <2>3, FinalRowIs
  <2> QED BY <2>2, <2>3
<1> HIDE DEF r
<1> QED BY <1>0, <1>1, <1>2, RowsChange DEF DuplicateRequestStatuses, r
LEMMA RowStepStart ==
    ASSUME RowInv, NEW o,
           (\E m \in Message : Begin(m)) \/ CountToday(o) \/ LookupRequest(o) \/ ClaimRequest(o)
    PROVE  RowRun'
<1>0. BaseInv /\ TypeOK /\ ShapeInv
  BY DEF RowInv, WorkInv, BaseInv, TypeInv
<1>1. ASSUME NEW m \in Message, Begin(m) PROVE RowRun'
  <2>1. run'.items = <<>> /\ ~run'.started /\ run'.at = "count"
    BY <1>1 DEF Begin, Fresh
  <2> QED BY <2>1, RowIdle
<1>2. ASSUME CountToday(o) \/ LookupRequest(o) \/ ClaimRequest(o)
      PROVE  run.items = <<>> /\ ~run.started /\ run.msg \in Message
  <2>1. run.at \in {"count", "lookup", "claim"}
    BY <1>2 DEF CountToday, LookupRequest, ClaimRequest, At
  <2>2. ~At("idle") /\ Early
    BY <2>1 DEF At, Early
  <2> QED BY <1>0, <2>1, <2>2, RunIs DEF ShapeInv
<1>3. CASE (CountToday(o) \/ LookupRequest(o) \/ ClaimRequest(o)) /\ AnswerError
  <2>1. run'.items = <<>> /\ ~run'.started /\ run'.at = "send"
    BY <1>0, <1>2, <1>3, Errs
  <2> QED BY <2>1, RowIdle
<1>4. CASE CountToday(o) /\ ~Raised(o)
  <2>1. run'.items = <<>> /\ ~run'.started /\ run'.at \in {"send", "lookup"}
    BY <1>0, <1>2, <1>4, Counts
  <2> QED BY <2>1, RowIdle
<1>5. CASE LookupRequest(o) /\ ~Raised(o)
  <2>1. CASE Answer("duplicate")
    <3>1. run'.items = <<>> /\ ~run'.started /\ run'.at = "send"
      BY <1>0, <1>2, <1>5, <2>1, Answers DEF Reply
    <3> QED BY <3>1, RowIdle
  <2>2. CASE ~IsDuplicateRequestStatus(requestStatus[OuterOf[run.msg]], FALSE) /\ Goto("claim")
    <3>1. run'.items = <<>> /\ ~run'.started /\ run'.msg = run.msg
      BY <1>0, <1>2, <1>5, <2>2, Goes DEF Phase
    <3>2. requestStatus' = requestStatus
      BY <1>5 DEF LookupRequest, storeVars
    <3>3. requestStatus[OuterOf[run.msg]].status \notin {"effect_done", "completed"}
      BY <2>2 DEF IsDuplicateRequestStatus, DuplicateRequestStatuses
    <3> QED BY <3>1, <3>2, <3>3, NoItems DEF RowRun
  <2> QED BY <1>5, <2>1, <2>2 DEF LookupRequest
<1>6. CASE ClaimRequest(o) /\ ~Raised(o)
  <2>1. run'.items = <<>> /\ run'.at = "readitems" /\ run'.msg = run.msg
    BY <1>0, <1>2, <1>6, Claims
  <2>2. Landed(o)
    BY <1>6 DEF ClaimRequest, Outcome, Raised, Landed
  <2>3. requestStatus'[OuterOf[run.msg]].status = "processing"
    BY <1>0, <1>2, <1>6, <2>2, ItemsAre DEF ClaimRequest, WithStatus, TypeOK, StoreTypeOK
  <2> QED BY <2>1, <2>3, RowEmpty
<1> QED BY <1>1, <1>3, <1>4, <1>5, <1>6 DEF CountToday, LookupRequest, ClaimRequest

LEMMA RowStepPlan ==
    ASSUME OneKindPerId, OuterIdsApart, RowInv, NEW o,
           ReadItems(o) \/ RecordItems(o) \/ ClaimItems(o)
    PROVE  RowRun'
<1>0. /\ BaseInv /\ TypeOK /\ ShapeInv /\ ~At("idle") /\ RowRun /\ ~At("claim")
      /\ requestStatus \in [RequestId -> StatusRow] /\ effects' = effects
  BY DEF RowInv, WorkInv, BaseInv, TypeInv, TypeOK, StoreTypeOK, At,
         ReadItems, RecordItems, ClaimItems, worldVars
<1>1. /\ run.msg \in Message /\ OuterOf[run.msg] \in RequestId
      /\ \A i \in Index(run.msg) :
            IdAt(run.msg, i) \in RequestId /\ IdAt(run.msg, i) # OuterOf[run.msg]
      /\ run.todo \subseteq Index(run.msg) /\ IsFiniteSet(run.todo)
  BY <1>0, RunIs, IdsApart
<1>2. requestStatus'[OuterOf[run.msg]].status = requestStatus[OuterOf[run.msg]].status
  <2>1. CASE ClaimItems(o)
    <3>1. OuterOf[run.msg] \notin TodoIds
      BY <1>1 DEF TodoIds
    <3> QED BY <1>0, <1>1, <2>1, <3>1 DEF ClaimItems, WithStatuses
  <2>2. CASE ReadItems(o) \/ RecordItems(o)
    BY <2>2 DEF ReadItems, RecordItems, storeVars
  <2> QED BY <2>1, <2>2
<1>3. CASE AnswerError
  <2>1. run'.items = <<>> /\ run'.at = "send" /\ run'.msg = run.msg /\ run'.started = run.started
    BY <1>0, <1>3, Errs
  <2> QED BY <1>0, <1>2, <2>1, RowEmpty DEF RowRun
<1>4. CASE ReadItems(o) /\ ~Raised(o)
  BY <1>4, RowStepRead
<1>5. CASE RecordItems(o) /\ ~Raised(o)
  <2>1. /\ run'.at = "claimitems" /\ run'.msg = run.msg /\ run'.todo = run.todo
        /\ run'.items = run.items /\ run'.started = run.started
    BY <1>0, <1>1, <1>5, Records
  <2>2. Planned /\ Planned' /\ requestStatus' = requestStatus
    BY <1>5, <2>1 DEF RecordItems, At, Planned
  <2> QED BY <1>0, <2>1, <2>2, RowKept
<1>6. CASE ClaimItems(o) /\ ~Raised(o)
  <2>1. Goto("items") /\ Planned
    BY <1>6 DEF ClaimItems, At, Planned
  <2>2. /\ run'.at = "items" /\ run'.msg = run.msg /\ run'.todo = run.todo
        /\ run'.items = run.items /\ run'.started = run.started
    BY <1>0, <2>1, Goes DEF Phase
  <2>3. Landed(o)
    BY <1>6 DEF ClaimItems, AppendOutcome, Outcome, Raised, Landed
  <2>4. /\ DOMAIN run.items = Index(run.msg)
        /\ \A i \in DOMAIN run.items : ~Started(i)
    BY <1>0, <2>1, RunIs DEF ShapeInv
  <2>5. ASSUME NEW i \in run.todo PROVE requestStatus'[IdAt(run.msg, i)].status = "processing"
    <3>1. IdAt(run.msg, i) \in TodoIds /\ IdAt(run.msg, i) \in RequestId
      BY <1>1 DEF TodoIds
    <3> QED BY <1>6, <2>3, <3>1 DEF ClaimItems, WithStatuses
  <2>6. /\ \A i : IdAt(run.msg, i)' = IdAt(run.msg, i)
        /\ \A i : Live(i)' <=> Live(i)
    BY <2>2 DEF IdAt, Live, Started
  <2>7. \A i \in Index(run.msg) : Live(i) <=> i \in run.todo
    BY <2>4 DEF Live
  <2>8. \A r : Performed(r)' <=> Performed(r)
    BY <1>0 DEF Performed, Wrote, IdOfKey, IdAt
  <2>9. ~Planned' /\ ~At("claim")'
    BY <2>2 DEF Planned, At
  <2>10. run'.started => requestStatus'[OuterOf[run'.msg]].status = "processing"
    BY <1>0, <1>2, <2>2 DEF RowRun
  <2>11. \A i, j \in DOMAIN run.items :
            Live(i) /\ Live(j) /\ IdAt(run.msg, i) = IdAt(run.msg, j) => i = j
    BY <1>0 DEF RowRun
  <2>12. \A i \in DOMAIN run.items : Live(i) /\ ~run.items[i].wrote => ~Performed(IdAt(run.msg, i))
    BY <1>0 DEF RowRun
  <2> HIDE DEF IdAt, Live, Performed
  <2>13. \A i \in DOMAIN run.items : Live(i) /\ ~run.items[i].wrote =>
            ~Performed(IdAt(run.msg, i))' /\ requestStatus'[IdAt(run.msg, i)].status = "processing"
    <3> SUFFICES ASSUME NEW i \in DOMAIN run.items, Live(i), ~run.items[i].wrote
                 PROVE  /\ ~Performed(IdAt(run.msg, i))'
                        /\ requestStatus'[IdAt(run.msg, i)].status = "processing"
      OBVIOUS
    <3>1. Performed(IdAt(run.msg, i))' <=> Performed(IdAt(run.msg, i))
      BY <2>6, <2>8
    <3> QED BY <2>4, <2>5, <2>7, <2>12, <3>1
  <2> QED BY <2>2, <2>6, <2>9, <2>10, <2>11, <2>13 DEF RowRun
<1> QED BY <1>3, <1>4, <1>5, <1>6 DEF ReadItems, RecordItems, ClaimItems

\* What comes after the items, and the rows of their writes.
LEMMA RowStepRest ==
    ASSUME OuterIdsApart, RowInv, NEW o,
           RecordItemEffect(o) \/ Conclude \/ SendReply(o) \/ AppendAudits
    PROVE  RowRun'
<1>0. /\ BaseInv /\ TypeOK /\ effects' = effects /\ WorkRun
      /\ run.at \in {"items", "effect", "send", "audit"}
  BY DEF RowInv, WorkInv, BaseInv, TypeInv, At, RecordItemEffect, Conclude, SendReply,
         AppendAudits, worldVars
<1>1. /\ run'.msg = run.msg /\ run'.todo = run.todo /\ run'.items = run.items
      /\ run'.started = run.started /\ run'.at \in {"items", "send", "audit", "finalize"}
  <2>1. CASE RecordItemEffect(o)
    BY <1>0, <2>1, Goes DEF RecordItemEffect, Phase
  <2>2. CASE Conclude
    BY <1>0, <2>2, Concludes
  <2>3. CASE SendReply(o)
    BY <1>0, <2>3, Sends
  <2>4. CASE AppendAudits
    BY <1>0, <2>4, Goes DEF AppendAudits, Phase
  <2> QED BY <2>1, <2>2, <2>3, <2>4
<1>2. ~At("idle") /\ ~Planned /\ ~Planned' /\ run'.at # "claim"
  BY <1>0, <1>1 DEF At, Planned
<1>3. ASSUME NEW r \in RequestId
      PROVE  \/ requestStatus'[r].status = requestStatus[r].status
             \/ Performed(r) /\ r # OuterOf[run.msg]
  <2>1. CASE RecordItemEffect(o)
    <3>1. At("effect")
      BY <2>1 DEF RecordItemEffect
    <3>2. Written \in Index(run.msg) /\ Written \in DOMAIN run.items /\ run.items[Written].wrote
      BY <1>0, <3>1, WrittenIs
    <3>3. Wrote(<<run.msg, Written>>)
      BY <1>0, <1>2, <3>2, RunIs, BatchAssumption DEF WorkRun
    <3>4. Performed(IdAt(run.msg, Written)) /\ IdAt(run.msg, Written) # OuterOf[run.msg]
      BY <1>0, <1>2, <3>2, <3>3, IdsApart DEF Performed
    <3>5. requestStatus'[r].status = requestStatus[r].status \/ r = IdAt(run.msg, Written)
      BY <1>0, <2>1 DEF RecordItemEffect, WithStatus, TypeOK, StoreTypeOK
    <3> QED BY <3>4, <3>5
  <2>2. CASE Conclude \/ SendReply(o) \/ AppendAudits
    BY <2>2 DEF Conclude, SendReply, AppendAudits, storeVars
  <2> QED BY <2>1, <2>2
<1> QED BY <1>0, <1>1, <1>2, <1>3, RowKept

LEMMA RowStep ==
    OneKindPerId /\ OuterIdsApart /\ WritesAreAnswered /\ RowInv /\ [Next]_vars => RowInv'
<1> SUFFICES ASSUME OneKindPerId, OuterIdsApart, WritesAreAnswered, RowInv, [Next]_vars
             PROVE  RowInv'
  OBVIOUS
<1>0. WorkInv' /\ BaseInv /\ ShapeInv
  BY WorkStep DEF RowInv, WorkInv, BaseInv
<1>1. ASSUME effects' = effects
      PROVE  WriteAtMostOnce' /\ WritesAreWrites' /\ EffectStaysClaimed'
  <2>1. WriteAtMostOnce' /\ WritesAreWrites'
    BY <1>1 DEF RowInv, WriteAtMostOnce, WritesAreWrites, Wrote, IdOfKey, IdAt
  <2> QED BY <1>1, <2>1, ClaimKept
<1>2. ASSUME NEW o, RefuseItem \/ ExecuteReadItem(o) \/ ExecuteWriteItem(o) PROVE RowInv'
  BY <1>0, <1>2, RowStepItem DEF RowInv
<1>3. SUFFICES ASSUME ~ \E o \in {"ok", "fail", "lost"} :
                         RefuseItem \/ ExecuteReadItem(o) \/ ExecuteWriteItem(o)
               PROVE  effects' = effects /\ RowRun'
  BY <1>0, <1>1, <1>2 DEF RowInv
<1>4. effects' = effects
  BY <1>3 DEF Next, vars, worldVars, Begin, CountToday, LookupRequest, ClaimRequest, ReadItems,
              RecordItems, ClaimItems, RecordItemEffect, Conclude, SendReply, AppendAudits,
              FinalizeStatuses, Crash, PassTime
<1>5. ASSUME NEW o, FinalizeStatuses(o) \/ Crash PROVE RowRun'
  <2>1. run'.items = <<>> /\ ~run'.started /\ run'.at = "idle"
    BY <1>5 DEF FinalizeStatuses, Crash, Idle, Fresh
  <2> QED BY <2>1, RowIdle
<1>6. CASE UNCHANGED vars \/ PassTime
  <2>1. run' = run /\ (requestStatus' = requestStatus \/ \E r \in RequestId : GrowStale(r))
    BY <1>6 DEF vars, storeVars, PassTime, NewDay
  <2>2. \A r \in RequestId : requestStatus'[r].status = requestStatus[r].status
    BY <1>0, <2>1 DEF GrowStale, BaseInv, TypeInv, TypeOK, StoreTypeOK, StatusRow
  <2>3. CASE At("idle")
    <3>1. run'.items = <<>> /\ ~run'.started /\ run'.at = "idle"
      BY <1>0, <2>1, <2>3 DEF At, ShapeInv, Early
    <3> QED BY <1>4, <3>1, RowIdle
  <2>4. CASE ~At("idle")
    BY <1>4, <2>1, <2>2, <2>4, RowKept DEF Planned
  <2> QED BY <2>3, <2>4
<1> QED BY <1>3, <1>4, <1>5, <1>6, RowStepStart, RowStepPlan, RowStepRest DEF Next

LEMMA RowInit == Init => RowInv
<1> SUFFICES ASSUME Init PROVE RowInv
  OBVIOUS
<1>1. run.at = "idle" /\ ~run.started /\ DOMAIN run.items = {}
  BY NoItems DEF Init, Idle, Fresh
<1>2. \A k \in ItemKey : ~Wrote(k) /\ effects[k] = 0
  BY DEF Init, Wrote
<1> HIDE DEF Wrote
<1>3. WriteAtMostOnce /\ EffectStaysClaimed /\ WritesAreWrites
  BY <1>2 DEF WriteAtMostOnce, EffectStaysClaimed, WritesAreWrites
<1>4. RowRun
  BY <1>1 DEF RowRun, At
<1> QED BY <1>3, <1>4, WorkInit DEF RowInv

LEMMA RowHolds ==
    ASSUME OneKindPerId, OuterIdsApart, WritesAreAnswered
    PROVE  Spec => []RowInv
<1>1. RowInv /\ [Next]_vars => RowInv'
  BY OneKindPerId, OuterIdsApart, WritesAreAnswered, RowStep
<1> QED BY <1>1, RowInit, PTL DEF Spec

\* "A write is never repeated": of all the items of all the batches that
\* carry one request id, resent after whatever went wrong, at most one makes
\* Google write, and once.
THEOREM WrittenAtMostOnce ==
    ASSUME OneKindPerId, OuterIdsApart, WritesAreAnswered
    PROVE  Spec => []WriteAtMostOnce
<1>1. RowInv => WriteAtMostOnce
  BY DEF RowInv
<1> QED BY <1>1, RowHolds, PTL

\* Once an item's write happened no later row sets its id free, whatever the
\* rest of the batch appends and wherever the process dies.
THEOREM WrittenIdsStayClaimed ==
    ASSUME OneKindPerId, OuterIdsApart, WritesAreAnswered
    PROVE  Spec => []EffectStaysClaimed
<1>1. RowInv => EffectStaysClaimed
  BY DEF RowInv
<1> QED BY <1>1, RowHolds, PTL
-----------------------------------------------------------------------------
(* The refinement: what ResendContract sees of an id are its phase and the *)
(* items that performed a write under it.                                  *)

LEMMA SeenWrites == \A r : WritesOf(r) # {} <=> Performed(r)
BY DEF WritesOf, Performed

\* A step of the contract, in terms of what it sees.
ContractMove(r) ==
    \/ /\ WritesOf(r)' = WritesOf(r)
       /\ \/ PhaseOf(r)' = PhaseOf(r)
          \/ PhaseOf(r) = "open" /\ PhaseOf(r)' = "attempted"
          \/ PhaseOf(r) = "attempted" /\ PhaseOf(r)' \in {"open", "finished"}
    \/ /\ PhaseOf(r) = "attempted" /\ PhaseOf(r)' = "performed"
       /\ \E x : WritesOf(r)' = {x}

LEMMA MovesAreSteps ==
    ASSUME \A r \in RequestId : ContractMove(r)
    PROVE  Contract!Next
<1> SUFFICES ASSUME NEW r \in RequestId
             PROVE  \/ Contract!Begin(r) \/ Contract!GiveUp(r) \/ Contract!Perform(r)
                    \/ Contract!Finish(r) \/ Contract!Rest(r)
  BY DEF Contract!Next
<1> USE DEF Contract!Move, Contract!Nothing
<1>1. CASE WritesOf(r)' = WritesOf(r) /\ PhaseOf(r)' = PhaseOf(r)
  BY <1>1 DEF Contract!Rest
<1>2. CASE WritesOf(r)' = WritesOf(r) /\ PhaseOf(r) = "open" /\ PhaseOf(r)' = "attempted"
  BY <1>2 DEF Contract!Begin
<1>3. CASE /\ WritesOf(r)' = WritesOf(r) /\ PhaseOf(r) = "attempted"
           /\ PhaseOf(r)' \in {"open", "finished"}
  BY <1>3 DEF Contract!GiveUp, Contract!Finish
<1>4. CASE /\ PhaseOf(r) = "attempted" /\ PhaseOf(r)' = "performed"
           /\ \E x : WritesOf(r)' = {x}
  BY <1>4 DEF Contract!Perform
<1> QED BY <1>1, <1>2, <1>3, <1>4 DEF ContractMove

\* A row is a move of its id: Begin, GiveUp or Finish if the id performed
\* nothing, Rest if it did or if the status stays.
LEMMA RowIsMove ==
    ASSUME effects' = effects, NEW r \in RequestId,
           \/ requestStatus'[r].status = requestStatus[r].status
           \/ Performed(r)
           \/ /\ requestStatus[r].status \in {"absent", "failed", "processing"}
              /\ requestStatus'[r].status = "processing"
           \/ /\ requestStatus[r].status = "processing"
              /\ requestStatus'[r].status \in {"failed", "completed"}
    PROVE  ContractMove(r)
<1>1. WritesOf(r)' = WritesOf(r)
  BY DEF WritesOf, Wrote, IdOfKey, IdAt
<1>2. CASE WritesOf(r) # {}
  BY <1>1, <1>2 DEF ContractMove, PhaseOf
<1>3. CASE WritesOf(r) = {}
  BY <1>1, <1>3, SeenWrites DEF ContractMove, PhaseOf
<1> QED BY <1>2, <1>3

\* The last row of an id that the run appends.
LEMMA FinalIsMove ==
    ASSUME OuterIdsApart, RowInv, At("finalize"), effects' = effects, NEW r \in RequestId,
           requestStatus'[r].status = FinalRow(r).status
    PROVE  ContractMove(r)
<1>0. BaseInv /\ WorkRun /\ RowRun /\ ~At("idle") /\ ~Planned /\ run.msg \in Message
      /\ run.msg # NoMessage
  BY RunIs, BatchAssumption DEF RowInv, WorkInv, At, Planned
<1>1. CASE Mine(r) # {}
  <2>1. PICK i \in Mine(r) :
           FinalRow(r) = [status |-> FinalRequestStatus(run.items[i].wrote, run.items[i].reply,
                                                        run.replied),
                          stale |-> FALSE]
    BY <1>0, <1>1, FinalRowIs
  <2>2. run.returned /\ i \in Index(run.msg) /\ Live(i) /\ IdAt(run.msg, i) = r
    BY <2>1 DEF Mine, Live
  <2>3. i \in DOMAIN run.items
    BY <1>0, <2>2, RunIs
  <2>4. CASE run.items[i].wrote
    <3>1. Wrote(<<run.msg, i>>)
      BY <1>0, <2>2, <2>3, <2>4 DEF WorkRun
    <3>2. Performed(r)
      BY <1>0, <2>2, <3>1, IdsApart DEF Performed
    <3> QED BY <3>2, RowIsMove
  <2>5. CASE ~run.items[i].wrote
    <3>1. requestStatus[r].status = "processing"
      BY <1>0, <2>2, <2>3, <2>5 DEF RowRun
    <3>2. requestStatus'[r].status \in {"failed", "completed"}
      BY <2>1, <2>5 DEF FinalRequestStatus
    <3> QED BY <3>1, <3>2, RowIsMove
  <2> QED BY <2>4, <2>5
<1>2. CASE Mine(r) = {} /\ run.started /\ r = OuterOf[run.msg]
  <2>1. requestStatus[r].status = "processing"
    BY <1>0, <1>2 DEF RowRun
  <2>2. requestStatus'[r].status \in {"failed", "completed"}
    BY <1>0, <1>2, FinalRowIs DEF FinalRequestStatus
  <2> QED BY <2>1, <2>2, RowIsMove
<1>3. CASE Mine(r) = {} /\ ~(run.started /\ r = OuterOf[run.msg])
  BY <1>0, <1>3, FinalRowIs, RowIsMove
<1> QED BY <1>1, <1>2, <1>3

\* An append of rows moves each of its ids by one legal move.
LEMMA AppendIsMoves ==
    ASSUME OuterIdsApart, RowInv, [Next]_vars, effects' = effects, NEW r \in RequestId
    PROVE  ContractMove(r)
<1>0. BaseInv /\ WorkRun /\ RowRun /\ ShapeInv /\ requestStatus[r] \in StatusRow
  BY DEF RowInv, WorkInv, BaseInv, TypeInv, TypeOK, StoreTypeOK
<1>1. CASE requestStatus'[r].status = requestStatus[r].status
  BY <1>1, RowIsMove
<1>2. CASE /\ At("claim") /\ r = OuterOf[run.msg]
           /\ requestStatus'[r].status = "processing"
  <2>1. requestStatus[r].status \in {"absent", "failed", "processing"}
    BY <1>0, <1>2 DEF RowRun, StatusRow, RequestStatus
  <2> QED BY <1>2, <2>1, RowIsMove
<1>3. CASE At("claimitems") /\ r \in TodoIds /\ requestStatus'[r].status = "processing"
  <2>1. PICK i \in run.todo : IdAt(run.msg, i) = r
    BY <1>3 DEF TodoIds
  <2>2. Planned /\ ~At("idle")
    BY <1>3 DEF Planned, At
  <2>3. i \in DOMAIN run.items /\ Live(i)
    BY <1>0, <2>1, <2>2, RunIs DEF Live
  <2>4. ~run.items[i].wrote
    BY <1>0, <2>2, <2>3 DEF ShapeInv
  <2>5. requestStatus[r].status \in {"absent", "failed", "processing"}
    BY <1>0, <2>1, <2>2, <2>3, <2>4 DEF RowRun
  <2> QED BY <1>3, <2>5, RowIsMove
<1>4. CASE At("effect") /\ r = IdAt(run.msg, Written)
  <2>1. Written \in Index(run.msg) /\ Written \in DOMAIN run.items /\ run.items[Written].wrote
    BY <1>0, <1>4, WrittenIs
  <2>2. ~At("idle") /\ run.msg \in Message /\ run.msg # NoMessage
    BY <1>0, <1>4, RunIs, BatchAssumption DEF At
  <2>3. Wrote(<<run.msg, Written>>)
    BY <1>0, <2>1, <2>2 DEF WorkRun
  <2>4. Performed(r)
    BY <1>0, <1>4, <2>1, <2>2, <2>3, IdsApart DEF Performed
  <2> QED BY <2>4, RowIsMove
<1>5. CASE At("finalize") /\ requestStatus'[r].status = FinalRow(r).status
  BY <1>5, FinalIsMove
<1> QED BY <1>0, <1>1, <1>2, <1>3, <1>4, <1>5, RowsChange

\* The write of an item: Perform for its id, Rest for all the others.
LEMMA WriteIsPerform ==
    ASSUME WritesAreAnswered, RowInv, NEW o,
           RefuseItem \/ ExecuteReadItem(o) \/ ExecuteWriteItem(o), NEW r \in RequestId
    PROVE  ContractMove(r)
<1> DEFINE key == <<run.msg, Current>>
<1>0. requestStatus' = requestStatus
  BY ItemSteps
<1>1. /\ \A k \in ItemKey : Wrote(k)' <=> Wrote(k) \/ (k = key /\ run'.items[Current].wrote)
      /\ ~Performed(IdAt(run.msg, Current))
      /\ requestStatus[IdAt(run.msg, Current)].status = "processing"
  BY RowItemWrites
<1>2. key \in ItemKey /\ IdOfKey(key) = IdAt(run.msg, Current)
  BY ItemSteps, ItemIs DEF RowInv, WorkInv, IdOfKey
<1>3. \A k : IdOfKey(k)' = IdOfKey(k)
  BY DEF IdOfKey, IdAt
<1> HIDE DEF key, Wrote, IdOfKey
<1>4. CASE r = IdOfKey(key) /\ run'.items[Current].wrote
  <2>1. WritesOf(r) = {} /\ requestStatus[r].status = "processing"
    BY <1>1, <1>2, <1>4, SeenWrites
  <2>2. WritesOf(r)' = {key}
    <3>1. \A k \in ItemKey : Wrote(k) => IdOfKey(k) # r
      BY <2>1 DEF WritesOf
    <3>2. \A k \in ItemKey : Wrote(k)' /\ IdOfKey(k)' = r <=> k = key
      BY <1>1, <1>2, <1>3, <1>4, <3>1
    <3>3. WritesOf(r)' = {k \in ItemKey : Wrote(k)' /\ IdOfKey(k)' = r}
      BY DEF WritesOf
    <3> QED BY <1>2, <3>2, <3>3
  <2> QED BY <2>1, <2>2 DEF ContractMove, PhaseOf
<1>5. CASE ~(r = IdOfKey(key) /\ run'.items[Current].wrote)
  <2>1. WritesOf(r)' = WritesOf(r)
    <3>1. \A k \in ItemKey : Wrote(k)' /\ IdOfKey(k)' = r <=> Wrote(k) /\ IdOfKey(k) = r
      BY <1>1, <1>3, <1>5
    <3>2. /\ WritesOf(r)' = {k \in ItemKey : Wrote(k)' /\ IdOfKey(k)' = r}
          /\ WritesOf(r) = {k \in ItemKey : Wrote(k) /\ IdOfKey(k) = r}
      BY DEF WritesOf
    <3> QED BY <3>1, <3>2
  <2> QED BY <1>0, <2>1 DEF ContractMove, PhaseOf
<1> QED BY <1>4, <1>5

LEMMA ContractInit == Init => Contract!Init
<1> SUFFICES ASSUME Init PROVE Contract!Init
  OBVIOUS
<1>1. ASSUME NEW r \in RequestId PROVE PhaseOf(r) = "open" /\ WritesOf(r) = {}
  <2>1. requestStatus[r].status = "absent" /\ \A k \in ItemKey : ~Wrote(k)
    BY DEF Init, StoreInit, Wrote
  <2> HIDE DEF Wrote
  <2>2. WritesOf(r) = {}
    BY <2>1 DEF WritesOf
  <2> QED BY <2>1, <2>2 DEF PhaseOf
<1> QED BY <1>1 DEF Contract!Init

\* Every step of a batch is a step of the contract, in which each id of the
\* batch makes at most one move.
LEMMA StepIsContractStep ==
    ASSUME OuterIdsApart, WritesAreAnswered
    PROVE  RowInv /\ [Next]_vars => Contract!Next
<1> SUFFICES ASSUME RowInv, [Next]_vars, NEW r \in RequestId PROVE ContractMove(r)
  BY MovesAreSteps
<1>1. CASE effects' = effects
  BY <1>1, AppendIsMoves
<1>2. CASE effects' # effects
  <2>1. PICK o : RefuseItem \/ ExecuteReadItem(o) \/ ExecuteWriteItem(o)
    BY <1>2 DEF Next, vars, worldVars, Begin, CountToday, LookupRequest, ClaimRequest, ReadItems,
                RecordItems, ClaimItems, RecordItemEffect, Conclude, SendReply, AppendAudits,
                FinalizeStatuses, Crash, PassTime
  <2> QED BY <2>1, WriteIsPerform
<1> QED BY <1>1, <1>2

\* "Resending" (docs/PROTOCOL.md), for the ids of batches and of their items
\* alike: one append may move many of them, but each by one legal move, and
\* no id is written under twice or set free once it was.
THEOREM ContractKept ==
    ASSUME OneKindPerId, OuterIdsApart, WritesAreAnswered
    PROVE  Spec => KeepsContract
<1>1. RowInv /\ [Next]_vars => [Contract!Next]_(Contract!contractVars)
  BY OuterIdsApart, WritesAreAnswered, StepIsContractStep
<1> QED BY <1>1, ContractInit, RowHolds, OneKindPerId, OuterIdsApart, WritesAreAnswered, PTL
        DEF Spec, KeepsContract, Contract!Spec
=============================================================================
