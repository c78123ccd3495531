---------------------------- MODULE PipelineProofs ----------------------------
(***************************************************************************)
(* Theorems about Pipeline, for every set of messages, threads, processes  *)
(* and request ids and every cap.                                          *)
(***************************************************************************)
EXTENDS Pipeline, TLAPS

\* TypeOK's two clauses about the activations.
ActivationsOK ==
    /\ req \in [Worker -> RequestState]
    /\ \A w \in Worker : req[w].msg = NoMessage <=> req[w].at = "idle"

\* A thread that is handling a message has one, and it carries an id.
LEMMA HasMessage ==
    ASSUME TypeOK, NEW w \in Worker, ~At(w, "idle")
    PROVE  req[w].msg \in Message /\ IdOf[req[w].msg] \in RequestId
BY ConstantsAssumption DEF TypeOK, RequestState, At

\* Moving on, answering and releasing leave the activations well formed.
LEMMA GotoTyped ==
    ASSUME TypeOK, NEW w \in Worker, ~At(w, "idle"),
           NEW at \in Phase \ {"idle"}, Goto(w, at)
    PROVE  ActivationsOK'
BY DEF TypeOK, ActivationsOK, RequestState, At, Goto

LEMMA AnswerTyped ==
    ASSUME TypeOK, NEW w \in Worker, ~At(w, "idle"),
           NEW reply \in Reply, Answer(w, reply)
    PROVE  ActivationsOK'
<1> DEFINE sent == [req EXCEPT ![w].at = "send"]
<1>1. sent \in [Worker -> RequestState] /\ w \in DOMAIN sent
  BY DEF TypeOK, RequestState, Phase
<1>2. \A v \in Worker : sent[v].msg = NoMessage <=> sent[v].at = "idle"
  BY DEF TypeOK, RequestState, At
<1>3. req' = [sent EXCEPT ![w].reply = reply]
  BY DEF Answer
<1> HIDE DEF sent
<1> QED BY <1>1, <1>2, <1>3 DEF ActivationsOK, RequestState

LEMMA AnswerErrorTyped ==
    ASSUME TypeOK, NEW w \in Worker, ~At(w, "idle"), AnswerError(w)
    PROVE  ActivationsOK'
<1>1. PICK retryable \in BOOLEAN : Answer(w, [status |-> "error", retryable |-> retryable])
  BY DEF AnswerError
<1>2. [status |-> "error", retryable |-> retryable] \in Reply
  BY DEF Reply
<1> QED BY <1>1, <1>2, AnswerTyped

LEMMA IdleTyped == Idle \in RequestState /\ Idle.msg = NoMessage /\ Idle.at = "idle"
BY DEF Idle, Fresh, InternalError, RequestState, Phase, Reply

LEMMA ReleaseTyped ==
    ASSUME TypeOK, NEW w \in Worker, Release(w)
    PROVE  ActivationsOK' /\ lock' \in [Process -> Worker \cup {NoWorker}]
BY IdleTyped DEF TypeOK, ActivationsOK, Release

\* The last row of a request has one of the four statuses.
LEMMA FinalStatusTyped ==
    ASSUME NEW r PROVE LastStatus(r) \in RequestStatus
BY DEF LastStatus, FinalRequestStatus, RequestStatus

\* A row appended to the request_status tab leaves it well formed.
LEMMA WithStatusTyped ==
    ASSUME TypeOK, NEW id \in RequestId, NEW status \in RequestStatus
    PROVE  WithStatus(id, status) \in [RequestId -> StatusRow]
BY DEF WithStatus, TypeOK, StoreTypeOK, StatusRow

LEMMA TypeInit == Init => TypeOK
BY ConstantsAssumption, IdleTyped
   DEF Init, StoreInit, TypeOK, StoreTypeOK, StatusRow

\* Delivery, the lock and Layers 0 and 1.
LEMMA TypeStepIngress ==
    ASSUME TypeOK, NEW w \in Worker, NEW o,
           \/ \E m \in Message : Receive(w, m)
           \/ Acquire(w) \/ Ingress(w)
           \/ CheckMessage(w, o) \/ MarkMessageSeen(w, o) \/ Respond(w, o)
    PROVE  TypeOK'
<1>1. ASSUME NEW m \in Message, Receive(w, m) PROVE TypeOK'
  <2>1. Fresh("lock", m) \in RequestState
    BY DEF Fresh, InternalError, RequestState, Phase, Reply
  <2>2. ActivationsOK'
    BY <1>1, <2>1, ConstantsAssumption DEF Receive, TypeOK, ActivationsOK, Fresh
  <2> QED BY <1>1, <2>2 DEF Receive, TypeOK, StoreTypeOK, storeVars, worldVars, ActivationsOK
<1>2. CASE Acquire(w)
  <2>1. ActivationsOK'
    BY <1>2, GotoTyped DEF Acquire, At, Phase
  <2>2. lock' \in [Process -> Worker \cup {NoWorker}]
    BY <1>2 DEF Acquire, TypeOK
  <2> QED BY <1>2, <2>1, <2>2 DEF Acquire, TypeOK, StoreTypeOK, storeVars, worldVars, ActivationsOK
<1>3. CASE Ingress(w)
  <2>1. ActivationsOK'
    BY <1>3, GotoTyped DEF Ingress, At, Phase
  <2>2. noted' \subseteq Message \X {"rejected", "duplicate_message"}
    BY <1>3, HasMessage DEF Ingress, At, TypeOK
  <2> QED BY <1>3, <2>1, <2>2 DEF Ingress, TypeOK, StoreTypeOK, storeVars, ActivationsOK
<1>4. CASE CheckMessage(w, o)
  <2>1. ActivationsOK' /\ lock' \in [Process -> Worker \cup {NoWorker}]
    BY <1>4, GotoTyped, ReleaseTyped DEF CheckMessage, At, Phase, TypeOK
  <2>2. noted' \subseteq Message \X {"rejected", "duplicate_message"}
    BY <1>4, HasMessage DEF CheckMessage, At, TypeOK
  <2> QED BY <1>4, <2>1, <2>2 DEF CheckMessage, TypeOK, StoreTypeOK, storeVars, ActivationsOK
<1>5. CASE MarkMessageSeen(w, o)
  <2>1. ActivationsOK' /\ lock' \in [Process -> Worker \cup {NoWorker}]
    BY <1>5, GotoTyped, ReleaseTyped DEF MarkMessageSeen, At, Phase, TypeOK
  <2>2. messages' \subseteq Message
    BY <1>5, HasMessage DEF MarkMessageSeen, At, TypeOK, StoreTypeOK
  <2> QED BY <1>5, <2>1, <2>2 DEF MarkMessageSeen, TypeOK, StoreTypeOK, worldVars, ActivationsOK
<1>6. CASE Respond(w, o)
  <2>1. ActivationsOK' /\ lock' \in [Process -> Worker \cup {NoWorker}]
    BY <1>6, ReleaseTyped DEF Respond
  <2> QED BY <1>6, <2>1 DEF Respond, TypeOK, StoreTypeOK, storeVars, worldVars, ActivationsOK
<1> QED BY <1>1, <1>2, <1>3, <1>4, <1>5, <1>6

\* _run_request, up to the reply.
LEMMA TypeStepRequest ==
    ASSUME TypeOK, NEW w \in Worker, NEW o,
           \/ CountToday(w, o) \/ LookupRequest(w, o)
           \/ ClaimRequest(w, o) \/ RecordRequest(w, o)
           \/ Refuse(w) \/ ExecuteRead(w, o) \/ ExecuteWrite(w, o) \/ RecordEffect(w, o)
    PROVE  TypeOK'
<1>0. /\ InternalError \in Reply
      /\ \A s \in {"completed", "denied", "duplicate"} : [status |-> s, retryable |-> FALSE] \in Reply
  BY DEF InternalError, Reply
<1>1. CASE CountToday(w, o)
  <2>1. ActivationsOK'
    BY <1>0, <1>1, GotoTyped, AnswerTyped, AnswerErrorTyped DEF CountToday, At, Phase
  <2> QED BY <1>1, <2>1 DEF CountToday, TypeOK, StoreTypeOK, storeVars, worldVars, ActivationsOK
<1>2. CASE LookupRequest(w, o)
  <2>1. ActivationsOK'
    BY <1>0, <1>2, GotoTyped, AnswerTyped, AnswerErrorTyped DEF LookupRequest, At, Phase
  <2> QED BY <1>2, <2>1 DEF LookupRequest, TypeOK, StoreTypeOK, storeVars, worldVars, ActivationsOK
<1>3. CASE ClaimRequest(w, o)
  <2>1. ActivationsOK'
    <3>1. CASE Raised(o)
      BY <1>3, <3>1, AnswerErrorTyped DEF ClaimRequest, At
    <3>2. CASE ~Raised(o)
      BY <1>3, <3>2 DEF ClaimRequest, TypeOK, ActivationsOK, RequestState, Phase, At
    <3> QED BY <3>1, <3>2
  <2>2. requestStatus' \in [RequestId -> StatusRow]
    BY <1>3, HasMessage, WithStatusTyped DEF ClaimRequest, At, RequestStatus, TypeOK, StoreTypeOK
  <2> QED BY <1>3, <2>1, <2>2 DEF ClaimRequest, TypeOK, StoreTypeOK, worldVars, ActivationsOK
<1>4. CASE RecordRequest(w, o)
  <2>1. ActivationsOK'
    BY <1>4, GotoTyped, AnswerErrorTyped DEF RecordRequest, At, Phase
  <2>2. dailyCount' \in Nat /\ charged' \subseteq Message
    BY <1>4, HasMessage DEF RecordRequest, At, TypeOK, StoreTypeOK
  <2> QED BY <1>4, <2>1, <2>2 DEF RecordRequest, TypeOK, StoreTypeOK, ActivationsOK
<1>5. CASE Refuse(w)
  <2>1. ActivationsOK'
    BY <1>0, <1>5, AnswerTyped DEF Refuse, At
  <2> QED BY <1>5, <2>1 DEF Refuse, TypeOK, StoreTypeOK, storeVars, worldVars, ActivationsOK
<1>6. CASE ExecuteRead(w, o)
  <2>1. ActivationsOK'
    BY <1>0, <1>6, AnswerTyped, AnswerErrorTyped DEF ExecuteRead, At
  <2> QED BY <1>6, <2>1 DEF ExecuteRead, TypeOK, StoreTypeOK, storeVars, worldVars, ActivationsOK
<1>7. CASE ExecuteWrite(w, o)
  <2>1. ActivationsOK'
    <3>1. CASE Raised(o)
      BY <1>7, <3>1, AnswerErrorTyped DEF ExecuteWrite, At
    <3>2. CASE ~Raised(o)
      BY <1>7, <3>2 DEF ExecuteWrite, TypeOK, ActivationsOK, RequestState, Phase, At
    <3> QED BY <3>1, <3>2
  <2>2. effects' \in [Message -> Nat]
    BY <1>7, HasMessage DEF ExecuteWrite, At, TypeOK
  <2> QED BY <1>7, <2>1, <2>2 DEF ExecuteWrite, TypeOK, StoreTypeOK, storeVars, ActivationsOK
<1>8. CASE RecordEffect(w, o)
  <2>1. ActivationsOK'
    BY <1>0, <1>8, AnswerTyped DEF RecordEffect, At
  <2>2. requestStatus' \in [RequestId -> StatusRow]
    BY <1>8, HasMessage, WithStatusTyped DEF RecordEffect, At, RequestStatus, TypeOK, StoreTypeOK
  <2> QED BY <1>8, <2>1, <2>2 DEF RecordEffect, TypeOK, StoreTypeOK, worldVars, ActivationsOK
<1> QED BY <1>1, <1>2, <1>3, <1>4, <1>5, <1>6, <1>7, <1>8

\* Layer 5.
LEMMA TypeStepReply ==
    ASSUME TypeOK, NEW w \in Worker, NEW o,
           SendReply(w, o) \/ AppendAudit(w) \/ FinalizeStatus(w, o)
    PROVE  TypeOK'
<1>1. CASE SendReply(w, o)
  <2>1. req[w].msg \in Message /\ req[w].reply \in Reply
    BY <1>1, HasMessage DEF SendReply, At, TypeOK, RequestState
  <2>2. ActivationsOK'
    <3> DEFINE sent == [req EXCEPT ![w].at = "audit"]
    <3>1. sent \in [Worker -> RequestState]
      BY DEF TypeOK, RequestState, Phase
    <3>2. \A v \in Worker : sent[v].msg = NoMessage <=> sent[v].at = "idle"
      BY <1>1 DEF SendReply, TypeOK, RequestState, At
    <3>3. \E b \in BOOLEAN : req' = [sent EXCEPT ![w].replied = b]
      <4>1. CASE Raised(o)
        <5>1. req' = [sent EXCEPT ![w].replied = FALSE]
          BY <1>1, <4>1 DEF SendReply
        <5> QED BY <5>1
      <4>2. CASE ~Raised(o)
        <5>1. req' = [sent EXCEPT ![w].replied = TRUE]
          BY <1>1, <4>2 DEF SendReply
        <5> QED BY <5>1
      <4> QED BY <4>1, <4>2
    <3> HIDE DEF sent
    <3> QED BY <3>1, <3>2, <3>3 DEF ActivationsOK, RequestState
  <2>3. attempts' \in [Message -> Nat] /\ said' \in [Message -> Reply \cup {NoReply}]
    BY <1>1, <2>1 DEF SendReply, TypeOK
  <2> QED BY <1>1, <2>2, <2>3 DEF SendReply, TypeOK, StoreTypeOK, storeVars, ActivationsOK
<1>2. CASE AppendAudit(w)
  <2>1. req[w].msg \in Message
    BY <1>2, HasMessage DEF AppendAudit, At
  <2>2. ActivationsOK'
    BY <1>2, GotoTyped DEF AppendAudit, At, Phase
  <2>3. audits' \in [Message -> Nat]
    BY <1>2, <2>1 DEF AppendAudit, TypeOK
  <2> QED BY <1>2, <2>2, <2>3 DEF AppendAudit, TypeOK, StoreTypeOK, storeVars, ActivationsOK
<1>3. CASE FinalizeStatus(w, o)
  <2>1. ActivationsOK'
    BY <1>3, GotoTyped DEF FinalizeStatus, At, Phase
  <2>2. requestStatus' \in [RequestId -> StatusRow]
    BY <1>3, HasMessage, WithStatusTyped, FinalStatusTyped
       DEF FinalizeStatus, At, TypeOK, StoreTypeOK
  <2> QED BY <1>3, <2>1, <2>2 DEF FinalizeStatus, TypeOK, StoreTypeOK, worldVars, ActivationsOK
<1> QED BY <1>1, <1>2, <1>3

\* Crashes and the passing of time.
LEMMA TypeStepWorld ==
    ASSUME TypeOK, (\E p \in Process : Crash(p)) \/ PassTime
    PROVE  TypeOK'
<1>1. ASSUME NEW p \in Process, Crash(p) PROVE TypeOK'
  <2>1. ActivationsOK'
    BY <1>1, IdleTyped DEF Crash, TypeOK, ActivationsOK
  <2>2. lock' \in [Process -> Worker \cup {NoWorker}]
    BY <1>1 DEF Crash, TypeOK
  <2> QED BY <1>1, <2>1, <2>2 DEF Crash, TypeOK, StoreTypeOK, storeVars, worldVars, ActivationsOK
<1>2. CASE PassTime
  <2>1. ASSUME NewDay PROVE StoreTypeOK'
    BY <2>1 DEF NewDay, TypeOK, StoreTypeOK
  <2>2. ASSUME NEW r \in RequestId, GrowStale(r) PROVE StoreTypeOK'
    <3>1. requestStatus' \in [RequestId -> StatusRow]
      BY <2>2 DEF GrowStale, TypeOK, StoreTypeOK, StatusRow
    <3> QED BY <2>2, <3>1 DEF GrowStale, TypeOK, StoreTypeOK
  <2>3. StoreTypeOK'
    BY <1>2, <2>1, <2>2 DEF PassTime
  <2> QED BY <1>2, <2>3 DEF PassTime, TypeOK, worldVars
<1> QED BY <1>1, <1>2

LEMMA TypeStep == TypeOK /\ [Next]_vars => TypeOK'
<1> SUFFICES ASSUME TypeOK, [Next]_vars PROVE TypeOK'
  OBVIOUS
<1>1. CASE UNCHANGED vars
  BY <1>1 DEF vars, storeVars, worldVars, TypeOK, StoreTypeOK
<1>2. ASSUME NEW w \in Worker, NEW m \in Message, Receive(w, m) PROVE TypeOK'
  BY <1>2, TypeStepIngress
<1>3. ASSUME NEW w \in Worker, LocalStep(w) PROVE TypeOK'
  BY <1>3, TypeStepIngress, TypeStepRequest, TypeStepReply DEF LocalStep
<1>4. ASSUME NEW w \in Worker, NEW o, RemoteCall(w, o) PROVE TypeOK'
  BY <1>4, TypeStepIngress, TypeStepRequest, TypeStepReply DEF RemoteCall
<1>5. CASE (\E p \in Process : Crash(p)) \/ PassTime
  BY <1>5, TypeStepWorld
<1> QED BY <1>1, <1>2, <1>3, <1>4, <1>5 DEF Next

\* Tabs, locks, activations and what the world saw always have their types.
THEOREM TypeCorrect == Spec => []TypeOK
BY TypeInit, TypeStep, PTL DEF Spec

-----------------------------------------------------------------------------
(* The lock.  A thread is active from Acquire until it releases the lock.  *)

Active(w) == req[w].at \notin {"idle", "lock"}

LockInv == \A w \in Worker : Active(w) <=> lock[ProcessOf[w]] = w

\* A deployment with one instance, docs/RUNBOOK.md's --max-instances=1.
OneInstance == \A v, w \in Worker : ProcessOf[v] = ProcessOf[w]

\* The lock and the activations after w moved on while it held the lock.
Continues(w) ==
    /\ Active(w) /\ Active(w)'
    /\ lock' = lock
    /\ \A v \in Worker : v # w => req'[v] = req[v]

\* The lock and the activations after w gave the lock back.
Leaves(w) ==
    /\ Active(w)
    /\ lock' = [lock EXCEPT ![ProcessOf[w]] = NoWorker]
    /\ req' = [req EXCEPT ![w] = Idle]

LEMMA GotoContinues ==
    ASSUME TypeOK, NEW w \in Worker, Active(w), UNCHANGED lock,
           NEW at \in Phase \ {"idle", "lock"}, Goto(w, at)
    PROVE  /\ Continues(w)
           /\ req'[w].at = at
           /\ req'[w].msg = req[w].msg
           /\ req'[w].started = req[w].started
           /\ req'[w].wrote = req[w].wrote
BY DEF TypeOK, RequestState, Active, Goto, Continues

LEMMA AnswerContinues ==
    ASSUME TypeOK, NEW w \in Worker, Active(w), UNCHANGED lock,
           NEW reply, Answer(w, reply)
    PROVE  /\ Continues(w)
           /\ req'[w].at = "send"
           /\ req'[w].msg = req[w].msg
           /\ req'[w].started = req[w].started
           /\ req'[w].wrote = req[w].wrote
BY DEF TypeOK, RequestState, Active, Answer, Continues

LEMMA AnswerErrorContinues ==
    ASSUME TypeOK, NEW w \in Worker, Active(w), UNCHANGED lock, AnswerError(w)
    PROVE  /\ Continues(w)
           /\ req'[w].at = "send"
           /\ req'[w].msg = req[w].msg
           /\ req'[w].started = req[w].started
           /\ req'[w].wrote = req[w].wrote
BY AnswerContinues DEF AnswerError

\* Every step of a thread but Receive and Acquire either goes on with its
\* message under the lock or ends the handling and gives the lock back.
LEMMA StepsOfAThread ==
    ASSUME TypeOK, NEW w \in Worker, NEW o, LocalStep(w) \/ RemoteCall(w, o)
    PROVE  Acquire(w) \/ Leaves(w) \/ (Continues(w) /\ req'[w].msg = req[w].msg)
<1>1. CASE Ingress(w)
  BY <1>1, GotoContinues DEF Ingress, At, Active, Phase
<1>2. CASE CheckMessage(w, o)
  <2>1. CASE Raised(o)
    BY <1>2, <2>1 DEF CheckMessage, At, Active, Release, Leaves
  <2>2. CASE ~Raised(o)
    BY <1>2, <2>2, GotoContinues DEF CheckMessage, At, Active, Phase
  <2> QED BY <2>1, <2>2
<1>3. CASE MarkMessageSeen(w, o)
  <2>1. CASE Raised(o)
    BY <1>3, <2>1 DEF MarkMessageSeen, At, Active, Release, Leaves
  <2>2. CASE ~Raised(o)
    BY <1>3, <2>2, GotoContinues DEF MarkMessageSeen, At, Active, Phase
  <2> QED BY <2>1, <2>2
<1>4. CASE Respond(w, o)
  BY <1>4 DEF Respond, At, Active, Release, Leaves
<1>5. CASE CountToday(w, o)
  <2>1. AnswerError(w) \/ Answer(w, InternalError) \/ Goto(w, "lookup")
    BY <1>5 DEF CountToday
  <2>2. Active(w) /\ UNCHANGED lock
    BY <1>5 DEF CountToday, At, Active
  <2> QED BY <2>1, <2>2, GotoContinues, AnswerContinues, AnswerErrorContinues DEF Phase
<1>6. CASE LookupRequest(w, o)
  <2>1. \/ AnswerError(w)
        \/ Answer(w, [status |-> "duplicate", retryable |-> FALSE])
        \/ Goto(w, "claim")
    BY <1>6 DEF LookupRequest
  <2>2. Active(w) /\ UNCHANGED lock
    BY <1>6 DEF LookupRequest, At, Active
  <2> QED BY <2>1, <2>2, GotoContinues, AnswerContinues, AnswerErrorContinues DEF Phase
<1>7. CASE ClaimRequest(w, o)
  <2>1. Active(w) /\ UNCHANGED lock
    BY <1>7 DEF ClaimRequest, At, Active
  <2>2. CASE Raised(o)
    BY <1>7, <2>1, <2>2, AnswerErrorContinues DEF ClaimRequest
  <2>3. CASE ~Raised(o)
    BY <1>7, <2>1, <2>3 DEF ClaimRequest, Continues, Active, TypeOK, RequestState
  <2> QED BY <2>2, <2>3
<1>8. CASE RecordRequest(w, o)
  <2>1. AnswerError(w) \/ Goto(w, "execute")
    BY <1>8 DEF RecordRequest
  <2>2. Active(w) /\ UNCHANGED lock
    BY <1>8 DEF RecordRequest, At, Active
  <2> QED BY <2>1, <2>2, GotoContinues, AnswerErrorContinues DEF Phase
<1>9. CASE Refuse(w)
  BY <1>9, AnswerContinues DEF Refuse, At, Active
<1>10. CASE ExecuteRead(w, o)
  BY <1>10, AnswerContinues, AnswerErrorContinues DEF ExecuteRead, At, Active
<1>11. CASE ExecuteWrite(w, o)
  <2>1. Active(w) /\ UNCHANGED lock
    BY <1>11 DEF ExecuteWrite, At, Active
  <2>2. CASE Raised(o)
    BY <1>11, <2>1, <2>2, AnswerErrorContinues DEF ExecuteWrite
  <2>3. CASE ~Raised(o)
    BY <1>11, <2>1, <2>3 DEF ExecuteWrite, Continues, Active, TypeOK, RequestState
  <2> QED BY <2>2, <2>3
<1>12. CASE RecordEffect(w, o)
  BY <1>12, AnswerContinues DEF RecordEffect, At, Active
<1>13. CASE SendReply(w, o)
  BY <1>13 DEF SendReply, At, Continues, Active, TypeOK, RequestState
<1>14. CASE AppendAudit(w)
  BY <1>14, GotoContinues DEF AppendAudit, At, Active, Phase
<1>15. CASE FinalizeStatus(w, o)
  BY <1>15, GotoContinues DEF FinalizeStatus, At, Active, Phase
<1> QED BY <1>1, <1>2, <1>3, <1>4, <1>5, <1>6, <1>7, <1>8, <1>9, <1>10, <1>11, <1>12,
           <1>13, <1>14, <1>15 DEF LocalStep, RemoteCall

LEMMA LockInit == Init => LockInv
BY ConstantsAssumption DEF Init, LockInv, Active, Idle, Fresh

LEMMA LockStep == TypeOK /\ LockInv /\ [Next]_vars => LockInv'
<1> SUFFICES ASSUME TypeOK, LockInv, [Next]_vars PROVE LockInv'
  OBVIOUS
<1> USE ConstantsAssumption
<1>1. CASE UNCHANGED <<req, lock>>
  BY <1>1 DEF LockInv, Active
<1>2. ASSUME NEW w \in Worker, NEW m \in Message, Receive(w, m) PROVE LockInv'
  BY <1>2 DEF Receive, LockInv, Active, At, Fresh, TypeOK
<1>3. ASSUME NEW w \in Worker, Acquire(w) PROVE LockInv'
  <2>1. \A v \in Worker : v # w => req'[v] = req[v]
    BY <1>3 DEF Acquire, Goto, TypeOK
  <2>2. Active(w)'
    BY <1>3 DEF Acquire, Goto, TypeOK, RequestState, Active
  <2>3. \A p \in Process : lock'[p] = IF p = ProcessOf[w] THEN w ELSE lock[p]
    BY <1>3 DEF Acquire, TypeOK
  <2>4. lock[ProcessOf[w]] = NoWorker
    BY <1>3 DEF Acquire
  <2> QED BY <2>1, <2>2, <2>3, <2>4 DEF LockInv, Active
<1>4. ASSUME NEW w \in Worker, Continues(w) PROVE LockInv'
  BY <1>4 DEF Continues, LockInv, Active
<1>5. ASSUME NEW w \in Worker, Leaves(w) PROVE LockInv'
  <2>1. \A v \in Worker : req'[v] = IF v = w THEN Idle ELSE req[v]
    BY <1>5 DEF Leaves, TypeOK
  <2>2. \A p \in Process : lock'[p] = IF p = ProcessOf[w] THEN NoWorker ELSE lock[p]
    BY <1>5 DEF Leaves, TypeOK
  <2>3. Active(w) /\ Idle.at = "idle"
    BY <1>5 DEF Leaves, Idle, Fresh
  <2> QED BY <2>1, <2>2, <2>3 DEF LockInv, Active
<1>6. ASSUME NEW p \in Process, Crash(p) PROVE LockInv'
  <2>1. \A v \in Worker : req'[v] = IF ProcessOf[v] = p THEN Idle ELSE req[v]
    BY <1>6 DEF Crash
  <2>2. \A q \in Process : lock'[q] = IF q = p THEN NoWorker ELSE lock[q]
    BY <1>6 DEF Crash, TypeOK
  <2> QED BY <2>1, <2>2 DEF LockInv, Active, Idle, Fresh
<1>7. ASSUME NEW w \in Worker, NEW o, LocalStep(w) \/ RemoteCall(w, o) PROVE LockInv'
  BY <1>3, <1>4, <1>5, <1>7, StepsOfAThread
<1> QED BY <1>1, <1>2, <1>6, <1>7 DEF Next, PassTime, vars

\* Under the lock of the only instance there is one thread.
LEMMA OneActive ==
    ASSUME OneInstance, LockInv, NEW v \in Worker, NEW w \in Worker, Active(v), Active(w)
    PROVE  v = w
BY DEF OneInstance, LockInv

\* While a thread works under the lock of the only instance, the others
\* wait or are idle, before the step and after it.
LEMMA OthersWait ==
    ASSUME OneInstance, LockInv, NEW w \in Worker, Continues(w),
           NEW v \in Worker, v # w
    PROVE  ~Active(v) /\ ~Active(v)'
BY OneActive DEF Continues, Active

-----------------------------------------------------------------------------
(* The cap.  CapRespected is not inductive: the count is compared with the *)
(* cap three calls before the row is appended.  Under the lock nobody else *)
(* appends in between, and midnight only lowers the count.                 *)

Counted(w) == req[w].at \in {"lookup", "claim", "record"}

CapInv ==
    /\ TypeOK
    /\ LockInv
    /\ CapRespected
    /\ \A w \in Worker : Counted(w) => dailyCount < MaxRequestsPerDay

\* The steps that have nothing to do with the cap.
LEMMA StepsWithoutCount ==
    ASSUME TypeOK, NEW w \in Worker, NEW o,
           \/ LocalStep(w)
           \/ CheckMessage(w, o) \/ MarkMessageSeen(w, o)
           \/ ExecuteRead(w, o) \/ ExecuteWrite(w, o) \/ RecordEffect(w, o)
           \/ SendReply(w, o) \/ FinalizeStatus(w, o) \/ Respond(w, o)
    PROVE  dailyCount' = dailyCount /\ ~Counted(w)'
<1>1. CASE Acquire(w)
  BY <1>1 DEF Acquire, Goto, Counted, TypeOK, RequestState, storeVars
<1>2. CASE Ingress(w)
  BY <1>2, GotoContinues DEF Ingress, At, Active, Phase, Counted, storeVars
<1>3. CASE AppendAudit(w)
  BY <1>3, GotoContinues DEF AppendAudit, At, Active, Phase, Counted, storeVars
<1>4. CASE Refuse(w)
  BY <1>4, AnswerContinues DEF Refuse, At, Active, Counted, storeVars
<1>5. CASE CheckMessage(w, o)
  <2>1. CASE Raised(o)
    BY <1>5, <2>1 DEF CheckMessage, Release, Idle, Fresh, Counted, TypeOK, storeVars
  <2>2. CASE ~Raised(o)
    BY <1>5, <2>2, GotoContinues DEF CheckMessage, At, Active, Phase, Counted, storeVars
  <2> QED BY <2>1, <2>2
<1>6. CASE MarkMessageSeen(w, o)
  <2>1. CASE Raised(o)
    BY <1>6, <2>1 DEF MarkMessageSeen, Release, Idle, Fresh, Counted, TypeOK
  <2>2. CASE ~Raised(o)
    BY <1>6, <2>2, GotoContinues DEF MarkMessageSeen, At, Active, Phase, Counted
  <2> QED BY <2>1, <2>2
<1>7. CASE Respond(w, o)
  BY <1>7 DEF Respond, Release, Idle, Fresh, Counted, TypeOK, storeVars
<1>8. CASE ExecuteRead(w, o)
  BY <1>8, AnswerContinues, AnswerErrorContinues DEF ExecuteRead, At, Active, Counted, storeVars
<1>9. CASE ExecuteWrite(w, o)
  <2>1. CASE Raised(o)
    BY <1>9, <2>1, AnswerErrorContinues DEF ExecuteWrite, At, Active, Counted, storeVars
  <2>2. CASE ~Raised(o)
    BY <1>9, <2>2 DEF ExecuteWrite, Counted, TypeOK, RequestState, storeVars
  <2> QED BY <2>1, <2>2
<1>10. CASE RecordEffect(w, o)
  BY <1>10, AnswerContinues DEF RecordEffect, At, Active, Counted
<1>11. CASE SendReply(w, o)
  BY <1>11 DEF SendReply, Counted, TypeOK, RequestState, storeVars
<1>12. CASE FinalizeStatus(w, o)
  BY <1>12, GotoContinues DEF FinalizeStatus, At, Active, Phase, Counted
<1> QED BY <1>1, <1>2, <1>3, <1>4, <1>5, <1>6, <1>7, <1>8, <1>9, <1>10, <1>11, <1>12 DEF LocalStep

\* The steps between the count and the quota row.
LEMMA StepsWithCount ==
    ASSUME CapInv, NEW w \in Worker, NEW o,
           \/ CountToday(w, o) \/ LookupRequest(w, o)
           \/ ClaimRequest(w, o) \/ RecordRequest(w, o)
    PROVE  /\ Continues(w)
           /\ dailyCount' \in 0..MaxRequestsPerDay
           /\ Counted(w)' => dailyCount' < MaxRequestsPerDay
<1>1. TypeOK /\ dailyCount \in 0..MaxRequestsPerDay /\ MaxRequestsPerDay \in Nat
  BY MaxAssumption DEF CapInv, CapRespected, TypeOK, StoreTypeOK
<1>2. CASE CountToday(w, o)
  <2>1. Active(w) /\ UNCHANGED <<lock, dailyCount>>
    BY <1>2 DEF CountToday, At, Active, storeVars
  <2>2. CASE AnswerError(w) \/ Answer(w, InternalError)
    BY <1>1, <2>1, <2>2, AnswerContinues, AnswerErrorContinues DEF Counted
  <2>3. CASE Goto(w, "lookup") /\ dailyCount < MaxRequestsPerDay
    BY <1>1, <2>1, <2>3, GotoContinues DEF Phase
  <2> QED BY <1>1, <1>2, <2>2, <2>3 DEF CountToday
<1>3. CASE LookupRequest(w, o)
  <2>1. Active(w) /\ UNCHANGED <<lock, dailyCount>> /\ Counted(w)
    BY <1>3 DEF LookupRequest, At, Active, Counted, storeVars
  <2>2. Continues(w)
    <3>1. \/ AnswerError(w)
          \/ Answer(w, [status |-> "duplicate", retryable |-> FALSE])
          \/ Goto(w, "claim")
      BY <1>3 DEF LookupRequest
    <3> QED BY <1>1, <2>1, <3>1, GotoContinues, AnswerContinues, AnswerErrorContinues DEF Phase
  <2> QED BY <1>1, <2>1, <2>2 DEF CapInv
<1>4. CASE ClaimRequest(w, o)
  <2>1. Active(w) /\ UNCHANGED <<lock, dailyCount>> /\ Counted(w)
    BY <1>4 DEF ClaimRequest, At, Active, Counted
  <2>2. Continues(w)
    BY <1>1, <1>4, <2>1, AnswerErrorContinues
       DEF ClaimRequest, Continues, Active, TypeOK, RequestState
  <2> QED BY <1>1, <2>1, <2>2 DEF CapInv
<1>5. CASE RecordRequest(w, o)
  <2>1. Active(w) /\ UNCHANGED lock /\ Counted(w)
    BY <1>5 DEF RecordRequest, At, Active, Counted
  <2>2. dailyCount < MaxRequestsPerDay
    BY <2>1 DEF CapInv
  <2>3. dailyCount' \in 0..MaxRequestsPerDay
    BY <1>1, <1>5, <2>2 DEF RecordRequest
  <2>4. AnswerError(w) \/ Goto(w, "execute")
    BY <1>5 DEF RecordRequest
  <2>5. Continues(w) /\ ~Counted(w)'
    BY <1>1, <2>1, <2>4, GotoContinues, AnswerErrorContinues DEF Phase, Counted
  <2> QED BY <2>3, <2>5
<1> QED BY <1>2, <1>3, <1>4, <1>5

LEMMA CapInit == Init => CapInv
BY TypeInit, LockInit, MaxAssumption
   DEF Init, StoreInit, CapInv, CapRespected, Counted, Idle, Fresh

LEMMA CapStep ==
    ASSUME OneInstance
    PROVE  CapInv /\ [Next]_vars => CapInv'
<1> SUFFICES ASSUME CapInv, [Next]_vars PROVE CapInv'
  OBVIOUS
<1>1. TypeOK /\ TypeOK' /\ LockInv /\ LockInv'
  BY TypeStep, LockStep DEF CapInv
<1>2. dailyCount \in 0..MaxRequestsPerDay /\ MaxRequestsPerDay \in Nat
  BY <1>1, MaxAssumption DEF CapInv, CapRespected, TypeOK, StoreTypeOK
<1>3. CASE UNCHANGED vars
  BY <1>1, <1>3 DEF CapInv, CapRespected, Counted, vars, storeVars
<1>4. ASSUME NEW w \in Worker, NEW m \in Message, Receive(w, m) PROVE CapInv'
  BY <1>1, <1>4 DEF Receive, CapInv, CapRespected, Counted, Fresh, TypeOK, storeVars
<1>5. ASSUME NEW w \in Worker, NEW o,
             \/ CountToday(w, o) \/ LookupRequest(w, o)
             \/ ClaimRequest(w, o) \/ RecordRequest(w, o)
      PROVE  CapInv'
  <2>1. /\ Continues(w)
        /\ dailyCount' \in 0..MaxRequestsPerDay
        /\ Counted(w)' => dailyCount' < MaxRequestsPerDay
    BY <1>5, StepsWithCount
  <2>2. \A v \in Worker : v # w => ~Counted(v)'
    BY <1>1, <2>1, OthersWait DEF Counted, Active
  <2> QED BY <1>1, <1>2, <2>1, <2>2 DEF CapInv, CapRespected
<1>6. ASSUME NEW w \in Worker, NEW o,
             \/ LocalStep(w)
             \/ CheckMessage(w, o) \/ MarkMessageSeen(w, o)
             \/ ExecuteRead(w, o) \/ ExecuteWrite(w, o) \/ RecordEffect(w, o)
             \/ SendReply(w, o) \/ FinalizeStatus(w, o) \/ Respond(w, o)
      PROVE  CapInv'
  <2>1. dailyCount' = dailyCount /\ ~Counted(w)'
    BY <1>1, <1>6, StepsWithoutCount
  <2>2. \A v \in Worker : v # w => req'[v] = req[v]
    <3>1. Acquire(w) \/ Leaves(w) \/ Continues(w)
      BY <1>1, <1>6, StepsOfAThread DEF RemoteCall
    <3> QED BY <1>1, <3>1 DEF Acquire, Goto, Leaves, Continues, TypeOK
  <2> QED BY <1>1, <2>1, <2>2 DEF CapInv, CapRespected, Counted
<1>7. ASSUME NEW p \in Process, Crash(p) PROVE CapInv'
  BY <1>1, <1>7 DEF Crash, CapInv, CapRespected, Counted, Idle, Fresh, storeVars
<1>8. CASE PassTime
  <2>1. dailyCount' = dailyCount \/ dailyCount' = 0
    BY <1>8 DEF PassTime, NewDay, GrowStale
  <2>2. dailyCount' <= dailyCount
    BY <1>2, <2>1
  <2> QED BY <1>1, <1>2, <1>8, <2>1, <2>2, MaxAssumption
          DEF CapInv, CapRespected, Counted, PassTime
<1> QED BY <1>3, <1>4, <1>5, <1>6, <1>7, <1>8 DEF Next, LocalStep, RemoteCall

\* With one instance, the daily cap holds for every cap, whatever is lost,
\* redelivered, restarted or counted across midnight.
THEOREM CapHolds == ASSUME OneInstance PROVE Spec => []CapRespected
<1>1. CapInv => CapRespected
  BY DEF CapInv
<1>2. CapInv /\ [Next]_vars => CapInv'
  BY CapStep
<1> QED BY <1>1, <1>2, CapInit, PTL DEF Spec

-----------------------------------------------------------------------------
(* Writes.  WriteAtMostOnce and EffectStaysClaimed need each other: an id  *)
(* under which something was written still looks used up, so no thread     *)
(* gets past LookupRequest with it.  The strengthening follows the one     *)
(* thread under the lock from there: until it writes, nothing was written  *)
(* under its id, and the row it claimed stays `processing`.                *)

Performed(r) == \E m \in Message : IdOf[m] = r /\ effects[m] > 0

\* The thread has not claimed anything yet.
Early(w) == req[w].at \in {"lock", "ingress", "dedupe", "mark", "count", "lookup", "claim"}

\* The thread may still write, or say that it did not.
Undone(w) == req[w].at = "claim" \/ (Active(w) /\ req[w].started /\ ~req[w].wrote)

ThreadOK(w) ==
    /\ Early(w) => ~req[w].started /\ ~req[w].wrote
    /\ req[w].at \in {"record", "execute"} =>
          /\ req[w].started /\ ~req[w].wrote
          /\ requestStatus[IdOf[req[w].msg]].status = "processing"
    /\ Undone(w) => ~Performed(IdOf[req[w].msg])

WriteInv ==
    /\ TypeOK
    /\ LockInv
    /\ WriteAtMostOnce
    /\ EffectStaysClaimed
    /\ \A m \in Message : effects[m] > 0 => IsWriteVerb(m)
    /\ \A w \in Worker : ThreadOK(w)

\* Google's answer to a write is never lost.
WritesAreAnswered == "execute" \notin LostAt

\* A requester uses an id for writes or for other verbs, never for both.
OneKindPerId ==
    \A m, n \in Message : IdOf[m] = IdOf[n] => (IsWriteVerb(m) <=> IsWriteVerb(n))

LEMMA WriteInit == Init => WriteInv
<1> SUFFICES ASSUME Init PROVE WriteInv
  OBVIOUS
<1>1. /\ \A m \in Message : effects[m] = 0
      /\ \A w \in Worker : req[w] = Idle
  BY DEF Init
<1>2. TypeOK /\ LockInv
  BY TypeInit, LockInit
<1> QED BY <1>1, <1>2
        DEF WriteInv, WriteAtMostOnce, EffectStaysClaimed, ThreadOK, Early, Undone, Active, Idle, Fresh

\* The world and the request rows stay as they are, and so does every other
\* thread: only the thread that moves has to be looked at.
LEMMA QuietStep ==
    ASSUME WriteInv, TypeOK', LockInv',
           UNCHANGED <<effects, requestStatus>>,
           NEW w \in Worker, \A v \in Worker : v # w => req'[v] = req[v],
           ThreadOK(w)'
    PROVE  WriteInv'
<1>1. ASSUME NEW v \in Worker, v # w PROVE ThreadOK(v)'
  BY <1>1 DEF WriteInv, ThreadOK, Early, Undone, Active, Performed
<1> QED BY <1>1 DEF WriteInv, WriteAtMostOnce, EffectStaysClaimed

\* Most steps under the lock: the thread keeps its message and what it has
\* done, and does not get near the write.
LEMMA PlainStep ==
    ASSUME WriteInv, TypeOK', LockInv',
           UNCHANGED <<effects, requestStatus>>,
           NEW w \in Worker, Continues(w),
           req'[w].msg = req[w].msg,
           req'[w].started = req[w].started,
           req'[w].wrote = req[w].wrote,
           req'[w].at \notin {"claim", "record", "execute"},
           Early(w)' => Early(w)
    PROVE  WriteInv'
<1>1. Undone(w)' => Undone(w)
  BY DEF Undone, Continues
<1>2. ThreadOK(w)'
  BY <1>1 DEF WriteInv, ThreadOK, Performed
<1> QED BY <1>2, QuietStep DEF Continues

LEMMA PlainAnswer ==
    ASSUME WriteInv, TypeOK', LockInv',
           UNCHANGED <<effects, requestStatus, lock>>,
           NEW w \in Worker, Active(w),
           AnswerError(w) \/ \E reply \in Reply : Answer(w, reply)
    PROVE  WriteInv'
<1>1. TypeOK
  BY DEF WriteInv
<1>2. /\ Continues(w)
      /\ req'[w].at = "send"
      /\ req'[w].msg = req[w].msg
      /\ req'[w].started = req[w].started
      /\ req'[w].wrote = req[w].wrote
  BY <1>1, AnswerContinues, AnswerErrorContinues
<1>3. ~Early(w)'
  BY <1>2 DEF Early
<1> QED BY <1>2, <1>3, PlainStep

LEMMA PlainGoto ==
    ASSUME WriteInv, TypeOK', LockInv',
           UNCHANGED <<effects, requestStatus, lock>>,
           NEW w \in Worker, Active(w),
           NEW at \in Phase \ {"idle", "lock", "claim", "record", "execute"}, Goto(w, at),
           Early(w)' => Early(w)
    PROVE  WriteInv'
<1>1. TypeOK
  BY DEF WriteInv
<1>2. /\ Continues(w)
      /\ req'[w].at = at
      /\ req'[w].msg = req[w].msg
      /\ req'[w].started = req[w].started
      /\ req'[w].wrote = req[w].wrote
  BY <1>1, GotoContinues
<1> QED BY <1>2, PlainStep

LEMMA PlainRelease ==
    ASSUME WriteInv, TypeOK', LockInv',
           UNCHANGED <<effects, requestStatus>>,
           NEW w \in Worker, Release(w)
    PROVE  WriteInv'
<1>1. \A v \in Worker : req'[v] = IF v = w THEN Idle ELSE req[v]
  BY DEF Release, WriteInv, TypeOK
<1>2. ThreadOK(w)'
  BY <1>1 DEF ThreadOK, Early, Undone, Active, Idle, Fresh
<1> QED BY <1>1, <1>2, QuietStep

\* A thread that asks for an id that was used for a write is told
\* `duplicate`, stale or not.
LEMMA LookupRejectsPerformed ==
    ASSUME WriteInv, OneKindPerId, NEW m \in Message, Performed(IdOf[m])
    PROVE  IsDuplicateRequestStatus(requestStatus[IdOf[m]], IsWriteVerb(m))
<1>1. PICK n \in Message : IdOf[n] = IdOf[m] /\ effects[n] > 0
  BY DEF Performed
<1>2. requestStatus[IdOf[m]].status \in DuplicateRequestStatuses
  BY <1>1 DEF WriteInv, EffectStaysClaimed
<1>3. IsWriteVerb(n)
  BY <1>1 DEF WriteInv
<1>4. IsWriteVerb(m)
  BY <1>1, <1>3 DEF OneKindPerId
<1> QED BY <1>2, <1>4 DEF IsDuplicateRequestStatus

\* Delivery, the lock, Layers 0 and 1 and the cap.
LEMMA WriteStepIngress ==
    ASSUME WriteInv, TypeOK', LockInv', NEW w \in Worker, NEW o,
           \/ \E m \in Message : Receive(w, m)
           \/ Acquire(w) \/ Ingress(w)
           \/ CheckMessage(w, o) \/ MarkMessageSeen(w, o) \/ CountToday(w, o) \/ Respond(w, o)
    PROVE  WriteInv'
<1>0. TypeOK
  BY DEF WriteInv
<1>1. ASSUME NEW m \in Message, Receive(w, m) PROVE WriteInv'
  <2>1. \A v \in Worker : req'[v] = IF v = w THEN Fresh("lock", m) ELSE req[v]
    BY <1>0, <1>1 DEF Receive, TypeOK
  <2>2. UNCHANGED <<effects, requestStatus>>
    BY <1>1 DEF Receive, storeVars, worldVars
  <2>3. ThreadOK(w)'
    BY <2>1 DEF ThreadOK, Early, Undone, Active, Fresh
  <2> QED BY <2>1, <2>2, <2>3, QuietStep
<1>2. CASE Acquire(w)
  <2>1. UNCHANGED <<effects, requestStatus>> /\ Early(w)
    BY <1>2 DEF Acquire, At, Early, storeVars, worldVars
  <2>2. /\ \A v \in Worker : v # w => req'[v] = req[v]
        /\ req'[w].at = "ingress"
        /\ req'[w].started = req[w].started
        /\ req'[w].wrote = req[w].wrote
    BY <1>0, <1>2 DEF Acquire, Goto, TypeOK, RequestState
  <2>3. ThreadOK(w)'
    BY <2>1, <2>2 DEF WriteInv, ThreadOK, Undone
  <2> QED BY <2>1, <2>2, <2>3, QuietStep
<1>3. CASE Ingress(w)
  <2>1. UNCHANGED <<effects, requestStatus, lock>> /\ Active(w) /\ Early(w)
    BY <1>3 DEF Ingress, At, Active, Early, storeVars
  <2>2. Goto(w, "respond") \/ Goto(w, "dedupe")
    BY <1>3 DEF Ingress
  <2> QED BY <2>1, <2>2, PlainGoto DEF Phase
<1>4. CASE CheckMessage(w, o)
  <2>1. UNCHANGED <<effects, requestStatus>> /\ Active(w) /\ Early(w)
    BY <1>4 DEF CheckMessage, At, Active, Early, storeVars
  <2>2. \/ Release(w)
        \/ UNCHANGED lock /\ (Goto(w, "respond") \/ Goto(w, "mark"))
    BY <1>4 DEF CheckMessage
  <2> QED BY <2>1, <2>2, PlainGoto, PlainRelease DEF Phase
<1>5. CASE MarkMessageSeen(w, o)
  <2>1. UNCHANGED <<effects, requestStatus>> /\ Active(w) /\ Early(w)
    BY <1>5 DEF MarkMessageSeen, At, Active, Early, worldVars
  <2>2. Release(w) \/ (UNCHANGED lock /\ Goto(w, "count"))
    BY <1>5 DEF MarkMessageSeen
  <2> QED BY <2>1, <2>2, PlainGoto, PlainRelease DEF Phase
<1>6. CASE CountToday(w, o)
  <2>1. UNCHANGED <<effects, requestStatus, lock>> /\ Active(w) /\ Early(w)
    BY <1>6 DEF CountToday, At, Active, Early, storeVars, worldVars
  <2>2. AnswerError(w) \/ Answer(w, InternalError) \/ Goto(w, "lookup")
    BY <1>6 DEF CountToday
  <2>3. InternalError \in Reply
    BY DEF InternalError, Reply
  <2> QED BY <2>1, <2>2, <2>3, PlainGoto, PlainAnswer DEF Phase
<1>7. CASE Respond(w, o)
  BY <1>7, PlainRelease DEF Respond, storeVars, worldVars
<1> QED BY <1>1, <1>2, <1>3, <1>4, <1>5, <1>6, <1>7

\* A row appended under an id changes nobody's write; a thread that waits
\* has no stake in the rows.
LEMMA RowStep ==
    ASSUME OneInstance, WriteInv, TypeOK', LockInv', UNCHANGED effects,
           NEW w \in Worker, Continues(w),
           NEW status \in RequestStatus,
           requestStatus' = WithStatus(IdOf[req[w].msg], status),
           status \in DuplicateRequestStatuses \/ ~Performed(IdOf[req[w].msg]),
           ThreadOK(w)'
    PROVE  WriteInv'
<1>1. TypeOK /\ LockInv
  BY DEF WriteInv
<1>2. IdOf[req[w].msg] \in RequestId
  BY <1>1, HasMessage DEF Continues, Active, At
<1>3. \A r \in RequestId : requestStatus'[r].status =
         IF r = IdOf[req[w].msg] THEN status ELSE requestStatus[r].status
  BY <1>1, <1>2 DEF WithStatus, TypeOK, StoreTypeOK, StatusRow
<1>4. EffectStaysClaimed'
  <2> SUFFICES ASSUME NEW m \in Message, effects[m] > 0
               PROVE  requestStatus'[IdOf[m]].status \in DuplicateRequestStatuses
    BY DEF EffectStaysClaimed
  <2>1. IdOf[m] \in RequestId /\ Performed(IdOf[m])
    BY ConstantsAssumption DEF Performed
  <2>2. requestStatus[IdOf[m]].status \in DuplicateRequestStatuses
    BY DEF WriteInv, EffectStaysClaimed
  <2> QED BY <1>3, <2>1, <2>2
<1>5. ASSUME NEW v \in Worker, v # w PROVE ThreadOK(v)'
  <2>1. ~Active(v) /\ ~Active(v)' /\ req'[v] = req[v]
    BY <1>1, <1>5, OthersWait DEF Continues
  <2>2. req'[v].at \in {"idle", "lock"}
    BY <2>1 DEF Active
  <2> QED BY <2>1, <2>2 DEF WriteInv, ThreadOK, Early, Undone, Active
<1> QED BY <1>4, <1>5 DEF WriteInv, WriteAtMostOnce

\* _run_request, up to the write.
LEMMA WriteStepRequest ==
    ASSUME OneInstance, OneKindPerId, WriteInv, TypeOK', LockInv',
           NEW w \in Worker, NEW o,
           \/ LookupRequest(w, o) \/ ClaimRequest(w, o) \/ RecordRequest(w, o)
           \/ Refuse(w) \/ ExecuteRead(w, o)
    PROVE  WriteInv'
<1>0. TypeOK
  BY DEF WriteInv
<1>a. \A s \in {"completed", "denied", "duplicate"} : [status |-> s, retryable |-> FALSE] \in Reply
  BY DEF Reply
<1>1. CASE LookupRequest(w, o)
  <2>1. /\ UNCHANGED <<effects, requestStatus, lock>> /\ Active(w) /\ Early(w)
        /\ req[w].msg \in Message
    BY <1>0, <1>1, HasMessage DEF LookupRequest, At, Active, Early, storeVars, worldVars
  <2>2. CASE AnswerError(w) \/ Answer(w, [status |-> "duplicate", retryable |-> FALSE])
    BY <1>a, <2>1, <2>2, PlainAnswer
  <2>3. CASE /\ Goto(w, "claim")
             /\ ~IsDuplicateRequestStatus(requestStatus[IdOf[req[w].msg]], IsWriteVerb(req[w].msg))
    <3>1. ~Performed(IdOf[req[w].msg])
      BY <2>1, <2>3, LookupRejectsPerformed
    <3>2. /\ Continues(w) /\ req'[w].at = "claim"
          /\ req'[w].msg = req[w].msg
          /\ req'[w].started = req[w].started
          /\ req'[w].wrote = req[w].wrote
      BY <1>0, <2>1, <2>3, GotoContinues DEF Phase
    <3>3. ThreadOK(w)'
      BY <2>1, <3>1, <3>2 DEF WriteInv, ThreadOK, Performed
    <3> QED BY <2>1, <3>2, <3>3, QuietStep DEF Continues
  <2> QED BY <1>1, <2>2, <2>3 DEF LookupRequest
<1>2. CASE ClaimRequest(w, o)
  <2>1. /\ UNCHANGED <<effects, lock>> /\ Active(w)
        /\ ~req[w].started /\ ~req[w].wrote
        /\ ~Performed(IdOf[req[w].msg])
    BY <1>2 DEF ClaimRequest, At, Active, worldVars, WriteInv, ThreadOK, Early, Undone
  <2>2. CASE Raised(o)
    <3>1. AnswerError(w)
      BY <1>2, <2>2 DEF ClaimRequest
    <3>2. /\ Continues(w) /\ req'[w].at = "send"
          /\ req'[w].started = req[w].started
      BY <1>0, <2>1, <3>1, AnswerErrorContinues
    <3>3. ThreadOK(w)'
      BY <2>1, <3>2 DEF ThreadOK, Early, Undone
    <3>4. CASE requestStatus' = requestStatus
      BY <2>1, <3>2, <3>3, <3>4, QuietStep DEF Continues
    <3>5. CASE requestStatus' = WithStatus(IdOf[req[w].msg], "processing")
      BY <2>1, <3>2, <3>3, <3>5, RowStep DEF RequestStatus
    <3> QED BY <1>2, <3>4, <3>5 DEF ClaimRequest
  <2>3. CASE ~Raised(o)
    <3>1. requestStatus' = WithStatus(IdOf[req[w].msg], "processing")
      BY <1>2, <2>3 DEF ClaimRequest, Outcome, Raised, Landed
    <3>2. /\ Continues(w) /\ req'[w].at = "record" /\ req'[w].started
          /\ req'[w].msg = req[w].msg /\ req'[w].wrote = req[w].wrote
      BY <1>0, <1>2, <2>1, <2>3 DEF ClaimRequest, Continues, Active, TypeOK, RequestState
    <3>3. requestStatus'[IdOf[req[w].msg]].status = "processing"
      BY <1>0, <2>1, <3>1, HasMessage DEF WithStatus, TypeOK, StoreTypeOK, Active, At
    <3>4. ThreadOK(w)'
      BY <2>1, <3>2, <3>3 DEF ThreadOK, Early, Performed
    <3> QED BY <2>1, <3>1, <3>2, <3>4, RowStep DEF RequestStatus
  <2> QED BY <2>2, <2>3
<1>3. CASE RecordRequest(w, o)
  <2>1. /\ UNCHANGED <<effects, requestStatus, lock>> /\ Active(w)
        /\ req[w].at = "record"
    BY <1>3 DEF RecordRequest, At, Active
  <2>2. CASE AnswerError(w)
    BY <2>1, <2>2, PlainAnswer
  <2>3. CASE Goto(w, "execute")
    <3>1. /\ Continues(w) /\ req'[w].at = "execute"
          /\ req'[w].msg = req[w].msg
          /\ req'[w].started = req[w].started
          /\ req'[w].wrote = req[w].wrote
      BY <1>0, <2>1, <2>3, GotoContinues DEF Phase
    <3>2. ThreadOK(w)'
      BY <2>1, <3>1 DEF WriteInv, ThreadOK, Early, Undone, Performed, Active
    <3> QED BY <2>1, <3>1, <3>2, QuietStep DEF Continues
  <2> QED BY <1>3, <2>2, <2>3 DEF RecordRequest
<1>4. CASE Refuse(w)
  BY <1>a, <1>4, PlainAnswer DEF Refuse, At, Active, storeVars, worldVars
<1>5. CASE ExecuteRead(w, o)
  <2>1. AnswerError(w) \/ Answer(w, [status |-> "completed", retryable |-> FALSE])
    BY <1>5 DEF ExecuteRead
  <2> QED BY <1>a, <1>5, <2>1, PlainAnswer DEF ExecuteRead, At, Active, storeVars, worldVars
<1> QED BY <1>1, <1>2, <1>3, <1>4, <1>5

\* The write itself.
LEMMA WriteStepExecute ==
    ASSUME OneInstance, WritesAreAnswered, WriteInv, TypeOK', LockInv',
           NEW w \in Worker, NEW o, ExecuteWrite(w, o)
    PROVE  WriteInv'
<1> DEFINE m == req[w].msg
<1>1. TypeOK /\ LockInv /\ At(w, "execute") /\ Active(w)
  BY DEF WriteInv, ExecuteWrite, At, Active
<1>2. m \in Message /\ IdOf[m] \in RequestId /\ IsWriteVerb(m)
  BY <1>1, HasMessage DEF ExecuteWrite, At
<1>3. /\ UNCHANGED <<requestStatus, lock>>
      /\ o = "ok" \/ o = "fail"
  BY DEF ExecuteWrite, WritesAreAnswered, Outcome, storeVars
<1>4. CASE o = "fail"
  <2>1. AnswerError(w) /\ UNCHANGED effects
    BY <1>4 DEF ExecuteWrite, Raised, Landed
  <2> QED BY <1>1, <1>3, <2>1, PlainAnswer
<1>5. CASE o = "ok"
  <2>1. /\ effects' = [effects EXCEPT ![m] = @ + 1]
        /\ req' = [req EXCEPT ![w].at = "effect", ![w].wrote = TRUE]
    BY <1>5 DEF ExecuteWrite, Raised, Landed
  <2>2. /\ requestStatus[IdOf[m]].status = "processing"
        /\ ~Performed(IdOf[m])
    BY <1>1 DEF WriteInv, ThreadOK, Undone, At
  <2>3. \A n \in Message : /\ effects[n] \in Nat
                           /\ IdOf[n] = IdOf[m] => effects[n] = 0
    BY <1>1, <2>2 DEF Performed, TypeOK
  <2>4. \A n \in Message : effects'[n] = IF n = m THEN 1 ELSE effects[n]
    BY <1>1, <1>2, <2>1, <2>3 DEF TypeOK
  <2>5. WriteAtMostOnce'
    BY <1>2, <2>3, <2>4 DEF WriteInv, WriteAtMostOnce
  <2>6. EffectStaysClaimed'
    BY <1>3, <2>2, <2>4 DEF WriteInv, EffectStaysClaimed, DuplicateRequestStatuses
  <2>7. \A n \in Message : effects'[n] > 0 => IsWriteVerb(n)
    BY <1>2, <2>4 DEF WriteInv
  <2>8. Continues(w) /\ req'[w].at = "effect" /\ req'[w].wrote
    BY <1>1, <1>3, <2>1 DEF Continues, Active, TypeOK, RequestState
  <2>9. ASSUME NEW v \in Worker PROVE ThreadOK(v)'
    <3>1. CASE v = w
      BY <2>8, <3>1 DEF ThreadOK, Early, Undone
    <3>2. CASE v # w
      <4>1. ~Active(v)' /\ req'[v] = req[v]
        BY <1>1, <2>8, <3>2, OthersWait DEF Continues
      <4>2. req'[v].at \in {"idle", "lock"}
        BY <4>1 DEF Active
      <4> QED BY <4>1, <4>2 DEF WriteInv, ThreadOK, Early, Undone, Active
    <3> QED BY <3>1, <3>2
  <2> QED BY <2>5, <2>6, <2>7, <2>9 DEF WriteInv, IsWriteVerb
<1> QED BY <1>3, <1>4, <1>5

\* What follows the write, or its absence.
LEMMA WriteStepReply ==
    ASSUME OneInstance, WriteInv, TypeOK', LockInv', NEW w \in Worker, NEW o,
           \/ RecordEffect(w, o) \/ SendReply(w, o) \/ AppendAudit(w) \/ FinalizeStatus(w, o)
    PROVE  WriteInv'
<1>0. TypeOK
  BY DEF WriteInv
<1>1. CASE RecordEffect(w, o)
  <2>1. UNCHANGED <<effects, lock>> /\ Active(w)
    BY <1>1 DEF RecordEffect, At, Active, worldVars
  <2>2. /\ Continues(w) /\ req'[w].at = "send"
        /\ req'[w].msg = req[w].msg
        /\ req'[w].started = req[w].started
        /\ req'[w].wrote = req[w].wrote
    BY <1>0, <1>1, <2>1, AnswerContinues DEF RecordEffect
  <2>3. ThreadOK(w)'
    BY <2>1, <2>2 DEF WriteInv, ThreadOK, Early, Undone, Performed, Active
  <2>4. CASE requestStatus' = requestStatus
    BY <2>1, <2>2, <2>3, <2>4, QuietStep DEF Continues
  <2>5. CASE requestStatus' = WithStatus(IdOf[req[w].msg], "effect_done")
    BY <2>1, <2>2, <2>3, <2>5, RowStep DEF RequestStatus, DuplicateRequestStatuses
  <2> QED BY <1>1, <2>4, <2>5 DEF RecordEffect
<1>2. CASE SendReply(w, o)
  <2>1. UNCHANGED <<effects, requestStatus, lock>>
    BY <1>2 DEF SendReply, storeVars
  <2>2. /\ Continues(w) /\ req'[w].at = "audit"
        /\ req'[w].msg = req[w].msg
        /\ req'[w].started = req[w].started
        /\ req'[w].wrote = req[w].wrote
    BY <1>0, <1>2, <2>1 DEF SendReply, At, Continues, Active, TypeOK, RequestState
  <2>3. ~Early(w)'
    BY <2>2 DEF Early
  <2> QED BY <2>1, <2>2, <2>3, PlainStep
<1>3. CASE AppendAudit(w)
  <2>1. UNCHANGED <<effects, requestStatus, lock>> /\ Active(w) /\ Goto(w, "finalize")
    BY <1>3 DEF AppendAudit, At, Active, storeVars
  <2>2. ~Early(w)'
    BY <1>0, <2>1, GotoContinues DEF Phase, Early
  <2> QED BY <2>1, <2>2, PlainGoto DEF Phase
<1>4. CASE FinalizeStatus(w, o)
  <2>1. UNCHANGED <<effects, lock>> /\ Active(w) /\ Goto(w, "respond")
    BY <1>4 DEF FinalizeStatus, At, Active, worldVars
  <2>2. /\ Continues(w) /\ req'[w].at = "respond"
        /\ req'[w].msg = req[w].msg
        /\ req'[w].started = req[w].started
        /\ req'[w].wrote = req[w].wrote
    BY <1>0, <2>1, GotoContinues DEF Phase
  <2>3. ThreadOK(w)'
    BY <2>1, <2>2 DEF WriteInv, ThreadOK, Early, Undone, Performed, Active
  <2>4. CASE requestStatus' = requestStatus
    BY <2>1, <2>2, <2>3, <2>4, QuietStep DEF Continues
  \* "failed" is recorded only where nothing was written.
  <2>5. CASE /\ req[w].started
             /\ requestStatus' = WithStatus(IdOf[req[w].msg], LastStatus(req[w]))
    <3>1. CASE req[w].wrote
      <4>1. LastStatus(req[w]) \in DuplicateRequestStatuses
        BY <3>1 DEF LastStatus, FinalRequestStatus, DuplicateRequestStatuses
      <4> QED BY <2>1, <2>2, <2>3, <2>5, <4>1, RowStep, FinalStatusTyped
    <3>2. CASE ~req[w].wrote
      <4>1. ~Performed(IdOf[req[w].msg])
        BY <2>1, <2>5, <3>2 DEF WriteInv, ThreadOK, Undone
      <4> QED BY <2>1, <2>2, <2>3, <2>5, <4>1, RowStep, FinalStatusTyped
    <3> QED BY <3>1, <3>2
  <2> QED BY <1>4, <2>4, <2>5 DEF FinalizeStatus
<1> QED BY <1>1, <1>2, <1>3, <1>4

\* Crashes forget threads, and time makes rows stale.
LEMMA WriteStepWorld ==
    ASSUME WriteInv, TypeOK', LockInv', (\E p \in Process : Crash(p)) \/ PassTime
    PROVE  WriteInv'
<1>1. ASSUME NEW p \in Process, Crash(p) PROVE WriteInv'
  <2>1. /\ UNCHANGED <<effects, requestStatus>>
        /\ \A v \in Worker : req'[v] = Idle \/ req'[v] = req[v]
    BY <1>1 DEF Crash, storeVars, worldVars
  <2>2. ASSUME NEW v \in Worker PROVE ThreadOK(v)'
    <3>1. CASE req'[v] = Idle
      BY <3>1 DEF ThreadOK, Early, Undone, Active, Idle, Fresh
    <3>2. CASE req'[v] = req[v]
      BY <2>1, <3>2 DEF WriteInv, ThreadOK, Early, Undone, Active, Performed
    <3> QED BY <2>1, <3>1, <3>2
  <2> QED BY <2>1, <2>2 DEF WriteInv, WriteAtMostOnce, EffectStaysClaimed
<1>2. CASE PassTime
  <2>1. UNCHANGED <<effects, req>>
    BY <1>2 DEF PassTime, worldVars
  <2>2. \A r \in RequestId : requestStatus'[r].status = requestStatus[r].status
    BY <1>2 DEF PassTime, NewDay, GrowStale, WriteInv, TypeOK, StoreTypeOK, StatusRow
  <2>3. \A v \in Worker : At(v, "record") \/ At(v, "execute") => IdOf[req[v].msg] \in RequestId
    BY HasMessage DEF WriteInv, At
  <2>4. \A v \in Worker : ThreadOK(v)'
    BY <2>1, <2>2, <2>3 DEF WriteInv, ThreadOK, Early, Undone, Active, Performed, At
  <2>5. EffectStaysClaimed'
    BY <2>1, <2>2, ConstantsAssumption DEF WriteInv, EffectStaysClaimed
  <2> QED BY <2>1, <2>4, <2>5 DEF WriteInv, WriteAtMostOnce
<1> QED BY <1>1, <1>2

LEMMA WriteStep ==
    ASSUME OneInstance, OneKindPerId, WritesAreAnswered
    PROVE  WriteInv /\ [Next]_vars => WriteInv'
<1> SUFFICES ASSUME WriteInv, [Next]_vars PROVE WriteInv'
  OBVIOUS
<1>1. TypeOK' /\ LockInv'
  BY TypeStep, LockStep DEF WriteInv
<1>2. CASE UNCHANGED vars
  BY <1>1, <1>2 DEF vars, storeVars, worldVars, WriteInv, WriteAtMostOnce, EffectStaysClaimed,
                    ThreadOK, Early, Undone, Active, Performed
<1>3. ASSUME NEW w \in Worker, NEW m \in Message, Receive(w, m) PROVE WriteInv'
  BY <1>1, <1>3, WriteStepIngress
<1>4. ASSUME NEW w \in Worker, LocalStep(w) PROVE WriteInv'
  BY <1>1, <1>4, WriteStepIngress, WriteStepRequest, WriteStepReply DEF LocalStep
<1>5. ASSUME NEW w \in Worker, NEW o, RemoteCall(w, o) PROVE WriteInv'
  BY <1>1, <1>5, WriteStepIngress, WriteStepRequest, WriteStepExecute, WriteStepReply DEF RemoteCall
<1>6. CASE (\E p \in Process : Crash(p)) \/ PassTime
  BY <1>1, <1>6, WriteStepWorld
<1> QED BY <1>2, <1>3, <1>4, <1>5, <1>6 DEF Next

LEMMA WriteInvHolds ==
    ASSUME OneInstance, OneKindPerId, WritesAreAnswered
    PROVE  Spec => []WriteInv
<1>1. WriteInv /\ [Next]_vars => WriteInv'
  BY WriteStep
<1> QED BY <1>1, WriteInit, PTL DEF Spec

\* With one instance, one kind of verb per id and no lost answer to a write,
\* no write is ever repeated: for any number of messages, threads and ids,
\* whatever else fails, crashes, is redelivered or goes stale.
THEOREM WritesHappenOnce ==
    ASSUME OneInstance, OneKindPerId, WritesAreAnswered
    PROVE  Spec => []WriteAtMostOnce
<1>1. WriteInv => WriteAtMostOnce
  BY DEF WriteInv
<1> QED BY <1>1, WriteInvHolds, PTL

\* Under the same assumptions, the id of a write never looks free again.
THEOREM WrittenIdsStayUsed ==
    ASSUME OneInstance, OneKindPerId, WritesAreAnswered
    PROVE  Spec => []EffectStaysClaimed
<1>1. WriteInv => EffectStaysClaimed
  BY DEF WriteInv
<1> QED BY <1>1, WriteInvHolds, PTL
=============================================================================
