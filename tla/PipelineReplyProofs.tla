------------------------- MODULE PipelineReplyProofs -------------------------
(***************************************************************************)
(* More theorems about Pipeline: what has to be behind a thread before it  *)
(* may go on (the gates), the one reply each message gets and its truth,   *)
(* and the life of a request id, step by step the one ResendContract       *)
(* allows.                                                                 *)
(***************************************************************************)
EXTENDS PipelineProofs

-----------------------------------------------------------------------------
(* What a step of one thread does.                                         *)

OthersStay(w) == \A v \in Worker : v # w => req'[v] = req[v]

\* The thread goes on with its message.
Moved(w, at) ==
    /\ req'[w].at = at
    /\ req'[w].msg = req[w].msg
    /\ req'[w].started = req[w].started
    /\ req'[w].wrote = req[w].wrote
    /\ OthersStay(w)

Freed(w) == req'[w] = Idle /\ OthersStay(w)

\* The phases between Layer 0 and the acknowledgement.
Handling(w) ==
    req[w].at \in {"dedupe", "mark", "count", "lookup", "claim", "record", "execute",
                   "effect", "send", "audit", "finalize"}

LEMMA GotoMoves ==
    ASSUME TypeOK, NEW w \in Worker, NEW at \in Phase, Goto(w, at)
    PROVE  Moved(w, at) /\ req'[w].reply = req[w].reply
BY DEF TypeOK, RequestState, Goto, Moved, OthersStay

LEMMA AnswerMoves ==
    ASSUME TypeOK, NEW w \in Worker, NEW reply, Answer(w, reply)
    PROVE  Moved(w, "send") /\ req'[w].reply = reply
BY DEF TypeOK, RequestState, Answer, Moved, OthersStay

LEMMA AnswerErrorMoves ==
    ASSUME TypeOK, NEW w \in Worker, AnswerError(w)
    PROVE  Moved(w, "send") /\ req'[w].reply.status = "error"
<1>1. PICK retryable \in BOOLEAN : Answer(w, [status |-> "error", retryable |-> retryable])
  BY DEF AnswerError
<1> QED BY <1>1, AnswerMoves

LEMMA ReleaseFrees ==
    ASSUME TypeOK, NEW w \in Worker, Release(w)
    PROVE  Freed(w)
BY DEF TypeOK, Release, Freed, OthersStay

\* Every action of a thread, as the phases it leads from and to.
LEMMA Walks ==
    ASSUME TypeOK, NEW w \in Worker, NEW o
    PROVE  /\ Acquire(w) => At(w, "lock") /\ Moved(w, "ingress")
           /\ Ingress(w) => At(w, "ingress") /\ (Moved(w, "respond") \/ Moved(w, "dedupe"))
           /\ CheckMessage(w, o) =>
                 At(w, "dedupe") /\ (Freed(w) \/ Moved(w, "respond") \/ Moved(w, "mark"))
           /\ MarkMessageSeen(w, o) => At(w, "mark") /\ (Freed(w) \/ Moved(w, "count"))
           /\ CountToday(w, o) => At(w, "count") /\ (Moved(w, "send") \/ Moved(w, "lookup"))
           /\ LookupRequest(w, o) => At(w, "lookup") /\ (Moved(w, "send") \/ Moved(w, "claim"))
           /\ RecordRequest(w, o) => At(w, "record") /\ (Moved(w, "send") \/ Moved(w, "execute"))
           /\ Refuse(w) \/ ExecuteRead(w, o) => At(w, "execute") /\ Moved(w, "send")
           /\ RecordEffect(w, o) => At(w, "effect") /\ Moved(w, "send")
           /\ SendReply(w, o) => At(w, "send") /\ Moved(w, "audit")
           /\ AppendAudit(w) => At(w, "audit") /\ Moved(w, "finalize")
           /\ FinalizeStatus(w, o) => At(w, "finalize") /\ Moved(w, "respond")
           /\ Respond(w, o) => At(w, "respond") /\ Freed(w)
<1>1. Acquire(w) => At(w, "lock") /\ Moved(w, "ingress")
  BY GotoMoves DEF Acquire, Phase
<1>2. Ingress(w) => At(w, "ingress") /\ (Moved(w, "respond") \/ Moved(w, "dedupe"))
  BY GotoMoves DEF Ingress, Phase
<1>3. CheckMessage(w, o) =>
         At(w, "dedupe") /\ (Freed(w) \/ Moved(w, "respond") \/ Moved(w, "mark"))
  BY GotoMoves, ReleaseFrees DEF CheckMessage, Phase
<1>4. MarkMessageSeen(w, o) => At(w, "mark") /\ (Freed(w) \/ Moved(w, "count"))
  BY GotoMoves, ReleaseFrees DEF MarkMessageSeen, Phase
<1>5. CountToday(w, o) => At(w, "count") /\ (Moved(w, "send") \/ Moved(w, "lookup"))
  BY GotoMoves, AnswerMoves, AnswerErrorMoves DEF CountToday, Phase
<1>6. LookupRequest(w, o) => At(w, "lookup") /\ (Moved(w, "send") \/ Moved(w, "claim"))
  BY GotoMoves, AnswerMoves, AnswerErrorMoves DEF LookupRequest, Phase
<1>7. RecordRequest(w, o) => At(w, "record") /\ (Moved(w, "send") \/ Moved(w, "execute"))
  BY GotoMoves, AnswerErrorMoves DEF RecordRequest, Phase
<1>8. Refuse(w) \/ ExecuteRead(w, o) => At(w, "execute") /\ Moved(w, "send")
  BY AnswerMoves, AnswerErrorMoves DEF Refuse, ExecuteRead
<1>9. RecordEffect(w, o) => At(w, "effect") /\ Moved(w, "send")
  BY AnswerMoves DEF RecordEffect
<1>10. SendReply(w, o) => At(w, "send") /\ Moved(w, "audit")
  BY DEF SendReply, TypeOK, RequestState, Moved, OthersStay
<1>11. AppendAudit(w) => At(w, "audit") /\ Moved(w, "finalize")
  BY GotoMoves DEF AppendAudit, Phase
<1>12. FinalizeStatus(w, o) => At(w, "finalize") /\ Moved(w, "respond")
  BY GotoMoves DEF FinalizeStatus, Phase
<1>13. Respond(w, o) => At(w, "respond") /\ Freed(w)
  BY ReleaseFrees DEF Respond
<1> QED BY <1>1, <1>2, <1>3, <1>4, <1>5, <1>6, <1>7, <1>8, <1>9, <1>10, <1>11, <1>12, <1>13

\* The claim starts the request unless it raises.
LEMMA ClaimWalks ==
    ASSUME TypeOK, NEW w \in Worker, NEW o, ClaimRequest(w, o)
    PROVE  /\ At(w, "claim") /\ OthersStay(w) /\ req'[w].msg = req[w].msg
           /\ req'[w].wrote = req[w].wrote
           /\ \/ Raised(o) /\ Moved(w, "send") /\ req'[w].reply.status = "error"
              \/ ~Raised(o) /\ req'[w].at = "record" /\ req'[w].started
<1>1. CASE Raised(o)
  BY <1>1, AnswerErrorMoves DEF ClaimRequest, Moved
<1>2. CASE ~Raised(o)
  BY <1>2 DEF ClaimRequest, TypeOK, RequestState, OthersStay
<1> QED BY <1>1, <1>2 DEF ClaimRequest

\* The write is noted unless it raises.
LEMMA ExecuteWalks ==
    ASSUME TypeOK, NEW w \in Worker, NEW o, ExecuteWrite(w, o)
    PROVE  /\ At(w, "execute") /\ OthersStay(w) /\ req'[w].msg = req[w].msg
           /\ req'[w].started = req[w].started
           /\ \/ Raised(o) /\ Moved(w, "send") /\ req'[w].reply.status = "error"
              \/ ~Raised(o) /\ req'[w].at = "effect" /\ req'[w].wrote
<1>1. CASE Raised(o)
  BY <1>1, AnswerErrorMoves DEF ExecuteWrite, Moved
<1>2. CASE ~Raised(o)
  BY <1>2 DEF ExecuteWrite, TypeOK, RequestState, OthersStay
<1> QED BY <1>1, <1>2 DEF ExecuteWrite

\* A row appended under an id: that id has the status, the others keep theirs.
LEMMA RowAppended ==
    ASSUME TypeOK, NEW id \in RequestId, NEW status, requestStatus' = WithStatus(id, status)
    PROVE  /\ requestStatus'[id].status = status
           /\ \A r \in RequestId : r # id => requestStatus'[r] = requestStatus[r]
BY DEF WithStatus, TypeOK, StoreTypeOK

\* What becomes of the rows: unchanged, or one more row under the id of the
\* message that is handled.
LEMMA RowsOfAStep ==
    ASSUME TypeOK, NEW w \in Worker, NEW o, LocalStep(w) \/ RemoteCall(w, o)
    PROVE  \/ requestStatus' = requestStatus
           \/ \E status \in RequestStatus : requestStatus' = WithStatus(IdOf[req[w].msg], status)
<1>1. CASE ClaimRequest(w, o)
  BY <1>1 DEF ClaimRequest, RequestStatus
<1>2. CASE RecordEffect(w, o)
  BY <1>2 DEF RecordEffect, RequestStatus
<1>3. CASE FinalizeStatus(w, o)
  BY <1>3, FinalStatusTyped DEF FinalizeStatus
<1>4. CASE ~ClaimRequest(w, o) /\ ~RecordEffect(w, o) /\ ~FinalizeStatus(w, o)
  BY <1>4 DEF LocalStep, RemoteCall, Acquire, Ingress, Refuse, AppendAudit, CheckMessage,
              MarkMessageSeen, CountToday, LookupRequest, RecordRequest, ExecuteRead,
              ExecuteWrite, SendReply, Respond, storeVars
<1> QED BY <1>1, <1>2, <1>3, <1>4

\* A thread is about its own message only.
LEMMA OwnMessageOnly ==
    ASSUME TypeOK, NEW w \in Worker, NEW o, LocalStep(w) \/ RemoteCall(w, o),
           NEW m \in Message, m # req[w].msg
    PROVE  /\ m \in messages' <=> m \in messages
           /\ m \in charged' <=> m \in charged
           /\ m \in owed' <=> m \in owed
           /\ effects'[m] = effects[m]
           /\ attempts'[m] = attempts[m]
           /\ said'[m] = said[m]
           /\ audits'[m] = audits[m]
           /\ \A verdict : <<m, verdict>> \in noted' <=> <<m, verdict>> \in noted
<1> USE DEF TypeOK, storeVars, worldVars
<1>1. CASE Acquire(w) \/ Ingress(w) \/ Refuse(w) \/ AppendAudit(w)
  BY <1>1 DEF Acquire, Ingress, Refuse, AppendAudit
<1>2. CASE CheckMessage(w, o) \/ MarkMessageSeen(w, o) \/ CountToday(w, o) \/ LookupRequest(w, o)
  BY <1>2 DEF CheckMessage, MarkMessageSeen, CountToday, LookupRequest
<1>3. CASE ClaimRequest(w, o) \/ RecordRequest(w, o) \/ ExecuteRead(w, o)
  BY <1>3 DEF ClaimRequest, RecordRequest, ExecuteRead
<1>4. CASE ExecuteWrite(w, o) \/ RecordEffect(w, o)
  BY <1>4 DEF ExecuteWrite, RecordEffect
<1>5. CASE SendReply(w, o) \/ FinalizeStatus(w, o) \/ Respond(w, o)
  BY <1>5 DEF SendReply, FinalizeStatus, Respond
<1> QED BY <1>1, <1>2, <1>3, <1>4, <1>5 DEF LocalStep, RemoteCall

\* Outside the handling of a message only the audit and the debt change.
LEMMA OutsideHandling ==
    ASSUME TypeOK, NEW w \in Worker, NEW o, LocalStep(w) \/ RemoteCall(w, o), ~Handling(w)
    PROVE  UNCHANGED <<messages, requestStatus, dailyCount, charged, effects, attempts, said, audits>>
BY DEF LocalStep, RemoteCall, Handling, At, storeVars, worldVars,
       Acquire, Ingress, Refuse, AppendAudit, CheckMessage, MarkMessageSeen,
       CountToday, LookupRequest, ClaimRequest, RecordRequest, ExecuteRead,
       ExecuteWrite, RecordEffect, SendReply, FinalizeStatus, Respond

\* A thread takes no record away.
LEMMA RecordsGrow ==
    ASSUME NEW w \in Worker, NEW o, LocalStep(w) \/ RemoteCall(w, o)
    PROVE  messages \subseteq messages' /\ charged \subseteq charged' /\ noted \subseteq noted'
BY DEF LocalStep, RemoteCall, storeVars, worldVars,
       Acquire, Ingress, Refuse, AppendAudit, CheckMessage, MarkMessageSeen,
       CountToday, LookupRequest, ClaimRequest, RecordRequest, ExecuteRead,
       ExecuteWrite, RecordEffect, SendReply, FinalizeStatus, Respond

\* What is on record stays on record, and no id loses its rows.
LEMMA NothingForgotten ==
    ASSUME TypeOK, [Next]_vars
    PROVE  /\ messages \subseteq messages' /\ charged \subseteq charged' /\ noted \subseteq noted'
           /\ \A r \in RequestId :
                 requestStatus'[r].status = "absent" => requestStatus[r].status = "absent"
<1>1. CASE UNCHANGED vars
  BY <1>1 DEF vars, storeVars, worldVars
<1>2. ASSUME NEW w \in Worker, NEW m \in Message, Receive(w, m)
      PROVE  UNCHANGED <<storeVars, worldVars>>
  BY <1>2 DEF Receive
<1>3. ASSUME NEW p \in Process, Crash(p)
      PROVE  UNCHANGED <<storeVars, worldVars>>
  BY <1>3 DEF Crash
<1>4. CASE PassTime
  BY <1>4 DEF PassTime, NewDay, GrowStale, TypeOK, StoreTypeOK, StatusRow, worldVars
<1>5. ASSUME NEW w \in Worker, NEW o, LocalStep(w) \/ RemoteCall(w, o), NEW r \in RequestId,
             requestStatus'[r].status = "absent"
      PROVE  requestStatus[r].status = "absent"
  <2>1. CASE requestStatus' = requestStatus
    BY <1>5, <2>1
  <2>2. CASE requestStatus' # requestStatus
    <3>1. Handling(w)
      BY <1>5, <2>2, OutsideHandling
    <3>2. IdOf[req[w].msg] \in RequestId
      BY <3>1, HasMessage DEF Handling, At
    <3>3. PICK status \in RequestStatus : requestStatus' = WithStatus(IdOf[req[w].msg], status)
      BY <1>5, <2>2, RowsOfAStep
    <3> QED BY <1>5, <3>2, <3>3, RowAppended DEF RequestStatus
  <2> QED BY <2>1, <2>2
<1> QED BY <1>1, <1>2, <1>3, <1>4, <1>5, RecordsGrow DEF Next, storeVars, worldVars

-----------------------------------------------------------------------------
(* The gates.  A thread that has come as far as a phase has passed, for    *)
(* good, what stands before it: mail that Layer 0 refuses goes no further, *)
(* the id has a row before anything is recorded or executed, and the quota *)
(* row precedes the execution.  Nothing here needs the lock.               *)

Refused(m) == KindOf[m] \in {"unsigned", "foreign"}

Passed(w) ==
    LET m == req[w].msg IN
    /\ Handling(w) => ~Refused(m)
    /\ At(w, "respond") /\ KindOf[m] = "foreign" => <<m, "rejected">> \in noted
    /\ At(w, "record") \/ At(w, "execute") => requestStatus[IdOf[m]].status # "absent"
    /\ At(w, "execute") => m \in charged

GateInv ==
    /\ TypeOK
    /\ Layer0Gate
    /\ NoUnclaimedWrite
    /\ NoUnchargedWrite
    /\ \A w \in Worker : Passed(w)

LEMMA GateInit == Init => GateInv
BY TypeInit
   DEF Init, StoreInit, GateInv, Layer0Gate, NoUnclaimedWrite, NoUnchargedWrite, Passed, Handling,
       At, Idle, Fresh

\* The thread that moves has passed what the phase it gets to asks for.
LEMMA GateThread ==
    ASSUME GateInv, TypeOK', NEW w \in Worker, NEW o, LocalStep(w) \/ RemoteCall(w, o)
    PROVE  Passed(w)'
<1>0. TypeOK /\ Passed(w) /\ Idle.at = "idle"
  BY DEF GateInv, Idle, Fresh
<1> USE DEF Passed, Handling, At
<1>1. CASE Acquire(w)
  BY <1>0, <1>1, Walks DEF Moved
<1>2. CASE Ingress(w)
  <2>1. req'[w].msg = req[w].msg /\ req'[w].at \in {"respond", "dedupe"}
    BY <1>0, <1>2, Walks DEF Moved
  <2>2. Refused(req[w].msg) <=> req'[w].at = "respond"
    BY <1>0, <1>2, GotoMoves DEF Ingress, Refused, Phase, Moved
  <2>3. KindOf[req[w].msg] = "foreign" => <<req[w].msg, "rejected">> \in noted'
    BY <1>2 DEF Ingress
  <2> QED BY <2>1, <2>2, <2>3
<1>3. CASE CheckMessage(w, o) \/ MarkMessageSeen(w, o)
  <2>1. ~Refused(req[w].msg)
    BY <1>0, <1>3, Walks
  <2>2. \/ req'[w] = Idle
        \/ req'[w].msg = req[w].msg /\ req'[w].at \in {"respond", "mark", "count"}
    BY <1>0, <1>3, Walks DEF Moved, Freed
  <2> QED BY <1>0, <2>1, <2>2 DEF Refused
<1>4. CASE CountToday(w, o) \/ LookupRequest(w, o) \/ Refuse(w) \/ ExecuteRead(w, o)
           \/ RecordEffect(w, o) \/ SendReply(w, o) \/ AppendAudit(w) \/ FinalizeStatus(w, o)
  <2>1. ~Refused(req[w].msg)
    BY <1>0, <1>4, Walks
  <2>2. /\ req'[w].msg = req[w].msg
        /\ req'[w].at \in {"send", "lookup", "claim", "audit", "finalize", "respond"}
    BY <1>0, <1>4, Walks DEF Moved
  <2> QED BY <2>1, <2>2 DEF Refused
<1>5. CASE ClaimRequest(w, o)
  <2>1. /\ ~Refused(req[w].msg) /\ IdOf[req[w].msg] \in RequestId
        /\ req'[w].msg = req[w].msg /\ (req'[w].at = "send" \/ (~Raised(o) /\ req'[w].at = "record"))
    <3>1. At(w, "claim") /\ req[w].at = "claim"
      BY <1>0, <1>5, ClaimWalks
    <3>2. IdOf[req[w].msg] \in RequestId
      BY <1>0, <3>1, HasMessage
    <3>3. req'[w].msg = req[w].msg /\ (req'[w].at = "send" \/ (~Raised(o) /\ req'[w].at = "record"))
      BY <1>0, <1>5, ClaimWalks DEF Moved
    <3> QED BY <1>0, <3>1, <3>2, <3>3
  <2>2. ~Raised(o) => requestStatus' = WithStatus(IdOf[req[w].msg], "processing")
    BY <1>5 DEF ClaimRequest, Outcome, Raised, Landed
  <2>3. ~Raised(o) => requestStatus'[IdOf[req[w].msg]].status = "processing"
    BY <1>0, <2>1, <2>2, RowAppended
  <2> QED BY <2>1, <2>3 DEF Refused
<1>6. CASE RecordRequest(w, o)
  <2>1. /\ ~Refused(req[w].msg) /\ requestStatus' = requestStatus
        /\ requestStatus[IdOf[req[w].msg]].status # "absent"
    BY <1>0, <1>6, Walks DEF RecordRequest
  <2>2. req'[w].msg = req[w].msg /\ req'[w].at \in {"send", "execute"}
    BY <1>0, <1>6, Walks DEF Moved
  <2>3. Raised(o) => req'[w].at = "send"
    BY <1>0, <1>6, AnswerErrorMoves DEF RecordRequest, Moved
  <2>4. ~Raised(o) => req[w].msg \in charged'
    BY <1>6 DEF RecordRequest, Outcome, Raised, Landed
  <2> QED BY <2>1, <2>2, <2>3, <2>4 DEF Refused
<1>7. CASE ExecuteWrite(w, o)
  BY <1>0, <1>7, ExecuteWalks DEF Moved, Refused
<1>8. CASE Respond(w, o)
  BY <1>0, <1>8, Walks DEF Freed
<1> QED BY <1>1, <1>2, <1>3, <1>4, <1>5, <1>6, <1>7, <1>8 DEF LocalStep, RemoteCall

\* Refused mail: the thread that moves is either past Layer 0, and then
\* about other mail, or leaves all but the audit alone.
LEMMA GateLayer0 ==
    ASSUME GateInv, TypeOK', NEW w \in Worker, NEW o, LocalStep(w) \/ RemoteCall(w, o)
    PROVE  Layer0Gate'
<1>0. TypeOK /\ Passed(w) /\ Layer0Gate
  BY DEF GateInv
<1>1. ASSUME NEW m \in Message, Refused(m)
      PROVE  /\ m \notin messages' \cup charged'
             /\ effects'[m] = 0 /\ attempts'[m] = 0 /\ audits'[m] = 0
  <2>1. /\ m \notin messages \cup charged
        /\ effects[m] = 0 /\ attempts[m] = 0 /\ audits[m] = 0
    BY <1>0, <1>1 DEF Layer0Gate, Refused
  <2>2. CASE Handling(w)
    <3>1. m # req[w].msg
      BY <1>0, <1>1, <2>2 DEF Passed
    <3> QED BY <1>0, <2>1, <3>1, OwnMessageOnly
  <2>3. CASE ~Handling(w)
    BY <1>0, <2>1, <2>3, OutsideHandling
  <2> QED BY <2>2, <2>3
<1>2. ASSUME NEW m \in Message, KindOf[m] = "unsigned", NEW v \in {"rejected", "duplicate_message"}
      PROVE  <<m, v>> \notin noted'
  <2>1. <<m, v>> \notin noted
    BY <1>0, <1>2 DEF Layer0Gate
  <2>2. CASE m # req[w].msg
    BY <1>0, <2>1, <2>2, OwnMessageOnly
  <2>3. CASE m = req[w].msg
    <3>1. ~Handling(w)
      BY <1>0, <1>2, <2>3 DEF Passed, Refused
    <3>2. CASE Ingress(w)
      BY <1>2, <2>1, <2>3, <3>2 DEF Ingress
    <3>3. CASE ~Ingress(w)
      BY <2>1, <3>1, <3>3
         DEF LocalStep, RemoteCall, Handling, At, storeVars, worldVars,
             Acquire, Refuse, AppendAudit, CheckMessage, MarkMessageSeen,
             CountToday, LookupRequest, ClaimRequest, RecordRequest, ExecuteRead,
             ExecuteWrite, RecordEffect, SendReply, FinalizeStatus, Respond
    <3> QED BY <3>2, <3>3
  <2> QED BY <2>2, <2>3
<1>3. ASSUME NEW m \in Message, KindOf[m] = "foreign", m \notin owed'
      PROVE  <<m, "rejected">> \in noted'
  <2>1. CASE m \notin owed
    <3>1. <<m, "rejected">> \in noted
      BY <1>0, <1>3, <2>1 DEF Layer0Gate
    <3>2. noted \subseteq noted'
      BY RecordsGrow
    <3> QED BY <3>1, <3>2
  <2>2. CASE m \in owed
    <3>1. Respond(w, o) /\ m = req[w].msg
      BY <1>3, <2>2
         DEF LocalStep, RemoteCall, storeVars, worldVars,
             Acquire, Ingress, Refuse, AppendAudit, CheckMessage, MarkMessageSeen,
             CountToday, LookupRequest, ClaimRequest, RecordRequest, ExecuteRead,
             ExecuteWrite, RecordEffect, SendReply, FinalizeStatus, Respond
    <3>2. At(w, "respond") /\ noted' = noted
      BY <3>1 DEF Respond, worldVars
    <3> QED BY <1>0, <1>3, <3>1, <3>2 DEF Passed
  <2> QED BY <2>1, <2>2
<1> QED BY <1>1, <1>2, <1>3 DEF Layer0Gate, Refused

LEMMA GateStep == GateInv /\ [Next]_vars => GateInv'
<1> SUFFICES ASSUME GateInv, [Next]_vars PROVE GateInv'
  OBVIOUS
<1>0. TypeOK /\ TypeOK'
  BY TypeStep DEF GateInv
<1>1. /\ messages \subseteq messages' /\ charged \subseteq charged' /\ noted \subseteq noted'
      /\ \A r \in RequestId : requestStatus'[r].status = "absent" => requestStatus[r].status = "absent"
  BY <1>0, NothingForgotten
\* What a thread has passed it has passed for good.
<1>2. ASSUME NEW v \in Worker, req'[v] = req[v] PROVE Passed(v)'
  <2>1. Passed(v)
    BY DEF GateInv
  <2>2. At(v, "record") \/ At(v, "execute") => IdOf[req[v].msg] \in RequestId
    BY <1>0, HasMessage DEF At
  <2> QED BY <1>1, <1>2, <2>1, <2>2 DEF Passed, Handling, At
<1>3. ASSUME NEW m \in Message PROVE IdOf[m] \in RequestId
  BY ConstantsAssumption
<1>4. ASSUME UNCHANGED <<effects, owed, messages, charged, attempts, audits, noted>>,
             \A v \in Worker : Passed(v)'
      PROVE  GateInv'
  <2>1. NoUnclaimedWrite'
    BY <1>1, <1>3, <1>4 DEF GateInv, NoUnclaimedWrite
  <2> QED BY <1>0, <1>4, <2>1 DEF GateInv, Layer0Gate, NoUnchargedWrite
<1>5. CASE UNCHANGED vars
  BY <1>2, <1>4, <1>5 DEF vars, storeVars, worldVars
<1>6. ASSUME NEW w \in Worker, NEW m \in Message, Receive(w, m) PROVE GateInv'
  <2>1. req'[w].at = "lock" /\ \A v \in Worker : v # w => req'[v] = req[v]
    BY <1>0, <1>6 DEF Receive, TypeOK, Fresh
  <2>2. Passed(w)'
    BY <2>1 DEF Passed, Handling, At
  <2> QED BY <1>2, <1>4, <1>6, <2>1, <2>2 DEF Receive, storeVars, worldVars
<1>7. ASSUME NEW p \in Process, Crash(p) PROVE GateInv'
  <2>1. \A v \in Worker : req'[v] = Idle \/ req'[v] = req[v]
    BY <1>7 DEF Crash
  <2>2. ASSUME NEW v \in Worker, req'[v] = Idle PROVE Passed(v)'
    BY <2>2 DEF Passed, Handling, At, Idle, Fresh
  <2> QED BY <1>2, <1>4, <1>7, <2>1, <2>2 DEF Crash, storeVars, worldVars
<1>8. CASE PassTime
  BY <1>2, <1>4, <1>8 DEF PassTime, NewDay, GrowStale, worldVars
<1>9. ASSUME NEW w \in Worker, NEW o, LocalStep(w) \/ RemoteCall(w, o) PROVE GateInv'
  <2>1. \A v \in Worker : Passed(v)'
    <3>1. \A v \in Worker : v # w => req'[v] = req[v]
      BY <1>0, <1>9, Walks, ClaimWalks, ExecuteWalks
         DEF LocalStep, RemoteCall, Moved, Freed, OthersStay
    <3> QED BY <1>2, <1>9, <3>1, GateThread, <1>0
  <2>2. ASSUME NEW m \in Message, effects'[m] > 0
        PROVE  requestStatus[IdOf[m]].status # "absent" /\ m \in charged
    <3>1. CASE effects[m] > 0
      BY <3>1 DEF GateInv, NoUnclaimedWrite, NoUnchargedWrite
    <3>2. CASE ~(effects[m] > 0)
      <4>1. At(w, "execute") /\ m = req[w].msg
        <5>1. effects'[m] # effects[m]
          BY <2>2, <3>2
        <5>2. m = req[w].msg
          BY <1>0, <1>9, <5>1, OwnMessageOnly
        <5>3. ExecuteWrite(w, o)
          BY <1>9, <5>1
             DEF LocalStep, RemoteCall, storeVars, worldVars,
                 Acquire, Ingress, Refuse, AppendAudit, CheckMessage, MarkMessageSeen,
                 CountToday, LookupRequest, ClaimRequest, RecordRequest, ExecuteRead,
                 RecordEffect, SendReply, FinalizeStatus, Respond
        <5> QED BY <5>2, <5>3 DEF ExecuteWrite
      <4> QED BY <4>1 DEF GateInv, Passed
    <3> QED BY <3>1, <3>2
  <2>3. NoUnclaimedWrite' /\ NoUnchargedWrite'
    BY <1>1, <1>3, <2>2 DEF NoUnclaimedWrite, NoUnchargedWrite
  <2> QED BY <1>0, <1>9, <2>1, <2>3, GateLayer0 DEF GateInv
<1> QED BY <1>5, <1>6, <1>7, <1>8, <1>9 DEF Next

LEMMA GateInvHolds == Spec => []GateInv
BY GateInit, GateStep, PTL DEF Spec

\* Whatever overlaps, fails or crashes, mail that Layer 0 refuses is never
\* marked, charged, executed or answered, and its audit record comes before
\* the acknowledgement.
THEOREM Layer0Holds == Spec => []Layer0Gate
<1>1. GateInv => Layer0Gate
  BY DEF GateInv
<1> QED BY <1>1, GateInvHolds, PTL

\* No write under an id without a row, even of two overlapping processes.
THEOREM WritesAreClaimed == Spec => []NoUnclaimedWrite
<1>1. GateInv => NoUnclaimedWrite
  BY DEF GateInv
<1> QED BY <1>1, GateInvHolds, PTL

\* No write that did not first cost a quota slot.
THEOREM WritesAreCharged == Spec => []NoUnchargedWrite
<1>1. GateInv => NoUnchargedWrite
  BY DEF GateInv
<1> QED BY <1>1, GateInvHolds, PTL

-----------------------------------------------------------------------------
(* One reply.  The mark is what a redelivery runs into: before it nothing  *)
(* was answered, and the one thread under the lock that has just set it is *)
(* the only one that will ever answer.                                     *)

Unanswered(m) == attempts[m] = 0 /\ audits[m] = 0 /\ said[m] = NoReply

\* The thread has marked its message and not yet tried to reply.
Answering(w) == req[w].at \in {"count", "lookup", "claim", "record", "execute", "effect", "send"}

AnswersOnce(w) ==
    LET m == req[w].msg IN
    /\ At(w, "mark") => m \notin messages
    /\ Answering(w) => m \in messages /\ Unanswered(m)
    /\ At(w, "audit") => m \in messages /\ attempts[m] = 1 /\ audits[m] = 0

AnsweredOnce(m) ==
    /\ attempts[m] <= 1 /\ audits[m] <= attempts[m]
    /\ attempts[m] = 0 => Unanswered(m)
    /\ m \notin messages => attempts[m] = 0

ReplyInv ==
    /\ TypeOK
    /\ LockInv
    /\ \A m \in Message : AnsweredOnce(m)
    /\ \A w \in Worker : AnswersOnce(w)

\* While one thread of the only instance moves, the others wait or are idle.
LEMMA AloneAtWork ==
    ASSUME OneInstance, TypeOK, LockInv,
           NEW w \in Worker, NEW o, LocalStep(w) \/ RemoteCall(w, o),
           NEW v \in Worker, v # w
    PROVE  req'[v] = req[v] /\ ~Active(v)
<1>1. req'[v] = req[v]
  BY Walks, ClaimWalks, ExecuteWalks DEF LocalStep, RemoteCall, Moved, Freed, OthersStay
<1>2. CASE Acquire(w)
  <2>1. lock[ProcessOf[v]] = NoWorker
    BY <1>2 DEF Acquire, OneInstance
  <2> QED BY <1>1, <2>1, ConstantsAssumption DEF LockInv
<1>3. CASE Active(w)
  BY <1>1, <1>3, OneActive
<1> QED BY <1>2, <1>3, StepsOfAThread DEF Leaves, Continues

LEMMA ReplyInit == Init => ReplyInv
BY TypeInit, LockInit
   DEF Init, StoreInit, ReplyInv, AnsweredOnce, AnswersOnce, Unanswered, Answering, At, Idle, Fresh

\* The thread that moves, and its message.
LEMMA ReplyThread ==
    ASSUME ReplyInv, TypeOK', NEW w \in Worker, NEW o, LocalStep(w) \/ RemoteCall(w, o),
           NEW m, m = req[w].msg
    PROVE  AnswersOnce(w)' /\ (m \in Message => AnsweredOnce(m)')
<1>0. /\ TypeOK /\ AnswersOnce(w) /\ (m \in Message => AnsweredOnce(m))
      /\ Idle.at = "idle" /\ m = req[w].msg
  BY DEF ReplyInv, Idle, Fresh
<1> USE DEF AnswersOnce, Answering, At
<1>1. CASE /\ Acquire(w) \/ Ingress(w) \/ CheckMessage(w, o) \/ FinalizeStatus(w, o) \/ Respond(w, o)
  <2>1. UNCHANGED <<messages, attempts, said, audits>>
    BY <1>1 DEF Acquire, Ingress, CheckMessage, FinalizeStatus, Respond, storeVars, worldVars
  <2>2. \/ req'[w] = Idle
        \/ req'[w].msg = m /\ req'[w].at \in {"ingress", "dedupe", "respond", "mark"}
    BY <1>0, <1>1, Walks DEF Moved, Freed
  <2>3. req'[w].at = "mark" => m \notin messages
    <3>1. CASE CheckMessage(w, o)
      <4>1. CASE Raised(o)
        BY <1>0, <3>1, <4>1, ReleaseFrees DEF CheckMessage, Freed
      <4>2. CASE ~Raised(o) /\ m \in messages
        BY <1>0, <3>1, <4>2, GotoMoves DEF CheckMessage, Phase, Moved
      <4> QED BY <4>1, <4>2
    <3>2. CASE ~CheckMessage(w, o)
      BY <1>0, <1>1, <3>2, Walks DEF Moved, Freed
    <3> QED BY <3>1, <3>2
  <2>4. m \in Message => AnsweredOnce(m)'
    BY <1>0, <2>1 DEF AnsweredOnce, Unanswered
  <2> QED BY <1>0, <2>1, <2>2, <2>3, <2>4
<1>2. CASE MarkMessageSeen(w, o)
  <2>1. UNCHANGED <<attempts, said, audits>> /\ m \in Message /\ m \notin messages
    BY <1>0, <1>2, HasMessage DEF MarkMessageSeen, worldVars
  <2>2. Unanswered(m)
    BY <1>0, <2>1 DEF AnsweredOnce
  <2>3. CASE Raised(o)
    <3>1. req'[w] = Idle
      BY <1>0, <1>2, <2>3, ReleaseFrees DEF MarkMessageSeen, Freed
    <3>2. AnsweredOnce(m)'
      BY <2>1, <2>2 DEF AnsweredOnce, Unanswered
    <3> QED BY <1>0, <3>1, <3>2
  <2>4. CASE ~Raised(o)
    <3>1. m \in messages'
      BY <1>2, <2>4 DEF MarkMessageSeen, Outcome, Raised, Landed
    <3>2. req'[w].at = "count" /\ req'[w].msg = m
      BY <1>0, <1>2, <2>4, GotoMoves DEF MarkMessageSeen, Phase, Moved
    <3> QED BY <2>1, <2>2, <3>1, <3>2 DEF AnsweredOnce, Unanswered
  <2> QED BY <2>3, <2>4
<1>3. CASE \/ CountToday(w, o) \/ LookupRequest(w, o) \/ ClaimRequest(w, o) \/ RecordRequest(w, o)
           \/ Refuse(w) \/ ExecuteRead(w, o) \/ ExecuteWrite(w, o) \/ RecordEffect(w, o)
  <2>1. UNCHANGED <<messages, attempts, said, audits>>
    BY <1>3 DEF CountToday, LookupRequest, ClaimRequest, RecordRequest, Refuse, ExecuteRead,
                ExecuteWrite, RecordEffect, storeVars, worldVars
  <2>2. Answering(w) /\ Answering(w)' /\ req'[w].msg = m /\ req'[w].at # "mark" /\ req'[w].at # "audit"
    BY <1>0, <1>3, Walks, ClaimWalks, ExecuteWalks DEF Moved
  <2> QED BY <1>0, <2>1, <2>2 DEF AnsweredOnce, Unanswered
<1>4. CASE SendReply(w, o)
  <2>1. m \in Message /\ m \in messages /\ Unanswered(m)
    BY <1>0, <1>4, HasMessage DEF SendReply
  <2>2. attempts'[m] = 1 /\ audits' = audits /\ messages' = messages
    BY <1>0, <1>4, <2>1 DEF SendReply, Unanswered, TypeOK, storeVars
  <2>3. req'[w].at = "audit" /\ req'[w].msg = m
    BY <1>0, <1>4, Walks DEF Moved
  <2> QED BY <2>1, <2>2, <2>3 DEF AnsweredOnce, Unanswered
<1>5. CASE AppendAudit(w)
  <2>1. m \in Message /\ m \in messages /\ attempts[m] = 1 /\ audits[m] = 0
    BY <1>0, <1>5, HasMessage DEF AppendAudit
  <2>2. audits'[m] = 1 /\ attempts' = attempts /\ messages' = messages
    BY <1>0, <1>5, <2>1 DEF AppendAudit, TypeOK, storeVars
  <2>3. req'[w].at = "finalize" /\ req'[w].msg = m
    BY <1>0, <1>5, Walks DEF Moved
  <2> QED BY <2>1, <2>2, <2>3 DEF AnsweredOnce, Unanswered
<1> QED BY <1>1, <1>2, <1>3, <1>4, <1>5 DEF LocalStep, RemoteCall

LEMMA ReplyStep ==
    ASSUME OneInstance
    PROVE  ReplyInv /\ [Next]_vars => ReplyInv'
<1> SUFFICES ASSUME ReplyInv, [Next]_vars PROVE ReplyInv'
  OBVIOUS
<1>0. TypeOK /\ TypeOK' /\ LockInv /\ LockInv'
  BY TypeStep, LockStep DEF ReplyInv
\* Idle and waiting threads have no stake in the replies.
<1>1. ASSUME NEW v \in Worker, ~Active(v)' PROVE AnswersOnce(v)'
  BY <1>1 DEF AnswersOnce, Answering, At, Active
<1>2. ASSUME UNCHANGED <<messages, attempts, said, audits>>,
             \A v \in Worker : req'[v] = req[v] \/ ~Active(v)'
      PROVE  ReplyInv'
  <2>1. \A v \in Worker : AnswersOnce(v)'
    BY <1>1, <1>2 DEF ReplyInv, AnswersOnce, Answering, At, Unanswered
  <2>2. \A m \in Message : AnsweredOnce(m)'
    BY <1>2 DEF ReplyInv, AnsweredOnce, Unanswered
  <2> QED BY <1>0, <2>1, <2>2 DEF ReplyInv
<1>3. CASE UNCHANGED vars
  BY <1>2, <1>3 DEF vars, storeVars, worldVars
<1>4. ASSUME NEW w \in Worker, NEW m \in Message, Receive(w, m) PROVE ReplyInv'
  BY <1>0, <1>2, <1>4 DEF Receive, TypeOK, Fresh, Active, storeVars, worldVars
<1>5. ASSUME NEW p \in Process, Crash(p) PROVE ReplyInv'
  BY <1>2, <1>5 DEF Crash, Active, Idle, Fresh, storeVars, worldVars
<1>6. CASE PassTime
  BY <1>2, <1>6 DEF PassTime, NewDay, GrowStale, worldVars
<1>7. ASSUME NEW w \in Worker, NEW o, LocalStep(w) \/ RemoteCall(w, o) PROVE ReplyInv'
  <2>1. AnswersOnce(w)' /\ \A m \in Message : m = req[w].msg => AnsweredOnce(m)'
    BY <1>0, <1>7, ReplyThread
  <2>2. ASSUME NEW v \in Worker, v # w PROVE AnswersOnce(v)'
    BY <1>0, <1>1, <1>7, <2>2, AloneAtWork DEF Active
  <2>3. ASSUME NEW m \in Message, m # req[w].msg PROVE AnsweredOnce(m)'
    <3>1. AnsweredOnce(m)
      BY DEF ReplyInv
    <3> QED BY <1>0, <1>7, <2>3, <3>1, OwnMessageOnly DEF AnsweredOnce, Unanswered
  <2>4. \A v \in Worker : AnswersOnce(v)'
    BY <2>1, <2>2
  <2>5. \A m \in Message : AnsweredOnce(m)'
    BY <2>1, <2>3
  <2> QED BY <1>0, <2>4, <2>5 DEF ReplyInv
<1> QED BY <1>3, <1>4, <1>5, <1>6, <1>7 DEF Next

LEMMA ReplyInvHolds ==
    ASSUME OneInstance
    PROVE  Spec => []ReplyInv
<1>1. ReplyInv /\ [Next]_vars => ReplyInv'
  BY ReplyStep
<1> QED BY <1>1, ReplyInit, PTL DEF Spec

\* With one instance no message gets a second reply attempt or a second
\* audit record, whatever is lost, redelivered or restarted.
THEOREM RepliedOnce == ASSUME OneInstance PROVE Spec => []OneReplyPerMessage
<1>1. ReplyInv => OneReplyPerMessage
  BY DEF ReplyInv, AnsweredOnce, OneReplyPerMessage
<1> QED BY <1>1, ReplyInvHolds, PTL

-----------------------------------------------------------------------------
(* The truth of the reply.  Only the thread that answers a message writes  *)
(* for it, and it has not written before it executes: what it says is what *)
(* it saw, and it saw what happened unless the answer was lost.            *)

\* What the thread will say of its write, and what it has done.
Truthful(w) ==
    LET m == req[w].msg IN
    /\ req[w].at \in {"count", "lookup", "claim", "record", "execute"} => effects[m] = 0
    /\ At(w, "effect") => effects[m] > 0
    /\ At(w, "send") /\ IsWriteVerb(m) => (req[w].reply.status = "completed" <=> effects[m] > 0)

\* The reply a sender has, and what was done for a message.
Honest(m) ==
    /\ m \notin messages => effects[m] = 0
    /\ IsWriteVerb(m) /\ said[m] # NoReply => (said[m].status = "completed" <=> effects[m] > 0)

TruthInv ==
    /\ ReplyInv
    /\ \A m \in Message : Honest(m)
    /\ \A w \in Worker : Truthful(w)

LEMMA TruthInit == Init => TruthInv
BY ReplyInit
   DEF Init, TruthInv, Honest, Truthful, At, Idle, Fresh

\* Before the write is carried out no reply says `completed`.
LEMMA NothingDoneYet ==
    ASSUME TypeOK, NEW w \in Worker, NEW o,
           \/ CountToday(w, o) \/ LookupRequest(w, o) \/ ClaimRequest(w, o) \/ RecordRequest(w, o)
           \/ Refuse(w) \/ (ExecuteRead(w, o) /\ IsWriteVerb(req[w].msg))
    PROVE  /\ req'[w].msg = req[w].msg
           /\ \/ req'[w].at \in {"lookup", "claim", "record", "execute"}
              \/ req'[w].at = "send" /\ req'[w].reply.status # "completed"
<1> USE DEF Moved, Phase
<1>1. CASE CountToday(w, o)
  BY <1>1, GotoMoves, AnswerMoves, AnswerErrorMoves DEF CountToday, InternalError
<1>2. CASE LookupRequest(w, o)
  BY <1>2, GotoMoves, AnswerMoves, AnswerErrorMoves DEF LookupRequest
<1>3. CASE ClaimRequest(w, o)
  BY <1>3, ClaimWalks
<1>4. CASE RecordRequest(w, o)
  BY <1>4, GotoMoves, AnswerErrorMoves DEF RecordRequest
<1>5. CASE Refuse(w)
  BY <1>5, AnswerMoves DEF Refuse
<1>6. CASE ExecuteRead(w, o) /\ IsWriteVerb(req[w].msg)
  BY <1>6 DEF ExecuteRead, IsWriteVerb
<1> QED BY <1>1, <1>2, <1>3, <1>4, <1>5, <1>6

\* The thread that moves, and its message.
LEMMA TruthThread ==
    ASSUME WritesAreAnswered, TruthInv, TypeOK',
           NEW w \in Worker, NEW o, LocalStep(w) \/ RemoteCall(w, o),
           NEW m, m = req[w].msg
    PROVE  Truthful(w)' /\ (m \in Message => Honest(m)')
<1>0. /\ TypeOK /\ Truthful(w) /\ AnswersOnce(w) /\ (m \in Message => Honest(m))
      /\ Idle.at = "idle" /\ m = req[w].msg
  BY DEF TruthInv, ReplyInv, Idle, Fresh
<1> USE DEF Truthful, At
<1>1. CASE \/ Acquire(w) \/ Ingress(w) \/ CheckMessage(w, o)
           \/ AppendAudit(w) \/ FinalizeStatus(w, o) \/ Respond(w, o)
  <2>1. UNCHANGED <<messages, effects, said>>
    BY <1>1 DEF Acquire, Ingress, CheckMessage, AppendAudit, FinalizeStatus, Respond, storeVars, worldVars
  <2>2. req'[w].at \in {"idle", "ingress", "dedupe", "respond", "mark", "finalize"}
    BY <1>0, <1>1, Walks DEF Moved, Freed
  <2> QED BY <1>0, <2>1, <2>2 DEF Honest
<1>2. CASE MarkMessageSeen(w, o)
  <2>1. m \in Message /\ m \notin messages
    BY <1>0, <1>2, HasMessage DEF MarkMessageSeen, AnswersOnce
  <2>2. effects[m] = 0 /\ UNCHANGED <<effects, said>> /\ messages \subseteq messages'
    BY <1>0, <1>2, <2>1 DEF Honest, MarkMessageSeen, worldVars
  <2>3. req'[w].at = "idle" \/ (req'[w].at = "count" /\ req'[w].msg = m)
    BY <1>0, <1>2, Walks DEF Moved, Freed
  <2> QED BY <1>0, <2>2, <2>3 DEF Honest
<1>3. CASE \/ CountToday(w, o) \/ LookupRequest(w, o) \/ ClaimRequest(w, o) \/ RecordRequest(w, o)
           \/ Refuse(w) \/ ExecuteRead(w, o)
  <2>1. UNCHANGED <<messages, effects, said>>
    BY <1>3 DEF CountToday, LookupRequest, ClaimRequest, RecordRequest, Refuse, ExecuteRead,
                storeVars, worldVars
  <2>2. effects[m] = 0
    BY <1>0, <1>3, Walks, ClaimWalks
  <2>3. req'[w].msg = m /\ req'[w].at \in {"lookup", "claim", "record", "execute", "send"}
    BY <1>0, <1>3, Walks, ClaimWalks DEF Moved
  <2>4. req'[w].at = "send" /\ IsWriteVerb(m) => req'[w].reply.status # "completed"
    BY <1>0, <1>3, NothingDoneYet
  <2> QED BY <1>0, <2>1, <2>2, <2>3, <2>4 DEF Honest
<1>4. CASE ExecuteWrite(w, o)
  <2>1. m \in Message /\ m \in messages /\ said[m] = NoReply /\ effects[m] = 0
    BY <1>0, <1>4, HasMessage DEF ExecuteWrite, AnswersOnce, Answering, Unanswered
  <2>2. UNCHANGED <<messages, said>>
    BY <1>4 DEF ExecuteWrite, storeVars
  <2>3. CASE Raised(o)
    <3>1. effects' = effects
      BY <1>4, <2>3 DEF ExecuteWrite, Outcome, WritesAreAnswered, Raised, Landed
    <3>2. req'[w].msg = m /\ req'[w].at = "send" /\ req'[w].reply.status = "error"
      BY <1>0, <1>4, <2>3, ExecuteWalks DEF Moved
    <3> QED BY <2>1, <2>2, <3>1, <3>2 DEF Honest
  <2>4. CASE ~Raised(o)
    <3>1. effects'[m] = 1
      BY <1>0, <1>4, <2>1, <2>4 DEF ExecuteWrite, Outcome, Raised, Landed, TypeOK
    <3>2. req'[w].msg = m /\ req'[w].at = "effect"
      BY <1>0, <1>4, <2>4, ExecuteWalks
    <3> QED BY <2>1, <2>2, <3>1, <3>2 DEF Honest
  <2> QED BY <2>3, <2>4
<1>5. CASE RecordEffect(w, o)
  <2>1. UNCHANGED <<messages, effects, said>> /\ effects[m] > 0
    BY <1>0, <1>5 DEF RecordEffect, worldVars
  <2>2. req'[w].msg = m /\ req'[w].at = "send" /\ req'[w].reply.status = "completed"
    BY <1>0, <1>5, AnswerMoves DEF RecordEffect, Moved
  <2> QED BY <1>0, <2>1, <2>2 DEF Honest
<1>6. CASE SendReply(w, o)
  <2>1. m \in Message /\ said[m] = NoReply /\ UNCHANGED <<messages, effects>>
    BY <1>0, <1>6, HasMessage DEF SendReply, AnswersOnce, Answering, Unanswered, storeVars
  <2>2. said'[m] = NoReply \/ said'[m] = req[w].reply
    BY <1>0, <1>6, <2>1 DEF SendReply, TypeOK
  <2>3. IsWriteVerb(m) => (req[w].reply.status = "completed" <=> effects[m] > 0)
    BY <1>0, <1>6 DEF SendReply
  <2>4. req'[w].at = "audit"
    BY <1>0, <1>6, Walks DEF Moved
  <2> QED BY <1>0, <2>1, <2>2, <2>3, <2>4 DEF Honest
<1> QED BY <1>1, <1>2, <1>3, <1>4, <1>5, <1>6 DEF LocalStep, RemoteCall

LEMMA TruthStep ==
    ASSUME OneInstance, WritesAreAnswered
    PROVE  TruthInv /\ [Next]_vars => TruthInv'
<1> SUFFICES ASSUME TruthInv, [Next]_vars PROVE TruthInv'
  OBVIOUS
<1>0. TypeOK /\ TypeOK' /\ LockInv /\ ReplyInv'
  BY TypeStep, ReplyStep DEF TruthInv, ReplyInv
<1>1. ASSUME NEW v \in Worker, ~Active(v)' PROVE Truthful(v)'
  BY <1>1 DEF Truthful, At, Active
<1>2. ASSUME UNCHANGED <<messages, effects, said>>,
             \A v \in Worker : req'[v] = req[v] \/ ~Active(v)'
      PROVE  TruthInv'
  <2>1. \A v \in Worker : Truthful(v)'
    BY <1>1, <1>2 DEF TruthInv, Truthful, At
  <2>2. \A m \in Message : Honest(m)'
    BY <1>2 DEF TruthInv, Honest, IsWriteVerb
  <2> QED BY <1>0, <2>1, <2>2 DEF TruthInv
<1>3. CASE UNCHANGED vars
  BY <1>2, <1>3 DEF vars, storeVars, worldVars
<1>4. ASSUME NEW w \in Worker, NEW m \in Message, Receive(w, m) PROVE TruthInv'
  BY <1>0, <1>2, <1>4 DEF Receive, TypeOK, Fresh, Active, storeVars, worldVars
<1>5. ASSUME NEW p \in Process, Crash(p) PROVE TruthInv'
  BY <1>2, <1>5 DEF Crash, Active, Idle, Fresh, storeVars, worldVars
<1>6. CASE PassTime
  BY <1>2, <1>6 DEF PassTime, NewDay, GrowStale, worldVars
<1>7. ASSUME NEW w \in Worker, NEW o, LocalStep(w) \/ RemoteCall(w, o) PROVE TruthInv'
  <2>1. Truthful(w)' /\ \A m \in Message : m = req[w].msg => Honest(m)'
    BY <1>0, <1>7, TruthThread
  <2>2. ASSUME NEW v \in Worker, v # w PROVE Truthful(v)'
    BY <1>0, <1>1, <1>7, <2>2, AloneAtWork DEF Active
  <2>3. ASSUME NEW m \in Message, m # req[w].msg PROVE Honest(m)'
    <3>1. Honest(m)
      BY DEF TruthInv
    <3> QED BY <1>0, <1>7, <2>3, <3>1, OwnMessageOnly DEF Honest, IsWriteVerb
  <2>4. \A v \in Worker : Truthful(v)'
    BY <2>1, <2>2
  <2>5. \A m \in Message : Honest(m)'
    BY <2>1, <2>3
  <2> QED BY <1>0, <2>4, <2>5 DEF TruthInv
<1> QED BY <1>3, <1>4, <1>5, <1>6, <1>7 DEF Next

\* With one instance and no lost answer to a write, the reply tells the
\* truth about the write, whatever else is lost, redelivered or restarted.
\* Request ids play no part: it holds even of two kinds of verb under one.
THEOREM RepliesAreHonest ==
    ASSUME OneInstance, WritesAreAnswered
    PROVE  Spec => []HonestReply
<1>1. TruthInv /\ [Next]_vars => TruthInv'
  BY TruthStep
<1>2. TruthInv => HonestReply
  BY DEF TruthInv, Honest, HonestReply
<1> QED BY <1>1, <1>2, TruthInit, PTL DEF Spec

-----------------------------------------------------------------------------
(* Duplicates.  A marked message that nobody is answering was answered, if *)
(* nothing but an answer ends the answering.                               *)

\* A message that is marked is being answered, or was.
AnswerInv ==
    /\ ReplyInv
    /\ DuplicateWasAnswered
    /\ \A m \in messages : attempts[m] = 0 =>
          \E w \in Worker : req[w].msg = m /\ Answering(w)

\* No process dies, and AgentMail's message is marked if and only if the
\* call that marks it says so.
MarksAreReliable == ~Crashes /\ "mark" \notin LostAt

LEMMA AnswerInit == Init => AnswerInv
BY ReplyInit DEF Init, StoreInit, AnswerInv, DuplicateWasAnswered

\* Reply attempts are only ever added.
LEMMA AttemptsGrow ==
    ASSUME TypeOK, NEW w \in Worker, NEW o, LocalStep(w) \/ RemoteCall(w, o), NEW m \in Message
    PROVE  attempts'[m] >= attempts[m]
<1>1. CASE SendReply(w, o)
  BY <1>1 DEF SendReply, TypeOK
<1>2. CASE ~SendReply(w, o)
  <2>1. attempts' = attempts
    BY <1>2 DEF LocalStep, RemoteCall, storeVars, worldVars,
         Acquire, Ingress, Refuse, AppendAudit, CheckMessage, MarkMessageSeen,
         CountToday, LookupRequest, ClaimRequest, RecordRequest, ExecuteRead,
         ExecuteWrite, RecordEffect, FinalizeStatus, Respond
  <2> QED BY <2>1 DEF TypeOK
<1> QED BY <1>1, <1>2

\* A thread that answers goes on answering until it has tried to reply.
LEMMA AnsweringGoesOn ==
    ASSUME ReplyInv, TypeOK', NEW w \in Worker, NEW o, LocalStep(w) \/ RemoteCall(w, o), Answering(w)
    PROVE  \/ Answering(w)' /\ req'[w].msg = req[w].msg
           \/ attempts'[req[w].msg] = 1
<1>1. TypeOK
  BY DEF ReplyInv
<1>2. CASE \/ CountToday(w, o) \/ LookupRequest(w, o) \/ ClaimRequest(w, o) \/ RecordRequest(w, o)
           \/ Refuse(w) \/ ExecuteRead(w, o) \/ ExecuteWrite(w, o) \/ RecordEffect(w, o)
  BY <1>1, <1>2, Walks, ClaimWalks, ExecuteWalks DEF Moved, Answering
<1>3. CASE SendReply(w, o)
  <2>1. req[w].msg \in Message /\ attempts[req[w].msg] = 0
    BY <1>1, <1>3, HasMessage DEF SendReply, At, ReplyInv, AnswersOnce, Answering, Unanswered
  <2> QED BY <1>1, <1>3, <2>1 DEF SendReply, TypeOK
<1>4. CASE \/ Acquire(w) \/ Ingress(w) \/ CheckMessage(w, o) \/ MarkMessageSeen(w, o)
           \/ AppendAudit(w) \/ FinalizeStatus(w, o) \/ Respond(w, o)
  BY <1>1, <1>4, Walks DEF Answering, At
<1> QED BY <1>2, <1>3, <1>4 DEF LocalStep, RemoteCall

LEMMA AnswerStep ==
    ASSUME OneInstance, MarksAreReliable
    PROVE  AnswerInv /\ [Next]_vars => AnswerInv'
<1> SUFFICES ASSUME AnswerInv, [Next]_vars PROVE AnswerInv'
  OBVIOUS
<1>0. TypeOK /\ TypeOK' /\ LockInv /\ ReplyInv /\ ReplyInv'
  BY TypeStep, ReplyStep DEF AnswerInv, ReplyInv
\* Nobody who answers is disturbed.
<1>1. ASSUME UNCHANGED <<messages, attempts, noted>>,
             \A v \in Worker : Answering(v) => req'[v] = req[v]
      PROVE  AnswerInv'
  BY <1>0, <1>1 DEF AnswerInv, DuplicateWasAnswered, Answering
<1>2. CASE UNCHANGED vars
  BY <1>1, <1>2 DEF vars, storeVars, worldVars
<1>3. ASSUME NEW w \in Worker, NEW m \in Message, Receive(w, m) PROVE AnswerInv'
  <2>1. At(w, "idle") /\ \A v \in Worker : v # w => req'[v] = req[v]
    BY <1>0, <1>3 DEF Receive, TypeOK
  <2>2. \A v \in Worker : Answering(v) => req'[v] = req[v]
    BY <2>1 DEF Answering, At
  <2> QED BY <1>1, <1>3, <2>2 DEF Receive, storeVars, worldVars
<1>4. ASSUME NEW p \in Process, Crash(p) PROVE AnswerInv'
  BY <1>4 DEF Crash, MarksAreReliable
<1>5. CASE PassTime
  BY <1>1, <1>5 DEF PassTime, NewDay, GrowStale, worldVars
<1>6. ASSUME NEW w \in Worker, NEW o, LocalStep(w) \/ RemoteCall(w, o) PROVE AnswerInv'
  <2>1. ASSUME NEW m \in messages', attempts'[m] = 0
        PROVE  \E v \in Worker : req'[v].msg = m /\ Answering(v)'
    <3>0. m \in Message
      BY <1>0, <2>1 DEF TypeOK, StoreTypeOK
    <3>1. CASE m \in messages
      <4>1. attempts[m] = 0
        BY <1>0, <1>6, <2>1, <3>0, AttemptsGrow DEF TypeOK
      <4>2. PICK v \in Worker : req[v].msg = m /\ Answering(v)
        BY <3>1, <4>1 DEF AnswerInv
      <4>3. CASE v = w
        BY <1>0, <1>6, <2>1, <4>2, <4>3, AnsweringGoesOn
      <4>4. CASE v # w
        <5>1. req'[v] = req[v]
          BY <1>0, <1>6, <4>4, AloneAtWork
        <5> QED BY <4>2, <5>1 DEF Answering
      <4> QED BY <4>3, <4>4
    <3>2. CASE m \notin messages
      <4>1. m = req[w].msg /\ MarkMessageSeen(w, o)
        BY <1>6, <2>1, <3>2
           DEF LocalStep, RemoteCall, storeVars, worldVars,
               Acquire, Ingress, Refuse, AppendAudit, CheckMessage, MarkMessageSeen,
               CountToday, LookupRequest, ClaimRequest, RecordRequest, ExecuteRead,
               ExecuteWrite, RecordEffect, SendReply, FinalizeStatus, Respond
      <4>2. ~Raised(o)
        BY <2>1, <3>2, <4>1 DEF MarkMessageSeen, MarksAreReliable, Outcome, Landed, Raised
      <4>3. Moved(w, "count")
        BY <1>0, <4>1, <4>2, GotoMoves DEF MarkMessageSeen, Phase
      <4> QED BY <4>1, <4>3 DEF Moved, Answering
    <3> QED BY <3>1, <3>2
  <2>2. ASSUME NEW m \in Message, <<m, "duplicate_message">> \in noted'
        PROVE  attempts'[m] = 1
    <3>1. attempts[m] = 1
      <4>1. CASE <<m, "duplicate_message">> \in noted
        BY <4>1 DEF AnswerInv, DuplicateWasAnswered
      <4>2. CASE <<m, "duplicate_message">> \notin noted
        <5>1. CheckMessage(w, o) /\ m = req[w].msg /\ m \in messages
          BY <1>6, <2>2, <4>2
             DEF LocalStep, RemoteCall, storeVars, worldVars,
                 Acquire, Ingress, Refuse, AppendAudit, CheckMessage, MarkMessageSeen,
                 CountToday, LookupRequest, ClaimRequest, RecordRequest, ExecuteRead,
                 ExecuteWrite, RecordEffect, SendReply, FinalizeStatus, Respond
        \* The only thread under the lock is looking it up, not answering it.
        <5>2. \A v \in Worker : ~Answering(v)
          <6>1. At(w, "dedupe")
            BY <5>1 DEF CheckMessage
          <6> QED BY <1>0, <6>1, OneActive DEF At, Active, Answering
        <5>3. attempts[m] # 0
          BY <5>1, <5>2 DEF AnswerInv
        <5>4. attempts[m] \in Nat /\ attempts[m] <= 1
          BY <1>0 DEF ReplyInv, AnsweredOnce, TypeOK
        <5> QED BY <5>3, <5>4
      <4> QED BY <4>1, <4>2
    <3>2. attempts'[m] >= 1 /\ attempts'[m] <= 1 /\ attempts'[m] \in Nat
      BY <1>0, <1>6, <3>1, AttemptsGrow DEF ReplyInv, AnsweredOnce, TypeOK
    <3> QED BY <3>2
  <2> QED BY <1>0, <2>1, <2>2 DEF AnswerInv, DuplicateWasAnswered
<1> QED BY <1>2, <1>3, <1>4, <1>5, <1>6 DEF Next

\* With one instance, no deaths and no mark whose answer is lost, a delivery
\* that is put aside as a duplicate is of a message that got its reply.
THEOREM DuplicatesWereAnswered ==
    ASSUME OneInstance, MarksAreReliable
    PROVE  Spec => []DuplicateWasAnswered
<1>1. AnswerInv /\ [Next]_vars => AnswerInv'
  BY AnswerStep
<1>2. AnswerInv => DuplicateWasAnswered
  BY DEF AnswerInv
<1> QED BY <1>1, <1>2, AnswerInit, PTL DEF Spec

-----------------------------------------------------------------------------
(* The row of an id while the thread that claimed it is at work.           *)

Owns(w) == req[w].at \in {"record", "execute", "effect", "send", "audit", "finalize"} /\ req[w].started

RowOK(w) ==
    LET m == req[w].msg
        status == requestStatus[IdOf[m]].status IN
    /\ Early(w) => ~req[w].started /\ ~req[w].wrote
    /\ At(w, "claim") => status \notin {"effect_done", "completed"}
    /\ req[w].at \in {"record", "execute"} => req[w].started /\ ~req[w].wrote
    /\ At(w, "effect") => req[w].started /\ req[w].wrote
    /\ Owns(w) /\ req[w].wrote => status \in {"processing", "effect_done"} /\ effects[m] > 0
    /\ Owns(w) /\ ~req[w].wrote => status = "processing"

RowInv ==
    /\ TypeOK
    /\ LockInv
    /\ \A w \in Worker : RowOK(w)

LEMMA RowInit == Init => RowInv
BY TypeInit, LockInit DEF Init, RowInv, RowOK, Early, Owns, At, Idle, Fresh

\* The thread that moves: what it knows of the row it claimed stays true.
LEMMA RowThread ==
    ASSUME RowInv, TypeOK', NEW w \in Worker, NEW o, LocalStep(w) \/ RemoteCall(w, o)
    PROVE  RowOK(w)'
<1>0. TypeOK /\ RowOK(w) /\ Idle.at = "idle" /\ ~Idle.started /\ ~Idle.wrote
  BY DEF RowInv, Idle, Fresh
<1> USE DEF RowOK, Early, Owns, At
<1>1. CASE \/ Acquire(w) \/ Ingress(w) \/ CheckMessage(w, o) \/ MarkMessageSeen(w, o)
           \/ CountToday(w, o) \/ Respond(w, o)
  <2>1. /\ ~req[w].started /\ ~req[w].wrote
        \/ req[w].at = "respond"
    BY <1>0, <1>1, Walks
  <2>2. \/ req'[w] = Idle
        \/ /\ req'[w].at \in {"ingress", "respond", "dedupe", "mark", "count", "lookup", "send"}
           /\ req'[w].started = req[w].started /\ req'[w].wrote = req[w].wrote
           /\ req[w].at # "respond"
    BY <1>0, <1>1, Walks DEF Moved, Freed
  <2> QED BY <1>0, <2>1, <2>2
<1>2. CASE LookupRequest(w, o)
  <2>1. ~req[w].started /\ ~req[w].wrote /\ requestStatus' = requestStatus
    BY <1>0, <1>2 DEF LookupRequest, storeVars
  <2>2. /\ req'[w].at \in {"send", "claim"} /\ req'[w].msg = req[w].msg
        /\ req'[w].started = req[w].started /\ req'[w].wrote = req[w].wrote
    BY <1>0, <1>2, Walks DEF Moved
  <2>3. req'[w].at = "claim" =>
           requestStatus[IdOf[req[w].msg]].status \notin {"effect_done", "completed"}
    <3>1. CASE Raised(o)
      BY <1>0, <1>2, <3>1, AnswerErrorMoves DEF LookupRequest, Moved
    <3>2. CASE ~Raised(o) /\ IsDuplicateRequestStatus(requestStatus[IdOf[req[w].msg]],
                                                     IsWriteVerb(req[w].msg))
      <4>1. Answer(w, [status |-> "duplicate", retryable |-> FALSE])
        BY <1>2, <3>2 DEF LookupRequest
      <4> QED BY <1>0, <4>1, AnswerMoves DEF Moved
    <3>3. CASE ~IsDuplicateRequestStatus(requestStatus[IdOf[req[w].msg]],
                                         IsWriteVerb(req[w].msg))
      BY <3>3 DEF IsDuplicateRequestStatus, DuplicateRequestStatuses
    <3> QED BY <3>1, <3>2, <3>3
  <2> QED BY <2>1, <2>2, <2>3
<1>3. CASE ClaimRequest(w, o)
  <2>1. ~req[w].started /\ ~req[w].wrote
    BY <1>0, <1>3, ClaimWalks
  <2>2. CASE Raised(o)
    BY <1>0, <1>3, <2>1, <2>2, ClaimWalks DEF Moved
  <2>3. CASE ~Raised(o)
    <3>1. IdOf[req[w].msg] \in RequestId
      BY <1>0, <1>3, ClaimWalks, HasMessage
    <3>2. requestStatus' = WithStatus(IdOf[req[w].msg], "processing")
      BY <1>3, <2>3 DEF ClaimRequest, Outcome, Raised, Landed
    <3>3. requestStatus'[IdOf[req[w].msg]].status = "processing"
      BY <1>0, <3>1, <3>2, RowAppended
    <3>4. /\ req'[w].at = "record" /\ req'[w].started /\ req'[w].msg = req[w].msg
          /\ req'[w].wrote = req[w].wrote
      BY <1>0, <1>3, <2>3, ClaimWalks
    <3> QED BY <2>1, <3>3, <3>4
  <2> QED BY <2>2, <2>3
<1>4. CASE \/ RecordRequest(w, o) \/ Refuse(w) \/ ExecuteRead(w, o)
           \/ SendReply(w, o) \/ AppendAudit(w)
  <2>1. UNCHANGED <<requestStatus, effects>>
    BY <1>4 DEF RecordRequest, Refuse, ExecuteRead, SendReply, AppendAudit, storeVars, worldVars
  <2>2. /\ req'[w].msg = req[w].msg
        /\ req'[w].started = req[w].started /\ req'[w].wrote = req[w].wrote
    BY <1>0, <1>4, Walks DEF Moved
  <2>3. \/ req[w].at \in {"record", "execute"} /\ req'[w].at \in {"execute", "send"}
        \/ req[w].at \in {"send", "audit"} /\ req'[w].at \in {"audit", "finalize"}
    BY <1>0, <1>4, Walks DEF Moved
  <2> QED BY <1>0, <2>1, <2>2, <2>3
<1>5. CASE ExecuteWrite(w, o)
  <2>1. /\ requestStatus' = requestStatus
        /\ req[w].at = "execute" /\ req[w].started /\ ~req[w].wrote
        /\ requestStatus[IdOf[req[w].msg]].status = "processing"
    BY <1>0, <1>5 DEF ExecuteWrite, storeVars
  <2>2. CASE Raised(o)
    BY <1>0, <1>5, <2>1, <2>2, ExecuteWalks DEF Moved
  <2>3. CASE ~Raised(o)
    <3>1. /\ req'[w].at = "effect" /\ req'[w].wrote /\ req'[w].msg = req[w].msg
          /\ req'[w].started = req[w].started
      BY <1>0, <1>5, <2>3, ExecuteWalks
    <3>2. effects'[req[w].msg] > 0
      <4>1. req[w].msg \in Message
        BY <1>0, <2>1, HasMessage
      <4>2. effects' = [effects EXCEPT ![req[w].msg] = @ + 1]
        BY <1>5, <2>3 DEF ExecuteWrite, Outcome, Raised, Landed
      <4> QED BY <1>0, <4>1, <4>2 DEF TypeOK
    <3> QED BY <2>1, <3>1, <3>2
  <2> QED BY <2>2, <2>3
<1>6. CASE RecordEffect(w, o)
  <2>1. /\ effects' = effects /\ req[w].started /\ req[w].wrote
        /\ effects[req[w].msg] > 0
        /\ requestStatus[IdOf[req[w].msg]].status \in {"processing", "effect_done"}
    BY <1>0, <1>6 DEF RecordEffect, worldVars
  <2>2. /\ req'[w].at = "send" /\ req'[w].msg = req[w].msg
        /\ req'[w].started = req[w].started /\ req'[w].wrote = req[w].wrote
    BY <1>0, <1>6, Walks DEF Moved
  <2>3. requestStatus'[IdOf[req[w].msg]].status \in {"processing", "effect_done"}
    <3>1. IdOf[req[w].msg] \in RequestId
      BY <1>0, <1>6, Walks, HasMessage
    <3> QED BY <1>0, <1>6, <2>1, <3>1, RowAppended DEF RecordEffect
  <2> QED BY <2>1, <2>2, <2>3
<1>7. CASE FinalizeStatus(w, o)
  BY <1>0, <1>7, Walks DEF Moved
<1> QED BY <1>1, <1>2, <1>3, <1>4, <1>5, <1>6, <1>7 DEF LocalStep, RemoteCall

LEMMA RowStepHolds ==
    ASSUME OneInstance
    PROVE  RowInv /\ [Next]_vars => RowInv'
<1> SUFFICES ASSUME RowInv, [Next]_vars PROVE RowInv'
  OBVIOUS
<1>0. TypeOK /\ TypeOK' /\ LockInv /\ LockInv' /\ \A v \in Worker : RowOK(v)
  BY TypeStep, LockStep DEF RowInv
\* A thread that waits knows only that it has not begun.
<1>1. ASSUME NEW v \in Worker, req'[v] = req[v], ~Active(v) PROVE RowOK(v)'
  BY <1>0, <1>1 DEF RowOK, Early, Owns, At, Active
<1>2. ASSUME UNCHANGED effects,
             \A r \in RequestId : requestStatus'[r].status = requestStatus[r].status,
             NEW v \in Worker, req'[v] = req[v]
      PROVE  RowOK(v)'
  <2>1. CASE ~Active(v)
    BY <1>1, <1>2, <2>1
  <2>2. CASE Active(v)
    <3>1. IdOf[req[v].msg] \in RequestId
      BY <1>0, <2>2, HasMessage DEF Active, At
    <3>2. RowOK(v)
      BY <1>0
    <3> QED BY <1>2, <3>1, <3>2 DEF RowOK, Early, Owns, At
  <2> QED BY <2>1, <2>2
<1>3. CASE UNCHANGED vars
  BY <1>0, <1>2, <1>3 DEF vars, storeVars, worldVars, RowInv
<1>4. ASSUME NEW w \in Worker, NEW m \in Message, Receive(w, m) PROVE RowInv'
  <2>1. req'[w] = Fresh("lock", m) /\ \A v \in Worker : v # w => req'[v] = req[v]
    BY <1>0, <1>4 DEF Receive, TypeOK
  <2>2. RowOK(w)'
    BY <2>1 DEF RowOK, Early, Owns, At, Fresh
  <2> QED BY <1>0, <1>2, <1>4, <2>1, <2>2 DEF RowInv, Receive, storeVars, worldVars
<1>5. ASSUME NEW p \in Process, Crash(p) PROVE RowInv'
  <2>1. \A v \in Worker : req'[v] = Idle \/ req'[v] = req[v]
    BY <1>5 DEF Crash
  <2>2. ASSUME NEW v \in Worker, req'[v] = Idle PROVE RowOK(v)'
    BY <2>2 DEF RowOK, Early, Owns, At, Idle, Fresh
  <2> QED BY <1>0, <1>2, <1>5, <2>1, <2>2 DEF RowInv, Crash, storeVars, worldVars
<1>6. CASE PassTime
  <2>1. UNCHANGED <<effects, req>>
    BY <1>6 DEF PassTime, worldVars
  <2>2. \A r \in RequestId : requestStatus'[r].status = requestStatus[r].status
    BY <1>0, <1>6 DEF PassTime, NewDay, GrowStale, TypeOK, StoreTypeOK, StatusRow
  <2> QED BY <1>0, <1>2, <2>1, <2>2 DEF RowInv
<1>7. ASSUME NEW w \in Worker, NEW o, LocalStep(w) \/ RemoteCall(w, o) PROVE RowInv'
  <2>1. RowOK(w)'
    BY <1>0, <1>7, RowThread
  <2>2. ASSUME NEW v \in Worker, v # w PROVE RowOK(v)'
    BY <1>0, <1>1, <1>7, <2>2, AloneAtWork
  <2> QED BY <1>0, <2>1, <2>2 DEF RowInv
<1> QED BY <1>3, <1>4, <1>5, <1>6, <1>7 DEF Next

LEMMA RowInvHolds ==
    ASSUME OneInstance
    PROVE  Spec => []RowInv
<1>1. RowInv /\ [Next]_vars => RowInv'
  BY RowStepHolds
<1> QED BY <1>1, RowInit, PTL DEF Spec

\* Every row that a thread appends, as a move of its id: a claim of an id
\* that is free or stuck, the row of a write, or the end of a request that
\* wrote nothing.
LEMMA RowMoves ==
    ASSUME RowInv, NEW w \in Worker, NEW o, LocalStep(w) \/ RemoteCall(w, o),
           requestStatus' # requestStatus,
           NEW id, id = IdOf[req[w].msg]
    PROVE  /\ id \in RequestId
           /\ \A r \in RequestId : r # id => requestStatus'[r] = requestStatus[r]
           /\ effects' = effects
           /\ \/ /\ At(w, "claim")
                 /\ requestStatus[id].status \notin {"effect_done", "completed"}
                 /\ requestStatus'[id].status = "processing"
              \/ /\ req[w].msg \in Message /\ effects[req[w].msg] > 0
                 /\ requestStatus[id].status \in {"processing", "effect_done"}
                 /\ requestStatus'[id].status \in {"effect_done", "completed"}
              \/ /\ At(w, "finalize") /\ req[w].started /\ ~req[w].wrote
                 /\ requestStatus[id].status = "processing"
                 /\ requestStatus'[id].status \in {"failed", "completed"}
<1>0. TypeOK /\ RowOK(w)
  BY DEF RowInv
<1>1. Handling(w)
  BY <1>0, OutsideHandling
<1>2. req[w].msg \in Message /\ id \in RequestId
  BY <1>0, <1>1, HasMessage DEF Handling, At
<1>3. ASSUME NEW status, requestStatus' = WithStatus(id, status)
      PROVE  /\ requestStatus'[id].status = status
             /\ \A r \in RequestId : r # id => requestStatus'[r] = requestStatus[r]
  BY <1>0, <1>2, <1>3, RowAppended
<1>4. CASE ClaimRequest(w, o)
  <2>1. effects' = effects /\ requestStatus' = WithStatus(id, "processing")
    BY <1>4 DEF ClaimRequest, worldVars
  <2> QED BY <1>0, <1>2, <1>3, <1>4, <2>1 DEF ClaimRequest, RowOK
<1>5. CASE RecordEffect(w, o)
  <2>1. effects' = effects /\ requestStatus' = WithStatus(id, "effect_done")
    BY <1>5 DEF RecordEffect, worldVars
  <2>2. At(w, "effect") /\ Owns(w) /\ req[w].wrote
    BY <1>0, <1>5 DEF RecordEffect, RowOK, Owns, At
  <2>3. effects[req[w].msg] > 0 /\ requestStatus[id].status \in {"processing", "effect_done"}
    BY <1>0, <2>2 DEF RowOK
  <2> QED BY <1>2, <1>3, <2>1, <2>3
<1>6. CASE FinalizeStatus(w, o)
  <2>1. /\ effects' = effects /\ req[w].started
        /\ requestStatus' = WithStatus(id, LastStatus(req[w]))
    BY <1>6 DEF FinalizeStatus, worldVars
  <2>2. At(w, "finalize") /\ Owns(w)
    BY <1>6, <2>1 DEF FinalizeStatus, Owns, At
  <2>3. /\ requestStatus'[id].status = LastStatus(req[w])
        /\ \A r \in RequestId : r # id => requestStatus'[r] = requestStatus[r]
    BY <1>3, <2>1
  <2>4. CASE req[w].wrote
    <3>1. LastStatus(req[w]) \in {"effect_done", "completed"}
      BY <2>4 DEF LastStatus, FinalRequestStatus
    <3>2. effects[req[w].msg] > 0 /\ requestStatus[id].status \in {"processing", "effect_done"}
      BY <1>0, <2>2, <2>4 DEF RowOK
    <3> QED BY <1>2, <2>1, <2>3, <3>1, <3>2
  <2>5. CASE ~req[w].wrote
    <3>1. LastStatus(req[w]) \in {"failed", "completed"}
      BY <2>5 DEF LastStatus, FinalRequestStatus
    <3>2. requestStatus[id].status = "processing"
      BY <1>0, <2>2, <2>5 DEF RowOK
    <3> QED BY <1>2, <2>1, <2>2, <2>3, <2>5, <3>1, <3>2
  <2> QED BY <2>4, <2>5
<1>7. ClaimRequest(w, o) \/ RecordEffect(w, o) \/ FinalizeStatus(w, o)
  BY DEF LocalStep, RemoteCall, Acquire, Ingress, Refuse, AppendAudit, CheckMessage,
         MarkMessageSeen, CountToday, LookupRequest, RecordRequest, ExecuteRead,
         ExecuteWrite, SendReply, Respond, storeVars
<1> QED BY <1>4, <1>5, <1>6, <1>7

\* Crashes, deliveries and time change no status and write nothing.
LEMMA StatusesStay ==
    ASSUME TypeOK,
           \/ UNCHANGED vars
           \/ \E w \in Worker, m \in Message : Receive(w, m)
           \/ \E p \in Process : Crash(p)
           \/ PassTime
    PROVE  /\ effects' = effects
           /\ \A r \in RequestId : requestStatus'[r].status = requestStatus[r].status
<1>1. CASE PassTime
  BY <1>1 DEF PassTime, NewDay, GrowStale, TypeOK, StoreTypeOK, StatusRow, worldVars
<1>2. CASE UNCHANGED vars \/ (\E w \in Worker, m \in Message : Receive(w, m)) \/ (\E p \in Process : Crash(p))
  BY <1>2 DEF vars, Receive, Crash, storeVars, worldVars
<1> QED BY <1>1, <1>2

\* With one instance the rows `completed` and `effect_done` are final,
\* whatever is lost, redelivered, restarted or goes stale, and whatever kinds
\* of verb share an id.
THEOREM TerminalStatusesStay == ASSUME OneInstance PROVE Spec => TerminalStatusesStick
<1> DEFINE Sticks ==
      \A r \in RequestId :
          LET before == requestStatus[r].status
              after == requestStatus'[r].status
          IN  /\ before = "completed" => after = "completed"
              /\ before = "effect_done" => after \in {"effect_done", "completed"}
<1>1. RowInv /\ [Next]_vars => Sticks
  <2> SUFFICES ASSUME RowInv, [Next]_vars PROVE Sticks
    OBVIOUS
  <2>0. TypeOK
    BY DEF RowInv
  <2>1. CASE \/ UNCHANGED vars
             \/ \E w \in Worker, m \in Message : Receive(w, m)
             \/ \E p \in Process : Crash(p)
             \/ PassTime
    BY <2>0, <2>1, StatusesStay
  <2>2. ASSUME NEW w \in Worker, NEW o, LocalStep(w) \/ RemoteCall(w, o) PROVE Sticks
    <3>1. CASE requestStatus' = requestStatus
      BY <3>1
    <3>2. CASE requestStatus' # requestStatus
      <4> DEFINE id == IdOf[req[w].msg]
      <4>1. \A r \in RequestId : r # id => requestStatus'[r] = requestStatus[r]
        BY <2>2, <3>2, RowMoves
      <4>2. \/ requestStatus[id].status \notin {"effect_done", "completed"}
            \/ /\ requestStatus[id].status \in {"processing", "effect_done"}
               /\ requestStatus'[id].status \in {"effect_done", "completed"}
        BY <2>2, <3>2, RowMoves
      <4> QED BY <4>1, <4>2
    <3> QED BY <3>1, <3>2
  <2> QED BY <2>1, <2>2 DEF Next
<1>2. RowInv /\ [Next]_vars =>
        [\A r \in RequestId :
           LET before == requestStatus[r].status
               after == requestStatus'[r].status
           IN  /\ before = "completed" => after = "completed"
               /\ before = "effect_done" => after \in {"effect_done", "completed"}]_vars
  BY <1>1
<1> QED BY <1>2, RowInvHolds, PTL DEF Spec, TerminalStatusesStick
-----------------------------------------------------------------------------
(* The refinement.  What ResendContract sees of an id is its phase and the *)
(* writes performed under it; both follow from the effects of its messages *)
(* and the status of its row.                                              *)

LEMMA SeenPhase ==
    ASSUME TypeOK, NEW r \in RequestId
    PROVE  /\ Performed(r) => PhaseOf(r) = "performed"
           /\ ~Performed(r) =>
                 /\ WritesOf(r) = {}
                 /\ requestStatus[r].status \in {"absent", "failed"} => PhaseOf(r) = "open"
                 /\ requestStatus[r].status = "processing" => PhaseOf(r) = "attempted"
                 /\ requestStatus[r].status \in {"effect_done", "completed"} =>
                       PhaseOf(r) = "finished"
<1>1. \A m \in Message : effects[m] \in Nat
  BY DEF TypeOK
<1>2. WritesOf(r) # {} <=> Performed(r)
  <2>1. ASSUME NEW m \in Message, IdOf[m] = r, effects[m] > 0 PROVE <<m, 1>> \in WritesOf(r)
    BY <1>1, <2>1 DEF WritesOf
  <2>2. ASSUME NEW x \in WritesOf(r) PROVE Performed(r)
    <3>1. PICK m \in Message : IdOf[m] = r /\ x \in {<<m, k>> : k \in 1..effects[m]}
      BY <2>2 DEF WritesOf
    <3>2. PICK k \in 1..effects[m] : x = <<m, k>>
      BY <3>1
    <3> QED BY <1>1, <3>1, <3>2 DEF Performed
  <2> QED BY <2>1, <2>2 DEF Performed
<1> QED BY <1>2 DEF PhaseOf

\* An id whose messages made no new write, and whose row keeps its status,
\* rests.
LEMMA SeenSame ==
    ASSUME NEW r \in RequestId, effects' = effects,
           requestStatus'[r].status = requestStatus[r].status
    PROVE  PhaseOf(r)' = PhaseOf(r) /\ WritesOf(r)' = WritesOf(r)
<1>1. WritesOf(r)' = WritesOf(r)
  BY DEF WritesOf
<1> QED BY <1>1 DEF PhaseOf

\* A step of the contract, in terms of what it sees.
ContractMove(r) ==
    \/ /\ WritesOf(r)' = WritesOf(r)
       /\ \/ PhaseOf(r)' = PhaseOf(r)
          \/ PhaseOf(r) = "open" /\ PhaseOf(r)' = "attempted"
          \/ PhaseOf(r) = "attempted" /\ PhaseOf(r)' \in {"open", "finished"}
    \/ /\ PhaseOf(r) = "attempted" /\ PhaseOf(r)' = "performed"
       /\ \E x : WritesOf(r)' = {x}

LEMMA MovesAreSteps ==
    ASSUME \A r \in RequestId : ContractMove(r)
    PROVE  Contract!Next
<1> SUFFICES ASSUME NEW r \in RequestId
             PROVE  \/ Contract!Begin(r) \/ Contract!GiveUp(r) \/ Contract!Perform(r)
                    \/ Contract!Finish(r) \/ Contract!Rest(r)
  BY DEF Contract!Next
<1> USE DEF Contract!Move, Contract!Nothing
<1>1. CASE WritesOf(r)' = WritesOf(r) /\ PhaseOf(r)' = PhaseOf(r)
  BY <1>1 DEF Contract!Rest
<1>2. CASE WritesOf(r)' = WritesOf(r) /\ PhaseOf(r) = "open" /\ PhaseOf(r)' = "attempted"
  BY <1>2 DEF Contract!Begin
<1>3. CASE /\ WritesOf(r)' = WritesOf(r) /\ PhaseOf(r) = "attempted"
           /\ PhaseOf(r)' \in {"open", "finished"}
  BY <1>3 DEF Contract!GiveUp, Contract!Finish
<1>4. CASE /\ PhaseOf(r) = "attempted" /\ PhaseOf(r)' = "performed"
           /\ \E x : WritesOf(r)' = {x}
  BY <1>4 DEF Contract!Perform
<1> QED BY <1>1, <1>2, <1>3, <1>4 DEF ContractMove

\* The initial state maps to the contract's.
LEMMA ContractInit == Init => Contract!Init
<1> SUFFICES ASSUME Init PROVE Contract!Init
  OBVIOUS
<1>1. ASSUME NEW r \in RequestId PROVE PhaseOf(r) = "open" /\ WritesOf(r) = {}
  <2>1. TypeOK /\ requestStatus[r].status = "absent" /\ \A m \in Message : effects[m] = 0
    BY TypeInit DEF Init, StoreInit
  <2> QED BY <2>1, SeenPhase DEF Performed
<1> QED BY <1>1 DEF Contract!Init

\* The write itself: Perform for the id of its message, Rest for the others.
LEMMA WriteIsPerform ==
    ASSUME WriteInv, WritesAreAnswered, NEW w \in Worker, NEW o, ExecuteWrite(w, o),
           effects' # effects, TypeOK', NEW r \in RequestId
    PROVE  ContractMove(r)
<1> DEFINE m == req[w].msg
<1>0. TypeOK /\ At(w, "execute") /\ ThreadOK(w) /\ requestStatus' = requestStatus
  BY DEF WriteInv, ExecuteWrite, storeVars
<1>1. m \in Message
  BY <1>0, HasMessage DEF At
<1>2. effects' = [effects EXCEPT ![m] = @ + 1]
  BY DEF ExecuteWrite
<1>3. ~Performed(IdOf[m]) /\ requestStatus[IdOf[m]].status = "processing"
  BY <1>0 DEF ThreadOK, Undone, Active, At
<1>4. CASE r # IdOf[m]
  <2>1. \A n \in Message : IdOf[n] = r => effects'[n] = effects[n]
    BY <1>0, <1>2, <1>4 DEF TypeOK
  <2>2. WritesOf(r)' = WritesOf(r)
    BY <2>1 DEF WritesOf
  <2>3. PhaseOf(r)' = PhaseOf(r)
    BY <1>0, <2>2 DEF PhaseOf
  <2> QED BY <2>2, <2>3 DEF ContractMove
<1>5. CASE r = IdOf[m]
  <2>1. PhaseOf(r) = "attempted"
    BY <1>0, <1>3, <1>5, SeenPhase
  <2>2. \A n \in Message : IdOf[n] = r => effects'[n] = IF n = m THEN 1 ELSE 0
    <3>1. \A n \in Message : IdOf[n] = r => effects[n] = 0
      BY <1>0, <1>3, <1>5 DEF Performed, TypeOK
    <3> QED BY <1>0, <1>1, <1>2, <1>5, <3>1 DEF TypeOK
  <2>3. WritesOf(r)' = {<<m, 1>>}
    <3>1. ASSUME NEW x PROVE x \in WritesOf(r)' <=> x = <<m, 1>>
      <4>1. x \in WritesOf(r)' <=>
              \E n \in Message : IdOf[n] = r /\ \E k \in 1..effects'[n] : x = <<n, k>>
        BY DEF WritesOf
      <4>2. 1..1 = {1} /\ 1..0 = {}
        OBVIOUS
      <4> QED BY <1>1, <1>5, <2>2, <4>1, <4>2
    <3> QED BY <3>1
  <2>4. PhaseOf(r)' = "performed"
    BY <2>3 DEF PhaseOf
  <2> QED BY <2>1, <2>3, <2>4 DEF ContractMove
<1> QED BY <1>4, <1>5

\* A row that is appended: Begin, GiveUp or Finish for an id that performed
\* nothing, Rest for one that did.
LEMMA RowIsMove ==
    ASSUME WriteInv, RowInv, NEW w \in Worker, NEW o, LocalStep(w) \/ RemoteCall(w, o),
           requestStatus' # requestStatus, TypeOK', NEW r \in RequestId
    PROVE  ContractMove(r)
<1> DEFINE id == IdOf[req[w].msg]
<1>0. TypeOK /\ ThreadOK(w)
  BY DEF WriteInv
<1>1. /\ id \in RequestId
      /\ \A s \in RequestId : s # id => requestStatus'[s] = requestStatus[s]
      /\ effects' = effects
  BY RowMoves
<1>2. WritesOf(r)' = WritesOf(r) /\ (Performed(r)' <=> Performed(r))
  BY <1>1 DEF WritesOf, Performed
<1>3. CASE r # id
  BY <1>1, <1>2, <1>3, SeenSame DEF ContractMove
<1>4. CASE r = id /\ Performed(id)
  <2>1. PhaseOf(r)' = "performed" /\ PhaseOf(r) = "performed"
    <3>1. WritesOf(r) # {}
      BY <1>0, <1>4, SeenPhase DEF PhaseOf
    <3> QED BY <1>2, <3>1 DEF PhaseOf
  <2> QED BY <1>2, <2>1 DEF ContractMove
<1>5. CASE r = id /\ ~Performed(id)
  <2>1. \/ /\ requestStatus[id].status \in {"absent", "failed", "processing"}
           /\ requestStatus'[id].status = "processing"
        \/ /\ requestStatus[id].status = "processing"
           /\ requestStatus'[id].status \in {"failed", "completed"}
    <3>1. requestStatus[id].status \in {"absent", "failed", "processing", "effect_done", "completed"}
      BY <1>0, <1>1 DEF TypeOK, StoreTypeOK, StatusRow, RequestStatus
    <3>2. \A m \in Message : IdOf[m] = id => ~(effects[m] > 0)
      BY <1>5 DEF Performed
    <3> QED BY <3>1, <3>2, RowMoves
  <2>2. WritesOf(r) = {} /\ WritesOf(r)' = {}
    BY <1>0, <1>2, <1>5, SeenPhase
  <2> QED BY <1>2, <1>5, <2>1, <2>2 DEF ContractMove, PhaseOf
<1> QED BY <1>3, <1>4, <1>5

\* Every step maps to a step of the contract in which each id moves at most
\* once, most of them to one in which all ids rest.
LEMMA StepIsContractStep ==
    ASSUME OneInstance, OneKindPerId, WritesAreAnswered
    PROVE  WriteInv /\ RowInv /\ [Next]_vars => Contract!Next
<1> SUFFICES ASSUME WriteInv, RowInv, [Next]_vars, NEW r \in RequestId PROVE ContractMove(r)
  BY MovesAreSteps
<1>0. TypeOK /\ TypeOK'
  BY TypeStep DEF WriteInv
<1>1. CASE \/ UNCHANGED vars
           \/ \E w \in Worker, m \in Message : Receive(w, m)
           \/ \E p \in Process : Crash(p)
           \/ PassTime
  BY <1>0, <1>1, StatusesStay, SeenSame DEF ContractMove
<1>2. ASSUME NEW w \in Worker, NEW o, LocalStep(w) \/ RemoteCall(w, o) PROVE ContractMove(r)
  <2>1. CASE effects' # effects
    <3>1. ExecuteWrite(w, o)
      BY <1>2, <2>1
         DEF LocalStep, RemoteCall, storeVars, worldVars,
             Acquire, Ingress, Refuse, AppendAudit, CheckMessage, MarkMessageSeen,
             CountToday, LookupRequest, ClaimRequest, RecordRequest, ExecuteRead,
             RecordEffect, SendReply, FinalizeStatus, Respond
    <3> QED BY <1>0, <2>1, <3>1, WriteIsPerform
  <2>2. CASE requestStatus' # requestStatus
    BY <1>0, <1>2, <2>2, RowIsMove
  <2>3. CASE effects' = effects /\ requestStatus' = requestStatus
    BY <2>3, SeenSame DEF ContractMove
  <2> QED BY <2>1, <2>2, <2>3
<1> QED BY <1>1, <1>2 DEF Next

\* "Resending" (docs/PROTOCOL.md): with one instance, one kind of verb per id
\* and no lost answer of Google, whatever messages carry an id, however they
\* are redelivered, resent or cut short, the id is attempted only after it
\* was claimed, is open again only if nothing was done, is written under at
\* most once and is then used up.
THEOREM ContractKept ==
    ASSUME OneInstance, OneKindPerId, WritesAreAnswered
    PROVE  Spec => KeepsContract
<1>1. WriteInv /\ RowInv /\ [Next]_vars => [Contract!Next]_(Contract!contractVars)
  BY StepIsContractStep
<1> QED BY <1>1, ContractInit, WriteInvHolds, RowInvHolds, PTL DEF Spec, KeepsContract, Contract!Spec
=============================================================================
