------------------------------- MODULE Pipeline -------------------------------
(***************************************************************************)
(* The life of an inbound e-mail that carries ONE request, from the        *)
(* AgentMail delivery to the last status row: app/main.py's process-wide   *)
(* lock and app/pipeline.py's handle_webhook and _run_request.             *)
(*                                                                         *)
(* Every call to a remote service (Sheets, Google, AgentMail) is one       *)
(* action with an outcome: it succeeds, it fails having done nothing, or   *)
(* it took effect and the response was lost, so that the caller sees a     *)
(* failure.  Processes crash between any two calls, AgentMail redelivers   *)
(* what was not acknowledged, and two processes may overlap while a        *)
(* revision is rolled out.                                                 *)
(***************************************************************************)
EXTENDS StateStore

CONSTANTS Worker,       \* threads of the request threadpool
          Process,      \* service instances
          ProcessOf,    \* the process a thread runs in
          IdOf,         \* the request id each message parses to
          KindOf,       \* what each message is, see Kind
          LostAt,       \* the calls whose response may be lost, see Site
          Crashes,      \* whether processes may die
          NoWorker, NoMessage

Kind == {"write",       \* a verb for which is_write_verb holds
         "read",        \* any other verb that executes
         "malformed",   \* a block that does not parse to a verb
         "foreign",     \* signed, but refused by check_event
         "unsigned"}    \* refused by verify_signature

Site == {"mark", "claim", "record", "execute", "effect", "send", "final"}

ASSUME ConstantsAssumption ==
    /\ ProcessOf \in [Worker -> Process]
    /\ IdOf \in [Message -> RequestId]
    /\ KindOf \in [Message -> Kind]
    /\ LostAt \subseteq Site
    /\ Crashes \in BOOLEAN
    /\ NoWorker \notin Worker
    /\ NoMessage \notin Message

VARIABLES owed,         \* deliveries AgentMail has no 2xx answer for
          lock,         \* holder of each process's _request_lock
          req,          \* each thread's handle_webhook activation
          charged,      \* messages for which a quota row was ever written
          effects,      \* writes Google carried out for each message
          attempts,     \* reply attempts for each message
          said,         \* the reply each message's sender received
          audits,       \* audit records of handled messages
          noted         \* audit records of rejected and duplicate messages

worldVars == <<charged, effects, attempts, said, audits, noted>>
vars == <<storeVars, owed, lock, req, worldVars>>

-----------------------------------------------------------------------------

Phase == {"idle", "lock", "ingress", "dedupe", "mark", "count", "lookup",
          "claim", "record", "execute", "effect", "send", "audit",
          "finalize", "respond"}

Reply == [status : {"error", "completed", "denied", "duplicate"}, retryable : BOOLEAN]

NoReply == [status |-> "none", retryable |-> FALSE]

\* _RequestState: `wrote` stands for results.wrote, `replied` for a
\* reply_error that stayed None, `reply` for reply_status and retryable.
RequestState == [at : Phase, msg : Message \cup {NoMessage}, started : BOOLEAN, wrote : BOOLEAN,
                 replied : BOOLEAN, reply : Reply]

InternalError == [status |-> "error", retryable |-> FALSE]

Fresh(at, m) == [at |-> at, msg |-> m, started |-> FALSE, wrote |-> FALSE,
                 replied |-> TRUE, reply |-> InternalError]

Idle == Fresh("idle", NoMessage)

TypeOK ==
    /\ StoreTypeOK
    /\ owed \subseteq Message
    /\ lock \in [Process -> Worker \cup {NoWorker}]
    /\ req \in [Worker -> RequestState]
    /\ \A w \in Worker : req[w].msg = NoMessage <=> req[w].at = "idle"
    /\ charged \subseteq Message
    /\ effects \in [Message -> Nat]
    /\ attempts \in [Message -> Nat]
    /\ said \in [Message -> Reply \cup {NoReply}]
    /\ audits \in [Message -> Nat]
    /\ noted \subseteq Message \X {"rejected", "duplicate_message"}

Init ==
    /\ StoreInit
    /\ owed = Message
    /\ lock = [p \in Process |-> NoWorker]
    /\ req = [w \in Worker |-> Idle]
    /\ charged = {}
    /\ effects = [m \in Message |-> 0]
    /\ attempts = [m \in Message |-> 0]
    /\ said = [m \in Message |-> NoReply]
    /\ audits = [m \in Message |-> 0]
    /\ noted = {}

-----------------------------------------------------------------------------
(* Outcomes of a remote call.                                              *)

Outcome(site) == {"ok", "fail"} \cup (IF site \in LostAt THEN {"lost"} ELSE {})
Landed(o) == o \in {"ok", "lost"}
Raised(o) == o \in {"fail", "lost"}

IsWriteVerb(m) == KindOf[m] = "write"

At(w, at) == req[w].at = at

Goto(w, at) == req' = [req EXCEPT ![w].at = at]

Answer(w, reply) == req' = [req EXCEPT ![w].at = "send", ![w].reply = reply]

\* An exception after the message was marked seen: the reply's `retryable`
\* is whatever classify_failure says of it.
AnswerError(w) ==
    \E retryable \in BOOLEAN : Answer(w, [status |-> "error", retryable |-> retryable])

\* Mutant: the lock is not given back.
ReleaseKeepingLock(w) == UNCHANGED lock /\ req' = [req EXCEPT ![w] = Idle]

Release(w) ==
    /\ lock' = [lock EXCEPT ![ProcessOf[w]] = NoWorker]
    /\ req' = [req EXCEPT ![w] = Idle]

-----------------------------------------------------------------------------
(* Delivery, the lock, and Layer 0.                                        *)

\* AgentMail posts an unacknowledged message; it may do so while an earlier
\* delivery of the same message is still being handled.
Receive(w, m) ==
    /\ At(w, "idle")
    /\ m \in owed
    /\ req' = [req EXCEPT ![w] = Fresh("lock", m)]
    /\ UNCHANGED <<storeVars, owed, lock, worldVars>>

\* Mutant: no process-wide lock.
AcquireUnlocked(w) ==
    /\ At(w, "lock")
    /\ lock' = [lock EXCEPT ![ProcessOf[w]] = w]
    /\ Goto(w, "ingress")
    /\ UNCHANGED <<storeVars, owed, worldVars>>

Acquire(w) ==
    /\ At(w, "lock")
    /\ lock[ProcessOf[w]] = NoWorker
    /\ lock' = [lock EXCEPT ![ProcessOf[w]] = w]
    /\ Goto(w, "ingress")
    /\ UNCHANGED <<storeVars, owed, worldVars>>

\* An unsigned webhook leaves no trace; a signed one that check_event
\* refuses is audited; both are answered 202.
Ingress(w) ==
    LET m == req[w].msg IN
    /\ At(w, "ingress")
    /\ Goto(w, IF KindOf[m] \in {"unsigned", "foreign"} THEN "respond" ELSE "dedupe")
    /\ noted' = IF KindOf[m] = "foreign" THEN noted \cup {<<m, "rejected">>} ELSE noted
    /\ UNCHANGED <<storeVars, owed, lock, charged, effects, attempts, said, audits>>

-----------------------------------------------------------------------------
(* Layer 1: message dedupe.  A failure here is a 5xx.                      *)

CheckMessage(w, o) ==
    LET m == req[w].msg
        duplicate == m \in messages
    IN
    /\ At(w, "dedupe")
    /\ o \in {"ok", "fail"}
    /\ IF Raised(o)
       THEN Release(w)
       ELSE Goto(w, IF duplicate THEN "respond" ELSE "mark") /\ UNCHANGED lock
    /\ noted' = IF ~Raised(o) /\ duplicate
                THEN noted \cup {<<m, "duplicate_message">>} ELSE noted
    /\ UNCHANGED <<storeVars, owed, charged, effects, attempts, said, audits>>

MarkMessageSeen(w, o) ==
    /\ At(w, "mark")
    /\ o \in Outcome("mark")
    /\ messages' = IF Landed(o) THEN messages \cup {req[w].msg} ELSE messages
    /\ IF Raised(o) THEN Release(w) ELSE Goto(w, "count") /\ UNCHANGED lock
    /\ UNCHANGED <<requestStatus, dailyCount, owed, worldVars>>

-----------------------------------------------------------------------------
(* _run_request: cap, request dedupe, claim, quota row, execution.         *)

\* Mutant: the cap lets one request too many through.
CountTodayOffByOne(w, o) ==
    /\ At(w, "count")
    /\ o \in {"ok", "fail"}
    /\ IF Raised(o) THEN AnswerError(w)
       ELSE IF dailyCount > MaxRequestsPerDay THEN Answer(w, InternalError)
       ELSE Goto(w, "lookup")
    /\ UNCHANGED <<storeVars, owed, lock, worldVars>>

\* Mutant: a failed read after the mark is a 5xx, like one before it.
CountTodayUnguarded(w, o) ==
    /\ At(w, "count")
    /\ o \in {"ok", "fail"}
    /\ IF Raised(o) THEN Release(w)
       ELSE Goto(w, "lookup") /\ UNCHANGED lock
    /\ UNCHANGED <<storeVars, owed, worldVars>>

CountToday(w, o) ==
    /\ At(w, "count")
    /\ o \in {"ok", "fail"}
    /\ IF Raised(o) THEN AnswerError(w)
       ELSE IF dailyCount >= MaxRequestsPerDay THEN Answer(w, InternalError)
       ELSE Goto(w, "lookup")
    /\ UNCHANGED <<storeVars, owed, lock, worldVars>>

\* Screening and parsing change no state, and fail (the reader LLM) like the
\* read that follows them.
LookupRequest(w, o) ==
    LET m == req[w].msg IN
    /\ At(w, "lookup")
    /\ o \in {"ok", "fail"}
    /\ IF Raised(o) THEN AnswerError(w)
       ELSE IF IsDuplicateRequestStatus(requestStatus[IdOf[m]], IsWriteVerb(m))
       THEN Answer(w, [status |-> "duplicate", retryable |-> FALSE])
       ELSE Goto(w, "claim")
    /\ UNCHANGED <<storeVars, owed, lock, worldVars>>

\* Mutant: a failed claim does not stop the request.
ClaimRequestUnchecked(w, o) ==
    /\ At(w, "claim")
    /\ o \in Outcome("claim")
    /\ requestStatus' = IF Landed(o) THEN WithStatus(IdOf[req[w].msg], "processing")
                                     ELSE requestStatus
    /\ req' = [req EXCEPT ![w].at = "record", ![w].started = TRUE]
    /\ UNCHANGED <<messages, dailyCount, owed, lock, worldVars>>

ClaimRequest(w, o) ==
    /\ At(w, "claim")
    /\ o \in Outcome("claim")
    /\ requestStatus' = IF Landed(o) THEN WithStatus(IdOf[req[w].msg], "processing")
                                     ELSE requestStatus
    /\ IF Raised(o) THEN AnswerError(w)
       ELSE req' = [req EXCEPT ![w].at = "record", ![w].started = TRUE]
    /\ UNCHANGED <<messages, dailyCount, owed, lock, worldVars>>

\* Mutant: a request runs although its quota row could not be written.
RecordRequestUnchecked(w, o) ==
    /\ At(w, "record")
    /\ o \in Outcome("record")
    /\ dailyCount' = IF Landed(o) THEN dailyCount + 1 ELSE dailyCount
    /\ charged' = IF Landed(o) THEN charged \cup {req[w].msg} ELSE charged
    /\ Goto(w, "execute")
    /\ UNCHANGED <<messages, requestStatus, owed, lock, effects, attempts, said,
                   audits, noted>>

RecordRequest(w, o) ==
    /\ At(w, "record")
    /\ o \in Outcome("record")
    /\ dailyCount' = IF Landed(o) THEN dailyCount + 1 ELSE dailyCount
    /\ charged' = IF Landed(o) THEN charged \cup {req[w].msg} ELSE charged
    /\ IF Raised(o) THEN AnswerError(w) ELSE Goto(w, "execute")
    /\ UNCHANGED <<messages, requestStatus, owed, lock, effects, attempts, said,
                   audits, noted>>

\* Policy, or a guard inside the executor, refuses; nothing was written.
Refuse(w) ==
    /\ At(w, "execute")
    /\ Answer(w, [status |-> "denied", retryable |-> FALSE])
    /\ UNCHANGED <<storeVars, owed, lock, worldVars>>

ExecuteRead(w, o) ==
    /\ At(w, "execute")
    /\ KindOf[req[w].msg] = "read"
    /\ o \in {"ok", "fail"}
    /\ IF Raised(o) THEN AnswerError(w)
       ELSE Answer(w, [status |-> "completed", retryable |-> FALSE])
    /\ UNCHANGED <<storeVars, owed, lock, worldVars>>

ExecuteWrite(w, o) ==
    LET m == req[w].msg IN
    /\ At(w, "execute")
    /\ IsWriteVerb(m)
    /\ o \in Outcome("execute")
    /\ effects' = IF Landed(o) THEN [effects EXCEPT ![m] = @ + 1] ELSE effects
    /\ IF Raised(o) THEN AnswerError(w)
       ELSE req' = [req EXCEPT ![w].at = "effect", ![w].wrote = TRUE]
    /\ UNCHANGED <<storeVars, owed, lock, charged, attempts, said, audits, noted>>

\* Mutant: a failure after the write is answered like any other failure.
RecordEffectOrError(w, o) ==
    /\ At(w, "effect")
    /\ o \in Outcome("effect")
    /\ requestStatus' = IF Landed(o) THEN WithStatus(IdOf[req[w].msg], "effect_done")
                                     ELSE requestStatus
    /\ IF Raised(o) THEN AnswerError(w)
       ELSE Answer(w, [status |-> "completed", retryable |-> FALSE])
    /\ UNCHANGED <<messages, dailyCount, owed, lock, worldVars>>

\* Whether or not the effect_done row could be written, the reply reports
\* the write that happened.
RecordEffect(w, o) ==
    /\ At(w, "effect")
    /\ o \in Outcome("effect")
    /\ requestStatus' = IF Landed(o) THEN WithStatus(IdOf[req[w].msg], "effect_done")
                                     ELSE requestStatus
    /\ Answer(w, [status |-> "completed", retryable |-> FALSE])
    /\ UNCHANGED <<messages, dailyCount, owed, lock, worldVars>>

-----------------------------------------------------------------------------
(* Layer 5: the one reply, the one audit record, the last status row.      *)

SendReply(w, o) ==
    LET m == req[w].msg IN
    /\ At(w, "send")
    /\ o \in Outcome("send")
    /\ attempts' = [attempts EXCEPT ![m] = @ + 1]
    /\ said' = IF Landed(o) THEN [said EXCEPT ![m] = req[w].reply] ELSE said
    /\ req' = [req EXCEPT ![w].at = "audit", ![w].replied = ~Raised(o)]
    /\ UNCHANGED <<storeVars, owed, lock, charged, effects, audits, noted>>

\* A failed append is written to Cloud Logging instead, so the record exists
\* either way.
AppendAudit(w) ==
    /\ At(w, "audit")
    /\ audits' = [audits EXCEPT ![req[w].msg] = @ + 1]
    /\ Goto(w, "finalize")
    /\ UNCHANGED <<storeVars, owed, lock, charged, effects, attempts, said, noted>>

LastStatus(r) == FinalRequestStatus(r.wrote, r.reply.status, r.replied)

FinalizeStatus(w, o) ==
    /\ At(w, "finalize")
    /\ o \in Outcome("final")
    /\ requestStatus' = IF req[w].started /\ Landed(o)
                        THEN WithStatus(IdOf[req[w].msg], LastStatus(req[w]))
                        ELSE requestStatus
    /\ Goto(w, "respond")
    /\ UNCHANGED <<messages, dailyCount, owed, lock, worldVars>>

\* 200 or 202.  AgentMail may have given up waiting for it.
Respond(w, o) ==
    /\ At(w, "respond")
    /\ o \in {"ok", "fail"}
    /\ owed' = IF Raised(o) THEN owed ELSE owed \ {req[w].msg}
    /\ Release(w)
    /\ UNCHANGED <<storeVars, worldVars>>

-----------------------------------------------------------------------------

\* A process dies (deploy, out of memory) and a new one takes its place:
\* its threads and its lock are gone, the sheets and the world are not.
Crash(p) ==
    LET threads == {w \in Worker : ProcessOf[w] = p} IN
    /\ Crashes
    /\ \E w \in threads : ~At(w, "idle")
    /\ req' = [w \in Worker |-> IF w \in threads THEN Idle ELSE req[w]]
    /\ lock' = [lock EXCEPT ![p] = NoWorker]
    /\ UNCHANGED <<storeVars, owed, worldVars>>

PassTime ==
    /\ NewDay \/ \E r \in RequestId : GrowStale(r)
    /\ UNCHANGED <<owed, lock, req, worldVars>>

RemoteCall(w, o) ==
    \/ CheckMessage(w, o) \/ MarkMessageSeen(w, o)
    \/ CountToday(w, o) \/ LookupRequest(w, o)
    \/ ClaimRequest(w, o) \/ RecordRequest(w, o)
    \/ ExecuteRead(w, o) \/ ExecuteWrite(w, o) \/ RecordEffect(w, o)
    \/ SendReply(w, o) \/ FinalizeStatus(w, o) \/ Respond(w, o)

LocalStep(w) == Acquire(w) \/ Ingress(w) \/ Refuse(w) \/ AppendAudit(w)

Next ==
    \/ \E w \in Worker :
          \/ \E m \in Message : Receive(w, m)
          \/ LocalStep(w)
          \/ \E o \in {"ok", "fail", "lost"} : RemoteCall(w, o)
    \/ \E p \in Process : Crash(p)
    \/ PassTime

Spec == Init /\ [][Next]_vars

-----------------------------------------------------------------------------
(* Safety.                                                                 *)

\* "A write is never repeated" (docs/PROTOCOL.md, Resending): of all the
\* messages that carry one request id, at most one makes Google write, and
\* it does so once, whatever is redelivered, resent or restarted.
WriteAtMostOnce ==
    \A m, n \in Message :
        /\ effects[m] <= 1
        /\ effects[m] > 0 /\ effects[n] > 0 /\ IdOf[m] = IdOf[n] => m = n

\* The status row of an id whose write happened never again lets a resend
\* through, even while the run that wrote is still under way or has died:
\* it never reads `failed` and never disappears.
EffectStaysClaimed ==
    \A m \in Message : effects[m] > 0 =>
        requestStatus[IdOf[m]].status \in DuplicateRequestStatuses

\* A write is never performed under an id that has no status row at all
\* (_run_batch's docstring says it of every write); unlike the property
\* above this one must survive even two overlapping processes.
NoUnclaimedWrite ==
    \A m \in Message : effects[m] > 0 => requestStatus[IdOf[m]].status # "absent"

\* The reply tells the truth about the write: "completed" only for a write
\* that happened, and "denied", "duplicate" or "error" (above all the
\* retryable one, "safe to resend it with the same request_id") only if
\* this message's write did not happen.
HonestReply ==
    \A m \in Message : IsWriteVerb(m) /\ said[m] # NoReply =>
        (said[m].status = "completed" <=> effects[m] > 0)

\* Guarantee 4 of pipeline.py: one reply attempt and one audit record per
\* message, never a second one because of a redelivery or a restart.
OneReplyPerMessage ==
    \A m \in Message : attempts[m] <= 1 /\ audits[m] <= attempts[m]

\* Guarantees 1 and 2: mail refused at Layer 0 is never marked, charged,
\* executed or answered, and only the signed kind is audited, always before
\* AgentMail is told to stop delivering it.
Layer0Gate ==
    \A m \in Message :
        /\ KindOf[m] \in {"unsigned", "foreign"} =>
              /\ m \notin messages \cup charged
              /\ effects[m] = 0 /\ attempts[m] = 0 /\ audits[m] = 0
        /\ KindOf[m] = "unsigned" => \A v \in {"rejected", "duplicate_message"} : <<m, v>> \notin noted
        /\ KindOf[m] = "foreign" /\ m \notin owed => <<m, "rejected">> \in noted

\* The daily cap holds although the count is read long before the row is
\* appended, and midnight may pass in between.
CapRespected == dailyCount <= MaxRequestsPerDay

\* Nothing is written that did not first cost a quota slot.
NoUnchargedWrite == \A m \in Message : effects[m] > 0 => m \in charged

\* "That message already got its reply" (handle_webhook): a delivery that is
\* put aside as a duplicate belongs to a message whose reply was attempted.
DuplicateWasAnswered ==
    \A m \in Message : <<m, "duplicate_message">> \in noted => attempts[m] = 1

\* `effect_done` and `completed` are final: the only later row either can
\* get is `completed` after `effect_done`.
TerminalStatusesStick ==
    [][\A r \in RequestId :
          LET before == requestStatus[r].status
              after == requestStatus'[r].status
          IN  /\ before = "completed" => after = "completed"
              /\ before = "effect_done" => after \in {"effect_done", "completed"}]_vars

-----------------------------------------------------------------------------
(* Refinement: each request id lives the life ResendContract allows.       *)

WritesOf(r) ==
    UNION {{<<m, k>> : k \in 1..effects[m]} : m \in {n \in Message : IdOf[n] = r}}

PhaseOf(r) ==
    IF WritesOf(r) # {} THEN "performed"
    ELSE CASE requestStatus[r].status \in {"absent", "failed"} -> "open"
           [] requestStatus[r].status = "processing" -> "attempted"
           [] OTHER -> "finished"

Contract == INSTANCE ResendContract
    WITH phase <- [r \in RequestId |-> PhaseOf(r)],
         writes <- [r \in RequestId |-> WritesOf(r)]

\* Every request id, through all its messages, lives the life that the
\* "Resending" section promises: attempted after it was claimed, open again
\* only if nothing was done, performed at most once, then used up.
KeepsContract == Contract!Spec

-----------------------------------------------------------------------------
(* Liveness.  Threads take their local steps; a remote service that keeps  *)
(* being called does not fail forever; AgentMail keeps redelivering.       *)

Fairness ==
    \A w \in Worker :
        /\ \A m \in Message : SF_vars(Receive(w, m))
        /\ SF_vars(Acquire(w))
        /\ WF_vars(Ingress(w)) /\ WF_vars(AppendAudit(w))
        /\ SF_vars(CheckMessage(w, "ok")) /\ SF_vars(MarkMessageSeen(w, "ok"))
        /\ WF_vars(\E o \in {"ok", "fail"} : CountToday(w, o) \/ LookupRequest(w, o))
        /\ WF_vars(\E o \in {"ok", "fail", "lost"} : ClaimRequest(w, o) \/ RecordRequest(w, o))
        /\ WF_vars(\/ Refuse(w)
                   \/ \E o \in {"ok", "fail", "lost"} : ExecuteRead(w, o) \/ ExecuteWrite(w, o))
        /\ WF_vars(\E o \in {"ok", "fail", "lost"} :
                      RecordEffect(w, o) \/ SendReply(w, o) \/ FinalizeStatus(w, o))
        /\ SF_vars(Respond(w, "ok"))

FairSpec == Spec /\ Fairness

\* Every delivery is eventually acknowledged: no failure, and no thread
\* waiting for the lock, makes AgentMail redeliver a message for ever.
EventuallyAcknowledged == \A m \in Message : <>(m \notin owed)

\* Guarantees 3 and 4 together: as long as no process dies and no mark is
\* lost, every request message eventually gets its reply attempt and its
\* audit record, through however many 5xx rounds.
EventuallyAnswered ==
    \A m \in Message :
        KindOf[m] \in {"write", "read", "malformed"} => <>(attempts[m] = 1 /\ audits[m] = 1)
=============================================================================
