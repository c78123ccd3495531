-------------------------------- MODULE Batch --------------------------------
(***************************************************************************)
(* The life of an inbound e-mail that carries a BATCH of requests:         *)
(* app/pipeline.py's _run_batch and _run_batch_item, between the claim of  *)
(* the batch's own ("outer") request id and the one reply that answers it  *)
(* and all its items.                                                      *)
(*                                                                         *)
(* Each Sheets, Google and AgentMail call is one action with an outcome,   *)
(* as in Pipeline.  The lock of app/main.py lets one message run at a      *)
(* time and a message that was marked seen is never run again, so there is *)
(* one run record, and a message begins when it is marked.                 *)
(***************************************************************************)
EXTENDS StateStore, Sequences, FiniteSets

CONSTANTS OuterOf,      \* the batch's own request id, for each message
          ItemsOf,      \* the items _parse_batch makes of each message
          LostAt,       \* the calls whose response may be lost, see Site
          Crashes,      \* whether the process may die
          NoMessage, NoCount

\* `write` says that is_write_verb holds of the item's verb, `parsed` that
\* the item has no parse_error; an item can be both a write and refused.
Item == [id : RequestId, write : BOOLEAN, parsed : BOOLEAN]

Site == {"claim", "recorditems", "claimitems", "execute", "effect", "send", "final"}

Index(m) == 1..Len(ItemsOf[m])
IdAt(m, i) == ItemsOf[m][i].id

\* _parse_batch gives an item that names the batch's own id a placeholder,
\* and lets only one of several items with the same id through unrefused.
ASSUME BatchAssumption ==
    /\ OuterOf \in [Message -> RequestId]
    /\ ItemsOf \in [Message -> Seq(Item)]
    /\ \A m \in Message : \A i, j \in Index(m) :
          /\ IdAt(m, i) # OuterOf[m]
          /\ IdAt(m, i) = IdAt(m, j) /\ ItemsOf[m][i].parsed /\ ItemsOf[m][j].parsed => i = j
    /\ LostAt \subseteq Site
    /\ Crashes \in BOOLEAN
    /\ NoMessage \notin Message
    /\ NoCount \notin Nat

VARIABLES run,          \* the activation that holds the lock
          charged,      \* items for which a quota row was ever written
          effects,      \* writes Google carried out for each item
          ran,          \* items that reached _run_batch_item
          said,         \* the reply each message's sender received
          audits        \* audit records: <<m, 0>> for the batch, <<m, i>> for item i

worldVars == <<charged, effects, ran, said, audits>>
vars == <<storeVars, run, worldVars>>

-----------------------------------------------------------------------------

Phase == {"idle", "count", "lookup", "claim", "readitems", "recorditems",
          "claimitems", "items", "effect", "send", "audit", "finalize"}

\* "rate_limited" is the reply status `error` with that error code; the
\* others are reply statuses.  An `error` may be retryable, "safe to resend".
Reply == {"error", "completed", "denied", "duplicate", "rate_limited"}

ItemState == [reply : Reply, started : BOOLEAN, wrote : BOOLEAN]

FreshItem == [reply |-> "error", started |-> FALSE, wrote |-> FALSE]

\* `used` and `consumed` are quota_used_before and quota_consumed, `todo`
\* the runnable items not run yet, `returned` says that batch_items was set.
RunState == [at : Phase, msg : Message \cup {NoMessage}, started : BOOLEAN,
             used : Nat \cup {NoCount}, consumed : Nat, todo : SUBSET Nat,
             items : Seq(ItemState), returned : BOOLEAN, reply : Reply, replied : BOOLEAN]

Fresh(at, m) == [at |-> at, msg |-> m, started |-> FALSE, used |-> NoCount,
                 consumed |-> 0, todo |-> {}, items |-> <<>>, returned |-> FALSE,
                 reply |-> "error", replied |-> TRUE]

Idle == Fresh("idle", NoMessage)

NoReply == [outer |-> "none", items |-> <<>>, remaining |-> NoCount]

ItemKey == UNION {{m} \X Index(m) : m \in Message}

TypeOK ==
    /\ StoreTypeOK
    /\ run \in RunState
    /\ run.msg = NoMessage <=> run.at = "idle"
    /\ run.msg # NoMessage =>
          run.todo \subseteq Index(run.msg) /\ Len(run.items) \in {0, Len(ItemsOf[run.msg])}
    /\ charged \subseteq ItemKey
    /\ effects \in [ItemKey -> Nat]
    /\ ran \subseteq ItemKey
    /\ \A m \in Message : said[m] = NoReply \/ said[m].outer \in Reply
    /\ audits \subseteq Message \X Nat

Init ==
    /\ StoreInit
    /\ run = Idle
    /\ charged = {}
    /\ effects = [k \in ItemKey |-> 0]
    /\ ran = {}
    /\ said = [m \in Message |-> NoReply]
    /\ audits = {}

-----------------------------------------------------------------------------

Outcome(site) == {"ok", "fail"} \cup (IF site \in LostAt THEN {"lost"} ELSE {})
Landed(o) == o \in {"ok", "lost"}
Raised(o) == o \in {"fail", "lost"}

At(at) == run.at = at
Goto(at) == run' = [run EXCEPT !.at = at]
Answer(reply) == run' = [run EXCEPT !.at = "send", !.reply = reply]

\* The handler of handle_webhook: whatever raised, one error reply.  What
\* _run_batch had made of the items so far is lost with it.
AnswerError ==
    run' = [run EXCEPT !.at = "send", !.todo = {}, !.items = <<>>, !.reply = "error"]

\* The tab after one append of the row <<id, status>> for each of `ids`.
WithStatuses(ids, status) ==
    [r \in RequestId |-> IF r \in ids THEN [status |-> status, stale |-> FALSE]
                                      ELSE requestStatus[r]]

-----------------------------------------------------------------------------
(* The outer request, as far as the call of _run_batch.                    *)

Begin(m) ==
    /\ At("idle")
    /\ m \notin messages
    /\ messages' = messages \cup {m}
    /\ run' = Fresh("count", m)
    /\ UNCHANGED <<requestStatus, dailyCount, worldVars>>

CountToday(o) ==
    /\ At("count")
    /\ o \in {"ok", "fail"}
    /\ IF Raised(o) THEN AnswerError
       ELSE run' = [run EXCEPT
              !.used = dailyCount,
              !.at = IF dailyCount >= MaxRequestsPerDay THEN "send" ELSE "lookup",
              !.reply = IF dailyCount >= MaxRequestsPerDay THEN "rate_limited" ELSE @]
    /\ UNCHANGED <<storeVars, worldVars>>

\* `batch` itself is no write verb: a stuck outer id ages out.
LookupRequest(o) ==
    /\ At("lookup")
    /\ o \in {"ok", "fail"}
    /\ IF Raised(o) THEN AnswerError
       ELSE IF IsDuplicateRequestStatus(requestStatus[OuterOf[run.msg]], FALSE)
       THEN Answer("duplicate")
       ELSE Goto("claim")
    /\ UNCHANGED <<storeVars, worldVars>>

ClaimRequest(o) ==
    /\ At("claim")
    /\ o \in Outcome("claim")
    /\ requestStatus' = IF Landed(o) THEN WithStatus(OuterOf[run.msg], "processing")
                                     ELSE requestStatus
    /\ IF Raised(o) THEN AnswerError
       ELSE run' = [run EXCEPT !.at = "readitems", !.started = TRUE]
    /\ UNCHANGED <<messages, dailyCount, worldVars>>

-----------------------------------------------------------------------------
(* Layer 1 for all items at once.                                          *)

\* Mutant: only the rows of the sheet make an item a duplicate.
VerdictBySheet(m, used, taken, i) ==
    IF used + Cardinality(taken) >= MaxRequestsPerDay THEN "rate_limited"
    ELSE IF IsDuplicateRequestStatus(requestStatus[IdAt(m, i)], ItemsOf[m][i].write) THEN "duplicate"
    ELSE "run"

\* Mutant: the cap is decided once, for the batch.
VerdictPerBatch(m, used, taken, i) ==
    IF used >= MaxRequestsPerDay THEN "rate_limited"
    ELSE IF \/ \E j \in taken : IdAt(m, j) = IdAt(m, i)
            \/ IsDuplicateRequestStatus(requestStatus[IdAt(m, i)], ItemsOf[m][i].write)
    THEN "duplicate"
    ELSE "run"

\* Mutant: every item before it takes a slot, the duplicates too.
VerdictByPosition(m, used, taken, i) ==
    IF used + (i - 1) >= MaxRequestsPerDay THEN "rate_limited"
    ELSE IF \/ \E j \in taken : IdAt(m, j) = IdAt(m, i)
            \/ IsDuplicateRequestStatus(requestStatus[IdAt(m, i)], ItemsOf[m][i].write)
    THEN "duplicate"
    ELSE "run"

\* What becomes of item i when the items `taken` before it will run.
Verdict(m, used, taken, i) ==
    IF used + Cardinality(taken) >= MaxRequestsPerDay THEN "rate_limited"
    ELSE IF \/ \E j \in taken : IdAt(m, j) = IdAt(m, i)
            \/ IsDuplicateRequestStatus(requestStatus[IdAt(m, i)], ItemsOf[m][i].write)
    THEN "duplicate"
    ELSE "run"

\* The runnable items among the first n of message m.
Taken(m, used) ==
    LET upTo[n \in 0..Len(ItemsOf[m])] ==
            IF n = 0 THEN {}
            ELSE IF Verdict(m, used, upTo[n - 1], n) = "run" THEN upTo[n - 1] \cup {n}
            ELSE upTo[n - 1]
    IN  upTo

ReadItems(o) ==
    LET m == run.msg
        taken == Taken(m, run.used)
        verdict(i) == Verdict(m, run.used, taken[i - 1], i)
    IN
    /\ At("readitems")
    /\ o \in {"ok", "fail"}
    /\ IF Raised(o) THEN AnswerError
       ELSE run' = [run EXCEPT
              !.at = "recorditems",
              !.todo = taken[Len(ItemsOf[m])],
              !.items = [i \in Index(m) |->
                  IF verdict(i) = "run" THEN FreshItem
                                        ELSE [FreshItem EXCEPT !.reply = verdict(i)]]]
    /\ UNCHANGED <<storeVars, worldVars>>

TodoIds == {IdAt(run.msg, i) : i \in run.todo}

\* An append of no rows makes no call.
AppendOutcome(site) == IF run.todo = {} THEN {"ok"} ELSE Outcome(site)

\* Mutant: the slots are not taken into account in the reply.
RecordItemsForgotten(o) ==
    /\ At("recorditems")
    /\ o \in AppendOutcome("recorditems")
    /\ dailyCount' = IF Landed(o) THEN dailyCount + Cardinality(run.todo) ELSE dailyCount
    /\ charged' = IF Landed(o) THEN charged \cup ({run.msg} \X run.todo) ELSE charged
    /\ IF Raised(o) THEN AnswerError ELSE Goto("claimitems")
    /\ UNCHANGED <<messages, requestStatus, effects, ran, said, audits>>

\* Mutant: the rows of items are claimed before their quota is recorded.
RecordItemsLate(o) ==
    /\ At("recorditems")
    /\ o \in AppendOutcome("recorditems")
    /\ dailyCount' = IF Landed(o) THEN dailyCount + Cardinality(run.todo) ELSE dailyCount
    /\ charged' = IF Landed(o) THEN charged \cup ({run.msg} \X run.todo) ELSE charged
    /\ requestStatus' = WithStatuses(TodoIds, "processing")
    /\ IF Raised(o) THEN AnswerError
       ELSE run' = [run EXCEPT !.at = "claimitems", !.consumed = Cardinality(run.todo)]
    /\ UNCHANGED <<messages, effects, ran, said, audits>>

\* record_requests: the quota rows, in one append.
RecordItems(o) ==
    /\ At("recorditems")
    /\ o \in AppendOutcome("recorditems")
    /\ dailyCount' = IF Landed(o) THEN dailyCount + Cardinality(run.todo) ELSE dailyCount
    /\ charged' = IF Landed(o) THEN charged \cup ({run.msg} \X run.todo) ELSE charged
    /\ IF Raised(o) THEN AnswerError
       ELSE run' = [run EXCEPT !.at = "claimitems", !.consumed = Cardinality(run.todo)]
    /\ UNCHANGED <<messages, requestStatus, effects, ran, said, audits>>

\* set_request_statuses: the `processing` rows, in one append.
ClaimItems(o) ==
    /\ At("claimitems")
    /\ o \in AppendOutcome("claimitems")
    /\ requestStatus' = IF Landed(o) THEN WithStatuses(TodoIds, "processing") ELSE requestStatus
    /\ IF Raised(o) THEN AnswerError ELSE Goto("items")
    /\ UNCHANGED <<messages, dailyCount, worldVars>>

-----------------------------------------------------------------------------
(* _run_batch_item, one runnable item after the other.                     *)

Current == CHOOSE i \in run.todo : \A j \in run.todo : i <= j

\* Item i is started and answered; `at` is where the run goes next.
Settle(i, reply, wrote, at) ==
    run' = [run EXCEPT !.at = at, !.todo = @ \ {i},
                       !.items[i] = [reply |-> reply, started |-> TRUE, wrote |-> wrote]]

\* An exception is this item's own error.
SettleError(i) == Settle(i, "error", FALSE, "items")

AtItem == At("items") /\ run.todo # {}

MarkRan == ran' = ran \cup {<<run.msg, Current>>}

\* A parse error, policy, the screen gates or a guard of the executor.
RefuseItem ==
    /\ AtItem
    /\ Settle(Current, "denied", FALSE, "items")
    /\ MarkRan
    /\ UNCHANGED <<storeVars, charged, effects, said, audits>>

\* Mutant: the failure of an item is the failure of the batch.
ExecuteReadItemAborting(o) ==
    /\ AtItem
    /\ ~ItemsOf[run.msg][Current].write /\ ItemsOf[run.msg][Current].parsed
    /\ o \in {"ok", "fail"}
    /\ IF Raised(o) THEN AnswerError
       ELSE Settle(Current, "completed", FALSE, "items")
    /\ MarkRan
    /\ UNCHANGED <<storeVars, charged, effects, said, audits>>

ExecuteReadItem(o) ==
    /\ AtItem
    /\ ~ItemsOf[run.msg][Current].write /\ ItemsOf[run.msg][Current].parsed
    /\ o \in {"ok", "fail"}
    /\ IF Raised(o) THEN SettleError(Current)
       ELSE Settle(Current, "completed", FALSE, "items")
    /\ MarkRan
    /\ UNCHANGED <<storeVars, charged, effects, said, audits>>

ExecuteWriteItem(o) ==
    LET i == Current IN
    /\ AtItem
    /\ ItemsOf[run.msg][i].write /\ ItemsOf[run.msg][i].parsed
    /\ o \in Outcome("execute")
    /\ effects' = IF Landed(o) THEN [effects EXCEPT ![<<run.msg, i>>] = @ + 1] ELSE effects
    /\ IF Raised(o) THEN SettleError(i) ELSE Settle(i, "completed", TRUE, "effect")
    /\ MarkRan
    /\ UNCHANGED <<storeVars, charged, said, audits>>

\* The item that was just written: the last one before the rest.
Written == CHOOSE i \in Index(run.msg) :
    /\ run.items[i].started
    /\ \A j \in Index(run.msg) : run.items[j].started => j <= i

\* Straight after the side effect; a failure is reported as done as well.
RecordItemEffect(o) ==
    /\ At("effect")
    /\ o \in Outcome("effect")
    /\ requestStatus' = IF Landed(o) THEN WithStatus(IdAt(run.msg, Written), "effect_done")
                                     ELSE requestStatus
    /\ Goto("items")
    /\ UNCHANGED <<messages, dailyCount, worldVars>>

\* The output screen never raises; the batch is `completed` whatever its
\* items came to.
Conclude ==
    /\ At("items")
    /\ run.todo = {}
    /\ run' = [run EXCEPT !.at = "send", !.returned = TRUE, !.reply = "completed"]
    /\ UNCHANGED <<storeVars, worldVars>>

-----------------------------------------------------------------------------
(* Layer 5: one reply, one audit append, one append of final rows.         *)

\* requests_remaining_today: computed from the count read before the run;
\* if there is none it is read once more, or else left out.
Remaining ==
    LET left(n) == IF n >= MaxRequestsPerDay THEN 0 ELSE MaxRequestsPerDay - n IN
    IF run.used # NoCount THEN {left(run.used + run.consumed)} ELSE {left(dailyCount), NoCount}

SendReply(o) ==
    /\ At("send")
    /\ o \in Outcome("send")
    /\ \E remaining \in Remaining :
          said' = IF Landed(o)
                  THEN [said EXCEPT ![run.msg] =
                          [outer |-> run.reply, remaining |-> remaining,
                           items |-> [i \in DOMAIN run.items |-> run.items[i].reply]]]
                  ELSE said
    /\ run' = [run EXCEPT !.at = "audit", !.replied = ~Raised(o)]
    /\ UNCHANGED <<storeVars, charged, effects, ran, audits>>

\* Mutant: a batch leaves the one record any request leaves.
AppendAuditsOuterOnly ==
    /\ At("audit")
    /\ audits' = audits \cup {<<run.msg, 0>>}
    /\ Goto("finalize")
    /\ UNCHANGED <<storeVars, charged, effects, ran, said>>

\* One record for the batch and, if _run_batch returned, one per item; a
\* failed append goes to Cloud Logging, so the records exist either way.
AppendAudits ==
    /\ At("audit")
    /\ audits' = audits \cup ({run.msg} \X ({0} \cup (IF run.returned THEN Index(run.msg) ELSE {})))
    /\ Goto("finalize")
    /\ UNCHANGED <<storeVars, charged, effects, ran, said>>

\* The last row of id r in the append of final statuses: that of the last
\* started item with this id, or else the outer request's.
FinalRow(r) ==
    LET mine == IF run.returned THEN {i \in Index(run.msg) : run.items[i].started /\ IdAt(run.msg, i) = r}
                           ELSE {}
        last == CHOOSE i \in mine : \A j \in mine : j <= i
        row(status) == [status |-> status, stale |-> FALSE]
    IN  IF mine # {}
        THEN row(FinalRequestStatus(run.items[last].wrote, run.items[last].reply, run.replied))
        ELSE IF run.started /\ r = OuterOf[run.msg]
        THEN row(FinalRequestStatus(FALSE, run.reply, run.replied))
        ELSE requestStatus[r]

FinalizeStatuses(o) ==
    /\ At("finalize")
    /\ o \in Outcome("final")
    /\ requestStatus' = IF Landed(o) THEN [r \in RequestId |-> FinalRow(r)] ELSE requestStatus
    /\ run' = Idle
    /\ UNCHANGED <<messages, dailyCount, worldVars>>

-----------------------------------------------------------------------------

Crash ==
    /\ Crashes
    /\ ~At("idle")
    /\ run' = Idle
    /\ UNCHANGED <<storeVars, worldVars>>

PassTime ==
    /\ NewDay \/ \E r \in RequestId : GrowStale(r)
    /\ UNCHANGED <<run, worldVars>>

Next ==
    \/ \E m \in Message : Begin(m)
    \/ \E o \in {"ok", "fail", "lost"} :
          \/ CountToday(o) \/ LookupRequest(o) \/ ClaimRequest(o)
          \/ ReadItems(o) \/ RecordItems(o) \/ ClaimItems(o)
          \/ ExecuteReadItem(o) \/ ExecuteWriteItem(o) \/ RecordItemEffect(o)
          \/ SendReply(o) \/ FinalizeStatuses(o)
    \/ RefuseItem \/ Conclude \/ AppendAudits
    \/ Crash \/ PassTime

Spec == Init /\ [][Next]_vars

-----------------------------------------------------------------------------
(* Properties.                                                             *)

Wrote(k) == effects[k] > 0

IdOfKey(k) == IdAt(k[1], k[2])

\* "A write is never repeated": of all the items of all the batches that
\* carry one request id, resent after whatever went wrong, at most one
\* makes Google write, and once.
WriteAtMostOnce ==
    \A k, l \in ItemKey :
        /\ effects[k] <= 1
        /\ Wrote(k) /\ Wrote(l) /\ IdOfKey(k) = IdOfKey(l) => k = l

\* Once an item's write happened its id stays used up, whatever rows the
\* rest of the batch, a repeat of the same id in it included, appends.
EffectStaysClaimed ==
    \A k \in ItemKey : Wrote(k) =>
        requestStatus[IdOfKey(k)].status \in DuplicateRequestStatuses

\* The cap is decided in memory for all items at once, from a count read
\* several calls before the rows are appended, and still holds.
CapRespected == dailyCount <= MaxRequestsPerDay

\* The combined reply tells the truth about every item: `completed` for
\* exactly the writes that happened, and a reply without items, which may
\* invite a resend of the whole batch, only if none did.
HonestItems ==
    \A m \in Message : said[m] # NoReply =>
        \A i \in Index(m) : ItemsOf[m][i].write =>
            (Wrote(<<m, i>>) <=> said[m].items # <<>> /\ said[m].items[i] = "completed")

\* A request id that is `completed` has its audit record, its own and not
\* just that of the batch it came in: the records are appended before the
\* rows, so no crash can leave the row without the record.
AuditBeforeCompleted ==
    \A r \in RequestId : requestStatus[r].status = "completed" =>
        \E m \in Message :
            \/ OuterOf[m] = r /\ <<m, 0>> \in audits
            \/ \E i \in Index(m) : IdAt(m, i) = r /\ <<m, i>> \in ran /\ <<m, i>> \in audits

\* "Quota rows first: if the PROCESSING append then fails, the worst case is
\* spent quota slots" (_run_batch): no item runs without a slot of its own,
\* and no id is claimed that has not been paid for.
ClaimedIsCharged ==
    /\ ran \subseteq charged
    /\ \A k \in ItemKey : requestStatus[IdOfKey(k)].status # "absent" =>
          \E l \in charged : IdOfKey(l) = IdOfKey(k)

\* An item is turned away for the cap only when the very reply that says so
\* leaves nothing for today: duplicates before it have cost nothing.
RateLimitedMeansNoneLeft ==
    \A m \in Message :
        \/ said[m].outer = "rate_limited"
        \/ \E i \in DOMAIN said[m].items : said[m].items[i] = "rate_limited"
        => said[m].remaining = 0

Told(m) == said'[m] # said[m] /\ said'[m].remaining # NoCount

\* requests_remaining_today never promises more than the sheet will grant,
\* although it is computed from a count read before the batch ran.
RemainingNotOverstated ==
    [][\A m \in Message : Told(m) =>
          said'[m].remaining + dailyCount <= MaxRequestsPerDay]_vars

\* "Exact, since app/main.py runs one request at a time on one instance"
\* (the comment at quota_used_before).
RemainingExact ==
    [][\A m \in Message : Told(m) =>
          said'[m].remaining + dailyCount = MaxRequestsPerDay]_vars

-----------------------------------------------------------------------------
(* Refinement: a batch moves many ids, each by the rules of ResendContract. *)

WritesOf(r) == {k \in ItemKey : Wrote(k) /\ IdOfKey(k) = r}

PhaseOf(r) ==
    IF WritesOf(r) # {} THEN "performed"
    ELSE CASE requestStatus[r].status \in {"absent", "failed"} -> "open"
           [] requestStatus[r].status = "processing" -> "attempted"
           [] OTHER -> "finished"

Contract == INSTANCE ResendContract
    WITH phase <- [r \in RequestId |-> PhaseOf(r)],
         writes <- [r \in RequestId |-> WritesOf(r)]

\* Outer and item ids alike live the life that "Resending" promises: one
\* append of the batch may move them all, but each by one legal move.
KeepsContract == Contract!Spec
=============================================================================
