------------------------------ MODULE StateStore ------------------------------
(***************************************************************************)
(* Layer 1's persistent memory: the three tabs of the Google Sheet that    *)
(* app/state_store.py reads and appends to.  The request_status tab is     *)
(* append-only and "the last matching row wins", so a tab is represented   *)
(* by that last row, one per request id; the age of a row matters only     *)
(* through the test "older than PROCESSING_STALE_AFTER_SECONDS", so a row  *)
(* carries the answer to that test instead of a timestamp.                 *)
(***************************************************************************)
EXTENDS Naturals

CONSTANTS Message,              \* AgentMail message ids
          RequestId,            \* request ids the requester writes
          MaxRequestsPerDay     \* MAX_REQUESTS_PER_DAY

ASSUME MaxAssumption == MaxRequestsPerDay \in Nat \ {0}

VARIABLES messages,         \* ids in the messages tab
          requestStatus,    \* last row of each id in the request_status tab
          dailyCount        \* rows of today in the daily_counts tab

storeVars == <<messages, requestStatus, dailyCount>>

RequestStatus == {"processing", "effect_done", "completed", "failed"}

\* Mutant: a write whose reply was not delivered may be resent.
DuplicateRequestStatusesNoEffect == {"processing", "completed"}

DuplicateRequestStatuses == {"processing", "effect_done", "completed"}

\* The status "absent" stands for an id that has no row yet.
StatusRow == [status : RequestStatus \cup {"absent"}, stale : BOOLEAN]

StoreTypeOK ==
    /\ messages \subseteq Message
    /\ requestStatus \in [RequestId -> StatusRow]
    /\ dailyCount \in Nat

StoreInit ==
    /\ messages = {}
    /\ requestStatus = [r \in RequestId |-> [status |-> "absent", stale |-> FALSE]]
    /\ dailyCount = 0

-----------------------------------------------------------------------------

\* Mutant: any stuck request ages out, writes included.
IsDuplicateUnlessStale(row, writeVerb) ==
    /\ row.status \in DuplicateRequestStatuses
    /\ ~(row.status = "processing" /\ row.stale)

\* A stuck `processing` row stops being a duplicate once it is stale, but
\* only for a request that is not itself a write.
IsDuplicateRequestStatus(row, writeVerb) ==
    /\ row.status \in DuplicateRequestStatuses
    /\ ~(row.status = "processing" /\ row.stale /\ ~writeVerb)

\* The tab after the row <<id, status>> was appended with the current time.
WithStatus(id, status) ==
    [requestStatus EXCEPT ![id] = [status |-> status, stale |-> FALSE]]

\* Mutant: the reply status is recorded as it is.
FinalRequestStatusVerbatim(wrote, answered, replied) == IF replied THEN answered ELSE "failed"

\* Mutant: whatever was not answered has failed.
FinalRequestStatusByReply(wrote, answered, replied) ==
    IF answered = "error" \/ ~replied THEN "failed" ELSE "completed"

\* The last status row of a request that was started: whether it wrote, the
\* status it was answered with, and whether the reply was sent.
FinalRequestStatus(wrote, answered, replied) ==
    IF wrote THEN IF replied THEN "completed" ELSE "effect_done"
    ELSE IF answered = "error" \/ ~replied THEN "failed"
    ELSE "completed"

-----------------------------------------------------------------------------

\* A row passes the staleness threshold.
GrowStale(id) ==
    /\ requestStatus[id].status = "processing"
    /\ ~requestStatus[id].stale
    /\ requestStatus' = [requestStatus EXCEPT ![id].stale = TRUE]
    /\ UNCHANGED <<messages, dailyCount>>

\* Midnight in the owner's timezone: count_today matches another date.
NewDay ==
    /\ dailyCount > 0
    /\ dailyCount' = 0
    /\ UNCHANGED <<messages, requestStatus>>
=============================================================================
