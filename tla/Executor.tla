------------------------------- MODULE Executor -------------------------------
(***************************************************************************)
(* One call of Layer 4: what the three executors share.                    *)
(*                                                                         *)
(* `call' is the activation of _execute for one request: its verb and      *)
(* parameters, the remote call it makes next, what it has read so far, and *)
(* in the end how it came out.  The owner works in the same Google account *)
(* meanwhile, at most MaxOwnerSteps times.  `setup' is how the service is  *)
(* deployed: whether the classifier is configured, and the Drive folder,   *)
(* None if GOOGLE_DRIVE_FOLDER_ID is not set.                              *)
(***************************************************************************)
EXTENDS Reply

CONSTANTS MaxOwnerSteps,
          GoogleErrors      \* the failures of a call to Google that are tried

VARIABLES call,
          ownerSteps,       \* how often the owner has changed something so far
          setup             \* the deployment: [screening, folder]

executorVars == <<call, ownerSteps, setup>>

-----------------------------------------------------------------------------
(* app/failures.py: what a failed call says of the request.                *)

HttpError(status) == [type |-> "HttpError", status |-> status]
NetworkError == [type |-> "OSError", status |-> 0]
OtherError == [type |-> "ValueError", status |-> 0]

Failure(code, retryable) == [code |-> code, retryable |-> retryable]

ClassifyFailure(error) ==
    CASE error.type = "HttpError" ->
            (CASE error.status \in {404, 410} -> Failure("not_found", FALSE)
               [] error.status = 409 -> Failure("conflict", FALSE)
               [] error.status = 429 \/ error.status >= 500 -> Failure("upstream_unavailable", TRUE)
               [] OTHER -> Failure("upstream_rejected", FALSE))
      [] error.type = "OSError" -> Failure("upstream_unavailable", TRUE)
      [] OTHER -> Failure("internal_error", FALSE)

-----------------------------------------------------------------------------

\* `since' is what ownerSteps was when `seen' was read.
Call(at, id, verb, p) ==
    [at |-> at, id |-> id, verb |-> verb, p |-> p, target |-> None, seen |-> None,
     since |-> ownerSteps, status |-> None, error |-> None, retryable |-> FALSE,
     result |-> NoResult]

NoCall == [Call("idle", None, None, <<>>) EXCEPT !.since = 0]

Calling(verb, at) == call.verb = verb /\ call.at = at

Running == call.at \notin {"idle", "done"}

Undisturbed == ownerSteps = call.since

Finish(status, error, retryable, result) ==
    call' = [call EXCEPT !.at = "done", !.status = status, !.error = error,
                         !.retryable = retryable, !.result = result]

Complete(result) == Finish("completed", None, FALSE, result)

\* Mutant: a denial invites a resend.
DenyRetryable(error) == Finish("denied", error, TRUE, NoResult)

\* GatekeeperDenied: the answer is just no.
Deny(error) == Finish("denied", error, FALSE, NoResult)

\* Any other exception.
Fail(error) ==
    Finish("error", ClassifyFailure(error).code, ClassifyFailure(error).retryable, NoResult)

\* The guards ask the classifier, and `capabilities' asks no one.
AsksGoogle ==
    Running /\ call.at \notin {"invite_guard", "edit_guard"} /\ call.verb # "capabilities"

\* A call to Google, or the way to it, fails having done nothing.
GoogleFails ==
    /\ AsksGoogle
    /\ \E error \in GoogleErrors : Fail(error)
    /\ UNCHANGED <<ownerSteps, setup>>

OneItem(fields) == [count |-> 1, items |-> <<[fields |-> fields, of |-> None]>>]

NothingShown == [count |-> 1, items |-> <<>>]

OwnerActs ==
    /\ Running
    /\ ownerSteps < MaxOwnerSteps
    /\ ownerSteps' = ownerSteps + 1
    /\ UNCHANGED <<call, setup>>

\* Which calls to the classifier fail: none, one, or all of them.
LostCalls(calls) == {{}, calls} \cup {{c} : c \in calls}
=============================================================================
