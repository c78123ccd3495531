# Verification of the data gatekeeper

The gatekeeper is an e-mail service: another agent (the requester) mails it a
request, and it reads the owner's calendar, mail and Drive, or writes to them,
within a policy, and answers by e-mail. This directory holds TLA+ models of the
service, the TLC configurations that check them and the TLAPS proofs about them.
Paths below are relative to the repository.

## 1. The system

### Components, their state and their operations

| component | code | state it keeps | operations |
|---|---|---|---|
| webhook entry | `app/main.py` | `_request_lock`, one per process | receive a delivery, run `handle_webhook` under the lock, answer 2xx or 5xx |
| ingress (Layer 0) | `app/ingress.py` | none | verify the signature and its age, check event type, inbox and sender |
| pipeline | `app/pipeline.py` | one `_RequestState` per delivery (and per batch item) | dedupe, cap, screen, parse, claim, charge, decide, execute, reply, audit, finalize |
| state store (Layer 1) | `app/state_store.py` | three append-only tabs of a Google Sheet: messages, request_status, daily_counts | is/mark message, get/set request status, count/record requests |
| audit log | `app/audit_log.py`, `scripts/verify_audit_chain.py` | the audit tab (or a JSONL file) and, in memory, the hash of its last entry | load the last hash at start, append one or many entries, verify the chain, find the first break |
| failure table | `app/failures.py` | none | an exception becomes a code and a `retryable` flag |
| request parser (Layer 2) | `app/request_parser.py`, `app/yaml_safe.py`, `app/reader_llm.py` | none | split the e-mail, parse the block or ask the reader LLM, unpack a batch |
| policy (Layer 3) | `app/policy.py` | none | allow, deny or reject a verb with its parameters |
| executors (Layer 4) | `app/calendar_executor.py`, `app/gmail_executor.py`, `app/drive_executor.py` | none of their own; Google's | read, create, patch, overwrite; guards run between read and write |
| screens | `app/injection_screen.py`, `app/jev.py`, `app/output_screen.py`, `app/drive_edit_screen.py` | none | score text in chunks, withhold result items |
| reply (Layer 5) | `app/reply_guard.py`, `app/agentmail_client.py` | none | render, redact, truncate, send |
| configuration | `app/config.py`, `app/google_auth_helper.py`, `app/capabilities.py` | constants | - |

### How they interact

AgentMail posts a webhook and posts it again until it gets a 2xx. `main.py`
hands each delivery to a thread of the request threadpool, which takes the
process-wide lock and calls `handle_webhook`. Everything after that is a sequence
of calls to remote services (Sheets for Layer 1 and the audit log, Google for the
effect, AgentMail for the reply), each of which can fail, time out after having
taken effect, or never return because the process is killed. Nothing spans
two of those calls: there is no transaction, only the order in which they are made and
the rows they leave behind. The lock orders the threads of one process; a second
process exists for a moment whenever a revision is rolled out.

### What is hard about it

- Check-then-set on a remote sheet: message dedupe, request dedupe and the cap
  are all "read, then append", kept apart only by the lock.
- A call that raised may have taken effect. For the mark, the claim, the quota row, the
  Google write, the `effect_done` row, the reply and the audit append the
  answer to "did it happen?" is not known to the caller.
- A crash between any two calls, above all between the write and the row that
  says so.
- Redelivery (the same message) and resending (another message with the same
  request id) at any moment, including while an earlier one is in progress.
- A stuck `processing` row must age out for a read and must not for a write.
- The hash the next audit row is chained to is cached in memory.
- A batch spreads all of this over up to 25 items with shared appends.
- Executors read, consult a slow guard and then write: the owner may edit in
  between.
- Every call to the classifier can fail on its own. A lost call means "go on" for the
  injection screen, "withhold" for the output screen and "refuse" for the guards.
- A text is judged in overlapping chunks, a part at a time, and what may steer the
  service is scored apart from what is only data.
- A request passes five layers that each check a part of it: whether something was validated, resolved or
  dropped is known only from all of them together.

### What makes each part correct

- Pipeline and store: a write is performed at most once per request id;
  the reply tells the truth about it; each message gets one reply and one audit
  record; rejected mail leaves no trace but its audit record; the cap
  holds; final statuses stay final; every delivery is in the end answered.
- Audit log: the chain verifies as long as there is one writer; whatever
  happens, no row hangs on a row that is not there, and a break stays where it is.
- Batch: the same per item; no item harms its siblings; the cap is kept item by item;
  an id is finished only with an audit record of its own; the remaining count the requester is told
  is not too high.
- Executors: only the gatekeeper's own events and files are changed; an update leaves alone what the
  request does not name, guests included, whatever the owner changes meanwhile; an appended text
  comes after what was there; no event gets a length out of bounds; a listing hides nothing.
- Parser and policy: nothing of a message is dropped in silence: payloads are used or refused,
  ignored parameters are named.
- Screens: a message that steers writes nothing; no guest is sent and no file holds what the guards
  are there to stop (what the owner does after the event was read is excepted, and a finding); no reply
  shows what was, or should have been, withheld.
- Reply: its cap holds whatever is shown.

## 2. Modules

| module | models | extends / instantiates |
|---|---|---|
| `StateStore` | the three tabs, the duplicate and staleness rule, midnight | - |
| `ResendContract` | abstract specification: the life of one request id as `docs/PROTOCOL.md`, "Resending", promises it | - |
| `Pipeline` | deliveries, lock, Layers 0 and 1, `_run_request`, the reply, audit and final rows of single requests, crashes, lost responses | `StateStore`; `ResendContract` through a refinement mapping |
| `MCPipeline` | TLC instances of `Pipeline` | `Pipeline` |
| `PipelineProofs` | theorems about `Pipeline`: types, lock, cap, one write per id | `Pipeline`, `TLAPS` |
| `PipelineReplyProofs` | more of them: gates, replies, final statuses, the refinement of `ResendContract` | `PipelineProofs` |
| `Batch` | a batch from the mark to the final rows: the shared lookup, quota append and claim append, the items one after the other, one reply, one audit append, one append of final rows; crashes, lost responses, midnight | `StateStore`; `ResendContract` through a refinement mapping |
| `MCBatch` | TLC instances of `Batch` | `Batch` |
| `BatchProofs` | theorems about `Batch`, for batches of any length | `Batch`, `TLAPS` |
| `AuditChain` | both audit backends, restarts, overlapping instances, failing appends, the verifier | - |
| `MCAuditChain` | TLC instances with an injective hash | `AuditChain` |
| `AuditChainProofs` | theorems about `AuditChain` | `AuditChain`, `TLAPS` |
| `EventTiming` | `calendar_window.py` and the executor's use of it: windows, all-day ends, the spans of new and updated events | - |
| `Policy` | Layer 3: every verb's parameters and rules, the gates on the injection score | `EventTiming` |
| `Screens` | chunks and scores; the injection screen, the output screen and its scoping, the two guards | `Policy` |
| `Ingress` | Layer 0: signature, age, event, sender | `Screens` |
| `RequestParser` | Layer 2: the split, blocks, payloads, batches, the reader LLM's two calls | `Ingress` |
| `Reply` | Layer 5: what is shown, what is withheld, how it is cut to the cap | `RequestParser` |
| `Executor` | one call of Layer 4: how it ends, the failure table, the owner's steps | `Reply` |
| `Calendar`, `Drive`, `Gmail` | the executors, one action per call to Google | `Executor` |
| `Gateway` | one e-mail from Layer 0 to the reply: the composition of all of these | `Calendar`, `Drive`, `Gmail` |
| `MCGateway` | 150 e-mails, each with the workspace it meets | `Gateway` |
| `ScreensProofs` | theorems about chunks, scores and withheld items | `Screens`, `TLAPS` |
| `GatewayProofs` | spans; what an e-mail cannot do to the workspace; lists of guests | `Gateway`, `ScreensProofs` |
| `ScreenGateProofs` | what the screens keep out, what of a message is used or named, what happens to guests; the type of the whole | `GatewayProofs` |
| `AnswerProofs` | what the answer shows, how long it is, what it leaves out | `ScreenGateProofs` |

There are two compositions. `Pipeline` and `Batch` hold what happens *between* the calls: faults,
threads, crashes, resends; what a message is and whether it is allowed are inputs. `Gateway` holds what
happens *in* them: the message itself, through all layers, on the owner's workspace, for a request
that is new and within the cap.

### StateStore and Pipeline

A status tab is append-only and "the last matching row wins", so it is a
function from request id to its last row. Timestamps are replaced by the answer
to the one question asked of them: `stale` stands for "older than
`PROCESSING_STALE_AFTER_SECONDS`", and the action `GrowStale` may set it at any time.
`dailyCount` is today's number of quota rows, and `NewDay` zeroes it at any time.

A thread's activation `req[w]` is a program counter `at`, the message, and the
fields of `_RequestState` that decide what happens later: `started`
(`request_started`), `wrote` (`results.wrote`), `replied` (no `reply_error`) and the
reply (`reply_status`, `retryable`). One action is one remote call together with what the code does
until the next one:

| `at` | action | code |
|---|---|---|
| idle | `Receive` | `agentmail_webhook` gets a delivery |
| lock | `Acquire` | `with _request_lock` |
| ingress | `Ingress` | `verify_signature`, `check_event` |
| dedupe, mark | `CheckMessage`, `MarkMessageSeen` | `is_duplicate_message`, `mark_message_seen`; a failure is a 5xx |
| count | `CountToday` | `count_today` and the cap |
| lookup | `LookupRequest` | screen, parse, `get_request_status_detail`, `is_duplicate_request_status` |
| claim, record | `ClaimRequest`, `RecordRequest` | the `processing` row, the quota row |
| execute | `Refuse`, `ExecuteRead`, `ExecuteWrite` | policy and `_execute` |
| effect | `RecordEffect` | the `effect_done` row |
| send | `SendReply` | `_send` |
| audit, finalize | `AppendAudit`, `FinalizeStatus` | `_append_audit`, `_finalize_request_statuses` |
| respond | `Respond` | the 200 or 202, the lock given back |

The outcome of a call is `ok`, `fail` (nothing happened) or, at the sites in the
constant `LostAt`, `lost` (it happened and the caller sees an exception).
`Crash(p)` kills every thread of a process and frees its lock. The ghost variables
`charged`, `effects`, `attempts`, `said`, `audits` and `noted` record what the
outside world saw. What a message is (`KindOf`) and which id it carries (`IdOf`) are constants:
Layer 0's verdict, the parser's and the reader's results are inputs here.

### Batch

One `run` record is the activation that holds the lock. That there is never more than one, and that a
message begins at most once, is what `Pipeline` establishes for one process; overlapping processes are
not repeated here. The steps up to the claim of the batch's own id are those of
`_run_request`; then

| `at` | action | code |
|---|---|---|
| readitems | `ReadItems` | `get_request_status_details` for all items and the loop that decides each (`Verdict`, `Taken`) |
| recorditems, claimitems | `RecordItems`, `ClaimItems` | `record_requests`, `set_request_statuses`; no call for no rows |
| items | `RefuseItem`, `ExecuteReadItem`, `ExecuteWriteItem` | `_run_batch_item` as far as the side effect; an exception is that item's error |
| effect | `RecordItemEffect` | the item's `effect_done` row |
| items, none left | `Conclude` | `_run_batch` returns, the batch is `completed` |
| send, audit, finalize | `SendReply`, `AppendAudits`, `FinalizeStatuses` | one reply, one audit append, one append of final rows |

Any exception outside an item aborts the batch: `AnswerError` forgets the items, so that only the batch's
own id gets a final row. What an item is (`ItemsOf`) is a constant; that an item never
shares the batch's id, and that of two items with one id at most one is not refused, is what `_parse_batch` ensures and
an assumption here. A refused repeat still goes through the verdicts, and so would still append
a final row after that of the write whose id it repeats: `EffectStaysClaimed` is what the
`claimed` set of `_run_batch` protects. Whether an error is retryable is left out: `HonestItems` requires
an item answered with any error, or a reply without items, not to have written.

### AuditChain

`rows` is the sheet, `prevHash[p]` the cached `_prev_hash` of an instance, and
`pending[p]` what `_chain` has built and `append_many` has not written yet. The
hash function is a constant operator; for TLC it is the pair of its arguments,
which is injective. The ghost variable `faults` records in which of three ways reality has so far
departed from "one writer, all or nothing": instances that overlap, an append that landed though it
raised, a file append that stopped half way. All three are possible in every run; the properties say what they cost.

### Gateway and its parts

A text is a record of its identity, its size, whether it is blank, whether it has the pattern of its
parameter, its form (one line, several, with control characters) and its *flaws*: the phrases in it that the
classifier knows, by kind (`steering`, `sensitive`, `malicious`, `unreasonable`), position and length. So
a chunk either holds a phrase or cuts it, without a character of text. What the text of an e-mail
is divided into by its line markers (`sections`), what YAML makes of a block (`data`) and what the reader
LLM may answer (`selections`, `fields`) are attributes of the e-mail; everything done with them is modelled.

`stage` is how far the message has come, `call` the activation of `_execute` for one request:

| `stage`, `call.at` | action | code |
|---|---|---|
| layer0 | `Receive` | `verify_signature`, `extract_message_fields`, `check_event` |
| screen | `ScreenInbound` | `split_email`, `_inbound_screen_parts`, the injection screen |
| layer2 | `Parse` | `parse_request`: block, batch or reader LLM |
| layer4, idle | `Begin` | `evaluate_policy`, the two gates, the id of a batch item |
| start, read, metadata | `ListEvents`, `GetOwnEvent`, `ResolveFileId`, `ReadFile`, `SearchIds`, `FetchMetadata`, `ReplyHeaders`, ... | the reads of the executors, one call to Google each (a page per calendar) |
| invite_guard, edit_guard | `GuardInvite`, `GuardEdit` | `_make_invite_guard`, `_make_drive_edit_guard` |
| write | `InsertEvent`, `PatchEvent`, `DeleteEvent`, `CreateFile`, `WriteFile`, `CreateDraft` | the writes |
| any of Google's | `GoogleFails` | a call raises: `classify_failure` decides the code and `retryable` |
| done | `End` | the outcome is kept; the next item of a batch begins |
| all answered | `Reply` | `_screen_output` (one call for all items), `scoped_output`, rendering, `_finalize_body`, `_truncate_at_item_boundary` |

Between any two of them the owner may act (`OwnerChangesEvent`, `OwnerChangesFile`, `MailboxChanges`):
retitle, move, delete, invite; type into a file, empty, move or delete it; delete mail; and mail may arrive.
`Undisturbed` says that nobody did since `call.seen` was read. Some properties hold only then, because the code cannot do better:
Google's API has no compare-and-swap that it uses, so a file that was read, appended to and uploaded loses what
the owner typed meanwhile, and a guest list is merged into the list that was read. What holds regardless is
stated regardless: `PatchKeepsRest`, `SpansSound`, `GuardedTextClean` and the part of `OnlyOwnTouched` about events.

The invite guard is asked, and judges, by the event as `events.get` returned it, and the patch comes later.
`GuardedTextClean` therefore speaks of every interleaving, and names what it excepts: a text the owner wrote after
the read, which new guests receive unjudged (`WrittenSince`); every text of an event whose first guest the owner invited after
the read, for then the guard is not asked at all (`InvitedSince`); and an update that only moves the event or removes guests, of
which its guests are notified with a title that nobody judged for the occasion (`OnlyMoves`). The second is a disagreement
with `docs/PROTOCOL.md`, and the subject of the run `unscreened_text`. Cancellations are not judged either, which `delete_event`
says and gives its reason for; the property is silent about them.

A listing is judged only if the owner did nothing between its first page and the answer (`NothingHidden`), and a place that a
stale event takes on its own calendar's page is excepted (`StalePage`): the code asks Google for as many events as it will show, and
an all-day event it then drops is not replaced.

Abstractions, all of them of data:

- Redaction and escaping of shown text are left out; fixed wording, times and ids count a constant number
  of characters (`Wording` and its like, larger than any in the code relative to the scaled cap).
- A day has 24 hours; the clock changes of a time zone are not modelled. An all-day event of a calendar in another zone
  has a `lag`, which is what makes Google report it in a window it is not in.
- The text of a message's date header is left out of the result of a search.
- The pages of one calendar are one answer, and the metadata and the content of a file are one read.
- The classifier answers 100 for a chunk that holds a whole phrase and 0 otherwise. A phrase is
  recognizable if it has at most one character more than the overlap (`Recognizable`); of a longer one the chunks promise nothing.

## 3. What the runs check

Every run is exhaustive. "Violation" runs are findings: TLC shows a behaviour of the
code that a sentence of the documentation rules out.

| run | instance | shows |
|---|---|---|
| `pipeline_resend` | two writes with one id, two threads, crashes, responses lost anywhere but on the Google write | `WriteAtMostOnce`, `EffectStaysClaimed`, `HonestReply`, `TypeOK` and the refinement `KeepsContract` |
| `pipeline_faults` | a write and a read that share an id, cap 1, every fault | `OneReplyPerMessage`, `CapRespected`, `NoUnchargedWrite`, `NoUnclaimedWrite`, `TerminalStatusesStick` hold even when a Google response is lost |
| `pipeline_liveness` | one message, two threads contending for the lock, responses lost but for the mark's, no crash, fair | `DuplicateWasAnswered`; every delivery is in the end acknowledged, the message answered and audited |
| `batch_resend` | a batch (a write, a read, a repeat of the write's id) and the same batch resent, crashes, responses lost but for the Google write's and the quota append's, midnight, cap 3 | the single request's properties per item (`WriteAtMostOnce`, `EffectStaysClaimed`, `HonestItems`, `CapRespected`, the refinement `KeepsContract`) and those of the shared appends: `ClaimedIsCharged`, `AuditBeforeCompleted`, `RateLimitedMeansNoneLeft`, `RemainingNotOverstated`; `TypeOK` |
| `audit_chain` | two instances in turn or at once, batches of up to 2, 4 rows, appends that fail, land unseen or land in part | `ChainVerifies` until the first fault, `LinksResolve` and `BreakIsStable` after it; `TypeOK` |
| `gateway` | 150 e-mails with their workspaces: every verb, every denial of Layers 0 to 4, batches, payloads, plain text, texts with phrases in the middle and across the seam of two chunks, both deployments; any call to Google or to the classifier failing; one change by the owner at any moment | `TypeOK`; `OnlyOwnTouched`, `PatchKeepsRest`, `GuestsKept`, `SpansSound`, `DriveContentKept` about writes; `GuardedTextClean`, `ScreenedBeforeWrite`, `WithheldStaysWithheld` about the screens; `NothingHidden`, `WholeMessageUsed`, `ReplyFits` about answers |
| `malformed_item` (violation) | eight e-mails with batches | `MalformedItemDeniesOnlyItself`: a payload that only a malformed item refers to denies the whole batch |
| `unscreened_text` (violation) | three updates of an event that nobody is invited to yet | `NoUnscreenedText`: the title is not judged, for nobody would get it; the owner invites the first guest before the patch, and the patch sends it |
| `lost_response` (violation) | one thread, the response to the Google write lost | the id is recorded `failed`, and the resend that the reply invites writes again |
| `id_reuse` (violation) | clean failures only; a stuck write, then a malformed request with its id, then the resend | the malformed request ages the row out and leaves `failed`; the write is repeated |
| `audit_lost_response` (violation) | one instance, an append that lands although it raised | `OnlyOverlapForks`: the chain forks without a rollout |
| `batch_remaining` (violation) | two batches under different ids, clean failures only, midnight between the count and the reply | `RemainingExact`: `requests_remaining_today` still subtracts yesterday's requests |

The bounds. Two messages with one id are the smallest case of a resend, three of
"stuck, taken over, resent"; a third resend repeats the states of the second, because
all that is left of an attempt is the row. Two threads are enough for every race on one
lock; ids do not interact except through the daily count, which the second message shares. A cap of
1 or 2 is reached in every run. For the chain, three rows suffice for a fork with a
row on each side of it, and four for a batch after a restart after a batch.
Two overlapping processes, and mail that Layer 0 rejects beside mail that it lets through, are in no run of `Pipeline`: with
one message more its shortest run takes five minutes and the others longer. What holds of them (`Layer0Gate`,
`NoUnclaimedWrite`, `NoUnchargedWrite`) is proved for any number of processes and messages; two instances that overlap are in
`audit_chain`, and Layer 0's own decisions in `gateway`.
The only counters (`effects`, `attempts`, `audits`, `dailyCount`) are bounded by
the properties and by the number of messages. For batches, two or three items are the smallest in which one
runs, one repeats it and one is turned away, and two batches the smallest resend; a cap of 3 falls
inside the second batch.

For `gateway`, the e-mails are chosen and not generated: each is a case of the code (a branch of the
parser, a rule of the policy, a bound met and exceeded by one, a way an event may be timed), so that each
guard is met from both sides. One change by the owner (`MaxOwnerSteps`) is enough, for every property
compares one read with one write, and any change between them is a change that one
of the kinds modelled can make; the title the owner may give is one the screens would stop. `LostCalls` lets no call to the classifier fail, one or all: the verdict on an item
depends only on whether one of its calls failed. `GoogleErrors` has one error of every row of the failure table. Four events, four files
and three calendars give every listing something in the window, outside it, twice and stale. Sizes are scaled
down with their proportions: chunks of 40 characters that overlap by 8 (4000 and 200), 4 items
in a batch (25), 3 guests (10), 2 ignored names (20), a reply of 1500 characters (25000), each exceeded by
some e-mail. The minutes and days of Layer 3 (5 minutes, 14 days, 365 days) are the code's own.

`CHECK_DEADLOCK FALSE` is set in the `Pipeline` and `Batch` runs because the system really stops: once every
delivery is acknowledged, nothing is left to do until new mail arrives; and in the `Gateway` runs because an e-mail
ends, answered or rejected.

Symmetry is used in `pipeline_resend` (messages and threads) and `batch_resend` (messages), where they are
interchangeable and no liveness is checked.

### Fairness

`FairSpec` asks for: weak fairness of the steps a thread takes on its own and of "the call in
progress returns, with whatever outcome"; strong fairness of `Acquire` (Python's lock is not
fair, but a waiting thread gets it eventually when it is free again and again),
of redelivery (AgentMail retries), and of the success of `is_duplicate_message`,
`mark_message_seen` and the 2xx. The last three say that Sheets and the network do not fail forever;
without them no system of this shape makes progress. No other call is assumed to ever succeed.
Crashes are off in the liveness runs: a process that dies after the mark leaves a message that is never
answered. That is the price the code pays for "one reply at most". So does a mark that lands although
its call raised (the redelivery is then put aside as a duplicate), which is why `LostAt` leaves
the mark out of that run.

## 4. What is proved

TLAPS checks these for every value of the constants. "One instance" is an assumption about a deployment, the
others are about what requesters and remote services do; they are definitions of the proof modules and stand in
the statements of the theorems that need them.

| theorem | assumes | says |
|---|---|---|
| `PipelineProofs!TypeCorrect` | - | `Spec => []TypeOK` |
| `PipelineProofs!CapHolds` | `OneInstance` | `Spec => []CapRespected` |
| `PipelineProofs!WritesHappenOnce` | `OneInstance`, `OneKindPerId`, `WritesAreAnswered` | `Spec => []WriteAtMostOnce` |
| `PipelineProofs!WrittenIdsStayUsed` | the same | `Spec => []EffectStaysClaimed` |
| `PipelineReplyProofs!Layer0Holds` | - | `Spec => []Layer0Gate`: mail that fails Layer 0 leaves nothing but its audit record |
| `PipelineReplyProofs!WritesAreClaimed` | - | `Spec => []NoUnclaimedWrite` |
| `PipelineReplyProofs!WritesAreCharged` | - | `Spec => []NoUnchargedWrite` |
| `PipelineReplyProofs!RepliedOnce` | `OneInstance` | `Spec => []OneReplyPerMessage` |
| `PipelineReplyProofs!RepliesAreHonest` | `OneInstance`, `WritesAreAnswered` | `Spec => []HonestReply` |
| `PipelineReplyProofs!DuplicatesWereAnswered` | `OneInstance`, `MarksAreReliable` | `Spec => []DuplicateWasAnswered` |
| `PipelineReplyProofs!TerminalStatusesStay` | `OneInstance` | `Spec => TerminalStatusesStick` |
| `PipelineReplyProofs!ContractKept` | `OneInstance`, `OneKindPerId`, `WritesAreAnswered` | `Spec => KeepsContract`: `Pipeline` implements `ResendContract` |
| `BatchProofs!TypeCorrect` | - | `Spec => []TypeOK` |
| `BatchProofs!CapHolds` | - | `Spec => []CapRespected` |
| `BatchProofs!TurnedAwayAtTheCap` | - | `Spec => []RateLimitedMeansNoneLeft` |
| `BatchProofs!AuditedBeforeCompleted` | - | `Spec => []AuditBeforeCompleted` |
| `BatchProofs!RemainingCovered` | `QuotaIsAnswered` | `Spec => RemainingNotOverstated` |
| `BatchProofs!ClaimsArePaid` | `OuterIdsApart` | `Spec => []ClaimedIsCharged` |
| `BatchProofs!ItemRepliesAreHonest` | `WritesAreAnswered` | `Spec => []HonestItems` |
| `BatchProofs!WrittenAtMostOnce` | `OneKindPerId`, `OuterIdsApart`, `WritesAreAnswered` | `Spec => []WriteAtMostOnce` |
| `BatchProofs!WrittenIdsStayClaimed` | the same | `Spec => []EffectStaysClaimed` |
| `BatchProofs!ContractKept` | the same | `Spec => KeepsContract`: `Batch` implements `ResendContract` for each id |
| `AuditChainProofs!TypeCorrect` | - | `Spec => []TypeOK` |
| `AuditChainProofs!NothingDangles` | - | `Spec => []LinksResolve` |
| `AuditChainProofs!SingleWriterChain` | - | `Spec => []ChainVerifies` |
| `AuditChainProofs!FirstBreakStays` | - | `Spec => BreakIsStable` |
| `GatewayProofs!LastDayRoundTrip` | - | an all-day end survives the way to Google's exclusive form and back |
| `GatewayProofs!NewTimingSound`, `UpdatedTimingSound` | - | whatever combination of timing fields is valid or left out, the span is within the bounds or denied |
| `GatewayProofs!MoveKeepsLength` | - | an update that only moves an event keeps its length |
| `ScreensProofs!ChunksCover` | `ScreenConstants` | every recognizable phrase lies wholly in some chunk, for every size, overlap and text length |
| `ScreensProofs!ScreenFinds`, `MaliciousRefused` | and `ScreenThresholds` | what a part scores, and what the edit guard refuses |
| `ScreensProofs!FlawedWithheld` | the same | an item with a recognizable phrase in any of its fields is withheld, whichever calls are lost |
| `GatewayProofs!OwnOnly` | `Workspaces`, `Mails` | `Spec => OnlyOwnTouched` |
| `GatewayProofs!RestIsKept` | the same | `Spec => PatchKeepsRest` |
| `GatewayProofs!LengthsAreSound` | the same | `Spec => SpansSound` |
| `GatewayProofs!ContentIsKept` | the same | `Spec => DriveContentKept` |
| `ScreenGateProofs!SteeringStopped` | and `NoneIsNoError` | `Spec => []ScreenedBeforeWrite` |
| `ScreenGateProofs!MaliceStopped` | the same | `Spec => MaliceKeptOut`: no malicious text is written into a file that is there |
| `ScreenGateProofs!NothingDropped` | the same | `Spec => []WholeMessageUsed` |
| `ScreenGateProofs!TypeCorrect` | the same | `Spec => []TypeOK` |
| `ScreenGateProofs!GuestsSpared` | the same | `Spec => GuardedTextClean`, whatever the owner does meanwhile, with its three exceptions |
| `ScreenGateProofs!GuestsStay` | the same | `Spec => GuestsKept` |
| `AnswerProofs!ReplyIsShort` | and `ReplyHasRoom`, `EventsAreFinite` | `Spec => []ReplyFits` |
| `AnswerProofs!NothingSlipsOut` | the same | `Spec => []WithheldStaysWithheld` |
| `AnswerProofs!NothingIsHidden` | the same | `Spec => [](OneOccurrence => NothingHidden)`, of listings while the owner does nothing |

Every invariant and every action property of the passing runs and both refinements are proved, and `Layer0Gate`, which no run
checks; what is left to TLC alone is liveness (see the end of this section).

### The constants' assumptions

TLC evaluates each of them on the instance of a run. `None` is no number (`NoneIsNoNumber`) and none of the error
codes (`NoneIsNoError`); limits are natural numbers and the overlap is smaller than a chunk
(`PolicyConstants`, `ParserConstants`, `ScreenConstants`); the owner's steps are counted (`OwnerStepsAreCounted`);
thresholds are between 1 and 100 percent (`ScreenThresholds`: the code reads them from the environment and would
take 0, which refuses everything, or more than 1.0, which refuses nothing); the owner's primary calendar is the
owner's (`PrimaryIsOwned`); the calendars hold finitely many events (`EventsAreFinite`); a workspace holds events and files,
the mailbox and the list of calendars are lists, what Google answers of an event are texts and a list of guests, what it
answers of a message, a file's name or a calendar's name are texts, and so are the title the owner may give and the mail
that may arrive (`Workspaces`); the cap on a reply leaves room for the longest status block and the lines that
are always there (`ReplyHasRoom`: with the code's limits they take up 6630 of 25000 characters, on the instance of `gateway` 1380 of
1500); and of an e-mail (`Mails`): phrases lie
within their texts, blocks and the requests of a batch are lists, and a request's parameters, also those the
reader LLM answers, are finitely many and each a value of its kind or of none (`AreParams`; a value of another type is
`Junk`, which Layer 3 denies). For the text around the blocks and for the payloads, which the parser joins from sections,
that phrases lie within them is assumed of the result of `SplitEmail`, not proved of its fold.

### The assumptions in theorems, and why they are needed

- `OneInstance`: all threads belong to one process. In the overlap of a rollout, which `app/main.py` concedes, both
  instances can pass a check before either has written what the other would find. The three gates
  (`Layer0Holds`, `WritesAreClaimed`, `WritesAreCharged`) are about what a thread itself did before, and hold without it.
- `OneKindPerId`: a requester uses an id for writes or for other verbs. Without it `id_reuse` violates the
  conclusion.
- `WritesAreAnswered`: no answer to a Google write is lost. Without it `lost_response` violates the conclusion.
- `MarksAreReliable`: no crash, and a mark is there exactly if its call says so. Otherwise the message is marked and
  nobody answers it: the price of "one reply at most".
- `QuotaIsAnswered`: the remaining count is computed from what the service believes it has recorded.
- `OuterIdsApart`: no item of a batch has the id of another batch (that an item's id differs from that of its own
  batch is checked by the code). This one was found by the proof. TLC confirms it on the instance of `batch_resend` with such an
  id and finds 27 steps: an item writes and the process dies before the `effect_done` row; the row of its id ages; another batch
  whose *own* id is that of the item is looked up. `batch` is not a write verb, so the stale `processing` row
  does not count as used (`is_duplicate_request_status`); the batch claims it, fails, and leaves `failed`; the first batch is
  sent again and the item writes a second time. Ids of batches and items share one namespace in
  `request_status` and nothing in the code keeps them apart; `docs/PROTOCOL.md` asks requesters for fresh ids.
- `OneOccurrence`: what the comment in `list_events` says of its key ("iCalUID + start identifies one occurrence"): events with
  the same id and the same text of their start have the same span, and no two of them are on one calendar. It is a predicate of
  a state, about what Google holds, so it stands inside the theorem and not before it. It holds in every state of
  `gateway`, where TLC has checked it as an invariant. Without it the conclusion
  is false: if a calendar has a meeting twice, a full page of it loses an entry when the copies are put together, and the list is
  one short although an event that did not fit on the page is in the window; and if two events that differ in their
  ends share a key, the one that is dropped may be the one in the window.

`SingleWriterChain` needs no assumption because `ChainVerifies` itself speaks of
the time before the first fault, and `audit_lost_response` shows that this
clause cannot be weakened to "no overlap". `FirstBreakStays` holds after any fault.

### The arguments

`Pipeline`:

- `LockInv`: a thread is past `Acquire` exactly if it holds its process's lock.
  `StepsOfAThread` reduces the eighteen actions to three shapes (acquire,
  go on under the lock, leave), so the lock is proved once and reused.
- `CapInv`: between the count and the quota row the count is below the cap. `CapRespected` alone
  says nothing about the comparison made three calls earlier.
- `WriteInv`: `WriteAtMostOnce` and `EffectStaysClaimed` need each other and a third
  part, `ThreadOK`: from `LookupRequest` until its write, the one thread under the
  lock carries an id under which nothing was written and whose row is its own
  `processing`; afterwards it records `failed` only if it did not write.
- `GateInv` (of `PipelineReplyProofs`): what a thread has passed when it is in a phase (`Passed`). Rows of an id are
  replaced but never removed, which is why the gates survive any number of other threads.
- `ReplyInv`: an unmarked message has no attempted reply, a marked one that some thread is still answering has
  none yet, and at most one thread is answering it. `Walks` says once, for all actions, from which phase to
  which a thread goes.
- `TruthInv`: nothing is done for a message before `execute`, no error before that can say `completed` (`NothingDoneYet`), and
  when the reply to a write is sent it says `completed` exactly if the write was done, also if the row after it failed.
- `AnswerInv`: a marked message without an attempted reply has a thread that is still to answer it.
- `RowInv`: from the claim to the final row the id's row is the thread's own, `processing` or `effect_done`. With it
  every status that an action appends is one the contract allows next. `ContractKept` then asks of each step what the contract
  can see of it: a write (`ExecuteWrite` alone: `Perform`), a row (`Begin`, `GiveUp`, `Finish` or nothing, for one id) or
  nothing (a stutter).

`Batch`:

- `ShapeInv`: which parts of the activation exist in which phase, that items are settled in their order, and that
  `effect` follows the write of the last settled one. The rest rests on it.
- `QuotaInv`: `dailyCount` is at most what the run read, and what the run still plans to take fits under the cap
  (`Cardinality(todo)`; midnight only lowers the count). `SpentInv` adds the other direction for the reply.
- `LedgerInv`: what has run was charged, and what is about to be final was audited, keys of the shared appends
  taken apart item by item.
- `WorkInv`: the activation's `wrote` flags agree with what was done, also of an aborted batch, whose items are forgotten.
- `RowInv`: of two items of a run with one id at most one is live, a live item that has not written carries an id under which
  nothing was written and whose row is `processing` once it is claimed, and the row of the batch's own id stays
  `processing`, for its items have other ids.

`AuditChain`:

- `NothingDanglesInv`: what an instance remembers or has chained but not written also leads
  back into the sheet.
- `SingleWriterInv`: until the first fault the one running instance remembers the hash of the last row, and what it has
  chained continues from there.
- `FirstBreakIs`: `FirstBreak` is the least row that does not verify (`LeastNumber`); whether a row verifies depends only on
  the rows up to it (`VerifiesAsBefore`), and rows are only appended.

`EventTiming` and `Screens`:

- Spans: `NewTimingKept` and `UpdatedTimingKept` join what Layer 3 checks of the request alone to what the
  executor checks against the event; neither suffices without the other.
- `ChunksCover`: the chunk a phrase lies in is named (the last that begins at or before the phrase), and the division
  that counts the chunks is bounded from both sides.
- `FlawedWithheld`: the text of an item is a fold over its fields that shifts the phrases of each by the length of what
  precedes it. `Counting` is induction over the naturals from the well-foundedness of `<`, for a set instead of a
  predicate: the library's induction theorems take an operator, which the provers cannot instantiate.

`Gateway`:

- `GatewayProofs!Inv`: the action properties speak of one write, but what makes it right was checked
  calls earlier. `CheckedParams`: a running call's parameters are those that Layer 3 allowed.
  `OwnTarget`: between the read and the write of an event, the event, if it is still there, is tagged and on a calendar that may be
  written to, though the owner may have changed all else of it. `CheckedFile`: the file is plain, in
  the folder and as it was read, as long as nobody acted. `StepsOfVerbs` says which verbs come to which
  step, and `Shape` that the records are records and that the owner's steps are counted.
  `ServiceWrites` then reduces the steps that change anything to five actions.
- `ScreenGateProofs!GateInv`: the score is 0, 100 or absent; it is 100 when the screen answered and a part that may steer has a
  phrase, and only then (`ScoreOfParts`); with a score of 100 the parser does not ask the
  reader LLM (`ParsedErrors`), no write gets past the gate (`GateShuts`), and an error `screened`
  comes from nowhere else (`PolicyErrors`, `ItemErrors`, `ExecuteKeepsRequest`).
- `EditGuarded`: `WayToWrite` shows that `GuardEdit` is the only way to the write of an edit, and `MaliciousRefused`
  what it lets past.
- `UsedInv`: a message that is not refused uses every payload (in the block or in some item of the batch), the call under
  way is for the next request in order, and every completed answer names the parameters that its verb does not know.
- `TypeInv`: a call has an outcome exactly when it is over, its error is `None` exactly when it completed, answers are never
  more than requests, and at most one folder is made for each request that has begun.
- `InviteInv`: `ParamsKept` (a call has its request's parameters), `EventSeen` (between the read and the write of a change, the
  event is as it was read or the owner acted), `InviteGuarded` (what reaches the write of an invitation has been
  judged, on the texts it is written with). `InviteTexts` are those of the event *after* the change, so that a
  guest added to an event with an unfit title is guarded too. `PatchComesTo` says what an update comes to whatever the owner did:
  texts of the event as it is *now*, where the request names none, and guests of the event as it was *read*. `JudgedText` then
  leaves one way for an unfit text to get through: the owner wrote it in between. The other exceptions are the two cases in
  which `NeedsInviteGuard` is false.
- `GuestsStay`: `Merged` shows what `merge_attendees` returns, by the same induction over the folds of `AddGuest` and
  `Kept`: who is not removed stays as it was, who is added is there, and nobody is listed twice who was not before. An event
  that the owner or another client has filled with a repeated guest keeps the repetition (`Twice`).
- `AnswerProofs!AnswerInv`: what an answer shows and hides depends on how it came about, so the invariant follows a call.
  `PolicyPassed`: it runs with parameters that Layer 3 allowed, so that a limit is a number and a window has bounds.
  `ListingRead`: the pages read so far are those of the first calendars, each a page of legible events, and as they are now unless the
  owner acted. `ListingAnswered`: in the end the items are what `Listing` makes of all pages. `SearchRead`,
  `SearchAnswered`: a search has found messages and answers with all of them. `AnswersSound`: each outcome has items
  that are tuples of texts, and no more ignored names than an answer may have. `NamesSound`, `MailSound`: files and messages
  have texts for names and headers, whoever writes them. `ItemsBounded`: a batch that is not refused has no more requests than it
  may have (`BatchBounded`).
- The folds: lemmas like `SummedByStep` and `SortedByStep` give the values of a fold after k entries, `Counting` and `UpTo` the
  induction over k.
  `ChronologicalIs` (an insertion keeps order, members, number and distinctness), `DedupedIs` (a copy of each is left),
  `JoinedIs`, `AmongIs` and `SizesOf` come from it. A sort is written as the insertion of one entry at a time,
  which is what a stable sort comes to.
- `ReplyIsShort`: `SingleFits` and `BatchFits` go through the three ways `Body` ends. The cut takes the longest beginning that
  fits in what the frame, the status block, the suffix and the lines after the items leave; that this is not negative
  is `ReplyHasRoom`, and it matters when not one item fits.
- `NothingSlipsOut`: `ShownOf` is what of an outcome may be shown, the texts of the items its view of the screen's answer does
  not withhold. `ScopedIs` and `FlaggedIsWithheld` carry `FlawedWithheld` from the combined list of all items of a batch to the
  view of each; `RenderReply` and `RenderBatchReply` show no more than that.
- `NothingIsHidden`, of an undisturbed listing: an event of the window is on its calendar's page, or the page is full of events that are no
  later (`PageIs`). In the first case a copy of it is in the list (`InOneListIs`) and is listed or cut off (`CutOff`). In the
  second each entry of the page has a copy in the list, all different, as many as were asked for: either one of them was cut
  off, and then all that is listed comes before it, or all of them are listed and nothing else is, for there are no more places
  (`AllAreHit`, from the pigeonhole principle).

Each of the strengthened invariants was first checked by TLC on the instances above.

### Model-checked only

- Liveness under fairness, which is out of the prover's reach: `pipeline_liveness`.

## 5. Not modelled

- The characters of texts: redaction, escaping, Markdown, logging and the wording of replies and reasons; the
  regular expressions of addresses, ids and markers (attributes of a text); MIME and YAML.
- The remote models behind the screens and the reader LLM: their answers are inputs, their failures are modelled.
- Configuration, credentials, `/health`, the capabilities answer's text: constants and pure I/O.
- Time other than midnight, staleness, the age of a signature and the days and minutes of events; the change of clocks; the
  300-second age limit of a signature while a thread waits for the lock.
- An audit append that fails is written to Cloud Logging; `AppendAudit` treats the record as existing
  either way, and `AuditChain` models what happens to the sheet.
- Removal of rows at the end of the audit sheet, which a hash chain cannot show.
- Google's own behaviour beyond what the executors use of it (external): that a patch is applied to the event as it is,
  that a call that failed did nothing (a lost response is `Pipeline`'s subject), that the service sees
  only the files it made.
- Faults inside `Gateway` other than failing calls: crashes, resends and lost responses are in `Pipeline` and `Batch`,
  for any verb, and what a verb does to the workspace does not depend on them.

## 6. What could come next

- Copies of one meeting whose start is written with different offsets, which `list_events` shows twice.
- Time: the change of clocks in `EventTiming`, and the age of a signature while a thread waits for the lock.
- One model of a request across `Pipeline` and `Gateway`, with crashes between the calls to Google inside a verb.
