-------------------------------- MODULE Gateway --------------------------------
(***************************************************************************)
(* What one e-mail does: Layers 0, 2, 3, 4 and 5 of app/pipeline.py        *)
(* composed, from the webhook to the text of the reply, on the owner's     *)
(* workspace.  Deduplication, quota, audit and the sending are the subject *)
(* of Pipeline and Batch; here the request is new and within the quota.    *)
(*                                                                         *)
(* The e-mail is a record of its delivery, subject, sections, and of what  *)
(* the reader LLM may answer about it (selections and fields).             *)
(***************************************************************************)
EXTENDS Calendar, Drive, Gmail

CONSTANTS Scenarios,        \* a sequence: an e-mail, and the workspace and deployment it meets
          Now,              \* the time of day deliveries are received at
          FallbackId        \* the request id derived from the message

ASSUME NoneIsNoError ==
    None \notin {"invalid_request_block", "invalid_payload", "ambiguous_request",
                 "invalid_params", "screened", "sensitive_content_refused", "edit_refused",
                 "not_gatekeeper_event", "not_gatekeeper_file", "too_many_attendees",
                 "ambiguous_file", "not_found", "conflict", "upstream_unavailable",
                 "upstream_rejected", "internal_error"}

ASSUME OwnerStepsAreCounted == MaxOwnerSteps \in Nat

\* A text that need not be there.
MayBeText(text) == text = None \/ TextSound(text)

\* What Google answers of an event: texts, and a list of guests.
IsLegible(event) ==
    /\ IsSequence(event.guests)
    /\ MayBeText(event.title) /\ MayBeText(event.location) /\ MayBeText(event.description)

\* What Google answers of a message: its texts.
IsReadable(m) == MayBeText(m.sender) /\ MayBeText(m.subject) /\ MayBeText(m.snippet)

\* The workspaces that e-mails meet.
ASSUME Workspaces ==
    /\ TextSound(OwnersTitle)
    /\ IsSequence(CalendarList)
    /\ \A i \in DOMAIN CalendarList : MayBeText(CalendarList[i].name)
    /\ \A m \in Arriving : IsReadable(m)
    /\ \A i \in DOMAIN Scenarios :
           LET w == Scenarios[i]
           IN /\ DOMAIN w.events = EventId
              /\ \A e \in EventId : w.events[e] # None =>
                     IsEvent(w.events[e]) /\ IsLegible(w.events[e])
              /\ DOMAIN w.files = FileId
              /\ \A id \in FileId : w.files[id] # None =>
                     IsFile(w.files[id]) /\ MayBeText(w.files[id].name)
              /\ IsSequence(w.mailbox)
              /\ \A m \in ToSet(w.mailbox) : m # None => IsReadable(m)

TextParams == {"title", "location", "description", "content", "name", "to", "subject"}
ListParams == {"attendees", "add_attendees", "remove_attendees"}

\* What YAML makes of the parameters of a request: finitely many, and a value
\* of another type than its parameter's is Junk.
AreParams(p) ==
    /\ IsFiniteSet(DOMAIN p)
    /\ \A f \in TextParams \cap DOMAIN p : p[f] = Junk \/ MayBeText(p[f])
    /\ \A f \in ListParams \cap DOMAIN p : p[f] \in {None, Junk} \/ IsSequence(p[f])

IsMapping(data) ==
    /\ IsFiniteSet(DOMAIN data.refs)
    /\ data.params \notin {None, Junk} => AreParams(data.params)

\* The texts of e-mails, and the requests in them.
ASSUME Mails ==
    \A i \in DOMAIN Scenarios :
        LET parts == SplitEmail(Scenarios[i].mail.sections)
        IN /\ TextSound(Scenarios[i].mail.subject)
           /\ TextSound(parts.remainder)
           /\ \A name \in DOMAIN parts.payloads : TextSound(parts.payloads[name])
           /\ IsSequence(parts.blocks)
           /\ \A j \in DOMAIN parts.blocks :
                  LET data == parts.blocks[j].data
                  IN /\ TextSound(parts.blocks[j].text)
                     /\ data # Junk => IsMapping(data)
                     /\ data # Junk /\ data.requests \notin {None, Junk} =>
                            /\ IsSequence(data.requests)
                            /\ \A k \in DOMAIN data.requests :
                                   data.requests[k] # Junk => IsMapping(data.requests[k])
           /\ \A fields \in Scenarios[i].mail.fields :
                  fields.failure = None => AreParams(fields.values)

VARIABLES stage,            \* how far the message has come
          mail,
          screen,           \* the injection screen's request score and status
          parsed,           \* the parsed request
          outcomes,         \* one for every item that has been answered
          reply

workspaceVars == <<events, files, folders, mailbox, drafts>>
gatewayVars == <<stage, mail, screen, parsed, outcomes, reply>>
vars == <<executorVars, workspaceVars, gatewayVars>>

Init ==
    /\ \E i \in DOMAIN Scenarios :
           /\ mail = Scenarios[i].mail
           /\ setup = Scenarios[i].setup
           /\ events = Scenarios[i].events
           /\ files = Scenarios[i].files
           /\ mailbox = Scenarios[i].mailbox
    /\ drafts = <<>>
    /\ folders = 0
    /\ ownerSteps = 0
    /\ call = NoCall
    /\ stage = "layer0"
    /\ screen = None
    /\ parsed = None
    /\ outcomes = <<>>
    /\ reply = None

-----------------------------------------------------------------------------
(* Layer 0, the split and the injection screen.                            *)

Receive ==
    /\ stage = "layer0"
    /\ stage' = IF Layer0(mail.delivery, Now) = "ok" THEN "screen" ELSE "rejected"
    /\ UNCHANGED <<executorVars, workspaceVars, mail, screen, parsed, outcomes, reply>>

Parts == SplitEmail(mail.sections)

BlockName(i) == <<"request_block", i>>

\* Mutant: the subject is screened but does not count.
RequestNamesWithoutSubject ==
    IF Parts.blocks # <<>> THEN {BlockName(i) : i \in DOMAIN Parts.blocks} ELSE {<<"body", 0>>}

\* The parts that can steer what is done; payloads are only ever data.
RequestNames ==
    {<<"subject", 0>>} \cup
        (IF Parts.blocks # <<>> THEN {BlockName(i) : i \in DOMAIN Parts.blocks} ELSE {<<"body", 0>>})

\* Every part that is screened: the subject, what is no block, the blocks and
\* the payloads.
PartNames ==
    (IF mail.subject.blank THEN {} ELSE {<<"subject", 0>>})
        \cup (IF Parts.remainder.blank THEN {} ELSE {<<"body", 0>>})
        \cup {BlockName(i) : i \in DOMAIN Parts.blocks}
        \cup {<<"payload", n>> : n \in DOMAIN Parts.payloads}

InboundScreenParts ==
    [name \in PartNames |->
        CASE name[1] = "subject" -> mail.subject
          [] name[1] = "body" -> Parts.remainder
          [] name[1] = "request_block" -> Parts.blocks[name[2]].text
          [] name[1] = "payload" -> Parts.payloads[name[2]]]

ScreenInbound ==
    /\ stage = "screen"
    /\ \E lost \in LostCalls(Calls(InboundScreenParts)) :
           LET parts == InboundScreenParts
               scores == IF setup.screening THEN ScreenParts(parts, lost) ELSE NoSignal(parts)
           IN screen' = [score |-> MaxOf(scores, RequestNames),
                         status |-> IF ~setup.screening THEN "disabled"
                                    ELSE IF lost # {} THEN "degraded" ELSE "ok"]
    /\ stage' = "layer2"
    /\ UNCHANGED <<executorVars, workspaceVars, mail, parsed, outcomes, reply>>

-----------------------------------------------------------------------------
(* Layer 2.                                                                *)

Parse ==
    /\ stage = "layer2"
    /\ IF ReadsPlainText(Parts, screen.score)
       THEN \E selection \in mail.selections, fields \in mail.fields :
                parsed' = ParseRequest(Parts, screen.score, Extract(selection, fields), FallbackId)
       ELSE parsed' = ParseRequest(Parts, screen.score, None, FallbackId)
    /\ stage' = "layer4"
    /\ UNCHANGED <<executorVars, workspaceVars, mail, screen, outcomes, reply>>

IsBatch == parsed.verb = "batch" /\ parsed.parse_error = None

\* The requests of the message, in order.
Items == IF IsBatch THEN parsed.batch_items ELSE <<parsed>>

-----------------------------------------------------------------------------
(* Layers 3 and 4, item by item.                                           *)

DecisionOf(item) ==
    IF item.parse_error # None THEN Denied(item.parse_error)
    ELSE Decide(item.verb, item.params, screen.score)

Answered(outcome) == outcomes' = Append(outcomes, outcome)

\* An id that an earlier item of the batch has claimed.
IsRepeated(i) == \E j \in 1..(i - 1) : Items[j].request_id = Items[i].request_id

Begin ==
    /\ stage = "layer4"
    /\ call.at = "idle"
    /\ Len(outcomes) < Len(Items)
    /\ LET i == Len(outcomes) + 1
           item == Items[i]
           decision == DecisionOf(item)
       IN IF IsRepeated(i)
          THEN Answered(Outcome(item, "duplicate", "duplicate_request", FALSE)) /\ UNCHANGED call
          ELSE IF decision.status # "allowed"
          THEN Answered(Outcome(item, decision.status, decision.error, FALSE)) /\ UNCHANGED call
          ELSE /\ call' = Call("start", item.request_id, item.verb,
                               KnownParams(item.verb, item.params))
               /\ UNCHANGED outcomes
    /\ UNCHANGED <<ownerSteps, setup, workspaceVars, stage, mail, screen, parsed, reply>>

\* No call to Google, nothing of the owner's.
Capabilities ==
    /\ Calling("capabilities", "start")
    /\ Complete(NothingShown)
    /\ UNCHANGED <<ownerSteps, setup>>

End ==
    /\ call.at = "done"
    /\ LET item == Items[Len(outcomes) + 1]
           outcome == Outcome(item, call.status, call.error, call.retryable)
       IN Answered([outcome EXCEPT !.ignored = DecisionOf(item).ignored, !.result = call.result])
    /\ call' = NoCall
    /\ UNCHANGED <<ownerSteps, setup, workspaceVars, stage, mail, screen, parsed, reply>>

-----------------------------------------------------------------------------
(* The output screen, one call for all items, and Layer 5.                 *)

OutputItems ==
    LET keys == UNION {{<<i, k>> : k \in DOMAIN outcomes[i].result.items} : i \in DOMAIN outcomes}
    IN [key \in keys |-> outcomes[key[1]].result.items[key[2]].fields]

\* What the screen may come to: it answers, or it raises.
ScreenResults(items) ==
    IF items = <<>> THEN {NoOutput}
    ELSE IF ~setup.screening THEN {UnscreenedItems(items)}
    ELSE {ScreenItems(items, lost) : lost \in LostCalls(ItemCalls(items))} \cup {AllWithheld(items)}

Render(output) ==
    LET scoped == [i \in DOMAIN outcomes |->
                      [outcomes[i] EXCEPT !.output = ScopedOutput(output, i)]]
    IN IF IsBatch THEN RenderBatchReply(parsed.request_id, scoped, output)
       ELSE RenderReply(scoped[1])

Reply ==
    /\ stage = "layer4"
    /\ call.at = "idle"
    /\ Len(outcomes) = Len(Items)
    /\ \E output \in ScreenResults(OutputItems) : reply' = Render(output)
    /\ stage' = "done"
    /\ UNCHANGED <<executorVars, workspaceVars, mail, screen, parsed, outcomes>>

-----------------------------------------------------------------------------

Execute ==
    \/ CalendarStep /\ UNCHANGED <<files, folders, mailbox, drafts>>
    \/ DriveStep /\ UNCHANGED <<events, mailbox, drafts>>
    \/ GmailStep /\ UNCHANGED <<events, files, folders>>
    \/ Capabilities /\ UNCHANGED workspaceVars
    \/ GoogleFails /\ UNCHANGED workspaceVars

Owner ==
    \/ OwnerChangesEvent /\ UNCHANGED <<files, folders, mailbox, drafts>>
    \/ OwnerChangesFile /\ UNCHANGED <<events, mailbox, drafts>>
    \/ MailboxChanges /\ UNCHANGED <<events, files, folders>>

Next ==
    \/ Receive
    \/ ScreenInbound
    \/ Parse
    \/ Begin
    \/ Execute /\ UNCHANGED gatewayVars
    \/ Owner /\ UNCHANGED gatewayVars
    \/ End
    \/ Reply

Spec == Init /\ [][Next]_vars

-----------------------------------------------------------------------------
(* Properties.                                                             *)

\* The state has its type: a call has an outcome exactly when it is done, and
\* an error code unless it completed; only a completed call has a result, and
\* only an error invites a resend (app/failures.py, app/pipeline.py).
TypeOK ==
    /\ stage \in {"layer0", "screen", "layer2", "layer4", "done", "rejected"}
    /\ ownerSteps \in 0..MaxOwnerSteps
    /\ folders \in 0..Len(outcomes) + 1
    /\ DOMAIN events = EventId /\ \A e \in EventId : events[e] # None => IsEvent(events[e])
    /\ DOMAIN files = FileId /\ \A id \in FileId : files[id] # None => IsFile(files[id])
    /\ IF stage \in {"layer0", "screen", "rejected"} THEN screen = None
       ELSE DOMAIN screen = {"score", "status"}
    /\ IF stage \in {"layer4", "done"}
       THEN DOMAIN parsed = {"request_id", "verb", "params", "source", "parse_error", "batch_items"}
       ELSE parsed = None
    /\ IF stage = "done" THEN DOMAIN reply = {"size", "block", "items", "shows"} ELSE reply = None
    /\ call.at \in {"idle", "start", "read", "metadata", "invite_guard", "edit_guard", "write", "done"}
    /\ call.status \in IF call.at = "done" THEN {"completed", "denied", "error"} ELSE {None}
    /\ call.at = "done" => (call.error = None <=> call.status = "completed")
    /\ call.status # "completed" => call.result = NoResult
    /\ call.retryable => call.status = "error"

ByService == ownerSteps' = ownerSteps

Changed(e) == events[e] # None /\ events'[e] # events[e]

\* A request changes or deletes no event but one the gatekeeper made on a
\* calendar it may write to, and no file but a plain text one that is in the
\* gatekeeper's folder, unless the file was moved under its hands
\* (_get_own_event, _gatekeeper_text_file).
OnlyOwnTouched ==
    [][ByService =>
        /\ \A e \in EventId :
               Changed(e) => events[e].tagged /\ Usable(events[e].cal, WriteRoles) # {}
        /\ Undisturbed =>
               \A id \in FileId : files[id] # None /\ files'[id] # files[id] =>
                   files[id].plain /\ files[id].folder = setup.folder]_vars

\* An update changes nothing of an event that the request does not name, even
\* of what the owner changed after the event was read: it is a patch, not a
\* write of the event that was read (update_event).
PatchKeepsRest ==
    [][\A e \in EventId : ByService /\ Changed(e) /\ events'[e] # None =>
           LET old == events[e]
               new == events'[e]
           IN /\ Has(call.p, "title") \/ new.title = old.title
              /\ Has(call.p, "location") \/ new.location = old.location
              /\ Has(call.p, "description") \/ new.description = old.description
              /\ ChangesGuests(call.p) \/ new.guests = old.guests
              /\ ChangesTiming(ChangedTimingOf(call.p)) \/ SpanOf(new) = SpanOf(old)]_vars

Emails(guests) == {guests[i].email : i \in DOMAIN guests}

\* Somebody who is on the list twice.
Twice(guests, email) ==
    \E i, j \in DOMAIN guests : i # j /\ guests[i].email = email /\ guests[j].email = email

\* Guests that a change of the list does not name stay, with their answers,
\* those it adds are there, and it puts nobody on the list twice, unless
\* someone changed something after the event was read (merge_attendees).
GuestsKept ==
    [][\A e \in EventId :
           ByService /\ Undisturbed /\ Changed(e) /\ events'[e] # None =>
               LET before == events[e].guests
                   after == events'[e].guests
               IN /\ \A i \in DOMAIN before :
                         before[i].email \in Mailboxes(Removes(call.p))
                             \/ \E j \in DOMAIN after : after[j] = before[i]
                  /\ Mailboxes(Adds(call.p)) \subseteq Emails(after)
                  /\ \A email \in Emails(after) : Twice(after, email) => Twice(before, email)]_vars

\* A text with a phrase of one of these kinds that the screens can recognize.
Flagged(text, kinds) ==
    text # None /\ \E flaw \in text.flaws : flaw.kind \in kinds /\ Recognizable(flaw)

\* An update that adds nobody and comes to the texts there were, whether it
\* moves the event or removes guests: the invite guard is not asked.
OnlyMoves(old, new) == Adds(call.p) = <<>> /\ Texts(new) = Texts(old)

\* The guests of an event that had none when it was read: the owner invited
\* them since, and the update leaves the list alone.
InvitedSince(old, new) == call.seen.guests = <<>> /\ new.guests = old.guests

\* A text that the owner wrote after the event was read.
WrittenSince(old, new, i) ==
    Texts(new)[i] = Texts(old)[i] /\ Texts(old)[i] # Texts(call.seen)[i]

\* With the screens configured, no request that makes or updates an event
\* sends guests a text that is sensitive or steers its reader, be it the
\* request's or the event's own, whatever the owner does meanwhile and
\* whichever calls to the classifier fail.  Three things are excepted: a text
\* the owner wrote after the event was read, every text if the owner invited
\* the first guest after that, and an update that only moves the event or
\* removes guests.  Of cancellations, which are not judged either, nothing is
\* said.  And no request writes a malicious text into a file
\* (update_event, _make_invite_guard, _make_drive_edit_guard).
GuardedTextClean ==
    [][setup.screening /\ FailClosed /\ ByService =>
        /\ \A e \in EventId :
               LET old == events[e]
                   new == events'[e]
               IN /\ new # old /\ new # None /\ new.guests # <<>>
                  /\ old # None => ~OnlyMoves(old, new) /\ ~InvitedSince(old, new)
                  => \A i \in 1..3 :
                         Flagged(Texts(new)[i], {"sensitive", "steering"}) =>
                             old # None /\ WrittenSince(old, new, i)
        /\ \A id \in FileId : files[id] # None /\ files'[id] # files[id] =>
               ~Flagged(call.p.content, {"malicious"})]_vars

\* "An event never gets unscreened text once it has attendees, whether they
\* were added just now or earlier", as docs/PROTOCOL.md has it, of the texts an
\* update changes and, if it adds guests, of all the texts of the event.
NoUnscreenedText ==
    [][setup.screening /\ FailClosed /\ ByService =>
        \A e \in EventId : Changed(e) /\ events'[e] # None /\ events'[e].guests # <<>> =>
            LET before == Texts(events[e])
                after == Texts(events'[e])
            IN \A i \in 1..3 :
                   after[i] # before[i] \/ Adds(call.p) # <<>> =>
                       ~Flagged(after[i], {"sensitive", "steering"})]_vars

\* An event a request makes or retimes lasts 5 minutes at least and 14 days at
\* most, an all-day one whole days; and one that is only moved keeps its
\* length (span_ok, _resolve_update_timing).
SpansSound ==
    [][\A e \in EventId : ByService /\ events'[e] # events[e] /\ events'[e] # None =>
           IF events[e] = None THEN SpanSound(SpanOf(events'[e]))
           ELSE LET t == ChangedTimingOf(call.p)
                IN ChangesTiming(t) =>
                       /\ SpanSound(SpanOf(events'[e]))
                       /\ (\A f \in {"duration_minutes", "end_day_offset", "all_day"} : t[f] = None) =>
                              events'[e].end - events'[e].start = call.seen.end - call.seen.start]_vars

\* A calendar whose page is full although an event on it is outside the window.
StalePage(p) ==
    \E i \in DOMAIN CalendarsToList(p) :
        LET page == Page(CalendarsToList(p)[i], p)
        IN /\ Len(page) = MaxResultsOf(p)
           /\ \E j \in DOMAIN page : ~Overlaps(SpanOf(page[j].event), WindowOf(p))

\* What list_events takes the calendars for: an id with a start is one
\* occurrence of a meeting, of which no calendar has two copies.
OneOccurrence ==
    LET entry(e) == [id |-> e, event |-> events[e]]
    IN \A d, e \in {x \in EventId : events[x] # None} :
           Occurrence(entry(d)) = Occurrence(entry(e)) =>
               /\ SpanOf(events[d]) = SpanOf(events[e])
               /\ events[d].cal = events[e].cal => d = e

\* An answer hides nothing.  If the owner did nothing between the first page
\* of a listing and its answer, an event in the window is listed, or a copy of
\* it is, or comes after as many as were asked for, unless a stale event took
\* its place on its own calendar's page; and a search answers with every
\* message it found, even one deleted since (list_events, search).
NothingHidden ==
    call.at = "done" /\ call.status = "completed" =>
        /\ call.verb = "calendar.list_events" /\ Undisturbed /\ ~StalePage(call.p) =>
               \A e \in {x \in EventId : events[x] # None} :
                   LET listed == [i \in DOMAIN call.result.items |-> call.result.items[i].of.event]
                   IN \/ events[e].cal \notin ToSet(CalendarsToList(call.p))
                      \/ ~Overlaps(SpanOf(events[e]), WindowOf(call.p))
                      \/ ~Matches(events[e], WindowOf(call.p), call.p)
                      \/ \E i \in DOMAIN listed : /\ listed[i].uid = events[e].uid
                                                  /\ listed[i].start = events[e].start
                      \/ /\ Len(listed) = MaxResultsOf(call.p)
                         /\ \A i \in DOMAIN listed : listed[i].start <= events[e].start
        /\ call.verb = "gmail.search" =>
               [i \in DOMAIN call.result.items |-> call.result.items[i].of] = call.seen

\* What a file held when it was appended to is still there, before the new
\* text, unless someone changed something after it was read (append_file).
DriveContentKept ==
    [][\A id \in FileId :
           ByService /\ Undisturbed /\ call.verb = "drive.append_file" /\ files'[id] # files[id] =>
               /\ IsPrefix(files[id].content, files'[id].content)
               /\ Last(files'[id].content) = call.p.content.what]_vars

\* Nothing of a message is dropped in silence: a request only runs when every
\* payload of the message is part of some request, and an answer names the
\* parameters that were not used, as many as an answer may name (_parse_batch,
\* evaluate_policy).
WholeMessageUsed ==
    /\ Running =>
           \A name \in DOMAIN Parts.payloads : \E i \in DOMAIN Items :
               \E f \in PayloadParams(Items[i].verb) \cap DOMAIN Items[i].params :
                   Items[i].params[f] = Parts.payloads[name]
    /\ \A i \in DOMAIN outcomes : outcomes[i].status = "completed" =>
           LET unread == DOMAIN Items[i].params \ VerbParams[Items[i].verb]
           IN /\ outcomes[i].ignored \subseteq unread
              /\ \/ outcomes[i].ignored = unread
                 \/ Cardinality(outcomes[i].ignored) = IgnoredParamsMax

\* The texts of a message that can steer what is done.
SteeringTexts ==
    {InboundScreenParts[n] : n \in {m \in DOMAIN InboundScreenParts :
        m[1] # "payload" /\ (m[1] = "body" => Parts.blocks = <<>>)}}

\* When the screen has answered, a message that steers writes nothing and its
\* plain text is not read by the LLM; and what a payload says, which is only
\* ever data, never stops a request (_inbound_screen_parts, apply_screen_gate).
ScreenedBeforeWrite ==
    stage \in {"layer4", "done"} =>
        /\ screen.status = "ok" /\ (\E text \in SteeringTexts : Flagged(text, {"steering"})) =>
               /\ call.at # "idle" => call.verb \notin WriteVerbs
               /\ parsed.source # "llm"
        /\ \A i \in DOMAIN outcomes : outcomes[i].error = "screened" =>
               \E text \in SteeringTexts : \E flaw \in text.flaws : flaw.kind = "steering"

\* With the output screen configured and failing closed, no reply shows a text
\* that is sensitive or steers its reader, wherever in it the phrase is and
\* whichever calls to the classifier fail (screen_items, scoped_output).
WithheldStaysWithheld ==
    stage = "done" /\ setup.screening /\ FailClosed =>
        \A text \in reply.shows : ~Flagged(text, {"sensitive", "steering"})

\* No reply is longer than its cap, and what is shown of a listing leaves room
\* for the lines that follow it (_finalize_body, _truncate_at_item_boundary).
ReplyFits == stage = "done" => reply.size <= ReplyMaxChars

\* "A malformed or duplicate-id ITEM denies only that item", as the docstring
\* of _parse_batch has it: the envelope is fine if it has items, not too many,
\* and each payload is referenced by one of them.
MalformedItemDeniesOnlyItself ==
    parsed # None /\ Len(Parts.blocks) = 1 /\ ~Parts.payloadError =>
        LET data == Parts.blocks[1].data
        IN /\ data # Junk /\ ValidateRequestShape(data).ok /\ data.verb = "batch"
           /\ data.requests \notin {None, Junk, <<>>} /\ Len(data.requests) <= BatchMaxItems
           /\ DOMAIN Parts.payloads \subseteq
                  UNION {UsedPayloads(data.requests[i]) :
                             i \in {j \in DOMAIN data.requests : data.requests[j] # Junk}}
           => parsed.parse_error = None
=============================================================================
