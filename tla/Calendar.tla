------------------------------- MODULE Calendar -------------------------------
(***************************************************************************)
(* app/calendar_executor.py: the calendar verbs, call by call, against the *)
(* owner's calendars, which the owner and the guests change meanwhile.     *)
(*                                                                         *)
(* An event is a record: its calendar, the iCalUID that copies of one      *)
(* meeting share, whether it carries the gatekeeper's tag, its span, its   *)
(* guests [email, said] in order, and its texts (None when empty).  A      *)
(* calendar lags the owner's midnight by `lag' minutes.                    *)
(***************************************************************************)
EXTENDS Executor

CONSTANTS EventId,          \* the ids events may have
          OwnersTitle,      \* what the owner retitles an event to
          OwnersGuest,      \* whom the owner invites
          CalendarList,     \* the account's calendars, in Google's order
          PrimaryAlias      \* the id "primary"

\* The calendars hold finitely many events.
ASSUME EventsAreFinite == IsFiniteSet(EventId)

VARIABLES events            \* from EventId to an event, or None

calendarVars == <<executorVars, events>>

WriteRoles == {"owner", "writer"}
ReadRoles == {"owner", "writer", "reader"}

Texts(event) == <<event.title, event.location, event.description>>
Shown(event) == <<event.title, event.location>>

NoneIfEmpty(text) == IF text = None \/ text.size = 0 THEN None ELSE text

\* What is wanted of a list, in its order.
KeepWanted(kept, x, wanted) == IF x \in wanted THEN Append(kept, x) ELSE kept

Among(list, wanted) == FoldLeft(LAMBDA kept, x : KeepWanted(kept, x, wanted), <<>>, list)

-----------------------------------------------------------------------------
(* Which calendar.  The ids a request writes are matched in any case.      *)

Requested(p) == IF Has(p, "calendar_id") THEN p.calendar_id.what ELSE PrimaryAlias

Usable(id, roles) ==
    {i \in DOMAIN CalendarList : CalendarList[i].id = id /\ CalendarList[i].role \in roles}

PrimaryIds == {CalendarList[i].id : i \in {j \in DOMAIN CalendarList : CalendarList[j].primary}}

\* An account has a primary calendar, and the account's owner owns it.
ASSUME PrimaryIsOwned ==
    /\ PrimaryIds # {}
    /\ \A id \in PrimaryIds : Usable(id, WriteRoles) # {}

\* The calendar to work on, None if the request may not name it.
ResolveCalendar(id, roles) ==
    IF id = PrimaryAlias THEN CHOOSE c \in PrimaryIds : TRUE
    ELSE IF Usable(id, roles) = {} THEN None ELSE id

VisibleCalendarIds ==
    LET visible == Among(CalendarList, {c \in ToSet(CalendarList) : c.selected \/ c.primary})
    IN [i \in DOMAIN visible |-> visible[i].id]

\* A requested calendar alone, or else everything that is switched on.
CalendarsToList(p) ==
    IF ~Has(p, "calendar_id") THEN VisibleCalendarIds
    ELSE <<ResolveCalendar(Requested(p), ReadRoles)>>

-----------------------------------------------------------------------------
(* Guests.                                                                 *)

\* The guests whom nobody removes, each with the whole record, in order.
KeepGuest(kept, guest, removed) == IF guest.email \in removed THEN kept ELSE Append(kept, guest)

Kept(guests, remove) ==
    FoldLeft(LAMBDA kept, guest : KeepGuest(kept, guest, Mailboxes(remove)), <<>>, guests)

\* Mutant: the list is rebuilt from the addresses alone.
MergeAttendeesByAddress(guests, add, remove) ==
    LET kept == Kept(guests, remove)
    IN [i \in DOMAIN kept |-> [kept[i] EXCEPT !.said = "needsAction"]]

\* An addition is not repeated.
AddGuest(guests, address) ==
    IF \E i \in DOMAIN guests : guests[i].email = address.box THEN guests
    ELSE Append(guests, [email |-> address.box, said |-> "needsAction"])

MergeAttendees(guests, add, remove) == FoldLeft(AddGuest, Kept(guests, remove), add)

Adds(p) == FieldOr(p, "add_attendees", <<>>)
Removes(p) == FieldOr(p, "remove_attendees", <<>>)

ChangesGuests(p) == Adds(p) # <<>> \/ Removes(p) # <<>>
ChangesText(p) == {"title", "location", "description"} \cap DOMAIN p # {}

ResultingGuests(event, p) ==
    IF ChangesGuests(p) THEN MergeAttendees(event.guests, Adds(p), Removes(p)) ELSE event.guests

-----------------------------------------------------------------------------
(* What a request says of time, as EventTiming reads it.                   *)

TimingOf(p, allDay) ==
    [f \in {"day_offset", "start_time", "duration_minutes", "end_day_offset", "end_time", "all_day"}
        |-> IF f = "all_day" THEN allDay ELSE Field(p, f)]

NewTimingOf(p) == TimingOf(p, FieldOr(p, "all_day", "false") = "true")

ChangedTimingOf(p) == TimingOf(p, IF Has(p, "all_day") THEN p.all_day = "true" ELSE None)

SpanOf(event) == Span(event.allDay, event.start, event.end)

\* An event as a calendar keeps it.
IsEvent(event) ==
    /\ DOMAIN event = {"cal", "uid", "tagged", "allDay", "start", "end", "guests",
                       "title", "location", "description"}
    /\ SpanKept(SpanOf(event))

-----------------------------------------------------------------------------
(* calendar.list_calendars: one answer, the primary calendar first and the *)
(* rest by name, in the order CalendarList gives them.                     *)

ListCalendars ==
    /\ Calling("calendar.list_calendars", "start")
    /\ LET writable == {c \in ToSet(CalendarList) : c.role \in WriteRoles}
           sorted == Among(CalendarList, {c \in writable : c.primary})
                         \o Among(CalendarList, {c \in writable : ~c.primary})
       IN Complete([count |-> Len(sorted),
                    items |-> [i \in DOMAIN sorted |->
                                  [fields |-> <<sorted[i].name>>, of |-> sorted[i].id]]])
    /\ UNCHANGED <<ownerSteps, setup, events>>

-----------------------------------------------------------------------------
(* calendar.list_events: a page of every calendar, then one list of all.   *)

WindowOf(p) == ResolveWindow(FieldOr(p, "day_offset", 0), FieldOr(p, "days", 1))
MaxResultsOf(p) == FieldOr(p, "max_results", 10)

LagOf(cal) == CalendarList[CHOOSE i \in DOMAIN CalendarList : CalendarList[i].id = cal].lag

\* What Google finds in a window: it takes an all-day event to begin and end
\* at the midnight of its calendar, not of the owner.
Matches(event, window, p) ==
    LET lag == IF event.allDay THEN LagOf(event.cal) ELSE 0
    IN /\ Overlaps(Span(event.allDay, event.start + lag, event.end + lag), window)
       /\ Has(p, "query") => event.title # None /\ event.title.what = p.query.what

\* Chronological, all-day events before timed ones at the same instant.
Before(a, b) ==
    \/ a.event.start < b.event.start
    \/ a.event.start = b.event.start /\ a.event.allDay /\ ~b.event.allDay

\* A stable sort: each entry comes after all that it is not before.
InsertChronologically(list, entry) ==
    LET later == {i \in DOMAIN list : Before(entry, list[i])}
    IN InsertAt(list, IF later = {} THEN Len(list) + 1 ELSE Min(later), entry)

Chronological(entries) == FoldLeft(InsertChronologically, <<>>, entries)

FirstOf(seq, n) == SubSeq(seq, 1, IF n < Len(seq) THEN n ELSE Len(seq))

Page(cal, p) ==
    LET found == {e \in EventId : /\ events[e] # None
                                  /\ events[e].cal = cal
                                  /\ Matches(events[e], WindowOf(p), p)}
        entries == SetToSeq({[id |-> e, event |-> events[e]] : e \in found})
    IN FirstOf(Chronological(entries), MaxResultsOf(p))

\* One occurrence of a meeting, by the text of its start: calendars write
\* the same instant with their own offset.
Occurrence(entry) ==
    <<entry.event.uid, entry.event.start,
      IF entry.event.allDay THEN "date" ELSE ToString(LagOf(entry.event.cal))>>

AddOccurrence(list, entry) ==
    IF \E i \in DOMAIN list : Occurrence(list[i]) = Occurrence(entry) THEN list
    ELSE Append(list, entry)

Deduped(entries) == FoldLeft(AddOccurrence, <<>>, entries)

InWindow(entries, p) ==
    Among(entries, {x \in ToSet(entries) : Overlaps(SpanOf(x.event), WindowOf(p))})

Joined(pages) == FoldLeft(LAMBDA list, page : list \o page, <<>>, pages)

\* Mutant: the list is cut before the events outside the window are dropped.
ListingCutFirst(pages, p) ==
    InWindow(FirstOf(Chronological(Deduped(Joined(pages))), MaxResultsOf(p)), p)

Listing(pages, p) ==
    FirstOf(Chronological(InWindow(Deduped(Joined(pages)), p)), MaxResultsOf(p))

ListEvents ==
    /\ Calling("calendar.list_events", "start")
    /\ LET cals == CalendarsToList(call.p)
           pages == IF call.seen = None THEN <<>> ELSE call.seen
       IN IF cals = <<None>> THEN Deny("invalid_params")
          ELSE LET read == Append(pages, Page(cals[Len(pages) + 1], call.p))
                   listing == Listing(read, call.p)
               IN IF Len(read) < Len(cals) THEN call' = [call EXCEPT !.seen = read]
                  ELSE Complete([count |-> Len(listing),
                                 items |-> [i \in DOMAIN listing |->
                                               [fields |-> Shown(listing[i].event),
                                                of |-> listing[i]]]])
    /\ UNCHANGED <<ownerSteps, setup, events>>

-----------------------------------------------------------------------------
(* The invite guard, before any text reaches a guest.                      *)

\* Mutant: an update is judged by its own texts alone, not by those of the
\* event that a new guest receives with it.
InviteTextsNamedOnly ==
    <<Field(call.p, "title"), Field(call.p, "location"), Field(call.p, "description")>>

InviteTexts ==
    IF call.verb = "calendar.create_event"
    THEN <<call.p.title, Field(call.p, "location"), Field(call.p, "description")>>
    ELSE <<FieldOr(call.p, "title", call.seen.title),
           FieldOr(call.p, "location", call.seen.location),
           FieldOr(call.p, "description", call.seen.description)>>

GuardInvite ==
    /\ call.at = "invite_guard"
    /\ LET items == "invite" :> InviteTexts
       IN \E lost \in LostCalls(ItemCalls(items)) :
              LET refusal == IF setup.screening THEN InviteGuard(InviteTexts, lost) ELSE None
              IN IF refusal # None THEN Deny(refusal)
                 ELSE call' = [call EXCEPT !.at = "write"]
    /\ UNCHANGED <<ownerSteps, setup, events>>

-----------------------------------------------------------------------------
(* calendar.create_event.                                                  *)

StartCreate ==
    /\ Calling("calendar.create_event", "start")
    /\ call' = [call EXCEPT !.at = IF FieldOr(call.p, "attendees", <<>>) # <<>>
                                   THEN "invite_guard" ELSE "write"]
    /\ UNCHANGED <<ownerSteps, setup, events>>

NewEvent(p, cal, id) ==
    LET span == NewTiming(NewTimingOf(p))
    IN [cal |-> cal, uid |-> id, tagged |-> TRUE,
        allDay |-> span.allDay, start |-> span.start, end |-> span.end,
        guests |-> [i \in DOMAIN FieldOr(p, "attendees", <<>>) |->
                       [email |-> p.attendees[i].box, said |-> "needsAction"]],
        title |-> p.title, location |-> NoneIfEmpty(Field(p, "location")),
        description |-> NoneIfEmpty(Field(p, "description"))]

InsertEvent ==
    /\ Calling("calendar.create_event", "write")
    /\ LET cal == ResolveCalendar(Requested(call.p), WriteRoles)
       IN IF cal = None \/ NewTimingDenied(NewTimingOf(call.p))
          THEN Deny("invalid_params") /\ UNCHANGED events
          ELSE \E e \in {x \in EventId : events[x] = None} :
                   /\ events' = [events EXCEPT ![e] = NewEvent(call.p, cal, e)]
                   /\ Complete(OneItem(Shown(events'[e])))
    /\ UNCHANGED <<ownerSteps, setup>>

-----------------------------------------------------------------------------
(* calendar.update_event and calendar.delete_event: read the event, which  *)
(* must be the gatekeeper's own, and then change it.                       *)

TargetId == call.p.event_id.what

\* The event as Google has it now, None if there is none to be had.
Existing(cal) ==
    IF TargetId \in EventId /\ events[TargetId] # None /\ events[TargetId].cal = cal
    THEN events[TargetId] ELSE None

\* Mutant: the guard runs for new guests only, and not for text that the
\* guests an event already has are about to be sent.
NeedsInviteGuardNewGuestsOnly(event, p) == Adds(p) # <<>>

NeedsInviteGuard(event, p) ==
    ResultingGuests(event, p) # <<>> /\ (Adds(p) # <<>> \/ ChangesText(p))

\* Mutant: any event of a writable calendar may be changed.
GetAnyEvent ==
    /\ call.at = "start"
    /\ call.verb \in {"calendar.update_event", "calendar.delete_event"}
    /\ LET cal == ResolveCalendar(Requested(call.p), WriteRoles)
           event == Existing(cal)
       IN IF cal = None THEN Deny("invalid_params")
          ELSE IF event = None THEN Fail(HttpError(404))
          ELSE call' = [call EXCEPT !.at = "write", !.target = cal, !.seen = event,
                                    !.since = ownerSteps]
    /\ UNCHANGED <<ownerSteps, setup, events>>

GetOwnEvent ==
    /\ call.at = "start"
    /\ call.verb \in {"calendar.update_event", "calendar.delete_event"}
    /\ LET cal == ResolveCalendar(Requested(call.p), WriteRoles)
           event == Existing(cal)
           updates == call.verb = "calendar.update_event"
       IN IF cal = None THEN Deny("invalid_params")
          ELSE IF event = None THEN Fail(HttpError(404))
          ELSE IF ~event.tagged THEN Deny("not_gatekeeper_event")
          ELSE IF updates /\ ChangesGuests(call.p)
                          /\ Len(ResultingGuests(event, call.p)) > EventAttendeesMax
          THEN Deny("too_many_attendees")
          ELSE call' = [call EXCEPT !.at = IF updates /\ NeedsInviteGuard(event, call.p)
                                           THEN "invite_guard" ELSE "write",
                                    !.target = cal, !.seen = event, !.since = ownerSteps]
    /\ UNCHANGED <<ownerSteps, setup, events>>

\* Mutant: the whole event is written back as it was read.
PatchedWhole(event, seen, p) ==
    LET timing == IF ChangesTiming(ChangedTimingOf(p)) THEN UpdatedTiming(SpanOf(seen), ChangedTimingOf(p))
                  ELSE SpanOf(seen)
    IN [seen EXCEPT !.title = NoneIfEmpty(FieldOr(p, "title", seen.title)),
                    !.location = NoneIfEmpty(FieldOr(p, "location", seen.location)),
                    !.description = NoneIfEmpty(FieldOr(p, "description", seen.description)),
                    !.guests = ResultingGuests(seen, p),
                    !.allDay = timing.allDay, !.start = timing.start, !.end = timing.end]

PatchedText(text, p, name) == IF Has(p, name) THEN NoneIfEmpty(p[name]) ELSE text

\* The event after a patch of what the request names.  The guests and the
\* new times are computed from the event as it was read.
Patched(event, seen, p) ==
    LET timing == IF ChangesTiming(ChangedTimingOf(p)) THEN UpdatedTiming(SpanOf(seen), ChangedTimingOf(p))
                  ELSE SpanOf(event)
    IN [event EXCEPT !.title = PatchedText(event.title, p, "title"),
                     !.location = PatchedText(event.location, p, "location"),
                     !.description = PatchedText(event.description, p, "description"),
                     !.guests = IF ChangesGuests(p) THEN ResultingGuests(seen, p) ELSE event.guests,
                     !.allDay = timing.allDay, !.start = timing.start, !.end = timing.end]

PatchEvent ==
    /\ Calling("calendar.update_event", "write")
    /\ LET timing == ChangedTimingOf(call.p)
           event == Existing(call.target)
       IN IF ChangesTiming(timing) /\ UpdatedTimingDenied(SpanOf(call.seen), timing)
          THEN Deny("invalid_params") /\ UNCHANGED events
          ELSE IF event = None THEN Fail(HttpError(404)) /\ UNCHANGED events
          ELSE /\ events' = [events EXCEPT ![TargetId] = Patched(event, call.seen, call.p)]
               /\ Complete(OneItem(Shown(events'[TargetId])))
    /\ UNCHANGED <<ownerSteps, setup>>

DeleteEvent ==
    /\ Calling("calendar.delete_event", "write")
    /\ IF Existing(call.target) = None
       THEN Fail(HttpError(410)) /\ UNCHANGED events
       ELSE events' = [events EXCEPT ![TargetId] = None] /\ Complete(NothingShown)
    /\ UNCHANGED <<ownerSteps, setup>>

-----------------------------------------------------------------------------
(* The owner and the guests.                                               *)

OwnerEdits(event) ==
    {[event EXCEPT !.title = OwnersTitle],
     [event EXCEPT !.guests = Append(@, [email |-> OwnersGuest, said |-> "accepted"])],
     [event EXCEPT !.guests = [i \in DOMAIN @ |-> [@[i] EXCEPT !.said = "declined"]]],
     [event EXCEPT !.start = @ + Day, !.end = @ + Day],
     None}

OwnerChangesEvent ==
    /\ OwnerActs
    /\ \E e \in {x \in EventId : events[x] # None} :
           \E edited \in OwnerEdits(events[e]) \ {events[e]} :
               events' = [events EXCEPT ![e] = edited]

CalendarStep ==
    \/ ListCalendars
    \/ ListEvents
    \/ StartCreate
    \/ GuardInvite
    \/ InsertEvent
    \/ GetOwnEvent
    \/ PatchEvent
    \/ DeleteEvent
=============================================================================
