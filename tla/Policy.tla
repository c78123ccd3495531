-------------------------------- MODULE Policy --------------------------------
(***************************************************************************)
(* Layer 3, app/policy.py: what a request may ask for, whoever wrote it.   *)
(*                                                                         *)
(* A request is a verb and its parameters, a function from names to        *)
(* values.  A value is an integer, "true" or "false" (a YAML boolean       *)
(* arrives as either spelling), a sequence (a list), None (a YAML null),   *)
(* Junk (a value of another type than its parameter's), or a text: a       *)
(* record with its identity, its size, whether it is blank, whether it has *)
(* the pattern of its parameter (an address, an id, HH:MM) and its form:   *)
(* one clean line, several clean lines, or with control characters.  A     *)
(* time of day is a number of minutes.  Reasons are wording, left out.     *)
(***************************************************************************)
EXTENDS EventTiming, FiniteSets, Sequences, TLC

CONSTANTS Junk,                     \* a value of the wrong type
          SensitiveQueries,         \* texts that hold a refused search term
          EventAttendeesMax,        \* 10 in the code
          IgnoredParamsMax,         \* how many ignored names are reported: 20 in the code
          InjectionDenyThreshold    \* the score from which a request is flagged

ASSUME PolicyConstants == EventAttendeesMax \in Nat /\ IgnoredParamsMax \in Nat

Verbs ==
    {"gmail.search", "gmail.create_draft", "calendar.list_calendars", "calendar.list_events",
     "calendar.create_event", "calendar.update_event", "calendar.delete_event",
     "drive.create_file", "drive.update_file", "drive.append_file", "capabilities"}

VerbParams ==
    [verb \in Verbs |->
        CASE verb = "gmail.search" -> {"query", "max_results", "newer_than_days"}
          [] verb = "gmail.create_draft" -> {"to", "subject", "body", "thread_id"}
          [] verb = "calendar.list_events" ->
                {"day_offset", "days", "max_results", "calendar_id", "query"}
          [] verb = "calendar.create_event" ->
                {"title", "day_offset", "start_time", "duration_minutes", "attendees", "location",
                 "end_day_offset", "end_time", "all_day", "calendar_id", "description",
                 "reminder_minutes"}
          [] verb = "calendar.update_event" ->
                {"event_id", "title", "day_offset", "start_time", "duration_minutes", "location",
                 "add_attendees", "remove_attendees", "end_day_offset", "end_time", "all_day",
                 "calendar_id", "description"}
          [] verb = "calendar.delete_event" -> {"event_id", "calendar_id"}
          [] verb = "drive.create_file" -> {"name", "content"}
          [] verb \in {"drive.update_file", "drive.append_file"} -> {"file_id", "name", "content"}
          [] verb \in {"calendar.list_calendars", "capabilities"} -> {}]

NotImplementedVerbs == {"drive.search", "contacts.search"}

WriteVerbs ==
    {"gmail.create_draft", "calendar.create_event", "calendar.update_event",
     "calendar.delete_event", "drive.create_file", "drive.update_file", "drive.append_file"}

-----------------------------------------------------------------------------
(* Parameters and their shared validators.                                 *)

Has(p, name) == name \in DOMAIN p
Field(p, name) == IF Has(p, name) THEN p[name] ELSE None
FieldOr(p, name, default) == IF Has(p, name) THEN p[name] ELSE default

IsText(v) == v # None /\ v # Junk
IsLine(v, max) == IsText(v) /\ v.size <= max /\ v.form = "line"
IsFilledLine(v, max) == IsLine(v, max) /\ ~v.blank
IsLines(v, max) == IsText(v) /\ v.size <= max /\ v.form # "control"
IsId(v, max) == IsText(v) /\ ~v.blank /\ v.size <= max /\ v.fits

ValidTitle(v) == IsFilledLine(v, 200)
ValidDayOffset(v) == v \in 0..365
ValidEndDayOffset(v) == v \in 0..(365 + EventSpanMaxDays)
ValidTimeOfDay(v) == v \in 0..(Day - 1)
ValidAllDay(v) == v \in {"true", "false"}
ValidDuration(v) == v \in EventDurationMin..480
ValidLocation(v) == IsLine(v, 500)
ValidDescription(v) == IsLines(v, 2000)
ValidReminderMinutes(v) == v \in 1..1440
ValidEventId(v) == IsId(v, 1024)
ValidCalendarId(v) == IsId(v, 256)
ValidCalendarQuery(v) == IsFilledLine(v, 200)

ValidAttendees(v) ==
    /\ IsText(v)
    /\ Len(v) <= EventAttendeesMax
    /\ \A i \in DOMAIN v : IsText(v[i]) /\ v[i].form = "line" /\ v[i].fits

Optional(p, name, Valid(_)) == Has(p, name) => Valid(p[name])

-----------------------------------------------------------------------------
(* Decisions.                                                              *)

Decision(status, error) == [status |-> status, error |-> error, ignored |-> {}]
Allowed == Decision("allowed", None)
Denied(error) == Decision("denied", error)
AllowedIf(valid) == IF valid THEN Allowed ELSE Denied("invalid_params")

EvaluateGmailSearch(p) ==
    IF ~IsFilledLine(Field(p, "query"), 200) THEN Denied("invalid_params")
    ELSE IF p.query \in SensitiveQueries THEN Denied("sensitive_query_refused")
    ELSE AllowedIf(/\ FieldOr(p, "max_results", 5) \in 1..30
                   /\ Field(p, "newer_than_days") # None => p.newer_than_days \in 1..365)

EvaluateCreateDraft(p) ==
    AllowedIf(/\ IsFilledLine(Field(p, "to"), 254) /\ p.to.fits
              /\ IsFilledLine(Field(p, "subject"), 200)
              /\ IsLines(Field(p, "body"), 20000) /\ ~p.body.blank
              /\ Field(p, "thread_id") # None => IsId(p.thread_id, 512))

EvaluateListEvents(p) ==
    AllowedIf(/\ FieldOr(p, "day_offset", 0) \in -365..13
              /\ FieldOr(p, "days", 1) \in 1..366
              /\ FieldOr(p, "max_results", 10) \in 1..25
              /\ Optional(p, "calendar_id", ValidCalendarId)
              /\ Optional(p, "query", ValidCalendarQuery))

TimeFields == {"start_time", "end_time", "duration_minutes"}

\* A new event: no time of day if it is all-day, and else a start with
\* either a duration or an end.
NewEventTimingOk(p, allDay) ==
    IF allDay
    THEN /\ TimeFields \cap DOMAIN p = {}
         /\ ValidEndDayOffset(FieldOr(p, "end_day_offset", p.day_offset))
         /\ AllDaySpanOk(p.day_offset, FieldOr(p, "end_day_offset", p.day_offset))
    ELSE /\ ValidTimeOfDay(Field(p, "start_time"))
         /\ IF Has(p, "duration_minutes")
            THEN /\ {"end_day_offset", "end_time"} \cap DOMAIN p = {}
                 /\ ValidDuration(p.duration_minutes)
            ELSE /\ ValidEndDayOffset(Field(p, "end_day_offset"))
                 /\ ValidTimeOfDay(Field(p, "end_time"))
                 /\ TimedSpanOk(TimedSpanMinutes(p.day_offset, p.start_time,
                                                 p.end_day_offset, p.end_time))

EvaluateCreateEvent(p) ==
    AllowedIf(/\ ValidTitle(Field(p, "title"))
              /\ ValidDayOffset(Field(p, "day_offset"))
              /\ Optional(p, "all_day", ValidAllDay)
              /\ Optional(p, "calendar_id", ValidCalendarId)
              /\ Optional(p, "attendees", ValidAttendees)
              /\ Optional(p, "location", ValidLocation)
              /\ Optional(p, "description", ValidDescription)
              /\ Optional(p, "reminder_minutes", ValidReminderMinutes)
              /\ NewEventTimingOk(p, FieldOr(p, "all_day", "false") = "true"))

\* The rules across an update's timing fields, as far as the request alone
\* decides them; UpdatedTimingDenied finishes them.
UpdateTimingOk(p) ==
    IF Field(p, "all_day") = "true"
    THEN /\ TimeFields \cap DOMAIN p = {}
         /\ {"day_offset", "end_day_offset"} \subseteq DOMAIN p =>
               AllDaySpanOk(p.day_offset, p.end_day_offset)
    ELSE /\ Has(p, "end_time") => Has(p, "end_day_offset")
         /\ ~({"duration_minutes", "end_day_offset"} \subseteq DOMAIN p)
         /\ Field(p, "all_day") = "false" /\ Has(p, "end_day_offset") => Has(p, "end_time")
         /\ {"day_offset", "start_time", "end_day_offset", "end_time"} \subseteq DOMAIN p =>
               TimedSpanOk(TimedSpanMinutes(p.day_offset, p.start_time,
                                            p.end_day_offset, p.end_time))

Mailboxes(list) == {list[i].box : i \in DOMAIN list}

EvaluateUpdateEvent(p) ==
    LET list(name) == FieldOr(p, name, <<>>)
        updates == {f \in DOMAIN p \ {"event_id", "calendar_id"} :
                       f \in {"add_attendees", "remove_attendees"} => p[f] # <<>>}
    IN AllowedIf(
        /\ ValidEventId(Field(p, "event_id"))
        /\ Optional(p, "calendar_id", ValidCalendarId)
        /\ Optional(p, "title", ValidTitle)
        /\ Optional(p, "day_offset", ValidDayOffset)
        /\ Optional(p, "start_time", ValidTimeOfDay)
        /\ Optional(p, "duration_minutes", ValidDuration)
        /\ Optional(p, "end_day_offset", ValidEndDayOffset)
        /\ Optional(p, "end_time", ValidTimeOfDay)
        /\ Optional(p, "all_day", ValidAllDay)
        /\ Optional(p, "location", ValidLocation)
        /\ Optional(p, "description", ValidDescription)
        /\ Optional(p, "add_attendees", ValidAttendees)
        /\ Optional(p, "remove_attendees", ValidAttendees)
        /\ Mailboxes(list("add_attendees")) \cap Mailboxes(list("remove_attendees")) = {}
        /\ UpdateTimingOk(p)
        /\ updates # {})

EvaluateDeleteEvent(p) ==
    AllowedIf(ValidEventId(Field(p, "event_id")) /\ Optional(p, "calendar_id", ValidCalendarId))

EvaluateCreateFile(p) ==
    AllowedIf(/\ IsFilledLine(Field(p, "name"), 200)
              /\ IsLines(Field(p, "content"), 100000))

EvaluateFileWrite(verb, p) ==
    AllowedIf(/\ (Field(p, "file_id") = None) # (Field(p, "name") = None)
              /\ Field(p, "file_id") # None => IsId(p.file_id, 128)
              /\ Field(p, "name") # None => IsFilledLine(p.name, 200)
              /\ IsLines(Field(p, "content"), 100000)
              /\ verb = "drive.append_file" => p.content.size > 0)

EvaluateKnownParams(verb, p) ==
    CASE verb = "gmail.search" -> EvaluateGmailSearch(p)
      [] verb = "gmail.create_draft" -> EvaluateCreateDraft(p)
      [] verb = "calendar.list_events" -> EvaluateListEvents(p)
      [] verb = "calendar.create_event" -> EvaluateCreateEvent(p)
      [] verb = "calendar.update_event" -> EvaluateUpdateEvent(p)
      [] verb = "calendar.delete_event" -> EvaluateDeleteEvent(p)
      [] verb = "drive.create_file" -> EvaluateCreateFile(p)
      [] verb \in {"drive.update_file", "drive.append_file"} -> EvaluateFileWrite(verb, p)
      [] verb \in {"calendar.list_calendars", "capabilities"} -> Allowed

\* What is read of a request.
KnownParams(verb, p) == [f \in DOMAIN p \cap VerbParams[verb] |-> p[f]]

\* The first names in the code's order of names, which is left open here.
FirstNames(names) ==
    IF Cardinality(names) <= IgnoredParamsMax THEN names
    ELSE CHOOSE first \in SUBSET names : Cardinality(first) = IgnoredParamsMax

\* Parameters the verb does not define are never read; they are listed in
\* the decision so that the reply can say they were ignored.  The old
\* attendees of an update meant "replace the list" and is refused instead.
EvaluatePolicy(verb, p) ==
    IF verb \in NotImplementedVerbs THEN Decision("not_implemented", "not_implemented")
    ELSE IF verb = "unsupported" THEN Decision("unsupported", "unsupported")
    ELSE IF verb \notin Verbs THEN Decision("unsupported", "unknown_verb")
    ELSE IF verb = "calendar.update_event" /\ Has(p, "attendees") THEN Denied("invalid_params")
    ELSE LET decision == EvaluateKnownParams(verb, KnownParams(verb, p))
         IN IF decision.status = "allowed"
            THEN [decision EXCEPT !.ignored = FirstNames(DOMAIN p \ VerbParams[verb])]
            ELSE decision

-----------------------------------------------------------------------------
(* The gates on the injection score (None when there is none).             *)

ClearsScreen(score, denyWhenNoSignal) ==
    IF score = None \/ InjectionDenyThreshold = None THEN ~denyWhenNoSignal
    ELSE score < InjectionDenyThreshold

\* Mutant: the gate looks at reads instead of writes.
ApplyScreenGateToReads(decision, verb, score) ==
    IF decision.status = "allowed" /\ verb \notin WriteVerbs /\ ~ClearsScreen(score, FALSE)
    THEN Denied("screened") ELSE decision

ApplyScreenGate(decision, verb, score) ==
    IF decision.status = "allowed" /\ verb \in WriteVerbs /\ ~ClearsScreen(score, FALSE)
    THEN Denied("screened") ELSE decision

ApplyExtraParamsGate(decision, score) ==
    IF decision.status = "allowed" /\ decision.ignored # {} /\ ~ClearsScreen(score, TRUE)
    THEN Denied("invalid_params") ELSE decision

Decide(verb, p, score) ==
    ApplyExtraParamsGate(ApplyScreenGate(EvaluatePolicy(verb, p), verb, score), score)
=============================================================================
