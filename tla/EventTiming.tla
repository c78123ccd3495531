------------------------------ MODULE EventTiming ------------------------------
(***************************************************************************)
(* When an event is: app/calendar_window.py, the span rules of             *)
(* app/policy.py, and the two resolvers of app/calendar_executor.py that   *)
(* turn the small numbers of a request into a start and an end.            *)
(*                                                                         *)
(* A time is a number of wall-clock minutes since the owner's midnight of  *)
(* today, as all arithmetic of the code is (datetime in one zone, whose    *)
(* sums and differences ignore a change of offset between the two ends).   *)
(* A time of day is a number of minutes, a field left out is None.         *)
(***************************************************************************)
EXTENDS Integers

CONSTANT None           \* a field that is absent

ASSUME NoneIsNoNumber == None \notin Int

Day == 24 * 60
EventDurationMin == 5
EventSpanMaxDays == 14

DayOf(time) == time \div Day
TimeOf(time) == time % Day

-----------------------------------------------------------------------------
(* How long an event may be: one definition for what a request says and    *)
(* for what an update resolves to.                                         *)

TimedSpanMinutes(day, time, endDay, endTime) == (endDay - day) * Day + endTime - time

\* Mutant: the upper bound counts one day too many.
TimedSpanOkOneDayMore(minutes) ==
    EventDurationMin <= minutes /\ minutes <= (EventSpanMaxDays + 1) * Day

TimedSpanOk(minutes) ==
    EventDurationMin <= minutes /\ minutes <= EventSpanMaxDays * Day

\* The last day is included.
AllDaySpanOk(first, last) == first <= last /\ last - first + 1 <= EventSpanMaxDays

-----------------------------------------------------------------------------
(* Spans: [allDay, start, end].  Google's end of an all-day event is       *)
(* exclusive, as is the end of a timed one.                                *)

Span(allDay, start, end) == [allDay |-> allDay, start |-> start, end |-> end]

ResolveEventDatetime(day, time, duration) ==
    Span(FALSE, day * Day + time, day * Day + time + duration)

ResolveEventRange(day, time, endDay, endTime) ==
    Span(FALSE, day * Day + time, endDay * Day + endTime)

ResolveAllDayRange(first, last) == Span(TRUE, first * Day, (last + 1) * Day)

ResolveWindow(day, days) == [min |-> day * Day, max |-> (day + days) * Day]

\* What the reply shows of an all-day event: its last day, included.
LastDayShown(span) == DayOf(span.end) - 1

Overlaps(span, window) == span.end > window.min /\ span.start < window.max

-----------------------------------------------------------------------------
(* The timing of a new event.  t has the fields day_offset, start_time,    *)
(* duration_minutes, end_day_offset, end_time and all_day.                 *)

ByEnd(t) == t.end_day_offset # None /\ t.end_time # None /\ t.duration_minutes = None
ByDuration(t) == t.duration_minutes # None /\ t.end_day_offset = None /\ t.end_time = None

NewTimingDenied(t) == ~t.all_day /\ (t.start_time = None \/ ~(ByEnd(t) \/ ByDuration(t)))

NewTiming(t) ==
    IF t.all_day
    THEN ResolveAllDayRange(t.day_offset,
                            IF t.end_day_offset = None THEN t.day_offset ELSE t.end_day_offset)
    ELSE IF ByEnd(t)
    THEN ResolveEventRange(t.day_offset, t.start_time, t.end_day_offset, t.end_time)
    ELSE ResolveEventDatetime(t.day_offset, t.start_time, t.duration_minutes)

-----------------------------------------------------------------------------
(* The timing of an existing event (a span) after an update: what the      *)
(* request leaves out is filled in from the event.                         *)

Given(value, otherwise) == IF value # None THEN value ELSE otherwise

ChangesTiming(t) ==
    \E f \in {"day_offset", "start_time", "duration_minutes", "end_day_offset",
              "end_time", "all_day"} : t[f] # None

TargetAllDay(event, t) == Given(t.all_day, event.allDay)
StartDay(event, t) == Given(t.day_offset, DayOf(event.start))

\* The last day the event touches now; a timed event that ends at midnight
\* does not touch the day that begins there.
LastDay(event) ==
    IF event.allDay \/ (TimeOf(event.end) = 0 /\ DayOf(event.end) > DayOf(event.start))
    THEN DayOf(event.end) - 1
    ELSE DayOf(event.end)

\* Mutant: the exclusive end of an all-day event is taken for its last day.
NewLastDayExclusive(event, t) ==
    Given(t.end_day_offset, StartDay(event, t) + DayOf(event.end) - DayOf(event.start))

NewLastDay(event, t) ==
    Given(t.end_day_offset, StartDay(event, t) + LastDay(event) - DayOf(event.start))

StartTime(event, t) == Given(t.start_time, TimeOf(event.start))

NewMinutes(event, t) ==
    IF t.end_day_offset # None
    THEN TimedSpanMinutes(StartDay(event, t), StartTime(event, t), t.end_day_offset, t.end_time)
    ELSE Given(t.duration_minutes, event.end - event.start)

UpdatedTimingDenied(event, t) ==
    IF TargetAllDay(event, t)
    THEN \/ \E f \in {"start_time", "end_time", "duration_minutes"} : t[f] # None
         \/ ~AllDaySpanOk(StartDay(event, t), NewLastDay(event, t))
    ELSE \/ (t.end_day_offset = None) # (t.end_time = None)
         \/ event.allDay /\ (t.start_time = None
                             \/ (t.duration_minutes = None /\ t.end_time = None))
         \/ ~TimedSpanOk(NewMinutes(event, t))

UpdatedTiming(event, t) ==
    IF TargetAllDay(event, t)
    THEN ResolveAllDayRange(StartDay(event, t), NewLastDay(event, t))
    ELSE ResolveEventDatetime(StartDay(event, t), StartTime(event, t), NewMinutes(event, t))

-----------------------------------------------------------------------------

\* A span as Google keeps it: an all-day one begins and ends at midnight.
SpanKept(span) ==
    /\ span.allDay \in BOOLEAN
    /\ span.start \in Int /\ span.end \in Int
    /\ span.allDay => TimeOf(span.start) = 0 /\ TimeOf(span.end) = 0

\* What both halves of the code promise of an event's length.
SpanSound(span) ==
    IF span.allDay
    THEN /\ TimeOf(span.start) = 0 /\ TimeOf(span.end) = 0
         /\ Day <= span.end - span.start
         /\ span.end - span.start <= 14 * Day
    ELSE 5 <= span.end - span.start /\ span.end - span.start <= 14 * Day
=============================================================================
