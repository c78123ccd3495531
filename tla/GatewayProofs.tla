----------------------------- MODULE GatewayProofs -----------------------------
(***************************************************************************)
(* What one e-mail cannot do to the owner's workspace, for every e-mail,   *)
(* workspace, deployment and every number of things the owner does         *)
(* meanwhile:                                                              *)
(*   OwnOnly          it touches only what the gatekeeper has made;        *)
(*   RestIsKept       an update changes only what the request names;       *)
(*   LengthsAreSound  no event gets a length out of bounds;                *)
(*   ContentIsKept    and an appended text comes after what a file held.   *)
(* The first part is about when an event is:                               *)
(*   NewTimingSound      the span of a new event that the policy allows is *)
(*                       of a sound length;                                *)
(*   UpdatedTimingSound  so is the span of an update the executor accepts; *)
(*   MoveKeepsLength     an update that names neither a length nor an end  *)
(*                       nor a kind keeps the length of the event.         *)
(***************************************************************************)
EXTENDS Gateway, ScreensProofs, SequenceTheorems

\* The shape of the state.
CallShape ==
    DOMAIN call = {"at", "id", "verb", "p", "target", "seen", "since", "status", "error",
                   "retryable", "result"}

\* The owner's steps are counted, and those since the last read are a part.
CountersOK == ownerSteps \in Nat /\ call.since \in Nat /\ call.since <= ownerSteps

EventsOK == DOMAIN events = EventId /\ \A e \in EventId : events[e] # None => IsEvent(events[e])

FilesOK == DOMAIN files = FileId /\ \A id \in FileId : files[id] # None => IsFile(files[id])

Shape == CallShape /\ CountersOK /\ EventsOK /\ FilesOK

\* Which verbs come to which step of a call.
StepsOfVerbs ==
    /\ call.at \in {"read", "edit_guard"} => call.verb \in EditVerbs
    /\ call.at = "invite_guard" => call.verb \in {"calendar.create_event", "calendar.update_event"}

\* What runs has been allowed.
CheckedParams ==
    Running =>
        /\ call.verb = "calendar.create_event" => EvaluateCreateEvent(call.p).status = "allowed"
        /\ call.verb = "calendar.update_event" => EvaluateUpdateEvent(call.p).status = "allowed"
        /\ call.verb \in EditVerbs => EvaluateFileWrite(call.verb, call.p).status = "allowed"

ChangeVerbs == {"calendar.update_event", "calendar.delete_event"}

\* The event a call is about to change is the gatekeeper's own, if it is
\* there still: what was checked of it cannot change under the call's hands.
OwnTarget ==
    call.at \in {"invite_guard", "write"} /\ call.verb \in ChangeVerbs =>
        /\ Usable(call.target, WriteRoles) # {}
        /\ SpanKept(SpanOf(call.seen))
        /\ TargetId \in EventId /\ events[TargetId] # None => events[TargetId].tagged

\* The file a call is about to write is as it was checked and read, unless
\* the owner has changed something since.
CheckedFile ==
    call.at \in {"edit_guard", "write"} /\ call.verb \in EditVerbs =>
        /\ IsFile(call.seen)
        /\ Undisturbed =>
               /\ call.target \in FileId /\ files[call.target] = call.seen
               /\ call.seen.plain /\ call.seen.folder = setup.folder

Inv == Shape /\ StepsOfVerbs /\ CheckedParams /\ OwnTarget /\ CheckedFile

-----------------------------------------------------------------------------
(* When an event is, for every number a request may hold and every event   *)
(* the calendar may hold.                                                  *)

IntOrNone == Int \cup {None}

\* The timing fields of an update, as the policy leaves them.
TimingFields(t) ==
    /\ t.day_offset \in IntOrNone
    /\ t.start_time \in IntOrNone
    /\ t.duration_minutes \in IntOrNone
    /\ t.end_day_offset \in IntOrNone
    /\ t.end_time \in IntOrNone
    /\ t.all_day \in BOOLEAN \cup {None}

\* A number of whole days.
LEMMA WholeDays ==
    ASSUME NEW d \in Int
    PROVE  TimeOf(d * Day) = 0 /\ DayOf(d * Day) = d
BY SMTT(30) DEF TimeOf, DayOf, Day

\* Division by the length of a day.
LEMMA DayAndTime ==
    ASSUME NEW n \in Int
    PROVE  /\ DayOf(n) \in Int /\ TimeOf(n) \in 0..(Day - 1)
           /\ n = DayOf(n) * Day + TimeOf(n)
BY SMTT(30) DEF TimeOf, DayOf, Day

\* The last day shown of an all-day event is the last day it was made for:
\* the exclusive end of Google's events is undone exactly once
\* (_format_all_day_range).
THEOREM LastDayRoundTrip ==
    ASSUME NEW first \in Int, NEW last \in Int
    PROVE  LastDayShown(ResolveAllDayRange(first, last)) = last
<1>1. ResolveAllDayRange(first, last).end = (last + 1) * Day
  BY DEF ResolveAllDayRange, Span
<1>2. DayOf((last + 1) * Day) = last + 1
  BY WholeDays
<1> QED BY <1>1, <1>2 DEF LastDayShown

\* An all-day range of the days the rule allows is sound.
LEMMA AllDayRangeSound ==
    ASSUME NEW first \in Int, NEW last \in Int, AllDaySpanOk(first, last)
    PROVE  /\ SpanSound(ResolveAllDayRange(first, last))
           /\ SpanKept(ResolveAllDayRange(first, last))
<1>1. TimeOf(first * Day) = 0 /\ TimeOf((last + 1) * Day) = 0
  BY WholeDays
<1>2. first <= last /\ last - first + 1 <= 14
  BY DEF AllDaySpanOk, EventSpanMaxDays
<1>3. (last + 1) * Day - first * Day = (last - first + 1) * Day
  BY DEF Day
<1>4. Day <= (last + 1) * Day - first * Day /\ (last + 1) * Day - first * Day <= 14 * Day
  BY <1>2, <1>3 DEF Day
<1> QED BY <1>1, <1>4 DEF SpanSound, SpanKept, ResolveAllDayRange, Span, Day

\* A timed range of the minutes the rule allows is sound.
LEMMA TimedRangeSound ==
    ASSUME NEW day \in Int, NEW time \in Int, NEW minutes \in Int, TimedSpanOk(minutes)
    PROVE  /\ SpanSound(ResolveEventDatetime(day, time, minutes))
           /\ SpanKept(ResolveEventDatetime(day, time, minutes))
BY DEF SpanSound, SpanKept, ResolveEventDatetime, Span, TimedSpanOk, EventDurationMin, EventSpanMaxDays, Day

\* The span of a new event is sound when what the policy checked of it is:
\* the days of an all-day event, the duration, or the minutes up to the end
\* (_new_event_timing, _resolve_new_timing).
THEOREM NewTimingSound ==
    ASSUME NEW t, t.all_day \in BOOLEAN,
           t.day_offset \in Int, t.end_day_offset \in IntOrNone,
           t.all_day => AllDaySpanOk(t.day_offset, Given(t.end_day_offset, t.day_offset)),
           ~t.all_day => /\ t.start_time \in Int
                         /\ ByDuration(t) => t.duration_minutes \in Int /\ TimedSpanOk(t.duration_minutes)
                         /\ ByEnd(t) => /\ t.end_time \in Int
                                       /\ TimedSpanOk(TimedSpanMinutes(t.day_offset, t.start_time,
                                                         t.end_day_offset, t.end_time)),
           ~NewTimingDenied(t)
    PROVE  SpanSound(NewTiming(t)) /\ SpanKept(NewTiming(t))
<1>1. CASE t.all_day
  <2>1. Given(t.end_day_offset, t.day_offset) \in Int
    BY DEF Given, IntOrNone
  <2>2. NewTiming(t) = ResolveAllDayRange(t.day_offset, Given(t.end_day_offset, t.day_offset))
    BY <1>1 DEF NewTiming, Given
  <2> QED BY <1>1, <2>1, <2>2, AllDayRangeSound
<1>2. CASE ~t.all_day /\ ByEnd(t)
  <2>1. t.end_day_offset \in Int /\ t.end_time \in Int /\ t.start_time \in Int
    BY <1>2 DEF ByEnd, IntOrNone
  <2>2. NewTiming(t) = ResolveEventRange(t.day_offset, t.start_time, t.end_day_offset, t.end_time)
    BY <1>2 DEF NewTiming
  <2>3. TimedSpanOk(TimedSpanMinutes(t.day_offset, t.start_time, t.end_day_offset, t.end_time))
    BY <1>2
  <2> QED BY <2>1, <2>2, <2>3 DEF SpanSound, SpanKept, ResolveEventRange, Span, TimedSpanOk,
                                  TimedSpanMinutes, EventDurationMin, EventSpanMaxDays, Day
<1>3. CASE ~t.all_day /\ ~ByEnd(t)
  <2>1. ByDuration(t)
    BY <1>3 DEF NewTimingDenied
  <2>2. NewTiming(t) = ResolveEventDatetime(t.day_offset, t.start_time, t.duration_minutes)
    BY <1>3 DEF NewTiming
  <2>3. t.start_time \in Int /\ t.duration_minutes \in Int /\ TimedSpanOk(t.duration_minutes)
    BY <1>3, <2>1
  <2> QED BY <2>2, <2>3, TimedRangeSound
<1> QED BY <1>1, <1>2, <1>3

-----------------------------------------------------------------------------
(* Updates.                                                                *)

\* What is filled in is a number.
LEMMA FilledIn ==
    ASSUME NEW event, NEW t, SpanKept(event), TimingFields(t)
    PROVE  /\ StartDay(event, t) \in Int
           /\ StartTime(event, t) \in Int
           /\ LastDay(event) \in Int
           /\ NewLastDay(event, t) \in Int
<1>1. /\ DayOf(event.start) \in Int /\ DayOf(event.end) \in Int
      /\ TimeOf(event.start) \in Int
  BY DayAndTime DEF SpanKept
<1>2. StartDay(event, t) \in Int
  BY <1>1 DEF StartDay, Given, TimingFields, IntOrNone
<1>3. LastDay(event) \in Int
  BY <1>1 DEF LastDay
<1>4. StartTime(event, t) \in Int
  BY <1>1 DEF StartTime, Given, TimingFields, IntOrNone
<1>5. NewLastDay(event, t) \in Int
  BY <1>1, <1>2, <1>3 DEF NewLastDay, Given, TimingFields, IntOrNone
<1> QED BY <1>2, <1>3, <1>4, <1>5

\* The minutes of an accepted timed update are a number.
LEMMA MinutesFilledIn ==
    ASSUME NEW event, NEW t, SpanKept(event), TimingFields(t),
           ~TargetAllDay(event, t), ~UpdatedTimingDenied(event, t)
    PROVE  NewMinutes(event, t) \in Int
<1>1. (t.end_day_offset = None) = (t.end_time = None)
  BY DEF UpdatedTimingDenied
<1>2. CASE t.end_day_offset # None
  <2>1. t.end_day_offset \in Int /\ t.end_time \in Int
    BY <1>1, <1>2 DEF TimingFields, IntOrNone
  <2> QED BY <1>2, <2>1, FilledIn DEF NewMinutes, TimedSpanMinutes, Day
<1>3. CASE t.end_day_offset = None
  BY <1>3 DEF NewMinutes, Given, TimingFields, IntOrNone, SpanKept
<1> QED BY <1>2, <1>3

\* Whatever an update names, and whatever the event was, the span that is
\* accepted is sound (_resolve_updated_timing).
THEOREM UpdatedTimingSound ==
    ASSUME NEW event, NEW t, SpanKept(event), TimingFields(t), ~UpdatedTimingDenied(event, t)
    PROVE  SpanSound(UpdatedTiming(event, t)) /\ SpanKept(UpdatedTiming(event, t))
<1>1. CASE TargetAllDay(event, t)
  <2>1. AllDaySpanOk(StartDay(event, t), NewLastDay(event, t))
    BY <1>1 DEF UpdatedTimingDenied
  <2> QED BY <1>1, <2>1, FilledIn, AllDayRangeSound DEF UpdatedTiming
<1>2. CASE ~TargetAllDay(event, t)
  <2>1. TimedSpanOk(NewMinutes(event, t))
    BY <1>2 DEF UpdatedTimingDenied
  <2> QED BY <1>2, <2>1, FilledIn, MinutesFilledIn, TimedRangeSound DEF UpdatedTiming
<1> QED BY <1>1, <1>2

\* Moving an event keeps its length: in minutes for a timed event, in days
\* for an all-day one (_resolve_updated_timing).
THEOREM MoveKeepsLength ==
    ASSUME NEW event, NEW t, SpanKept(event), TimingFields(t),
           t.duration_minutes = None, t.end_day_offset = None, t.all_day = None
    PROVE  UpdatedTiming(event, t).end - UpdatedTiming(event, t).start = event.end - event.start
<1>1. TargetAllDay(event, t) = event.allDay
  BY DEF TargetAllDay, Given
<1>2. CASE event.allDay
  <2>1. /\ DayOf(event.start) \in Int /\ DayOf(event.end) \in Int
        /\ event.start = DayOf(event.start) * Day /\ event.end = DayOf(event.end) * Day
    BY <1>2, DayAndTime DEF SpanKept, Day
  <2>2. NewLastDay(event, t) = StartDay(event, t) + DayOf(event.end) - 1 - DayOf(event.start)
    BY <1>2, <2>1, FilledIn DEF NewLastDay, Given, LastDay
  <2>3. /\ UpdatedTiming(event, t).start = StartDay(event, t) * Day
        /\ UpdatedTiming(event, t).end = (NewLastDay(event, t) + 1) * Day
    BY <1>1, <1>2 DEF UpdatedTiming, ResolveAllDayRange, Span
  <2> QED BY <2>1, <2>2, <2>3, FilledIn DEF Day
<1>3. CASE ~event.allDay
  <2>1. NewMinutes(event, t) = event.end - event.start
    BY DEF NewMinutes, Given
  <2>2. /\ UpdatedTiming(event, t).start = StartDay(event, t) * Day + StartTime(event, t)
        /\ UpdatedTiming(event, t).end = StartDay(event, t) * Day + StartTime(event, t)
                                            + NewMinutes(event, t)
    BY <1>1, <1>3 DEF UpdatedTiming, ResolveEventDatetime, Span
  <2> QED BY <2>1, <2>2, FilledIn DEF SpanKept, Day
<1> QED BY <1>2, <1>3 DEF SpanKept

-----------------------------------------------------------------------------
(* What is in a file.                                                      *)

\* Every sequence over a set is one.
LEMMA SequenceOf ==
    ASSUME NEW S, NEW s \in Seq(S)
    PROVE  IsSequence(s)
BY DEF IsSequence

\* What a text is written as.
LEMMA PiecesSequence ==
    ASSUME NEW text
    PROVE  IsSequence(Pieces(text))
<1>1. <<>> \in Seq({text.what}) /\ <<text.what>> \in Seq({text.what})
  OBVIOUS
<1> QED BY <1>1, SequenceOf DEF Pieces

\* What the owner adds.
LEMMA AppendSequence ==
    ASSUME NEW s, IsSequence(s), NEW x
    PROVE  IsSequence(Append(s, x))
<1> DEFINE S == {s[i] : i \in 1..Len(s)} \cup {x}
<1>1. s \in [1..Len(s) -> S]
  BY DEF IsSequence
<1>2. s \in Seq(S) /\ x \in S
  BY <1>1 DEF IsSequence
<1> HIDE DEF S
<1>3. Append(s, x) \in Seq(S)
  BY <1>2, AppendProperties
<1> QED BY <1>3, SequenceOf

\* A sequence that goes on where another ends.
LEMMA SamePrefix ==
    ASSUME NEW S, NEW s \in Seq(S), NEW t \in Seq(S), Len(s) <= Len(t),
           \A i \in 1..Len(s) : s[i] = t[i]
    PROVE  IsPrefix(s, t)
<1>1. Len(s) \in Nat /\ Len(t) \in Nat
  BY LenProperties
<1>2. SubSeq(s, 1, Len(s)) = s
  BY SubSeqFull
<1>3. /\ SubSeq(t, 1, Len(s)) \in Seq(S)
      /\ Len(SubSeq(t, 1, Len(s))) = Len(s)
      /\ \A i \in 1..Len(s) : SubSeq(t, 1, Len(s))[i] = t[i]
  BY <1>1, SubSeqProperties
<1>4. SubSeq(t, 1, Len(s)) = s
  BY <1>3, SeqEqual
<1> QED BY <1>2, <1>4 DEF IsPrefix

\* What a file holds after a text is appended: what it held, and the text.
LEMMA AppendedKeeps ==
    ASSUME NEW content, IsSequence(content), NEW new
    PROVE  /\ IsSequence(Appended(content, new))
           /\ new.size > 0 => /\ IsPrefix(content, Appended(content, new))
                              /\ Last(Appended(content, new)) = new.what
<1> DEFINE S == {content[i] : i \in 1..Len(content)} \cup {NewLine, new.what}
           base == IF content # <<>> /\ Last(content) # NewLine
                   THEN Append(content, NewLine) ELSE content
<1>1. content \in Seq(S)
  <2>1. content \in [1..Len(content) -> S]
    BY DEF IsSequence
  <2> QED BY <2>1 DEF IsSequence
<1>2. NewLine \in S /\ new.what \in S
  OBVIOUS
<1> HIDE DEF S
<1>3. /\ base \in Seq(S) /\ Len(content) \in Nat /\ Len(content) <= Len(base)
      /\ \A i \in 1..Len(content) : base[i] = content[i]
  BY <1>1, <1>2, AppendProperties, LenProperties
<1>4. Appended(content, new) = base \o Pieces(new)
  BY DEF Appended
<1> HIDE DEF base
<1>5. CASE new.size = 0
  <2>1. Appended(content, new) = base
    BY <1>3, <1>4, <1>5, ConcatEmptySeq DEF Pieces
  <2> QED BY <1>3, <1>5, <2>1, SequenceOf
<1>6. CASE new.size # 0
  <2>1. Appended(content, new) = base \o <<new.what>>
    BY <1>4, <1>6 DEF Pieces
  <2>2. <<new.what>> \in Seq(S) /\ Len(<<new.what>>) = 1 /\ <<new.what>>[1] = new.what
    BY <1>2
  <2>3. /\ Appended(content, new) \in Seq(S)
        /\ Len(Appended(content, new)) = Len(base) + 1
        /\ Len(base) \in Nat
        /\ \A i \in 1..Len(base) : Appended(content, new)[i] = base[i]
        /\ Appended(content, new)[Len(base) + 1] = new.what
    BY <1>3, <2>1, <2>2, ConcatProperties, LenProperties
  <2>4. \A i \in 1..Len(content) : content[i] = Appended(content, new)[i]
    BY <1>3, <2>3
  <2>5. IsPrefix(content, Appended(content, new))
    BY <1>1, <1>3, <2>3, <2>4, SamePrefix
  <2> QED BY <2>3, <2>5, SequenceOf DEF Last
<1> QED BY <1>5, <1>6

-----------------------------------------------------------------------------
(* Lists that are made from the left: folds, step by step.  The list of    *)
(* guests is made in two passes, first over the guests, to keep them, and  *)
(* then over the additions; a list of events in five; a size is a sum.     *)

\* One step of a pass.
MergeStep(pass, given, list, x) ==
    IF pass = "keep" THEN KeepGuest(list, x, given)
    ELSE IF pass = "add" THEN AddGuest(list, x)
    ELSE IF pass = "wanted" THEN KeepWanted(list, x, given)
    ELSE IF pass = "insert" THEN InsertChronologically(list, x)
    ELSE IF pass = "dedupe" THEN AddOccurrence(list, x)
    ELSE IF pass = "join" THEN list \o x
    ELSE list + x

\* The iteration that makes the list.
Merges(pass, given, start, seq, n, iter) ==
    iter = [s \in SUBSET (1..n) |->
               IF s = {} THEN start
               ELSE MergeStep(pass, given, iter[s \ {Max(s)}], seq[Max(s)])]

LEMMA MergeExists ==
    ASSUME NEW pass, NEW given, NEW start, NEW seq
    PROVE  \A n \in Nat : \E iter : Merges(pass, given, start, seq, n, iter)
<1> DEFINE S == {n \in Nat : \E iter : Merges(pass, given, start, seq, n, iter)}
           Step(list, x) == MergeStep(pass, given, list, x)
<1>1. 0 \in S
  <2> DEFINE iter == [s \in SUBSET (1..0) |-> start]
  <2>1. \A s \in SUBSET (1..0) : s = {}
    OBVIOUS
  <2>2. Merges(pass, given, start, seq, 0, iter)
    BY <2>1 DEF Merges
  <2> QED BY <2>2
<1>2. ASSUME NEW n \in Nat, n \in S PROVE n + 1 \in S
  <2>1. PICK iter : Merges(pass, given, start, seq, n, iter)
    BY <1>2
  <2> DEFINE more == [s \in SUBSET (1..n + 1) |->
                         IF n + 1 \in s THEN Step(iter[s \ {n + 1}], seq[n + 1]) ELSE iter[s]]
             next == [s \in SUBSET (1..n + 1) |->
                         IF s = {} THEN start ELSE Step(more[s \ {Max(s)}], seq[Max(s)])]
  <2>2. ASSUME NEW s \in SUBSET (1..n + 1) PROVE more[s] = next[s]
    <3>1. CASE n + 1 \in s
      <4>1. Max(s) = n + 1
        BY <3>1, MaxOfFirst
      <4>2. s \ {n + 1} \in SUBSET (1..n + 1) /\ n + 1 \notin s \ {n + 1} /\ s # {}
        BY <3>1
      <4> HIDE DEF Step
      <4>3. more[s \ {n + 1}] = iter[s \ {n + 1}]
        BY <4>2
      <4>4. more[s] = Step(iter[s \ {n + 1}], seq[n + 1])
        BY <3>1
      <4>5. next[s] = Step(more[s \ {n + 1}], seq[n + 1])
        BY <4>1, <4>2
      <4> QED BY <4>3, <4>4, <4>5
    <3>2. CASE n + 1 \notin s
      <4>1. s \in SUBSET (1..n)
        BY <3>2
      <4>2. more[s] = iter[s]
        BY <3>2
      <4>3. iter[s] = IF s = {} THEN start ELSE Step(iter[s \ {Max(s)}], seq[Max(s)])
        BY <2>1, <4>1 DEF Merges
      <4>4. s \ {Max(s)} \in SUBSET (1..n + 1) /\ n + 1 \notin s \ {Max(s)}
        BY <3>2
      <4> HIDE DEF Step
      <4>5. more[s \ {Max(s)}] = iter[s \ {Max(s)}]
        BY <4>4
      <4>6. next[s] = IF s = {} THEN start ELSE Step(more[s \ {Max(s)}], seq[Max(s)])
        OBVIOUS
      <4> HIDE DEF more, next
      <4> QED BY <4>2, <4>3, <4>5, <4>6
    <3> QED BY <3>1, <3>2
  <2>3. more = next
    <3>1. more = [s \in SUBSET (1..n + 1) |-> more[s]] /\ next = [s \in SUBSET (1..n + 1) |-> next[s]]
      OBVIOUS
    <3> HIDE DEF more, next
    <3> QED BY <2>2, <3>1
  <2>4. Merges(pass, given, start, seq, n + 1, more)
    BY <2>3 DEF Merges
  <2> QED BY <2>4
<1>3. \A n \in Nat : n \in S
  <2> HIDE DEF S
  <2> QED BY <1>1, <1>2, Counting
<1> QED BY <1>3

\* The lists after each step of a pass.
PassGoesOn(pass, given, start, seq, n, last, sofar) ==
    /\ sofar[0] = start /\ sofar[n] = last
    /\ \A k \in 1..n : sofar[k] = MergeStep(pass, given, sofar[k - 1], seq[k])

\* Whatever a pass makes of a list, it makes step by step.
LEMMA MergeByStep ==
    ASSUME NEW pass, NEW given, NEW start, NEW seq, NEW n \in Nat, NEW iter,
           Merges(pass, given, start, seq, n, iter)
    PROVE  \E sofar : PassGoesOn(pass, given, start, seq, n, iter[1..n], sofar)
<1> DEFINE sofar == [k \in 0..n |-> iter[1..k]]
<1>1. sofar[0] = start
  <2>1. 1..0 = {} /\ {} \in SUBSET (1..n)
    OBVIOUS
  <2> QED BY <2>1 DEF Merges
<1>2. ASSUME NEW k \in 1..n
      PROVE  sofar[k] = MergeStep(pass, given, sofar[k - 1], seq[k])
  <2>1. 1..k \in SUBSET (1..n) /\ 1..k # {} /\ (1..k) \ {k} = 1..k - 1
    OBVIOUS
  <2>2. Max(1..k) = k
    <3>1. k - 1 \in Nat /\ (k - 1) + 1 = k /\ k \in 1..k
      OBVIOUS
    <3>2. 1..k \in SUBSET (1..(k - 1) + 1) /\ (k - 1) + 1 \in 1..k
      BY <3>1
    <3> HIDE DEF sofar
    <3> QED BY <3>1, <3>2, MaxOfFirst
  <2>3. iter[1..k] = MergeStep(pass, given, iter[(1..k) \ {k}], seq[k])
    BY <2>1, <2>2 DEF Merges
  <2>4. sofar[k] = iter[1..k] /\ sofar[k - 1] = iter[1..k - 1]
    OBVIOUS
  <2> QED BY <2>1, <2>3, <2>4
<1>3. sofar[n] = iter[1..n]
  OBVIOUS
<1>4. PassGoesOn(pass, given, start, seq, n, iter[1..n], sofar)
  BY <1>1, <1>2, <1>3 DEF PassGoesOn
<1> HIDE DEF sofar
<1> QED BY <1>4

\* The guests are kept one by one.
LEMMA KeptByStep ==
    ASSUME NEW guests, NEW remove, NEW n \in Nat, DOMAIN guests = 1..n
    PROVE  \E sofar :
               /\ sofar[0] = <<>> /\ sofar[n] = Kept(guests, remove)
               /\ \A k \in 1..n : sofar[k] = KeepGuest(sofar[k - 1], guests[k], Mailboxes(remove))
<1> DEFINE removed == Mailboxes(remove)
           Made(f) == f = [s \in SUBSET (1..n) |->
                              IF s = {} THEN <<>>
                              ELSE KeepGuest(f[s \ {Max(s)}], guests[Max(s)], removed)]
           iter == CHOOSE f : Made(f)
<1>1. \A f : Merges("keep", removed, <<>>, guests, n, f) <=> Made(f)
  BY DEF Merges, MergeStep
<1> HIDE DEF removed
<1>2. Made(iter)
  <2>1. \E f : Made(f)
    BY <1>1, MergeExists
  <2> HIDE DEF Made
  <2> QED BY <2>1
<1>3. Kept(guests, remove) = iter[1..n]
  BY DEF Kept, FoldLeft, MapThenFoldSet, removed
<1> HIDE DEF iter
<1> DEFINE nobody == <<>>
<1>4. Merges("keep", removed, nobody, guests, n, iter)
  BY <1>1, <1>2
<1> HIDE DEF nobody
<1>5. PICK sofar : PassGoesOn("keep", removed, nobody, guests, n, iter[1..n], sofar)
  BY <1>4, MergeByStep
<1> QED BY <1>3, <1>5 DEF PassGoesOn, MergeStep, removed, nobody

\* The second pass.
Added(guests, add) == FoldLeft(AddGuest, guests, add)

AddsUp(guests, add, n, sofar) ==
    /\ sofar[0] = guests
    /\ sofar[n] = Added(guests, add)
    /\ \A k \in 1..n : sofar[k] = AddGuest(sofar[k - 1], add[k])

\* The additions are made one by one.
LEMMA AddedByStep ==
    ASSUME NEW guests, NEW add, NEW n \in Nat, DOMAIN add = 1..n
    PROVE  \E sofar : AddsUp(guests, add, n, sofar)
<1> DEFINE Made(f) == f = [s \in SUBSET (1..n) |->
                              IF s = {} THEN guests ELSE AddGuest(f[s \ {Max(s)}], add[Max(s)])]
           iter == CHOOSE f : Made(f)
<1>1. \A f : Merges("add", {}, guests, add, n, f) <=> Made(f)
  BY DEF Merges, MergeStep
<1>2. Made(iter)
  <2>1. \E f : Made(f)
    BY <1>1, MergeExists
  <2> HIDE DEF Made
  <2> QED BY <2>1
<1>3. Added(guests, add) = iter[1..n]
  BY DEF Added, FoldLeft, MapThenFoldSet
<1> HIDE DEF iter
<1>4. Merges("add", {}, guests, add, n, iter)
  BY <1>1, <1>2
<1>5. PICK sofar : PassGoesOn("add", {}, guests, add, n, iter[1..n], sofar)
  BY <1>4, MergeByStep
<1> QED BY <1>3, <1>5 DEF PassGoesOn, MergeStep, AddsUp

\* What is wanted, one by one.
LEMMA WantedByStep ==
    ASSUME NEW list, NEW wanted, NEW n \in Nat, DOMAIN list = 1..n
    PROVE  \E sofar :
               /\ sofar[0] = <<>> /\ sofar[n] = Among(list, wanted)
               /\ \A k \in 1..n : sofar[k] = KeepWanted(sofar[k - 1], list[k], wanted)
<1> DEFINE Made(f) == f = [s \in SUBSET (1..n) |->
                              IF s = {} THEN <<>>
                              ELSE KeepWanted(f[s \ {Max(s)}], list[Max(s)], wanted)]
           iter == CHOOSE f : Made(f)
<1>1. \A f : Merges("wanted", wanted, <<>>, list, n, f) <=> Made(f)
  BY DEF Merges, MergeStep
<1>2. Made(iter)
  <2>1. \E f : Made(f)
    BY <1>1, MergeExists
  <2> HIDE DEF Made
  <2> QED BY <2>1
<1>3. Among(list, wanted) = iter[1..n]
  BY DEF Among, FoldLeft, MapThenFoldSet
<1> HIDE DEF iter
<1> DEFINE nothing == <<>>
<1>4. Merges("wanted", wanted, nothing, list, n, iter)
  BY <1>1, <1>2
<1> HIDE DEF nothing, Made
<1>5. PICK sofar : PassGoesOn("wanted", wanted, nothing, list, n, iter[1..n], sofar)
  BY <1>4, MergeByStep
<1> QED BY <1>3, <1>5 DEF PassGoesOn, MergeStep, nothing

\* The entries are sorted one by one.
LEMMA SortedByStep ==
    ASSUME NEW list, NEW n \in Nat, DOMAIN list = 1..n
    PROVE  \E sofar :
               /\ sofar[0] = <<>> /\ sofar[n] = Chronological(list)
               /\ \A k \in 1..n : sofar[k] = InsertChronologically(sofar[k - 1], list[k])
<1> DEFINE Made(f) == f = [s \in SUBSET (1..n) |->
                              IF s = {} THEN <<>>
                              ELSE InsertChronologically(f[s \ {Max(s)}], list[Max(s)])]
           iter == CHOOSE f : Made(f)
<1>1. \A f : Merges("insert", {}, <<>>, list, n, f) <=> Made(f)
  BY DEF Merges, MergeStep
<1>2. Made(iter)
  <2>1. \E f : Made(f)
    BY <1>1, MergeExists
  <2> HIDE DEF Made
  <2> QED BY <2>1
<1>3. Chronological(list) = iter[1..n]
  BY DEF Chronological, FoldLeft, MapThenFoldSet
<1> HIDE DEF iter
<1> DEFINE nothing == <<>>
<1>4. Merges("insert", {}, nothing, list, n, iter)
  BY <1>1, <1>2
<1> HIDE DEF nothing, Made
<1>5. PICK sofar : PassGoesOn("insert", {}, nothing, list, n, iter[1..n], sofar)
  BY <1>4, MergeByStep
<1> QED BY <1>3, <1>5 DEF PassGoesOn, MergeStep, nothing

\* Copies are left out one by one.
LEMMA DedupedByStep ==
    ASSUME NEW list, NEW n \in Nat, DOMAIN list = 1..n
    PROVE  \E sofar :
               /\ sofar[0] = <<>> /\ sofar[n] = Deduped(list)
               /\ \A k \in 1..n : sofar[k] = AddOccurrence(sofar[k - 1], list[k])
<1> DEFINE Made(f) == f = [s \in SUBSET (1..n) |->
                              IF s = {} THEN <<>>
                              ELSE AddOccurrence(f[s \ {Max(s)}], list[Max(s)])]
           iter == CHOOSE f : Made(f)
<1>1. \A f : Merges("dedupe", {}, <<>>, list, n, f) <=> Made(f)
  BY DEF Merges, MergeStep
<1>2. Made(iter)
  <2>1. \E f : Made(f)
    BY <1>1, MergeExists
  <2> HIDE DEF Made
  <2> QED BY <2>1
<1>3. Deduped(list) = iter[1..n]
  BY DEF Deduped, FoldLeft, MapThenFoldSet
<1> HIDE DEF iter
<1> DEFINE nothing == <<>>
<1>4. Merges("dedupe", {}, nothing, list, n, iter)
  BY <1>1, <1>2
<1> HIDE DEF nothing, Made
<1>5. PICK sofar : PassGoesOn("dedupe", {}, nothing, list, n, iter[1..n], sofar)
  BY <1>4, MergeByStep
<1> QED BY <1>3, <1>5 DEF PassGoesOn, MergeStep, nothing

\* Pages are joined one by one.
LEMMA JoinedByStep ==
    ASSUME NEW list, NEW n \in Nat, DOMAIN list = 1..n
    PROVE  \E sofar :
               /\ sofar[0] = <<>> /\ sofar[n] = Joined(list)
               /\ \A k \in 1..n : sofar[k] = sofar[k - 1] \o list[k]
<1> DEFINE Made(f) == f = [s \in SUBSET (1..n) |->
                              IF s = {} THEN <<>>
                              ELSE f[s \ {Max(s)}] \o list[Max(s)]]
           iter == CHOOSE f : Made(f)
<1>1. \A f : Merges("join", {}, <<>>, list, n, f) <=> Made(f)
  BY DEF Merges, MergeStep
<1>2. Made(iter)
  <2>1. \E f : Made(f)
    BY <1>1, MergeExists
  <2> HIDE DEF Made
  <2> QED BY <2>1
<1>3. Joined(list) = iter[1..n]
  BY DEF Joined, FoldLeft, MapThenFoldSet
<1> HIDE DEF iter
<1> DEFINE nothing == <<>>
<1>4. Merges("join", {}, nothing, list, n, iter)
  BY <1>1, <1>2
<1> HIDE DEF nothing, Made
<1>5. PICK sofar : PassGoesOn("join", {}, nothing, list, n, iter[1..n], sofar)
  BY <1>4, MergeByStep
<1> QED BY <1>3, <1>5 DEF PassGoesOn, MergeStep, nothing

\* Sizes are summed one by one.
LEMMA SummedByStep ==
    ASSUME NEW list, NEW n \in Nat, DOMAIN list = 1..n
    PROVE  \E sofar :
               /\ sofar[0] = 0 /\ sofar[n] = SumOf(list)
               /\ \A k \in 1..n : sofar[k] = sofar[k - 1] + list[k]
<1> DEFINE Made(f) == f = [s \in SUBSET (1..n) |->
                              IF s = {} THEN 0
                              ELSE f[s \ {Max(s)}] + list[Max(s)]]
           iter == CHOOSE f : Made(f)
<1>1. \A f : Merges("sum", {}, 0, list, n, f) <=> Made(f)
  BY DEF Merges, MergeStep
<1>2. Made(iter)
  <2>1. \E f : Made(f)
    BY <1>1, MergeExists
  <2> HIDE DEF Made
  <2> QED BY <2>1
<1>3. SumOf(list) = iter[1..n]
  BY DEF SumOf, FoldLeft, MapThenFoldSet
<1> HIDE DEF iter
<1> DEFINE nothing == 0
<1>4. Merges("sum", {}, nothing, list, n, iter)
  BY <1>1, <1>2
<1> HIDE DEF nothing, Made
<1>5. PICK sofar : PassGoesOn("sum", {}, nothing, list, n, iter[1..n], sofar)
  BY <1>4, MergeByStep
<1> QED BY <1>3, <1>5 DEF PassGoesOn, MergeStep, nothing

\* A list and one more.
LEMMA OneMore ==
    ASSUME NEW s, IsSequence(s), NEW x
    PROVE  LET t == Append(s, x)
           IN /\ IsSequence(t)
              /\ DOMAIN s = 1..Len(s) /\ DOMAIN t = 1..Len(s) + 1
              /\ Len(s) \in Nat
              /\ \A i \in DOMAIN s : t[i] = s[i]
              /\ t[Len(s) + 1] = x
<1> DEFINE S == {s[i] : i \in 1..Len(s)} \cup {x}
<1>1. s \in Seq(S) /\ x \in S /\ Len(s) \in Nat /\ DOMAIN s = 1..Len(s)
  <2>1. s \in [1..Len(s) -> S]
    BY DEF IsSequence
  <2> QED BY <2>1 DEF IsSequence
<1> HIDE DEF S
<1>2. /\ Append(s, x) \in Seq(S) /\ Len(Append(s, x)) = Len(s) + 1
      /\ \A i \in 1..Len(s) : Append(s, x)[i] = s[i]
      /\ Append(s, x)[Len(s) + 1] = x
  BY <1>1, AppendProperties
<1>3. DOMAIN Append(s, x) = 1..Len(s) + 1
  BY <1>2, LenProperties
<1> QED BY <1>1, <1>2, <1>3, SequenceOf

\* What is kept of the first guests: all of them but the removed, and none
\* that was not there or was there once only and is now there twice.
KeptWell(guests, removed, k, kept) ==
    /\ IsSequence(kept)
    /\ \A j \in DOMAIN kept : \E i \in 1..k : guests[i] = kept[j]
    /\ \A i \in 1..k : guests[i].email \in removed \/ \E j \in DOMAIN kept : kept[j] = guests[i]
    /\ \A email : Twice(kept, email) =>
           \E i, j \in 1..k : i # j /\ guests[i].email = email /\ guests[j].email = email

LEMMA KeepGuestWell ==
    ASSUME NEW guests, NEW removed, NEW k \in Nat, NEW kept, KeptWell(guests, removed, k, kept)
    PROVE  KeptWell(guests, removed, k + 1, KeepGuest(kept, guests[k + 1], removed))
<1> DEFINE guest == guests[k + 1]
           longer == Append(kept, guest)
<1>1. /\ \A i \in 1..k : i \in 1..k + 1
      /\ \A i \in 1..k + 1 : i \in 1..k \/ i = k + 1
      /\ k + 1 \in 1..k + 1 /\ k + 1 \notin 1..k
  OBVIOUS
<1>2. CASE guest.email \in removed
  <2>1. KeepGuest(kept, guest, removed) = kept
    BY <1>2 DEF KeepGuest
  <2> QED BY <1>1, <1>2, <2>1 DEF KeptWell
<1>3. CASE guest.email \notin removed
  <2>1. KeepGuest(kept, guest, removed) = longer
    BY <1>3 DEF KeepGuest
  <2>2. /\ IsSequence(longer)
        /\ \A i \in DOMAIN kept : i \in DOMAIN longer /\ longer[i] = kept[i]
        /\ \A i \in DOMAIN longer : i \in DOMAIN kept \/ longer[i] = guest
        /\ \E i \in DOMAIN longer : longer[i] = guest
        /\ \A i, j \in DOMAIN longer : i # j => i \in DOMAIN kept \/ j \in DOMAIN kept
    BY OneMore DEF KeptWell
  <2> HIDE DEF longer
  <2>3. \A j \in DOMAIN longer : \E i \in 1..k + 1 : guests[i] = longer[j]
    BY <1>1, <2>2 DEF KeptWell
  <2>4. ASSUME NEW i \in 1..k + 1
        PROVE  guests[i].email \in removed \/ \E j \in DOMAIN longer : longer[j] = guests[i]
    <3>1. CASE i = k + 1
      BY <2>2, <3>1
    <3>2. CASE i \in 1..k
      BY <2>2, <3>2 DEF KeptWell
    <3> QED BY <1>1, <3>1, <3>2
  <2>5. ASSUME NEW email, Twice(longer, email)
        PROVE  \E i, j \in 1..k + 1 : i # j /\ guests[i].email = email /\ guests[j].email = email
    <3>1. PICK a, b \in DOMAIN longer : a # b /\ longer[a].email = email /\ longer[b].email = email
      BY <2>5 DEF Twice
    <3>2. CASE a \in DOMAIN kept /\ b \in DOMAIN kept
      <4>1. Twice(kept, email)
        BY <2>2, <3>1, <3>2 DEF Twice
      <4> QED BY <1>1, <4>1 DEF KeptWell
    <3>3. ASSUME NEW c \in DOMAIN kept, longer[c].email = email, guest.email = email
          PROVE  \E i \in 1..k : guests[i].email = email
      BY <2>2, <3>3 DEF KeptWell
    <3>4. CASE a \in DOMAIN kept /\ b \notin DOMAIN kept
      BY <1>1, <2>2, <3>1, <3>3, <3>4
    <3>5. CASE b \in DOMAIN kept /\ a \notin DOMAIN kept
      BY <1>1, <2>2, <3>1, <3>3, <3>5
    <3> QED BY <2>2, <3>1, <3>2, <3>4, <3>5
  <2> QED BY <2>1, <2>2, <2>3, <2>4, <2>5 DEF KeptWell
<1> QED BY <1>2, <1>3

LEMMA AllKeptWell ==
    ASSUME NEW guests, IsSequence(guests), NEW remove
    PROVE  KeptWell(guests, Mailboxes(remove), Len(guests), Kept(guests, remove))
<1> DEFINE n == Len(guests)
           removed == Mailboxes(remove)
<1>1. n \in Nat /\ DOMAIN guests = 1..n
  BY DEF IsSequence
<1>2. PICK sofar :
          /\ sofar[0] = <<>> /\ sofar[n] = Kept(guests, remove)
          /\ \A k \in 1..n : sofar[k] = KeepGuest(sofar[k - 1], guests[k], removed)
  BY <1>1, KeptByStep
<1> HIDE DEF n, removed
<1> DEFINE S == {k \in Nat : k <= n => KeptWell(guests, removed, k, sofar[k])}
<1>3. 0 \in S
  <2>1. IsSequence(<<>>) /\ DOMAIN <<>> = {} /\ 1..0 = {}
    BY DEF IsSequence
  <2> QED BY <1>2, <2>1 DEF KeptWell, Twice
<1>4. ASSUME NEW k \in Nat, k \in S PROVE k + 1 \in S
  <2> SUFFICES ASSUME k + 1 <= n PROVE KeptWell(guests, removed, k + 1, sofar[k + 1])
    OBVIOUS
  <2>1. k <= n /\ k + 1 \in 1..n /\ (k + 1) - 1 = k
    BY <1>1
  <2>2. KeptWell(guests, removed, k, sofar[k])
    BY <1>4, <2>1
  <2>3. sofar[k + 1] = KeepGuest(sofar[k], guests[k + 1], removed)
    BY <1>2, <2>1
  <2> QED BY <2>2, <2>3, KeepGuestWell
<1> HIDE DEF S
<1>5. n \in S
  BY <1>1, <1>3, <1>4, Counting
<1> QED BY <1>1, <1>2, <1>5 DEF S, n, removed

\* What the additions make of a list: everybody on it stays, those added are
\* on it, and nobody gets on it twice.
AddedWell(guests, add, k, list) ==
    /\ IsSequence(list)
    /\ \A i \in DOMAIN guests : \E j \in DOMAIN list : list[j] = guests[i]
    /\ \A i \in 1..k : \E j \in DOMAIN list : list[j].email = add[i].box
    /\ \A email : Twice(list, email) => Twice(guests, email)

LEMMA AddGuestWell ==
    ASSUME NEW guests, NEW add, NEW k \in Nat, NEW list, AddedWell(guests, add, k, list)
    PROVE  AddedWell(guests, add, k + 1, AddGuest(list, add[k + 1]))
<1> DEFINE address == add[k + 1]
           guest == [email |-> address.box, said |-> "needsAction"]
           longer == Append(list, guest)
<1>1. \A i \in 1..k + 1 : i \in 1..k \/ i = k + 1
  OBVIOUS
<1>2. CASE \E i \in DOMAIN list : list[i].email = address.box
  <2>1. AddGuest(list, address) = list
    BY <1>2 DEF AddGuest
  <2> QED BY <1>1, <1>2, <2>1 DEF AddedWell
<1>3. CASE ~(\E i \in DOMAIN list : list[i].email = address.box)
  <2>1. AddGuest(list, address) = longer
    BY <1>3 DEF AddGuest
  <2>2. guest.email = address.box
    OBVIOUS
  <2> HIDE DEF guest
  <2>3. /\ IsSequence(longer)
        /\ \A i \in DOMAIN list : i \in DOMAIN longer /\ longer[i] = list[i]
        /\ \A i \in DOMAIN longer : i \in DOMAIN list \/ longer[i] = guest
        /\ \E i \in DOMAIN longer : longer[i] = guest
        /\ \A i, j \in DOMAIN longer : i # j => i \in DOMAIN list \/ j \in DOMAIN list
    BY OneMore DEF AddedWell
  <2> HIDE DEF longer
  <2>4. ASSUME NEW email, Twice(longer, email) PROVE Twice(guests, email)
    <3>1. PICK a, b \in DOMAIN longer : a # b /\ longer[a].email = email /\ longer[b].email = email
      BY <2>4 DEF Twice
    <3>2. a \in DOMAIN list /\ b \in DOMAIN list
      BY <1>3, <2>2, <2>3, <3>1
    <3>3. Twice(list, email)
      BY <2>3, <3>1, <3>2 DEF Twice
    <3> QED BY <3>3 DEF AddedWell
  <2>5. \A i \in DOMAIN guests : \E j \in DOMAIN longer : longer[j] = guests[i]
    BY <2>3 DEF AddedWell
  <2>6. \A i \in 1..k + 1 : \E j \in DOMAIN longer : longer[j].email = add[i].box
    BY <1>1, <2>2, <2>3 DEF AddedWell
  <2> QED BY <2>1, <2>3, <2>4, <2>5, <2>6 DEF AddedWell
<1> QED BY <1>2, <1>3

LEMMA AllAddedWell ==
    ASSUME NEW guests, IsSequence(guests), NEW add, IsSequence(add)
    PROVE  AddedWell(guests, add, Len(add), Added(guests, add))
<1> DEFINE n == Len(add)
<1>1. n \in Nat /\ DOMAIN add = 1..n
  BY DEF IsSequence
<1> HIDE DEF n
<1>2. PICK sofar : AddsUp(guests, add, n, sofar)
  BY <1>1, AddedByStep
<1> DEFINE S == {k \in Nat : k <= n => AddedWell(guests, add, k, sofar[k])}
<1>3. 0 \in S
  BY <1>2 DEF AddedWell, AddsUp
<1>4. ASSUME NEW k \in Nat, k \in S PROVE k + 1 \in S
  <2> SUFFICES ASSUME k + 1 <= n PROVE AddedWell(guests, add, k + 1, sofar[k + 1])
    OBVIOUS
  <2>1. k <= n /\ k + 1 \in 1..n /\ (k + 1) - 1 = k
    BY <1>1
  <2>2. AddedWell(guests, add, k, sofar[k])
    BY <1>4, <2>1
  <2>3. sofar[k + 1] = AddGuest(sofar[k], add[k + 1])
    BY <1>2, <2>1 DEF AddsUp
  <2> QED BY <2>2, <2>3, AddGuestWell
<1> HIDE DEF S
<1>5. n \in S
  BY <1>1, <1>3, <1>4, Counting
<1> QED BY <1>1, <1>2, <1>5 DEF S, n, AddsUp

\* What a change of the list of guests keeps and adds.
LEMMA Merged ==
    ASSUME NEW guests, IsSequence(guests), NEW add, IsSequence(add), NEW remove
    PROVE  LET merged == MergeAttendees(guests, add, remove)
           IN /\ IsSequence(merged)
              /\ \A i \in DOMAIN guests :
                     guests[i].email \in Mailboxes(remove) \/ \E j \in DOMAIN merged : merged[j] = guests[i]
              /\ Mailboxes(add) \subseteq Emails(merged)
              /\ \A email : Twice(merged, email) => Twice(guests, email)
              /\ add = <<>> => Emails(merged) \subseteq Emails(guests)
<1> DEFINE kept == Kept(guests, remove)
           merged == Added(kept, add)
           removed == Mailboxes(remove)
<1>1. MergeAttendees(guests, add, remove) = merged
  BY DEF MergeAttendees, Added
<1>2. KeptWell(guests, removed, Len(guests), kept)
  BY AllKeptWell
<1>3. IsSequence(kept)
  BY <1>2 DEF KeptWell
<1> HIDE DEF kept
<1>4. AddedWell(kept, add, Len(add), merged)
  BY <1>3, AllAddedWell
<1>5. add = <<>> => merged = kept
  <2>1. ASSUME DOMAIN add = 1..0 PROVE merged = kept
    BY <2>1, AddedByStep DEF AddsUp
  <2>2. add = <<>> => DOMAIN add = 1..0
    OBVIOUS
  <2> QED BY <2>1, <2>2
<1>6. DOMAIN guests = 1..Len(guests) /\ DOMAIN add = 1..Len(add)
  BY DEF IsSequence
<1> HIDE DEF merged, removed
<1>7. ASSUME NEW i \in DOMAIN guests
      PROVE  guests[i].email \in removed \/ \E j \in DOMAIN merged : merged[j] = guests[i]
  BY <1>2, <1>4, <1>6 DEF KeptWell, AddedWell
<1>8. Mailboxes(add) \subseteq Emails(merged)
  BY <1>4, <1>6 DEF AddedWell, Mailboxes, Emails
<1>9. ASSUME NEW email, Twice(merged, email) PROVE Twice(guests, email)
  <2>1. Twice(kept, email)
    BY <1>4, <1>9 DEF AddedWell
  <2> DEFINE first == 1..Len(guests)
  <2>2. first = DOMAIN guests
    BY <1>6
  <2>3. \E i, j \in first : i # j /\ guests[i].email = email /\ guests[j].email = email
    BY <1>2, <2>1, Zenon DEF KeptWell
  <2> HIDE DEF first
  <2> QED BY <2>2, <2>3 DEF Twice
<1>10. Emails(kept) \subseteq Emails(guests)
  BY <1>2, <1>6 DEF KeptWell, Emails
<1>11. IsSequence(merged)
  BY <1>4 DEF AddedWell
<1> QED BY <1>1, <1>5, <1>7, <1>8, <1>9, <1>10, <1>11 DEF removed

-----------------------------------------------------------------------------
(* The shape is kept.                                                      *)

\* How a call comes to its end.
LEMMA FinishShape ==
    ASSUME CallShape, NEW status, NEW error, NEW retryable, NEW result,
           Finish(status, error, retryable, result)
    PROVE  CallShape' /\ call'.since = call.since /\ call'.at = "done"
BY DEF CallShape, Finish

LEMMA EndingShape ==
    ASSUME CallShape
    PROVE  /\ \A error : Deny(error) => CallShape' /\ call'.since = call.since /\ call'.at = "done"
           /\ \A error : Fail(error) => CallShape' /\ call'.since = call.since /\ call'.at = "done"
           /\ \A result : Complete(result) =>
                 CallShape' /\ call'.since = call.since /\ call'.at = "done"
BY FinishShape DEF Deny, Fail, Complete

\* What the owner may make of an event is an event.
LEMMA OwnerEditsShape ==
    ASSUME NEW event, IsEvent(event), NEW edited \in OwnerEdits(event), edited # None
    PROVE  IsEvent(edited) /\ edited.cal = event.cal /\ edited.tagged = event.tagged
<1>1. CASE edited = [event EXCEPT !.start = @ + Day, !.end = @ + Day]
  <2>1. /\ DOMAIN edited = DOMAIN event
        /\ edited.cal = event.cal /\ edited.tagged = event.tagged
        /\ edited.allDay = event.allDay
        /\ edited.start = event.start + Day /\ edited.end = event.end + Day
    BY <1>1 DEF IsEvent
  <2>2. \A n \in Int : TimeOf(n) = 0 => TimeOf(n + Day) = 0
    BY SMTT(30) DEF TimeOf, Day
  <2> QED BY <2>1, <2>2 DEF IsEvent, SpanKept, SpanOf, Span, Day
<1>2. CASE edited # [event EXCEPT !.start = @ + Day, !.end = @ + Day]
  <2>1. /\ DOMAIN edited = DOMAIN event
        /\ edited.cal = event.cal /\ edited.tagged = event.tagged
        /\ edited.allDay = event.allDay
        /\ edited.start = event.start /\ edited.end = event.end
    BY <1>2 DEF OwnerEdits, IsEvent
  <2> QED BY <2>1 DEF IsEvent, SpanKept, SpanOf, Span
<1> QED BY <1>1, <1>2

-----------------------------------------------------------------------------
(* The times that reach a calendar (Layer 3, then the executor).           *)

\* What a request says of a field of its timing.
LEMMA TimingFieldsOf ==
    ASSUME NEW p, NEW allDay
    PROVE  LET t == TimingOf(p, allDay)
           IN /\ t.day_offset = Field(p, "day_offset")
              /\ t.start_time = Field(p, "start_time")
              /\ t.duration_minutes = Field(p, "duration_minutes")
              /\ t.end_day_offset = Field(p, "end_day_offset")
              /\ t.end_time = Field(p, "end_time")
              /\ t.all_day = allDay
BY DEF TimingOf

\* A valid number is a number, and so is not left out.
LEMMA ValidNumbers ==
    ASSUME NEW v
    PROVE  /\ ValidDayOffset(v) => v \in Int /\ v # None
           /\ ValidEndDayOffset(v) => v \in Int /\ v # None
           /\ ValidTimeOfDay(v) => v \in Int /\ v # None
           /\ ValidDuration(v) => v \in Int /\ v # None /\ TimedSpanOk(v)
BY NoneIsNoNumber DEF ValidDayOffset, ValidEndDayOffset, ValidTimeOfDay, ValidDuration,
                      TimedSpanOk, EventDurationMin, EventSpanMaxDays, Day

\* A decision to allow says that the parameters are valid.
LEMMA AllowedIfValid ==
    ASSUME NEW valid \in BOOLEAN, AllowedIf(valid).status = "allowed"
    PROVE  valid
BY DEF AllowedIf, Allowed, Denied, Decision

LEMMA CreateAllowed ==
    ASSUME NEW p, EvaluateCreateEvent(p).status = "allowed"
    PROVE  /\ ValidDayOffset(Field(p, "day_offset"))
           /\ NewEventTimingOk(p, FieldOr(p, "all_day", "false") = "true")
BY DEF EvaluateCreateEvent, AllowedIf, Allowed, Denied, Decision

LEMMA UpdateAllowed ==
    ASSUME NEW p, EvaluateUpdateEvent(p).status = "allowed"
    PROVE  /\ Has(p, "day_offset") => ValidDayOffset(p.day_offset)
           /\ Has(p, "start_time") => ValidTimeOfDay(p.start_time)
           /\ Has(p, "duration_minutes") => ValidDuration(p.duration_minutes)
           /\ Has(p, "end_day_offset") => ValidEndDayOffset(p.end_day_offset)
           /\ Has(p, "end_time") => ValidTimeOfDay(p.end_time)
BY DEF EvaluateUpdateEvent, AllowedIf, Allowed, Denied, Decision, Optional

\* The times of a new event that the policy allows and the executor makes
\* are times, and of a sound length.
LEMMA NewTimingKept ==
    ASSUME NEW p, EvaluateCreateEvent(p).status = "allowed", ~NewTimingDenied(NewTimingOf(p))
    PROVE  SpanKept(NewTiming(NewTimingOf(p))) /\ SpanSound(NewTiming(NewTimingOf(p)))
<1> DEFINE t == NewTimingOf(p)
           allDay == FieldOr(p, "all_day", "false") = "true"
<1>1. /\ t.day_offset = Field(p, "day_offset")
      /\ t.start_time = Field(p, "start_time")
      /\ t.duration_minutes = Field(p, "duration_minutes")
      /\ t.end_day_offset = Field(p, "end_day_offset")
      /\ t.end_time = Field(p, "end_time")
      /\ t.all_day = allDay
  BY TimingFieldsOf DEF NewTimingOf
<1>2. ~NewTimingDenied(t)
  OBVIOUS
<1>3. p.day_offset = t.day_offset /\ t.day_offset \in Int
  BY <1>1, CreateAllowed, ValidNumbers DEF Field
<1>4. NewEventTimingOk(p, allDay)
  BY CreateAllowed
<1> SUFFICES SpanKept(NewTiming(t)) /\ SpanSound(NewTiming(t))
  OBVIOUS
<1> allDay \in BOOLEAN
  OBVIOUS
<1> HIDE DEF t, allDay
<1>5. CASE allDay
  <2>1. /\ AllDaySpanOk(p.day_offset, FieldOr(p, "end_day_offset", p.day_offset))
        /\ ValidEndDayOffset(FieldOr(p, "end_day_offset", p.day_offset))
    BY <1>4, <1>5 DEF NewEventTimingOk
  <2>2. /\ t.end_day_offset \in IntOrNone
        /\ Given(t.end_day_offset, t.day_offset) = FieldOr(p, "end_day_offset", p.day_offset)
    BY <1>1, <1>3, <2>1, ValidNumbers DEF Field, FieldOr, IntOrNone, Given
  <2>3. t.all_day /\ t.all_day \in BOOLEAN
    BY <1>1, <1>5
  <2>4. AllDaySpanOk(t.day_offset, Given(t.end_day_offset, t.day_offset))
    BY <1>3, <2>1, <2>2
  <2>5. NewTiming(t) = ResolveAllDayRange(t.day_offset, Given(t.end_day_offset, t.day_offset))
    BY <2>3 DEF NewTiming, Given
  <2>6. Given(t.end_day_offset, t.day_offset) \in Int
    BY <1>3, <2>2 DEF Given, IntOrNone
  <2> QED BY <1>3, <2>4, <2>5, <2>6, AllDayRangeSound
<1>6. CASE ~allDay
  <2>1. t.start_time \in Int /\ t.start_time = p.start_time
    BY <1>1, <1>4, <1>6, ValidNumbers DEF NewEventTimingOk, Field
  <2>2. CASE Has(p, "duration_minutes")
    <3>1. /\ t.end_day_offset = None /\ t.end_time = None
          /\ t.duration_minutes \in Int /\ TimedSpanOk(t.duration_minutes)
      BY <1>1, <1>4, <1>6, <2>2, ValidNumbers DEF NewEventTimingOk, Has, Field
    <3>2. ~ByEnd(t)
      BY <3>1 DEF ByEnd
    <3> QED BY <1>1, <1>2, <1>3, <1>6, <2>1, <3>1, <3>2, NewTimingSound DEF IntOrNone
  <2>3. CASE ~Has(p, "duration_minutes")
    <3>1. t.duration_minutes = None
      BY <1>1, <2>3 DEF Field
    <3>2. /\ t.end_day_offset = p.end_day_offset /\ t.end_time = p.end_time
          /\ t.end_day_offset \in Int /\ t.end_time \in Int
          /\ TimedSpanOk(TimedSpanMinutes(t.day_offset, t.start_time, t.end_day_offset, t.end_time))
      BY <1>1, <1>3, <1>4, <1>6, <2>1, <2>3, ValidNumbers DEF NewEventTimingOk, Field
    <3> QED BY <1>1, <1>2, <1>3, <1>6, <2>1, <3>1, <3>2, NewTimingSound DEF IntOrNone, ByDuration
  <2> QED BY <2>2, <2>3
<1> QED BY <1>5, <1>6

\* The times of an update that the policy allows are numbers or left out.
LEMMA ChangedTimingTyped ==
    ASSUME NEW p, EvaluateUpdateEvent(p).status = "allowed"
    PROVE  TimingFields(ChangedTimingOf(p))
<1>1. \A allDay : LET t == TimingOf(p, allDay)
                  IN /\ t.day_offset = Field(p, "day_offset")
                     /\ t.start_time = Field(p, "start_time")
                     /\ t.duration_minutes = Field(p, "duration_minutes")
                     /\ t.end_day_offset = Field(p, "end_day_offset")
                     /\ t.end_time = Field(p, "end_time")
                     /\ t.all_day = allDay
  BY TimingFieldsOf
<1> DEFINE allDay == IF Has(p, "all_day") THEN p.all_day = "true" ELSE None
<1>2. allDay \in BOOLEAN \cup {None}
  BY ZenonT(30)
<1> HIDE DEF allDay
<1>3. TimingFields(TimingOf(p, allDay))
  BY <1>1, <1>2, UpdateAllowed, ValidNumbers DEF TimingFields, IntOrNone, Field
<1> QED BY <1>3 DEF ChangedTimingOf, allDay

\* Nothing is changed of the timing unless a field of it is there.
LEMMA UpdatedTimingKept ==
    ASSUME NEW p, EvaluateUpdateEvent(p).status = "allowed", NEW event, SpanKept(event),
           ~UpdatedTimingDenied(event, ChangedTimingOf(p))
    PROVE  LET t == ChangedTimingOf(p)
           IN /\ SpanKept(UpdatedTiming(event, t)) /\ SpanSound(UpdatedTiming(event, t))
              /\ (\A f \in {"duration_minutes", "end_day_offset", "all_day"} : t[f] = None) =>
                     UpdatedTiming(event, t).end - UpdatedTiming(event, t).start
                         = event.end - event.start
BY ChangedTimingTyped, UpdatedTimingSound, MoveKeepsLength

-----------------------------------------------------------------------------
(* The invariant.                                                          *)

LEMMA InvInit == Init => Inv
<1> SUFFICES ASSUME Init PROVE Inv
  OBVIOUS
<1>1. call.at = "idle" /\ CallShape /\ call.since = 0 /\ ownerSteps = 0
  BY DEF Init, NoCall, Call, CallShape
<1>2. EventsOK /\ FilesOK
  BY Workspaces DEF Init, EventsOK, FilesOK
<1> QED BY <1>1, <1>2 DEF Inv, Shape, CountersOK, StepsOfVerbs, CheckedParams, Running,
                          OwnTarget, CheckedFile

\* A step that ends the call.
LEMMA Ended ==
    ASSUME Inv, CallShape', call'.at = "done", call'.since = call.since,
           ownerSteps' = ownerSteps, EventsOK', FilesOK'
    PROVE  Inv'
BY DEF Inv, Shape, CountersOK, StepsOfVerbs, CheckedParams, Running, OwnTarget, CheckedFile

\* A step that ends the call, the workspace untouched.
LEMMA EndedUntouched ==
    ASSUME Inv, ownerSteps' = ownerSteps, events' = events, files' = files,
           \/ \E error : Deny(error) \/ Fail(error)
           \/ \E result : Complete(result)
    PROVE  Inv'
<1>1. CallShape' /\ call'.since = call.since /\ call'.at = "done"
  BY EndingShape DEF Inv, Shape
<1>2. EventsOK' /\ FilesOK'
  BY DEF Inv, Shape, EventsOK, FilesOK
<1> QED BY <1>1, <1>2, Ended

\* A call that goes on from one step to the next, the workspace untouched,
\* with its request as it was allowed.
LEMMA GoesOn ==
    ASSUME Inv, Running, ownerSteps' = ownerSteps, setup' = setup,
           events' = events, files' = files,
           CallShape', call'.verb = call.verb, call'.p = call.p,
           call'.since \in {call.since, ownerSteps},
           StepsOfVerbs', OwnTarget', CheckedFile'
    PROVE  Inv'
BY DEF Inv, Shape, CountersOK, EventsOK, FilesOK, CheckedParams, Running

\* The calendar's reads.
LEMMA ListingInv ==
    ASSUME Inv, ListCalendars \/ ListEvents, files' = files
    PROVE  Inv'
<1>1. CASE ListCalendars
  BY <1>1, EndedUntouched DEF ListCalendars
<1>2. CASE ListEvents
  <2>1. ASSUME NEW read, call' = [call EXCEPT !.seen = read] PROVE Inv'
    <3>1. /\ CallShape' /\ call'.verb = call.verb /\ call'.p = call.p /\ call'.at = call.at
          /\ call'.since = call.since /\ call.at = "start"
      BY <1>2, <2>1 DEF Inv, Shape, CallShape, ListEvents, Calling
    <3> QED BY <1>2, <3>1, GoesOn DEF ListEvents, Running, StepsOfVerbs, OwnTarget, CheckedFile
  <2> QED BY <1>2, <2>1, EndedUntouched DEF ListEvents
<1> QED BY <1>1, <1>2

\* A new event, up to its insertion, and the guard.
LEMMA CreationInv ==
    ASSUME Inv, StartCreate \/ GuardInvite, files' = files
    PROVE  Inv'
<1>1. CASE StartCreate
  <2>1. /\ CallShape' /\ call'.verb = call.verb /\ call'.p = call.p
        /\ call'.at \in {"invite_guard", "write"}
        /\ call'.since = call.since /\ call.at = "start" /\ call.verb = "calendar.create_event"
    BY <1>1 DEF Inv, Shape, CallShape, StartCreate, Calling
  <2> QED BY <1>1, <2>1, GoesOn DEF StartCreate, Running, StepsOfVerbs, OwnTarget, CheckedFile,
                                    ChangeVerbs, EditVerbs
<1>2. CASE GuardInvite
  <2>1. ASSUME call' = [call EXCEPT !.at = "write"] PROVE Inv'
    <3>1. /\ CallShape' /\ call'.verb = call.verb /\ call'.p = call.p /\ call'.at = "write"
          /\ call'.target = call.target /\ call'.seen = call.seen
          /\ call'.since = call.since /\ call.at = "invite_guard"
      BY <1>2, <2>1 DEF Inv, Shape, CallShape, GuardInvite
    <3>2. call.verb \in {"calendar.create_event", "calendar.update_event"}
      BY <3>1 DEF Inv, StepsOfVerbs
    <3>3. OwnTarget'
      BY <1>2, <3>1 DEF Inv, OwnTarget, GuardInvite, TargetId
    <3> QED BY <1>2, <3>1, <3>2, <3>3, GoesOn DEF GuardInvite, Running, StepsOfVerbs, CheckedFile,
                                                 EditVerbs
  <2> QED BY <1>2, <2>1, EndedUntouched DEF GuardInvite
<1> QED BY <1>1, <1>2

\* A calendar that is resolved for writing may be written to.
LEMMA ResolvedUsable ==
    ASSUME NEW id, ResolveCalendar(id, WriteRoles) # None
    PROVE  Usable(ResolveCalendar(id, WriteRoles), WriteRoles) # {}
<1>1. (CHOOSE c \in PrimaryIds : TRUE) \in PrimaryIds
  BY PrimaryIsOwned
<1> QED BY <1>1, PrimaryIsOwned DEF ResolveCalendar

\* The event that is read for a change is the gatekeeper's.
LEMMA ReadingInv ==
    ASSUME Inv, GetOwnEvent, files' = files
    PROVE  Inv'
<1> DEFINE cal == ResolveCalendar(Requested(call.p), WriteRoles)
           event == Existing(cal)
<1>1. ASSUME NEW at \in {"invite_guard", "write"}, cal # None, event # None, event.tagged,
             at = "invite_guard" => call.verb = "calendar.update_event",
             call' = [call EXCEPT !.at = at, !.target = cal, !.seen = event, !.since = ownerSteps]
      PROVE  Inv'
  <2>1. /\ CallShape' /\ call'.verb = call.verb /\ call'.p = call.p /\ call'.at = at
        /\ call'.target = cal /\ call'.seen = event
        /\ call'.since = ownerSteps /\ call.at = "start"
    BY <1>1 DEF Inv, Shape, CallShape, GetOwnEvent
  <2>2. Usable(cal, WriteRoles) # {}
    BY <1>1, ResolvedUsable
  <2>3. TargetId \in EventId /\ events[TargetId] = event /\ events[TargetId] # None
    BY <1>1 DEF Existing
  <2>4. SpanKept(SpanOf(event))
    BY <2>3 DEF Inv, Shape, EventsOK, IsEvent
  <2> HIDE DEF cal, event
  <2>5. TargetId' = TargetId /\ events' = events
    BY <2>1 DEF TargetId, GetOwnEvent
  <2>6. OwnTarget'
    BY <1>1, <2>1, <2>2, <2>3, <2>4, <2>5 DEF OwnTarget
  <2>7. StepsOfVerbs' /\ CheckedFile'
    BY <1>1, <2>1 DEF GetOwnEvent, StepsOfVerbs, CheckedFile, EditVerbs
  <2> QED BY <2>1, <2>6, <2>7, GoesOn DEF GetOwnEvent, Running
<1>2. \/ \E error : Deny(error) \/ Fail(error)
      \/ /\ cal # None /\ event # None /\ event.tagged
         /\ \E at \in {"invite_guard", "write"} :
               /\ at = "invite_guard" => call.verb = "calendar.update_event"
               /\ call' = [call EXCEPT !.at = at, !.target = cal, !.seen = event,
                                       !.since = ownerSteps]
  <2>1. CASE cal = None
    BY <2>1 DEF GetOwnEvent
  <2>2. CASE event = None
    BY <2>2 DEF GetOwnEvent
  <2>3. CASE cal # None /\ event # None
    BY <2>3 DEF GetOwnEvent
  <2> QED BY <2>1, <2>2, <2>3
<1> HIDE DEF cal, event
<1> QED BY <1>1, <1>2, EndedUntouched DEF GetOwnEvent

\* An inserted event is one: tagged, and of a sound length.
LEMMA InsertionKept ==
    ASSUME Inv, InsertEvent, NEW e \in EventId, events'[e] # events[e]
    PROVE  events[e] = None /\ IsEvent(events'[e]) /\ SpanSound(SpanOf(events'[e]))
<1>1. DOMAIN events = EventId /\ call.at = "write" /\ call.verb = "calendar.create_event"
  BY DEF Inv, Shape, EventsOK, InsertEvent, Calling
<1>2. EvaluateCreateEvent(call.p).status = "allowed"
  BY <1>1 DEF Inv, CheckedParams, Running
<1> DEFINE cal == ResolveCalendar(Requested(call.p), WriteRoles)
<1>3. PICK x \in EventId : /\ ~NewTimingDenied(NewTimingOf(call.p))
                           /\ events[x] = None
                           /\ events' = [events EXCEPT ![x] = NewEvent(call.p, cal, x)]
  BY DEF InsertEvent
<1>4. x = e
  BY <1>1, <1>3
<1>5. events[e] = None /\ events'[e] = NewEvent(call.p, cal, e)
  BY <1>1, <1>3, <1>4
<1> HIDE DEF cal
<1>6. SpanKept(NewTiming(NewTimingOf(call.p))) /\ SpanSound(NewTiming(NewTimingOf(call.p)))
  BY <1>2, <1>3, NewTimingKept
<1> DEFINE new == NewEvent(call.p, cal, e)
           span == NewTiming(NewTimingOf(call.p))
<1>7. /\ DOMAIN new = {"cal", "uid", "tagged", "allDay", "start", "end", "guests",
                       "title", "location", "description"}
      /\ new.allDay = span.allDay /\ new.start = span.start /\ new.end = span.end
  BY DEF NewEvent
<1> HIDE DEF new, span
<1>8. SpanKept(SpanOf(new)) /\ SpanSound(SpanOf(new))
  BY <1>6, <1>7 DEF SpanKept, SpanSound, SpanOf, Span, span
<1> QED BY <1>5, <1>7, <1>8 DEF IsEvent, new

LEMMA InsertionInv ==
    ASSUME Inv, InsertEvent, files' = files
    PROVE  Inv'
<1>1. CASE events' = events
  BY <1>1, EndedUntouched DEF InsertEvent
<1>2. CASE events' # events
  <2>1. DOMAIN events' = EventId
    BY <1>2 DEF Inv, Shape, EventsOK, InsertEvent
  <2>2. EventsOK'
    BY <2>1, InsertionKept DEF Inv, Shape, EventsOK
  <2>3. CallShape' /\ call'.since = call.since /\ call'.at = "done"
    BY EndingShape DEF InsertEvent, Inv, Shape
  <2>4. FilesOK'
    BY DEF Inv, Shape, FilesOK
  <2> QED BY <2>2, <2>3, <2>4, Ended DEF InsertEvent
<1> QED BY <1>1, <1>2

\* What a patch leaves of an event, and what it makes of its times.
LEMMA PatchedIs ==
    ASSUME NEW event, IsEvent(event), NEW seen, SpanKept(SpanOf(seen)),
           NEW p, EvaluateUpdateEvent(p).status = "allowed",
           ChangesTiming(ChangedTimingOf(p)) =>
               ~UpdatedTimingDenied(SpanOf(seen), ChangedTimingOf(p))
    PROVE  LET new == Patched(event, seen, p)
               t == ChangedTimingOf(p)
           IN /\ IsEvent(new)
              /\ new.cal = event.cal /\ new.tagged = event.tagged
              /\ Has(p, "title") \/ new.title = event.title
              /\ Has(p, "location") \/ new.location = event.location
              /\ Has(p, "description") \/ new.description = event.description
              /\ ChangesGuests(p) \/ new.guests = event.guests
              /\ ~ChangesTiming(t) => SpanOf(new) = SpanOf(event)
              /\ ChangesTiming(t) => /\ SpanSound(SpanOf(new))
                                     /\ new.start = UpdatedTiming(SpanOf(seen), t).start
                                     /\ new.end = UpdatedTiming(SpanOf(seen), t).end
<1> DEFINE new == Patched(event, seen, p)
           t == ChangedTimingOf(p)
           timing == IF ChangesTiming(t) THEN UpdatedTiming(SpanOf(seen), t) ELSE SpanOf(event)
<1> DEFINE title == PatchedText(event.title, p, "title")
           location == PatchedText(event.location, p, "location")
           description == PatchedText(event.description, p, "description")
           guests == IF ChangesGuests(p) THEN ResultingGuests(seen, p) ELSE event.guests
<1>1. new = [event EXCEPT !.title = title, !.location = location, !.description = description,
                          !.guests = guests,
                          !.allDay = timing.allDay, !.start = timing.start, !.end = timing.end]
  BY DEF Patched
<1>2. /\ DOMAIN new = DOMAIN event
      /\ new.cal = event.cal /\ new.tagged = event.tagged
      /\ new.title = title
      /\ new.location = location
      /\ new.description = description
      /\ new.guests = guests
      /\ new.allDay = timing.allDay /\ new.start = timing.start /\ new.end = timing.end
  <2> HIDE DEF new, title, location, description, guests, timing
  <2>1. DOMAIN new = DOMAIN event
    BY <1>1
  <2> QED BY <1>1, <2>1 DEF IsEvent
<1>3. ChangesTiming(t) => SpanKept(timing) /\ SpanSound(timing)
  BY UpdatedTimingKept
<1>4. ~ChangesTiming(t) => timing = SpanOf(event) /\ SpanKept(timing)
  BY DEF IsEvent
<1> HIDE DEF new
<1>5. /\ SpanOf(new).allDay = timing.allDay
      /\ SpanOf(new).start = timing.start
      /\ SpanOf(new).end = timing.end
  BY <1>2 DEF SpanOf, Span
<1>6. ~ChangesTiming(t) => SpanOf(new) = SpanOf(event)
  BY <1>2, <1>4 DEF SpanOf, Span
<1> HIDE DEF timing
<1>7. SpanKept(SpanOf(new)) /\ (ChangesTiming(t) => SpanSound(SpanOf(new)))
  BY <1>3, <1>4, <1>5 DEF SpanKept, SpanSound
<1>8. IsEvent(new)
  BY <1>2, <1>7 DEF IsEvent
<1>9. ChangesTiming(t) => timing = UpdatedTiming(SpanOf(seen), t)
  BY DEF timing
<1> HIDE DEF t
<1> QED BY <1>2, <1>6, <1>7, <1>8, <1>9 DEF PatchedText, new, t

\* The event a patch changes, and what it was when it was read.
LEMMA PatchMade ==
    ASSUME Inv, PatchEvent, NEW e \in EventId, events'[e] # events[e]
    PROVE  /\ events[e] # None /\ IsEvent(events[e]) /\ events[e].tagged
           /\ events[e].cal = call.target /\ Usable(call.target, WriteRoles) # {}
           /\ events'[e] = Patched(events[e], call.seen, call.p)
           /\ SpanKept(SpanOf(call.seen))
           /\ EvaluateUpdateEvent(call.p).status = "allowed"
           /\ ChangesTiming(ChangedTimingOf(call.p)) =>
                  ~UpdatedTimingDenied(SpanOf(call.seen), ChangedTimingOf(call.p))
<1>1. /\ DOMAIN events = EventId /\ call.at = "write" /\ call.verb = "calendar.update_event"
      /\ call.verb \in ChangeVerbs
  BY DEF Inv, Shape, EventsOK, PatchEvent, Calling, ChangeVerbs
<1> DEFINE event == Existing(call.target)
<1>2. /\ event # None
      /\ events' = [events EXCEPT ![TargetId] = Patched(event, call.seen, call.p)]
      /\ ChangesTiming(ChangedTimingOf(call.p)) =>
             ~UpdatedTimingDenied(SpanOf(call.seen), ChangedTimingOf(call.p))
  BY DEF PatchEvent
<1>3. TargetId = e /\ event = events[e] /\ events[e] # None /\ events[e].cal = call.target
  BY <1>1, <1>2 DEF Existing
<1>4. events'[e] = Patched(events[e], call.seen, call.p)
  BY <1>1, <1>2, <1>3
<1> QED BY <1>1, <1>2, <1>3, <1>4 DEF Inv, OwnTarget, CheckedParams, Running, Shape, EventsOK

\* The changes of an event.
LEMMA ChangingInv ==
    ASSUME Inv, PatchEvent \/ DeleteEvent, files' = files
    PROVE  Inv'
<1>1. CASE events' = events
  <2>1. CASE PatchEvent
    BY <1>1, <2>1, EndedUntouched DEF PatchEvent
  <2>2. CASE DeleteEvent
    BY <1>1, <2>2, EndedUntouched DEF DeleteEvent
  <2> QED BY <2>1, <2>2
<1>2. CASE events' # events
  <2>1. DOMAIN events' = EventId
    BY <1>2 DEF Inv, Shape, EventsOK, PatchEvent, DeleteEvent
  <2>2. ASSUME NEW e \in EventId, events'[e] # None PROVE IsEvent(events'[e])
    <3>1. CASE events'[e] = events[e]
      BY <2>2, <3>1 DEF Inv, Shape, EventsOK
    <3>2. CASE events'[e] # events[e] /\ PatchEvent
      BY <3>2, PatchMade, PatchedIs
    <3>3. CASE events'[e] # events[e] /\ DeleteEvent
      BY <2>2, <3>3 DEF DeleteEvent, Inv, Shape, EventsOK
    <3> QED BY <3>1, <3>2, <3>3
  <2>3. CallShape' /\ call'.since = call.since /\ call'.at = "done"
    BY <1>2, EndingShape DEF PatchEvent, DeleteEvent, Inv, Shape
  <2>4. EventsOK' /\ FilesOK'
    BY <2>1, <2>2 DEF Inv, Shape, EventsOK, FilesOK
  <2> QED BY <2>3, <2>4, Ended DEF PatchEvent, DeleteEvent
<1> QED BY <1>1, <1>2

\* The steps of the calendar verbs.
LEMMA CalendarInv ==
    ASSUME Inv, CalendarStep, files' = files
    PROVE  Inv'
BY ListingInv, CreationInv, ReadingInv, InsertionInv, ChangingInv DEF CalendarStep

\* A new file, and the way to the file that is to be edited.
LEMMA FileFoundInv ==
    ASSUME Inv, ResolveFolder \/ ResolveFileId \/ GuardEdit, events' = events
    PROVE  Inv'
<1>1. ASSUME NEW at \in {"write", "read"}, NEW target,
             \/ at = "write" /\ call.verb = "drive.create_file"
             \/ at = "read" /\ call.verb \in EditVerbs,
             call.at = "start", call' = [call EXCEPT !.at = at, !.target = target],
             ownerSteps' = ownerSteps, setup' = setup, files' = files
      PROVE  Inv'
  <2>1. /\ CallShape' /\ call'.verb = call.verb /\ call'.p = call.p /\ call'.at = at
        /\ call'.since = call.since
    BY <1>1 DEF Inv, Shape, CallShape
  <2>2. StepsOfVerbs' /\ OwnTarget' /\ CheckedFile'
    BY <1>1, <2>1 DEF StepsOfVerbs, OwnTarget, CheckedFile, EditVerbs, ChangeVerbs
  <2> QED BY <1>1, <2>1, <2>2, GoesOn DEF Running
<1>2. CASE ResolveFolder
  BY <1>1, <1>2 DEF ResolveFolder, Calling
<1>3. CASE ResolveFileId
  <2>1. \/ \E error : Deny(error)
        \/ \E target : call' = [call EXCEPT !.at = "read", !.target = target]
    BY <1>3 DEF ResolveFileId
  <2> QED BY <1>1, <1>3, <2>1, EndedUntouched DEF ResolveFileId
<1>4. CASE GuardEdit
  <2>1. ASSUME call' = [call EXCEPT !.at = "write"] PROVE Inv'
    <3>1. /\ CallShape' /\ call'.verb = call.verb /\ call'.p = call.p /\ call'.at = "write"
          /\ call'.target = call.target /\ call'.seen = call.seen
          /\ call'.since = call.since /\ call.at = "edit_guard"
          /\ call.verb \in EditVerbs
      BY <1>4, <2>1 DEF Inv, Shape, CallShape, GuardEdit, StepsOfVerbs
    <3>2. CheckedFile'
      BY <1>4, <3>1 DEF Inv, CheckedFile, GuardEdit, Undisturbed
    <3>3. StepsOfVerbs' /\ OwnTarget'
      BY <3>1 DEF StepsOfVerbs, OwnTarget, EditVerbs, ChangeVerbs
    <3> QED BY <1>4, <3>1, <3>2, <3>3, GoesOn DEF GuardEdit, Running
  <2> QED BY <1>4, <2>1, EndedUntouched DEF GuardEdit
<1> QED BY <1>2, <1>3, <1>4

\* The file that is read for an edit is a plain one in the folder.
LEMMA FileReadInv ==
    ASSUME Inv, ReadFile, events' = events
    PROVE  Inv'
<1>1. ASSUME NEW file, file = File(call.target), file # None, file.plain,
             file.folder = setup.folder,
             call' = [call EXCEPT !.at = "edit_guard", !.seen = file, !.since = ownerSteps]
      PROVE  Inv'
  <2>1. /\ CallShape' /\ call'.verb = call.verb /\ call'.p = call.p /\ call'.at = "edit_guard"
        /\ call'.target = call.target /\ call'.seen = file
        /\ call'.since = ownerSteps /\ call.at = "read"
        /\ call.verb \in EditVerbs
    BY <1>1 DEF Inv, Shape, CallShape, ReadFile, StepsOfVerbs
  <2>2. StepsOfVerbs' /\ OwnTarget'
    BY <2>1 DEF StepsOfVerbs, OwnTarget, EditVerbs, ChangeVerbs
  <2>3. call.target \in FileId /\ files[call.target] = file /\ IsFile(file)
    BY <1>1 DEF File, Inv, Shape, FilesOK
  <2>4. CheckedFile'
    BY <1>1, <2>1, <2>3 DEF ReadFile, CheckedFile
  <2> QED BY <2>1, <2>2, <2>4, GoesOn DEF ReadFile, Running
<1> QED BY <1>1, EndedUntouched DEF ReadFile

\* The writes of files.
LEMMA FileWrittenInv ==
    ASSUME Inv, CreateFile \/ WriteFile, events' = events
    PROVE  Inv'
<1>1. CASE files' = files
  <2>1. CASE CreateFile
    BY <1>1, <2>1, EndedUntouched DEF CreateFile
  <2>2. CASE WriteFile
    BY <1>1, <2>2, EndedUntouched DEF WriteFile
  <2> QED BY <2>1, <2>2
<1>2. CASE files' # files
  <2>1. CallShape' /\ call'.since = call.since /\ call'.at = "done"
    BY <1>2, EndingShape DEF CreateFile, WriteFile, Inv, Shape
  <2>2. \E id \in FileId : \E file : IsFile(file) /\ files' = [files EXCEPT ![id] = file]
    <3>1. CASE CreateFile
      <4>1. PICK id \in FileId :
                files' = [files EXCEPT ![id] =
                             [name |-> call.p.name, folder |-> call.target, plain |-> TRUE,
                              content |-> Pieces(call.p.content)]]
        BY <3>1 DEF CreateFile
      <4>2. IsFile([name |-> call.p.name, folder |-> call.target, plain |-> TRUE,
                    content |-> Pieces(call.p.content)])
        BY PiecesSequence DEF IsFile
      <4> QED BY <4>1, <4>2
    <3>2. CASE WriteFile
      <4> DEFINE new == IF call.verb = "drive.append_file"
                        THEN Appended(call.seen.content, call.p.content)
                        ELSE Pieces(call.p.content)
      <4>1. /\ call.target \in FileId /\ files[call.target] # None
            /\ files' = [files EXCEPT ![call.target] = [files[call.target] EXCEPT !.content = new]]
        BY <1>2, <3>2 DEF WriteFile, File
      <4>2. IsFile(files[call.target])
        BY <4>1 DEF Inv, Shape, FilesOK
      <4>3. IsSequence(call.seen.content)
        BY <3>2 DEF WriteFile, Inv, CheckedFile, IsFile
      <4>4. IsSequence(new)
        BY <4>3, AppendedKeeps, PiecesSequence
      <4> HIDE DEF new
      <4>5. IsFile([files[call.target] EXCEPT !.content = new])
        BY <4>2, <4>4 DEF IsFile
      <4> QED BY <4>1, <4>5
    <3> QED BY <3>1, <3>2
  <2>3. FilesOK'
    BY <2>2 DEF Inv, Shape, FilesOK
  <2>4. EventsOK'
    BY DEF Inv, Shape, EventsOK
  <2> QED BY <2>1, <2>3, <2>4, Ended DEF CreateFile, WriteFile
<1> QED BY <1>1, <1>2

\* The steps of the Drive verbs.
LEMMA DriveInv ==
    ASSUME Inv, DriveStep, events' = events
    PROVE  Inv'
BY FileFoundInv, FileReadInv, FileWrittenInv DEF DriveStep

\* The steps of the Gmail verbs.
LEMMA GmailInv ==
    ASSUME Inv, GmailStep, events' = events, files' = files
    PROVE  Inv'
<1>1. ASSUME NEW at \in {"metadata", "write"},
             call.at = "start", call.verb \in {"gmail.search", "gmail.create_draft"},
             CallShape', call'.at = at, call'.verb = call.verb, call'.p = call.p,
             call'.since \in {call.since, ownerSteps},
             ownerSteps' = ownerSteps, setup' = setup
      PROVE  Inv'
  <2>1. StepsOfVerbs' /\ OwnTarget' /\ CheckedFile'
    BY <1>1 DEF StepsOfVerbs, OwnTarget, CheckedFile, EditVerbs, ChangeVerbs
  <2> QED BY <1>1, <2>1, GoesOn DEF Running
<1>2. CASE SearchIds
  <2>1. /\ CallShape' /\ call'.at = "metadata" /\ call'.verb = call.verb /\ call'.p = call.p
        /\ call'.since = call.since
    BY <1>2 DEF SearchIds, Inv, Shape, CallShape
  <2> QED BY <1>1, <1>2, <2>1 DEF SearchIds, Calling
<1>3. CASE FetchMetadata
  BY <1>3, EndedUntouched DEF FetchMetadata
<1>4. CASE ReplyHeaders
  <2>1. ASSUME NEW seen, call' = [call EXCEPT !.at = "write", !.seen = seen, !.since = ownerSteps]
        PROVE  Inv'
    <3>1. /\ CallShape' /\ call'.at = "write" /\ call'.verb = call.verb /\ call'.p = call.p
          /\ call'.since = ownerSteps
      BY <2>1 DEF Inv, Shape, CallShape
    <3> QED BY <1>1, <1>4, <3>1 DEF ReplyHeaders, Calling
  <2> QED BY <1>4, <2>1, EndedUntouched DEF ReplyHeaders
<1>5. CASE CreateDraft
  BY <1>5, EndedUntouched DEF CreateDraft
<1> QED BY <1>2, <1>3, <1>4, <1>5 DEF GmailStep

\* A request that is decided to run is one that the policy allows, and runs
\* with the parameters that the policy has seen.
LEMMA AllowedKnown ==
    ASSUME NEW verb, NEW p, NEW score, Decide(verb, p, score).status = "allowed"
    PROVE  LET known == KnownParams(verb, p)
           IN /\ verb = "calendar.create_event" => EvaluateCreateEvent(known).status = "allowed"
              /\ verb = "calendar.update_event" => EvaluateUpdateEvent(known).status = "allowed"
              /\ verb \in EditVerbs => EvaluateFileWrite(verb, known).status = "allowed"
<1> DEFINE known == KnownParams(verb, p)
<1>1. EvaluatePolicy(verb, p).status = "allowed"
  BY DEF Decide, ApplyExtraParamsGate, ApplyScreenGate, Denied, Decision
<1>2. EvaluateKnownParams(verb, known).status = "allowed"
  BY <1>1 DEF EvaluatePolicy, Denied, Decision
<1> HIDE DEF known
<1>3. verb = "calendar.create_event" => EvaluateKnownParams(verb, known) = EvaluateCreateEvent(known)
  BY DEF EvaluateKnownParams
<1>4. verb = "calendar.update_event" => EvaluateKnownParams(verb, known) = EvaluateUpdateEvent(known)
  BY DEF EvaluateKnownParams
<1>5. verb \in EditVerbs => EvaluateKnownParams(verb, known) = EvaluateFileWrite(verb, known)
  BY DEF EvaluateKnownParams, EditVerbs
<1> QED BY <1>2, <1>3, <1>4, <1>5 DEF known

\* A call begins, or is over.
LEMMA BeginEndInv ==
    ASSUME Inv, Begin \/ End
    PROVE  Inv'
<1>1. ownerSteps' = ownerSteps /\ setup' = setup /\ EventsOK' /\ FilesOK'
  BY DEF Inv, Shape, EventsOK, FilesOK, Begin, End, workspaceVars
<1>2. ASSUME CallShape', CountersOK', call'.at = "idle" PROVE Inv'
  BY <1>1, <1>2 DEF Inv, Shape, StepsOfVerbs, CheckedParams, Running, OwnTarget, CheckedFile
<1>3. CASE End
  <2>1. CallShape' /\ CountersOK' /\ call'.at = "idle"
    BY <1>1, <1>3 DEF End, NoCall, Call, CallShape, CountersOK, Inv, Shape
  <2> QED BY <1>2, <2>1
<1>4. CASE Begin /\ call' = call
  <2>1. CallShape' /\ CountersOK' /\ call'.at = "idle"
    BY <1>1, <1>4 DEF Begin, CallShape, CountersOK, Inv, Shape
  <2> QED BY <1>2, <2>1
<1>5. CASE Begin /\ call' # call
  <2> DEFINE item == Items[Len(outcomes) + 1]
             p == KnownParams(item.verb, item.params)
  <2>1. /\ DecisionOf(item).status = "allowed"
        /\ call' = Call("start", item.request_id, item.verb, p)
    BY <1>5 DEF Begin
  <2>2. Decide(item.verb, item.params, screen.score).status = "allowed"
    BY <2>1 DEF DecisionOf, Denied, Decision
  <2>3. /\ item.verb = "calendar.create_event" => EvaluateCreateEvent(p).status = "allowed"
        /\ item.verb = "calendar.update_event" => EvaluateUpdateEvent(p).status = "allowed"
        /\ item.verb \in EditVerbs => EvaluateFileWrite(item.verb, p).status = "allowed"
    BY <2>2, AllowedKnown
  <2> HIDE DEF item, p
  <2>4. /\ CallShape' /\ call'.at = "start" /\ call'.verb = item.verb /\ call'.p = p
        /\ call'.since = ownerSteps
    BY <2>1 DEF Call, CallShape
  <2> QED BY <1>1, <2>3, <2>4 DEF Inv, Shape, CountersOK, StepsOfVerbs, CheckedParams, OwnTarget,
                                  CheckedFile
<1> QED BY <1>3, <1>4, <1>5

\* What the owner does: it is noticed as a change since the last read.
LEMMA OwnerActsInv ==
    ASSUME Inv, OwnerActs, EventsOK', FilesOK',
           \A e \in EventId : events'[e] # None =>
               events[e] # None /\ events'[e].tagged = events[e].tagged
    PROVE  Inv'
<1>1. CallShape' /\ CountersOK' /\ ~Undisturbed'
  BY DEF Inv, Shape, CallShape, CountersOK, OwnerActs, Undisturbed
<1>2. StepsOfVerbs' /\ CheckedParams' /\ OwnTarget'
  BY DEF Inv, StepsOfVerbs, CheckedParams, Running, OwnTarget, OwnerActs, TargetId
<1>3. CheckedFile'
  BY <1>1 DEF Inv, CheckedFile, OwnerActs
<1> QED BY <1>1, <1>2, <1>3 DEF Inv, Shape

\* The owner's steps.
LEMMA OwnerInv ==
    ASSUME Inv, Owner
    PROVE  Inv'
<1>1. EventsOK /\ FilesOK
  BY DEF Inv, Shape
<1>2. CASE OwnerChangesEvent /\ files' = files
  <2>1. PICK e \in EventId : \E edited \in OwnerEdits(events[e]) :
            events[e] # None /\ events' = [events EXCEPT ![e] = edited]
    BY <1>2 DEF OwnerChangesEvent
  <2> PICK edited \in OwnerEdits(events[e]) :
            events[e] # None /\ events' = [events EXCEPT ![e] = edited]
    BY <2>1
  <2>2. edited # None => IsEvent(edited) /\ edited.tagged = events[e].tagged
    BY <1>1, <2>1, OwnerEditsShape DEF EventsOK
  <2>3. EventsOK' /\ FilesOK'
    BY <1>1, <1>2, <2>1, <2>2 DEF EventsOK, FilesOK
  <2>4. \A x \in EventId : events'[x] # None =>
            events[x] # None /\ events'[x].tagged = events[x].tagged
    BY <1>1, <2>1, <2>2 DEF EventsOK
  <2> QED BY <1>2, <2>3, <2>4, OwnerActsInv DEF OwnerChangesEvent
<1>3. CASE OwnerChangesFile /\ events' = events
  <2>1. PICK id \in FileId : \E edited \in OwnerEditsFile(files[id]) :
            files[id] # None /\ files' = [files EXCEPT ![id] = edited]
    BY <1>3 DEF OwnerChangesFile
  <2> PICK edited \in OwnerEditsFile(files[id]) :
            files[id] # None /\ files' = [files EXCEPT ![id] = edited]
    BY <2>1
  <2>2. edited # None => IsFile(edited)
    <3>1. IsFile(files[id])
      BY <1>1, <2>1 DEF FilesOK
    <3>2. IsSequence(Append(files[id].content, OwnersText)) /\ IsSequence(<<>>)
      BY <3>1, AppendSequence DEF IsFile, IsSequence
    <3> QED BY <3>1, <3>2 DEF IsFile, OwnerEditsFile
  <2>3. EventsOK' /\ FilesOK'
    BY <1>1, <1>3, <2>1, <2>2 DEF EventsOK, FilesOK
  <2> QED BY <1>3, <2>3, OwnerActsInv DEF OwnerChangesFile
<1>4. CASE MailboxChanges /\ events' = events /\ files' = files
  <2>1. EventsOK' /\ FilesOK'
    BY <1>1, <1>4 DEF EventsOK, FilesOK
  <2> QED BY <1>4, <2>1, OwnerActsInv DEF MailboxChanges
<1> QED BY <1>2, <1>3, <1>4 DEF Owner

\* A step that leaves the call and the workspace alone.
LEMMA ElsewhereInv ==
    ASSUME Inv, UNCHANGED <<executorVars, workspaceVars>>
    PROVE  Inv'
BY DEF executorVars, workspaceVars, Inv, Shape, CallShape, CountersOK, EventsOK, FilesOK,
       StepsOfVerbs, CheckedParams, Running, OwnTarget, TargetId, CheckedFile, Undisturbed

\* What is checked before a write still holds of it when it is made, whatever
\* the owner does in between.
THEOREM InvHolds == Spec => []Inv
<1>1. Inv /\ [Next]_vars => Inv'
  <2> SUFFICES ASSUME Inv, [Next]_vars PROVE Inv'
    OBVIOUS
  <2>1. CASE Receive \/ ScreenInbound \/ Parse \/ Reply
    BY <2>1, ElsewhereInv DEF Receive, ScreenInbound, Parse, Reply
  <2>2. CASE Begin \/ End
    BY <2>2, BeginEndInv
  <2>3. CASE Execute
    <3>1. CASE CalendarStep /\ UNCHANGED <<files, folders, mailbox, drafts>>
      BY <3>1, CalendarInv
    <3>2. CASE DriveStep /\ UNCHANGED <<events, mailbox, drafts>>
      BY <3>2, DriveInv
    <3>3. CASE GmailStep /\ UNCHANGED <<events, files, folders>>
      BY <3>3, GmailInv
    <3>4. CASE Capabilities /\ UNCHANGED workspaceVars
      BY <3>4, EndedUntouched DEF Capabilities, workspaceVars
    <3>5. CASE GoogleFails /\ UNCHANGED workspaceVars
      BY <3>5, EndedUntouched DEF GoogleFails, workspaceVars
    <3> QED BY <2>3, <3>1, <3>2, <3>3, <3>4, <3>5 DEF Execute
  <2>4. CASE Owner
    BY <2>4, OwnerInv
  <2>5. CASE UNCHANGED vars
    BY <2>5, ElsewhereInv DEF vars
  <2> QED BY <2>1, <2>2, <2>3, <2>4, <2>5 DEF Next
<1> QED BY <1>1, InvInit, PTL DEF Spec

-----------------------------------------------------------------------------
(* What one e-mail cannot do.                                              *)

\* The steps of the service that change the workspace.
LEMMA ServiceWrites ==
    ASSUME Inv, [Next]_vars, ByService
    PROVE  /\ events' # events => InsertEvent \/ PatchEvent \/ DeleteEvent
           /\ files' # files => CreateFile \/ WriteFile
<1>1. ~OwnerActs
  BY DEF OwnerActs, ByService, Inv, Shape, CountersOK
<1>2. ~Owner
  BY <1>1 DEF Owner, OwnerChangesEvent, OwnerChangesFile, MailboxChanges
<1>3. CASE Receive \/ ScreenInbound \/ Parse \/ Reply \/ Begin \/ End \/ UNCHANGED vars
  BY <1>3 DEF Receive, ScreenInbound, Parse, Reply, Begin, End, vars, workspaceVars
<1>4. CASE Execute
  <2>1. events' # events => CalendarStep
    BY <1>4 DEF Execute, workspaceVars
  <2>2. CalendarStep /\ events' # events => InsertEvent \/ PatchEvent \/ DeleteEvent
    BY DEF CalendarStep, ListCalendars, ListEvents, StartCreate, GuardInvite, GetOwnEvent
  <2>3. files' # files => DriveStep
    BY <1>4 DEF Execute, workspaceVars
  <2>4. DriveStep /\ files' # files => CreateFile \/ WriteFile
    BY DEF DriveStep, ResolveFolder, ResolveFileId, ReadFile, GuardEdit
  <2> QED BY <2>1, <2>2, <2>3, <2>4
<1> QED BY <1>2, <1>3, <1>4 DEF Next

\* What a service step makes of an event.
LEMMA EventWritten ==
    ASSUME Inv, [Next]_vars, ByService, NEW e \in EventId, events'[e] # events[e]
    PROVE  \/ InsertEvent
           \/ PatchEvent
           \/ DeleteEvent /\ TargetId = e /\ events'[e] = None
<1>1. InsertEvent \/ PatchEvent \/ DeleteEvent
  BY ServiceWrites
<1>2. ASSUME DeleteEvent PROVE TargetId = e /\ events'[e] = None
  BY <1>2 DEF DeleteEvent, Inv, Shape, EventsOK
<1> QED BY <1>1, <1>2

\* A request touches no event but a tagged one of a writable calendar, and no
\* file but a plain one in the gatekeeper's folder unless the owner has just
\* changed something: the check that was made before the slow guard holds
\* when the write is made (_get_own_event, _gatekeeper_text_file).
THEOREM OwnOnly == Spec => OnlyOwnTouched
<1>1. ASSUME Inv, [Next]_vars, ByService, NEW e \in EventId, Changed(e)
      PROVE  events[e].tagged /\ Usable(events[e].cal, WriteRoles) # {}
  <2>1. events[e] # None /\ events'[e] # events[e]
    BY <1>1 DEF Changed
  <2>2. CASE InsertEvent
    BY <1>1, <2>1, <2>2, InsertionKept
  <2>3. CASE PatchEvent
    BY <1>1, <2>1, <2>3, PatchMade
  <2>4. CASE DeleteEvent /\ TargetId = e
    <3>1. /\ call.at = "write" /\ call.verb \in ChangeVerbs
          /\ events[e].cal = call.target
      BY <2>1, <2>4 DEF DeleteEvent, Calling, ChangeVerbs, Existing
    <3> QED BY <1>1, <2>1, <2>4, <3>1 DEF Inv, OwnTarget
  <2> QED BY <1>1, <2>1, <2>2, <2>3, <2>4, EventWritten
<1>2. ASSUME Inv, [Next]_vars, ByService, Undisturbed,
             NEW id \in FileId, files[id] # None, files'[id] # files[id]
      PROVE  files[id].plain /\ files[id].folder = setup.folder
  <2>1. DOMAIN files = FileId
    BY <1>2 DEF Inv, Shape, FilesOK
  <2>2. ~CreateFile
    BY <1>2, <2>1 DEF CreateFile
  <2>3. WriteFile
    BY <1>2, <2>2, ServiceWrites
  <2>4. call.at = "write" /\ call.verb \in EditVerbs /\ call.target = id
    BY <1>2, <2>1, <2>3 DEF WriteFile
  <2> QED BY <1>2, <2>4 DEF Inv, CheckedFile
<1>3. Inv /\ [Next]_vars => [ByService =>
        /\ \A e \in EventId :
               Changed(e) => events[e].tagged /\ Usable(events[e].cal, WriteRoles) # {}
        /\ Undisturbed =>
               \A id \in FileId : files[id] # None /\ files'[id] # files[id] =>
                   files[id].plain /\ files[id].folder = setup.folder]_vars
  BY <1>1, <1>2
<1> QED BY <1>3, InvHolds, PTL DEF Spec, OnlyOwnTouched

\* An update leaves alone what the request does not name, even what the owner
\* has changed since the event was read (update_event).
THEOREM RestIsKept == Spec => PatchKeepsRest
<1>1. ASSUME Inv, [Next]_vars, NEW e \in EventId, ByService, Changed(e), events'[e] # None
      PROVE  LET old == events[e]
                 new == events'[e]
             IN /\ Has(call.p, "title") \/ new.title = old.title
                /\ Has(call.p, "location") \/ new.location = old.location
                /\ Has(call.p, "description") \/ new.description = old.description
                /\ ChangesGuests(call.p) \/ new.guests = old.guests
                /\ ChangesTiming(ChangedTimingOf(call.p)) \/ SpanOf(new) = SpanOf(old)
  <2>1. events[e] # None /\ events'[e] # events[e]
    BY <1>1 DEF Changed
  <2>2. ~InsertEvent
    BY <1>1, <2>1, InsertionKept
  <2>3. PatchEvent
    BY <1>1, <2>1, <2>2, EventWritten
  <2> QED BY <1>1, <2>1, <2>3, PatchMade, PatchedIs
<1>2. Inv /\ [Next]_vars =>
        [\A e \in EventId : ByService /\ Changed(e) /\ events'[e] # None =>
           LET old == events[e]
               new == events'[e]
           IN /\ Has(call.p, "title") \/ new.title = old.title
              /\ Has(call.p, "location") \/ new.location = old.location
              /\ Has(call.p, "description") \/ new.description = old.description
              /\ ChangesGuests(call.p) \/ new.guests = old.guests
              /\ ChangesTiming(ChangedTimingOf(call.p)) \/ SpanOf(new) = SpanOf(old)]_vars
  BY <1>1
<1> QED BY <1>2, InvHolds, PTL DEF Spec, PatchKeepsRest

\* No event that a request makes or retimes is too short or too long, and one
\* that is only moved keeps its length: what the policy checks of a request
\* and what the executor checks of the event it finds add up (span_ok).
THEOREM LengthsAreSound == Spec => SpansSound
<1>1. ASSUME Inv, [Next]_vars, NEW e \in EventId,
             ByService, events'[e] # events[e], events'[e] # None
      PROVE  IF events[e] = None THEN SpanSound(SpanOf(events'[e]))
             ELSE LET t == ChangedTimingOf(call.p)
                  IN ChangesTiming(t) =>
                         /\ SpanSound(SpanOf(events'[e]))
                         /\ (\A f \in {"duration_minutes", "end_day_offset", "all_day"} : t[f] = None) =>
                                events'[e].end - events'[e].start = call.seen.end - call.seen.start
  <2>1. CASE InsertEvent
    BY <1>1, <2>1, InsertionKept
  <2>2. CASE PatchEvent
    <3> DEFINE t == ChangedTimingOf(call.p)
               span == UpdatedTiming(SpanOf(call.seen), t)
    <3>1. /\ events[e] # None
          /\ SpanKept(SpanOf(call.seen)) /\ EvaluateUpdateEvent(call.p).status = "allowed"
          /\ ChangesTiming(t) => ~UpdatedTimingDenied(SpanOf(call.seen), t)
          /\ ChangesTiming(t) => /\ SpanSound(SpanOf(events'[e]))
                                 /\ events'[e].start = span.start /\ events'[e].end = span.end
      BY <1>1, <2>2, PatchMade, PatchedIs
    <3>2. /\ SpanOf(call.seen).end = call.seen.end
          /\ SpanOf(call.seen).start = call.seen.start
      BY DEF SpanOf, Span
    <3>3. ChangesTiming(t)
              /\ (\A f \in {"duration_minutes", "end_day_offset", "all_day"} : t[f] = None) =>
              span.end - span.start = call.seen.end - call.seen.start
      BY <3>1, <3>2, UpdatedTimingKept
    <3> QED BY <3>1, <3>3
  <2> QED BY <1>1, <2>1, <2>2, EventWritten
<1>2. Inv /\ [Next]_vars =>
        [\A e \in EventId : ByService /\ events'[e] # events[e] /\ events'[e] # None =>
           IF events[e] = None THEN SpanSound(SpanOf(events'[e]))
           ELSE LET t == ChangedTimingOf(call.p)
                IN ChangesTiming(t) =>
                       /\ SpanSound(SpanOf(events'[e]))
                       /\ (\A f \in {"duration_minutes", "end_day_offset", "all_day"} : t[f] = None) =>
                              events'[e].end - events'[e].start = call.seen.end - call.seen.start]_vars
  BY <1>1
<1> QED BY <1>2, InvHolds, PTL DEF Spec, SpansSound

\* An appended text comes after all that the file held, unless the owner has
\* just changed it: the whole file is uploaded, as it was when it was read
\* (append_file).
THEOREM ContentIsKept == Spec => DriveContentKept
<1>1. ASSUME Inv, [Next]_vars, NEW id \in FileId, ByService, Undisturbed,
             call.verb = "drive.append_file", files'[id] # files[id]
      PROVE  /\ IsPrefix(files[id].content, files'[id].content)
             /\ Last(files'[id].content) = call.p.content.what
  <2>1. ~CreateFile
    BY <1>1 DEF CreateFile, Calling
  <2>2. WriteFile
    BY <1>1, <2>1, ServiceWrites
  <2> DEFINE new == Appended(call.seen.content, call.p.content)
  <2>3. /\ DOMAIN files = FileId /\ call.at = "write" /\ call.verb \in EditVerbs
        /\ id = call.target
        /\ files' = [files EXCEPT ![call.target].content = new]
    BY <1>1, <2>2 DEF WriteFile, Inv, Shape, FilesOK
  <2>4. files[id] = call.seen /\ IsFile(call.seen)
    BY <1>1, <2>3 DEF Inv, CheckedFile
  <2>5. EvaluateFileWrite(call.verb, call.p).status = "allowed"
    BY <1>1, <2>3 DEF Inv, CheckedParams, Running
  <2>6. call.p.content.size > 0
    BY <1>1, <2>5 DEF EvaluateFileWrite, AllowedIf, Allowed, Denied, Decision
  <2>7. /\ IsPrefix(call.seen.content, new)
        /\ Last(new) = call.p.content.what
    BY <2>4, <2>6, AppendedKeeps DEF IsFile
  <2> HIDE DEF new
  <2>8. files'[id].content = new
    BY <2>3, <2>4 DEF IsFile
  <2> QED BY <2>4, <2>7, <2>8
<1>2. Inv /\ [Next]_vars =>
        [\A id \in FileId :
           ByService /\ Undisturbed /\ call.verb = "drive.append_file" /\ files'[id] # files[id] =>
               /\ IsPrefix(files[id].content, files'[id].content)
               /\ Last(files'[id].content) = call.p.content.what]_vars
  BY <1>1
<1> QED BY <1>2, InvHolds, PTL DEF Spec, DriveContentKept
=============================================================================
