------------------------------- MODULE MCGateway -------------------------------
(* Small instances of Gateway for TLC: e-mails, each with the workspace it    *)
(* meets.  Scores, thresholds and sizes are scaled down; see the README.      *)
EXTENDS Gateway

-----------------------------------------------------------------------------
(* Texts and addresses.                                                    *)

TextOf(what, size, form, flaws) ==
    [what |-> what, size |-> size, blank |-> size = 0, fits |-> TRUE, form |-> form,
     flaws |-> flaws]

Plain(what) == TextOf(what, 12, "line", {})
Empty == TextOf("", 0, "line", {})
Flaw(kind, at, len) == [kind |-> kind, at |-> at, len |-> len]
Flawed(what, kind) == TextOf(what, 12, "line", {Flaw(kind, 3, 5)})
\* A phrase across the end of the first chunk, of the text alone or as the
\* first field of an item.
Straddling(what, kind) == TextOf(what, 60, "line", {Flaw(kind, ChunkChars - 3, 6)})
StraddlingItem(what, kind) ==
    TextOf(what, 60, "line", {Flaw(kind, ChunkChars - LabelChars - 3, 6)})
Address(box) == Plain(box) @@ "box" :> box

Guest(email, said) == [email |-> email, said |-> said]

-----------------------------------------------------------------------------
(* Deliveries, sections and requests.                                      *)

Good == [id |-> "msg", timestamp |-> Now, signatures |-> {Signature(Secret, Now)},
         event_type |-> "message.received", message_id |-> "m", inbox_id |-> InboxId,
         sender |-> "requester"]

Prose(text) == [kind |-> "prose", text |-> text]
Block(data) == [kind |-> "request", text |-> Plain("block"), data |-> data]
Payload(name, text) == [kind |-> "payload", name |-> name, text |-> text]

Request(id, verb, params) ==
    [request_id |-> id, verb |-> verb, params |-> params, refs |-> <<>>, requests |-> None]

WithRefs(request, refs) == [request EXCEPT !.refs = refs]

BatchOf(items) ==
    [Request("b", "batch", None) EXCEPT !.requests = items]

Ref(name) == [payload |-> name, inList |-> FALSE]

Mail(sections) ==
    [delivery |-> Good, subject |-> Plain("subject"), sections |-> sections,
     selections |-> {}, fields |-> {}]

Ask(verb, params) == Mail(<<Block(Request("r", verb, params))>>)

PlainMail(selections, fields) ==
    [Mail(<<Prose(Plain("prose"))>>) EXCEPT !.selections = selections, !.fields = fields]

Chosen(verb, id) == [failure |-> None, verb |-> verb, request_id |-> id]
Filled(values) == [failure |-> None, values |-> values]
Failed(failure) == [failure |-> failure]

-----------------------------------------------------------------------------
(* Workspaces.                                                             *)

Calendars ==
    <<[id |-> "main", role |-> "owner", selected |-> TRUE, primary |-> TRUE,
       name |-> Plain("main"), lag |-> 0],
      [id |-> "team", role |-> "writer", selected |-> TRUE, primary |-> FALSE,
       name |-> Flawed("team", "steering"), lag |-> 120],
      [id |-> "other", role |-> "reader", selected |-> FALSE, primary |-> FALSE,
       name |-> Plain("other"), lag |-> 0]>>

NoEvents == [e \in EventId |-> None]
NoFiles == [f \in FileId |-> None]

Event(cal, uid, tagged, span, guests, title, description) ==
    [cal |-> cal, uid |-> uid, tagged |-> tagged, allDay |-> span.allDay, start |-> span.start,
     end |-> span.end, guests |-> guests, title |-> title, location |-> None,
     description |-> description]

Timed(start, minutes) == Span(FALSE, start, start + minutes)
Days(first, count) == Span(TRUE, first * Day, (first + count) * Day)

Deployed == [screening |-> TRUE, folder |-> "gatekeeper"]
Bare == [screening |-> FALSE, folder |-> None]

Scene(mails, setup_, events_, files_, mailbox_) ==
    [i \in DOMAIN mails |->
        [mail |-> mails[i], setup |-> setup_, events |-> events_, files |-> files_,
         mailbox |-> mailbox_]]

\* Nothing in the workspace.
Blank(mails) == Scene(mails, Deployed, NoEvents, NoFiles, <<>>)

-----------------------------------------------------------------------------
(* Layer 0.                                                                *)

Deliveries ==
    <<Good,
      [Good EXCEPT !.signatures = {Signature("guess", Now)}],
      [Good EXCEPT !.signatures = {Signature("guess", Now), Signature(Secret, Now)},
                   !.timestamp = Now - Tolerance - 1],
      [Good EXCEPT !.timestamp = Junk],
      [Good EXCEPT !.id = None],
      [Good EXCEPT !.inbox_id = "another"],
      [Good EXCEPT !.event_type = "message.sent"],
      [Good EXCEPT !.message_id = None],
      [Good EXCEPT !.sender = Junk],
      [Good EXCEPT !.sender = OwnAddress],
      [Good EXCEPT !.sender = "stranger"]>>

Doors ==
    Blank([i \in DOMAIN Deliveries |->
              [Ask("capabilities", <<>>) EXCEPT !.delivery = Deliveries[i]]])

-----------------------------------------------------------------------------
(* Calendar.                                                               *)

Id(what) == "event_id" :> Plain(what)
Ann == Address("ann")
Bob == Address("bob")

\* The gatekeeper's: a meeting with two guests whose description is sensitive
\* and an all-day event of two days on the team's calendar; the owner's: one.
Meetings ==
    [NoEvents EXCEPT
        !["e1"] = Event("main", "e1", TRUE, Timed(600, 60),
                        <<Guest("ann", "accepted"), Guest("cal", "declined")>>,
                        Plain("meeting"), None),
        !["e2"] = Event("team", "e2", TRUE, Days(1, 2), <<Guest("ann", "accepted")>>,
                        Plain("trip"), Flawed("secret", "sensitive")),
        !["e3"] = Event("main", "e3", FALSE, Timed(1430, 30), <<>>, Plain("own"), None)]

Updates ==
    <<Id("e1") @@ "title" :> Plain("moved"),
      Id("e1") @@ "title" :> Flawed("code", "sensitive"),
      Id("e1") @@ "location" :> Empty @@ "color" :> Plain("red"),
      Id("e1") @@ "day_offset" :> 3,
      Id("e1") @@ "day_offset" :> 3 @@ "end_day_offset" :> 17 @@ "end_time" :> 601,
      Id("e1") @@ "end_day_offset" :> 14 @@ "end_time" :> 600,
      Id("e1") @@ "end_day_offset" :> 14 @@ "end_time" :> 601,
      Id("e1") @@ "all_day" :> "true",
      Id("e1") @@ "add_attendees" :> <<Bob, Ann>>,
      Id("e1") @@ "add_attendees" :> <<Bob, Address("dan")>>,
      Id("e1") @@ "remove_attendees" :> <<Ann>>,
      Id("e1") @@ "add_attendees" :> <<Ann>> @@ "remove_attendees" :> <<Ann>>,
      Id("e1") @@ "attendees" :> <<Ann>>,
      Id("e1"),
      Id("e2") @@ "day_offset" :> 2 @@ "calendar_id" :> Plain("team"),
      Id("e2") @@ "day_offset" :> 2,
      Id("e2") @@ "title" :> Plain("move") @@ "calendar_id" :> Plain("team"),
      Id("e2") @@ "end_day_offset" :> 14 @@ "calendar_id" :> Plain("team"),
      Id("e2") @@ "all_day" :> "false" @@ "calendar_id" :> Plain("team"),
      Id("e2") @@ "all_day" :> "false" @@ "start_time" :> 600 @@ "duration_minutes" :> 5
          @@ "calendar_id" :> Plain("team"),
      Id("e2") @@ "add_attendees" :> <<Bob>> @@ "calendar_id" :> Plain("team"),
      Id("e3") @@ "title" :> Plain("mine"),
      Id("e9") @@ "title" :> Plain("none"),
      Id("e1") @@ "day_offset" :> Junk>>

Deletes ==
    <<Id("e1"), Id("e2") @@ "calendar_id" :> Plain("other"), Id("e3"), <<>>>>

New(title) == "title" :> title @@ "day_offset" :> 1

Creations ==
    <<New(Plain("lunch")) @@ "start_time" :> 720 @@ "duration_minutes" :> 60
          @@ "attendees" :> <<Ann>>,
      New(Flawed("code", "sensitive")) @@ "start_time" :> 720 @@ "duration_minutes" :> 60
          @@ "attendees" :> <<Ann>>,
      New(Flawed("code", "sensitive")) @@ "start_time" :> 720 @@ "duration_minutes" :> 60,
      New(StraddlingItem("long", "steering")) @@ "start_time" :> 720 @@ "duration_minutes" :> 60
          @@ "attendees" :> <<Ann>>,
      New(Plain("trip")) @@ "all_day" :> "true" @@ "end_day_offset" :> 14,
      New(Plain("trip")) @@ "all_day" :> "true" @@ "end_day_offset" :> 15,
      New(Plain("trip")) @@ "start_time" :> 720 @@ "end_day_offset" :> 15 @@ "end_time" :> 720,
      New(Plain("trip")) @@ "start_time" :> 720 @@ "end_day_offset" :> 15 @@ "end_time" :> 721,
      New(Plain("trip")) @@ "start_time" :> 720 @@ "end_day_offset" :> 1 @@ "end_time" :> 725,
      New(Plain("lunch")) @@ "start_time" :> 720 @@ "duration_minutes" :> 60
          @@ "calendar_id" :> Plain("other"),
      New(TextOf("lines", 12, "lines", {})) @@ "all_day" :> "true">>

\* A copy of a meeting on two calendars, an all-day event that the lag of its
\* calendar makes look as if it reached today, and more than fits.
Agenda ==
    [NoEvents EXCEPT
        !["e1"] = Event("main", "u1", FALSE, Timed(600, 60), <<>>, Plain("standup"), None),
        !["e2"] = Event("team", "u1", FALSE, Timed(600, 60), <<>>,
                        TextOf("standup", 300, "line", {}), None),
        !["e3"] = Event("team", "u3", FALSE, Days(-1, 1), <<>>, Plain("stale"), None),
        !["e4"] = Event("team", "u4", FALSE, Timed(700, 30), <<>>,
                        StraddlingItem("plan", "sensitive"), None)]

\* Two events of today, and a stale one on a page with room left.
Crowded ==
    [Agenda EXCEPT
        !["e1"] = Event("main", "u5", FALSE, Days(0, 1), <<>>, Flawed("today", "steering"), None),
        !["e2"] = Event("main", "u1", FALSE, Timed(600, 60), <<>>, Plain("standup"), None),
        !["e4"] = None]

Lists ==
    <<<<>>, "max_results" :> 1, "max_results" :> 2, "days" :> 0,
      "calendar_id" :> Plain("team") @@ "max_results" :> 2 @@ "colour" :> Plain("red")
          @@ "size" :> Plain("big") @@ "font" :> Plain("bold"),
      "calendar_id" :> Plain("other"), "calendar_id" :> Plain("nowhere"),
      "query" :> Plain("standup")>>

AskAll(verb, params) == [i \in DOMAIN params |-> Ask(verb, params[i])]

\* A meeting of the gatekeeper's that nobody is invited to yet.
Alone ==
    [NoEvents EXCEPT
        !["e4"] = Event("main", "e4", TRUE, Timed(900, 30), <<>>, Plain("alone"), None)]

\* Its texts are only judged if somebody is there to get them.
Invitations ==
    Scene(AskAll("calendar.update_event",
                 <<Id("e4") @@ "title" :> Flawed("code", "sensitive"),
                   Id("e4") @@ "add_attendees" :> <<Ann>>,
                   Id("e4") @@ "location" :> Plain("room") @@ "add_attendees" :> <<Bob>>>>),
          Deployed, Alone, NoFiles, <<>>)

CalendarScenes ==
    Scene(AskAll("calendar.update_event", Updates) \o AskAll("calendar.delete_event", Deletes),
          Deployed, Meetings, NoFiles, <<>>)
    \o Blank(AskAll("calendar.create_event", Creations))
    \o Scene(AskAll("calendar.create_event", SubSeq(Creations, 1, 4))
                 \o AskAll("calendar.update_event", SubSeq(Updates, 1, 2)),
             Bare, Meetings, NoFiles, <<>>)
    \o Scene(AskAll("calendar.list_events", Lists), Deployed, Agenda, NoFiles, <<>>)
    \o Scene(AskAll("calendar.list_events", Lists), Deployed, Crowded, NoFiles, <<>>)
    \o Blank(<<Ask("calendar.list_calendars", <<>>)>>)
    \o Invitations

-----------------------------------------------------------------------------
(* Drive.                                                                  *)

AFile(name, folder, plain) ==
    [name |-> Plain(name), folder |-> folder, plain |-> plain, content |-> <<"old">>]

Cabinet ==
    [NoFiles EXCEPT !["f1"] = AFile("notes", "gatekeeper", TRUE),
                    !["f2"] = AFile("report", Elsewhere, TRUE),
                    !["f3"] = AFile("sheet", "gatekeeper", FALSE)]

Twins == [Cabinet EXCEPT !["f3"] = AFile("notes", "gatekeeper", TRUE)]

By(field, what, content) == field :> Plain(what) @@ "content" :> content

Edits ==
    <<By("file_id", "f1", Plain("new")), By("name", "notes", Plain("new")),
      By("file_id", "f2", Plain("new")), By("file_id", "f3", Plain("new")),
      By("name", "report", Plain("new")), By("file_id", "f1", Empty),
      By("file_id", "f1", Flawed("bad", "malicious")),
      By("file_id", "f1", Straddling("bad", "malicious")),
      By("file_id", "f1", Flawed("odd", "unreasonable")),
      By("file_id", "f1", Plain("new")) @@ "name" :> Plain("notes"),
      By("file_id", "f9", Plain("new"))>>

DriveScenes ==
    Scene(AskAll("drive.update_file", Edits) \o AskAll("drive.append_file", Edits),
          Deployed, NoEvents, Cabinet, <<>>)
    \o Scene(AskAll("drive.append_file", SubSeq(Edits, 1, 2)), Deployed, NoEvents, Twins, <<>>)
    \o Scene(AskAll("drive.append_file", SubSeq(Edits, 1, 3)), Bare, NoEvents, Cabinet, <<>>)
    \o Blank(AskAll("drive.create_file", <<"name" :> Plain("list") @@ "content" :> Empty>>))
    \o Scene(<<Mail(<<Block(BatchOf(<<
                   Request("a", "drive.create_file", "name" :> Plain("x") @@ "content" :> Plain("x")),
                   Request("c", "drive.create_file", "name" :> Plain("y") @@ "content" :> Plain("y"))>>))>>)>>,
             Bare, NoEvents, NoFiles, <<>>)

-----------------------------------------------------------------------------
(* Gmail.                                                                  *)

Message(thread, age, draft, subject, snippet, id) ==
    [thread |-> thread, age |-> age, draft |-> draft, sender |-> Plain("boss"),
     subject |-> subject, snippet |-> snippet, message_id |-> id]

Box ==
    <<Message("t1", 9, FALSE, Plain("plan"), Plain("hello"), "id1"),
      Message("t1", 2, FALSE, Plain("plan"), Straddling("note", "sensitive"), None),
      Message("t1", 1, TRUE, Plain("plan"), Plain("draft"), "id3")>>

LateMail == {Message("t1", 0, FALSE, Plain("plan"), Plain("late"), "id4")}

Query(what) == "query" :> Plain(what)

Searches ==
    <<Query("plan"), Query("plan") @@ "max_results" :> 1,
      Query("plan") @@ "newer_than_days" :> 3, Query("password"), Query("nothing"),
      Query("plan") @@ "max_results" :> 31>>

Drafts ==
    <<"to" :> Plain("ann") @@ "subject" :> Flawed("re", "steering") @@ "body" :> Plain("text"),
      "to" :> Plain("ann") @@ "subject" :> Plain("re") @@ "body" :> Plain("text")
          @@ "thread_id" :> Plain("t1"),
      "to" :> Plain("ann") @@ "subject" :> Plain("re") @@ "body" :> Plain("text")
          @@ "thread_id" :> Plain("t9"),
      "to" :> Plain("ann") @@ "subject" :> Plain("re") @@ "body" :> Empty>>

GmailScenes ==
    Scene(AskAll("gmail.search", Searches) \o AskAll("gmail.create_draft", Drafts),
          Deployed, NoEvents, NoFiles, Box)

-----------------------------------------------------------------------------
(* How a message is read: blocks, payloads, batches, plain text, steering. *)

AFileOf(id, content) == WithRefs(Request(id, "drive.create_file", "name" :> Plain(id)), content)

ContentRef(name) == "content" :> Ref(name)
Text == Payload("p", Flawed("payload", "steering"))

Blocks ==
    <<Mail(<<Block(AFileOf("r", ContentRef("p"))), Text>>),
      Mail(<<Block(Request("r", "capabilities", None)), Text>>),
      Mail(<<Block(AFileOf("r", ContentRef("q"))), Text>>),
      Mail(<<Block(AFileOf("r", "content" :> [payload |-> "p", inList |-> TRUE])), Text>>),
      Mail(<<Block(AFileOf("r", ContentRef("p"))), Text, Payload("p", Plain("again"))>>),
      Mail(<<Block(AFileOf("r", ContentRef("p"))),
             Payload("p", TextOf("long", PayloadMaxChars + 1, "line", {}))>>),
      Mail(<<Text>>),
      Mail(<<Block(Junk)>>),
      Mail(<<Block(Request(None, "capabilities", None))>>),
      Mail(<<Block(Request("r", "contacts.search", None))>>),
      Mail(<<Block(Request("r", "shell", None))>>),
      Mail(<<Block(Request("r", "unsupported", None))>>),
      Mail(<<Block(Request("r", "capabilities", Junk))>>),
      Mail(<<Block(Request("r", "capabilities", None)), Block(Request("s", "capabilities", None))>>)>>

Simple(id) == Request(id, "capabilities", <<>>)

Batches ==
    <<Mail(<<Block(BatchOf(<<AFileOf("a", ContentRef("p")), Simple("c"), Simple("a")>>)), Text>>),
      Mail(<<Block(BatchOf(<<Simple("a"), Junk, Simple("b"), Simple("b-item1")>>))>>),
      Mail(<<Block(BatchOf(<<Request("a", "batch", None), Request("c", None, None)>>))>>),
      Mail(<<Block(BatchOf(<<AFileOf("a", ContentRef("q")), Simple("c")>>))>>),
      Mail(<<Block(BatchOf(<<Simple("a")>>)), Text>>),
      Mail(<<Block(BatchOf(<<>>))>>),
      Mail(<<Block(BatchOf([i \in 1..(BatchMaxItems + 1) |-> Simple("a")]))>>)>>

\* A batch whose items show the owner's texts.
MixedBatch ==
    Mail(<<Block(BatchOf(<<Request("a", "calendar.list_events", <<>>),
                           Request("c", "gmail.search", Query("plan")),
                           Request("d", "calendar.update_event",
                                   Id("e3") @@ "title" :> Plain("mine"))>>))>>)

AskDraft == Chosen("gmail.create_draft", None)

Readings ==
    <<PlainMail({Failed("api_error"), Failed("truncated"), Chosen("capabilities", "x"),
                 Chosen("unsupported", Junk)}, {Failed("api_error")}),
      PlainMail({Chosen("drive.create_file", None)},
                {Failed("invalid_output"), Filled("name" :> Plain("n") @@ "content" :> Plain("c")),
                 Filled("name" :> None @@ "content" :> Plain("c"))}),
      [PlainMail({}, {}) EXCEPT
          !.sections = <<Prose(TextOf("long", ReaderLLMMaxInputChars + 1, "line", {}))>>]>>

Steering ==
    <<[Ask("drive.create_file", "name" :> Plain("n") @@ "content" :> Plain("c"))
          EXCEPT !.subject = Flawed("subject", "steering")],
      [Ask("capabilities", "extra" :> Plain("x")) EXCEPT !.subject = Flawed("subject", "steering")],
      [Mail(<<Block(Request("r", "drive.create_file", "name" :> Plain("n") @@ "content" :> Plain("c"))),
              Prose(Flawed("prose", "steering"))>>) EXCEPT !.subject = Empty],
      [Mail(<<[Block(Request("r", "drive.create_file",
                             "name" :> Plain("n") @@ "content" :> Plain("c")))
                  EXCEPT !.text = Straddling("block", "steering")]>>) EXCEPT !.subject = Empty],
      [PlainMail({Chosen("drive.create_file", None)},
                 {Filled("name" :> Plain("n") @@ "content" :> Plain("c"))})
          EXCEPT !.sections = <<Prose(Plain("hello")), Prose(Straddling("prose", "steering"))>>]>>

ReadingScenes ==
    Blank(Blocks \o Batches \o Readings \o Steering)
    \o Scene(<<MixedBatch>>, Deployed, Agenda, NoFiles, Box)
    \o Scene(Steering, Bare, NoEvents, NoFiles, <<>>)

AllScenarios == Doors \o CalendarScenes \o DriveScenes \o GmailScenes \o ReadingScenes

\* A payload that only an item with a mistake of its own refers to.
OnlyMalformed ==
    Blank(<<Mail(<<Block(BatchOf(<<Simple("a"),
                                   [AFileOf(None, ContentRef("p")) EXCEPT !.verb = "drive.create_file"]>>)),
                   Text>>)>>)

MalformedScenes == OnlyMalformed \o Blank(Batches)

Failures ==
    {HttpError(404), HttpError(409), HttpError(403), HttpError(503), NetworkError, OtherError}

\* What the owner does.
Retitled == Flawed("retitled", "sensitive")
SensitiveTerms == {Plain("password")}
=============================================================================
