----------------------------- MODULE RequestParser -----------------------------
(***************************************************************************)
(* Layer 2, app/request_parser.py with app/reader_llm.py: from an e-mail   *)
(* to a verb and parameters.                                               *)
(*                                                                         *)
(* An e-mail's text is a sequence of sections, as its line markers divide  *)
(* it: prose, a request block or a payload (what a payload holds is never  *)
(* searched for markers).  A block carries its text and the data YAML      *)
(* makes of it: Junk, or a record of request_id, verb, params (the values  *)
(* written out), refs (the parameters whose value, or a member of whose    *)
(* list, is a reference to a payload) and requests (the items of a batch). *)
(* A field that is missing is None and one of the wrong kind is Junk; a    *)
(* request id that breaks the pattern of ids is Junk as well.              *)
(***************************************************************************)
EXTENDS Ingress

CONSTANTS BatchMaxItems,            \* 25 in the code
          PayloadMaxChars,          \* 200000
          ReaderLLMMaxInputChars    \* 20000

ASSUME ParserConstants ==
    BatchMaxItems \in Nat /\ PayloadMaxChars \in Nat /\ ReaderLLMMaxInputChars \in Nat

PayloadParams(verb) ==
    CASE verb = "gmail.create_draft" -> {"body"}
      [] verb \in {"drive.create_file", "drive.update_file", "drive.append_file"} -> {"content"}
      [] verb \in {"calendar.create_event", "calendar.update_event"} -> {"description"}
      [] OTHER -> {}

-----------------------------------------------------------------------------
(* The split, before anything is parsed or screened.                       *)

OfKind(sections, kind) == SelectSeq(sections, LAMBDA s : s.kind = kind)

AppendText(sofar, section) ==
    LET from == IF sofar.size = 0 THEN 0 ELSE sofar.size + 1
    IN [size |-> from + section.text.size,
        blank |-> sofar.blank /\ section.text.blank,
        flaws |-> sofar.flaws \cup {[flaw EXCEPT !.at = @ + from] : flaw \in section.text.flaws}]

\* A payload's name keeps the last text given under it; a name given twice
\* or a text that is too long is an error for later.
SplitEmail(sections) ==
    LET payloads == OfKind(sections, "payload")
        names == {payloads[i].name : i \in DOMAIN payloads}
        last(name) == CHOOSE i \in DOMAIN payloads :
                          /\ payloads[i].name = name
                          /\ \A j \in DOMAIN payloads : payloads[j].name = name => j <= i
    IN [blocks |-> OfKind(sections, "request"),
        payloads |-> [name \in names |-> payloads[last(name)].text],
        payloadError |-> \/ Cardinality(names) < Len(payloads)
                         \/ \E i \in DOMAIN payloads : payloads[i].text.size > PayloadMaxChars,
        remainder |-> FoldLeft(AppendText, [size |-> 0, blank |-> TRUE, flaws |-> {}],
                               SelectSeq(sections, LAMBDA s : s.kind # "payload"))]

-----------------------------------------------------------------------------
(* Parsed requests.                                                        *)

Parsed(id, verb, params, source, error, items) ==
    [request_id |-> id, verb |-> verb, params |-> params, source |-> source,
     parse_error |-> error, batch_items |-> items]

BlockRequest(id, verb, params) == Parsed(id, verb, params, "block", None, <<>>)

BlockError(id, verb, error) == Parsed(id, verb, <<>>, "block", error, <<>>)

\* What can be read of the request id and the verb, and whether the whole
\* mapping has the shape of a request.
ValidateRequestShape(data) ==
    LET id == IF data = Junk \/ data.request_id \in {None, Junk} THEN None ELSE data.request_id
        verb == IF id = None \/ data.verb \in {None, Junk} THEN None ELSE data.verb
    IN [id |-> id, verb |-> verb, ok |-> verb # None /\ data.params # Junk]

ParamsOf(data) == IF data.params = None THEN <<>> ELSE data.params

\* Every reference names a payload of the e-mail, from a parameter that may.
PayloadsResolve(data, payloads) ==
    \A key \in DOMAIN data.refs :
        /\ key \in PayloadParams(data.verb)
        /\ ~data.refs[key].inList
        /\ data.refs[key].payload \in DOMAIN payloads

UsedPayloads(data) == {data.refs[key].payload : key \in DOMAIN data.refs}

SubstitutePayloads(data, payloads) ==
    LET given == ParamsOf(data)
    IN [key \in DOMAIN data.refs \cup DOMAIN given |->
           IF key \in DOMAIN data.refs THEN payloads[data.refs[key].payload] ELSE given[key]]

-----------------------------------------------------------------------------
(* A batch.                                                                *)

PlaceholderId(batchId, index) == batchId \o "-item" \o ToString(index)

\* An item that takes its id: a later item of the same id is a duplicate.
TakesItsId(item, batchId) ==
    LET shape == ValidateRequestShape(item)
    IN shape.ok /\ shape.verb # "batch" /\ shape.id # batchId

ParseItem(items, i, batchId, payloads) ==
    LET item == items[i]
        shape == ValidateRequestShape(item)
        placeholder == PlaceholderId(batchId, i - 1)
        verb == IF shape.verb = None THEN "unsupported" ELSE shape.verb
    IN IF ~shape.ok
       THEN BlockError(IF shape.id = None THEN placeholder ELSE shape.id, verb,
                       "invalid_request_block")
       ELSE IF verb = "batch" THEN BlockError(shape.id, "unsupported", "invalid_request_block")
       ELSE IF shape.id = batchId THEN BlockError(placeholder, verb, "invalid_request_block")
       ELSE IF \E j \in 1..(i - 1) : TakesItsId(items[j], batchId) /\ items[j].request_id = shape.id
       THEN BlockError(shape.id, verb, "invalid_request_block")
       ELSE IF ~PayloadsResolve(item, payloads) THEN BlockError(shape.id, verb, "invalid_payload")
       ELSE BlockRequest(shape.id, verb, SubstitutePayloads(item, payloads))

ParseBatch(data, payloads) ==
    LET items == data.requests
        id == data.request_id
        parsed == [i \in DOMAIN items |-> ParseItem(items, i, id, payloads)]
        used == UNION {UsedPayloads(items[i]) : i \in {j \in DOMAIN items : parsed[j].parse_error = None}}
    IN IF items \in {None, Junk, <<>>} THEN BlockError(id, "batch", "invalid_request_block")
       ELSE IF Len(items) > BatchMaxItems THEN BlockError(id, "batch", "invalid_request_block")
       ELSE IF DOMAIN payloads \ used # {} THEN BlockError(id, "batch", "invalid_payload")
       ELSE Parsed(id, "batch", <<>>, "block", None, parsed)

\* Mutant: a payload that no parameter refers to is dropped in silence.
ParseSingleDropping(data, payloads) ==
    IF ~PayloadsResolve(data, payloads)
    THEN BlockError(data.request_id, data.verb, "invalid_payload")
    ELSE BlockRequest(data.request_id, data.verb, SubstitutePayloads(data, payloads))

ParseSingle(data, payloads) ==
    IF ~PayloadsResolve(data, payloads) \/ DOMAIN payloads \ UsedPayloads(data) # {}
    THEN BlockError(data.request_id, data.verb, "invalid_payload")
    ELSE BlockRequest(data.request_id, data.verb, SubstitutePayloads(data, payloads))

ParseBlock(parts, fallback) ==
    LET data == parts.blocks[1].data
        shape == ValidateRequestShape(data)
    IN IF Len(parts.blocks) > 1 THEN BlockError(fallback, "unsupported", "ambiguous_request")
       ELSE IF parts.blocks = <<>> THEN BlockError(fallback, "unsupported", "invalid_payload")
       ELSE IF ~shape.ok
       THEN BlockError(IF shape.id = None THEN fallback ELSE shape.id,
                       IF shape.verb = None THEN "unsupported" ELSE shape.verb,
                       "invalid_request_block")
       ELSE IF parts.payloadError THEN BlockError(shape.id, shape.verb, "invalid_payload")
       ELSE IF shape.verb = "batch" THEN ParseBatch(data, parts.payloads)
       ELSE ParseSingle(data, parts.payloads)

-----------------------------------------------------------------------------
(* Plain text: the reader LLM, in two calls, each of which may fail.       *)

\* What the second call may fill in.  A verb that has no entry needs none.
Stage2 ==
    "gmail.search" :> {"query", "max_results", "newer_than_days"} @@
    "calendar.list_events" :> {"day_offset", "days"} @@
    "gmail.create_draft" :> {"to", "subject", "body", "thread_id"} @@
    "calendar.create_event" :>
        {"title", "day_offset", "start_time", "duration_minutes", "attendees", "location"} @@
    "calendar.update_event" :>
        {"event_id", "title", "day_offset", "start_time", "duration_minutes",
         "add_attendees", "remove_attendees"} @@
    "calendar.delete_event" :> {"event_id"} @@
    "drive.create_file" :> {"name", "content"} @@
    "drive.update_file" :> {"file_id", "name", "content"} @@
    "drive.append_file" :> {"file_id", "name", "content"}

\* selection is [verb, request_id] or a failure, fields a function or a
\* failure: no partial answer is used.
Extract(selection, fields) ==
    IF selection.failure # None THEN selection
    ELSE IF selection.verb \notin DOMAIN Stage2
    THEN [failure |-> None, verb |-> selection.verb, request_id |-> selection.request_id,
          params |-> <<>>]
    ELSE IF fields.failure # None THEN fields
    ELSE [failure |-> None, verb |-> selection.verb, request_id |-> selection.request_id,
          params |-> [f \in {g \in DOMAIN fields.values : fields.values[g] # None}
                        |-> fields.values[f]]]

ParseViaLLM(extraction, fallback) ==
    IF extraction.failure # None
    THEN Parsed(fallback, "unsupported", <<>>, "llm",
                IF extraction.failure = "truncated" THEN "too_long_for_freeform" ELSE None, <<>>)
    ELSE Parsed(IF extraction.request_id \in {None, Junk} THEN fallback ELSE extraction.request_id,
                extraction.verb, extraction.params, "llm", None, <<>>)

\* Which way a message is parsed.
HasBlock(parts) == parts.blocks # <<>> \/ DOMAIN parts.payloads # {}

ReadsPlainText(parts, score) ==
    /\ ~HasBlock(parts)
    /\ ClearsScreen(score, FALSE)
    /\ parts.remainder.size <= ReaderLLMMaxInputChars

ParseRequest(parts, score, extraction, fallback) ==
    IF HasBlock(parts) THEN ParseBlock(parts, fallback)
    ELSE IF ~ClearsScreen(score, FALSE) THEN Parsed(fallback, "unsupported", <<>>, "screened", None, <<>>)
    ELSE IF parts.remainder.size > ReaderLLMMaxInputChars
    THEN Parsed(fallback, "unsupported", <<>>, "llm_skipped", "too_long_for_freeform", <<>>)
    ELSE ParseViaLLM(extraction, fallback)
=============================================================================
