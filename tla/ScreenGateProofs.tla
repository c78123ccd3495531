---------------------------- MODULE ScreenGateProofs ----------------------------
(***************************************************************************)
(* What becomes of a message on its way through the layers, for every      *)
(* e-mail, workspace and sizes of chunk and overlap, and whichever calls   *)
(* are lost:                                                               *)
(*   SteeringStopped  a message that steers writes nothing, and no message *)
(*                    is stopped by what is only data;                     *)
(*   MaliceStopped    no malicious text gets into a file that is there;    *)
(*   NothingDropped   every payload is used or the message refused, and    *)
(*                    parameters that are not read are named;              *)
(*   TypeCorrect      the state always has its type;                       *)
(*   GuestsSpared     no guest is sent what the guards are there to stop;  *)
(*   GuestsStay       a change of the guest list is the change asked for.  *)
(***************************************************************************)
EXTENDS GatewayProofs, FiniteSetTheorems

\* An e-mail of those there are.
Mailed == \E i \in DOMAIN Scenarios : mail = Scenarios[i].mail

Steered == \E text \in SteeringTexts : Flagged(text, {"steering"})
Steers == \E text \in SteeringTexts : \E flaw \in text.flaws : flaw.kind = "steering"

\* What the score says.
ScoreOK ==
    stage \in {"layer2", "layer4", "done"} =>
        /\ screen.score \in {0, 100, None}
        /\ screen.status = "ok" /\ Steered => screen.score = 100
        /\ screen.score = 100 => Steers

\* What the parser leaves to the policy.
ParsedOK ==
    stage \in {"layer4", "done"} =>
        /\ screen.score = 100 => parsed.source # "llm"
        /\ Len(Items) \in Nat
        /\ \A i \in 1..Len(Items) : Items[i].parse_error # "screened"

\* What has got past the policy.
CallOK ==
    /\ call.at # "idle" =>
           stage = "layer4" /\ (screen.score = 100 => call.verb \notin WriteVerbs)
    /\ call.error # "screened"

OutcomesOK ==
    /\ IsSequence(outcomes)
    /\ stage \notin {"layer4", "done"} => outcomes = <<>>
    /\ \A i \in 1..Len(outcomes) : outcomes[i].error = "screened" => screen.score = 100

GateInv == Mailed /\ ScoreOK /\ ParsedOK /\ CallOK /\ OutcomesOK

-----------------------------------------------------------------------------
(* The score.                                                              *)

\* The parts that count are those that can steer.
LEMMA PartsThatCount ==
    /\ DOMAIN InboundScreenParts = PartNames
    /\ RequestNames \cap PartNames =
          {m \in PartNames : m[1] # "payload" /\ (m[1] = "body" => Parts.blocks = <<>>)}
<1>1. DOMAIN InboundScreenParts = PartNames
  BY DEF InboundScreenParts
<1>2. DOMAIN <<>> = {}
  OBVIOUS
<1>3. ASSUME NEW m \in PartNames, m \in RequestNames
      PROVE  m[1] # "payload" /\ (m[1] = "body" => Parts.blocks = <<>>)
  BY <1>3, <1>2 DEF RequestNames, BlockName
<1>4. ASSUME NEW m \in PartNames, m[1] # "payload", m[1] = "body" => Parts.blocks = <<>>
      PROVE  m \in RequestNames
  BY <1>4, <1>2 DEF PartNames, RequestNames, BlockName
<1> QED BY <1>1, <1>3, <1>4

\* Their texts are sound.
LEMMA PartsSound ==
    ASSUME Mailed, NEW m \in PartNames, m[1] # "payload"
    PROVE  TextSound(InboundScreenParts[m])
<1>1. PICK i \in DOMAIN Scenarios : mail = Scenarios[i].mail
  BY DEF Mailed
<1>2. /\ TextSound(mail.subject) /\ TextSound(Parts.remainder)
      /\ \A j \in DOMAIN Parts.blocks : TextSound(Parts.blocks[j].text)
  BY <1>1, Mails DEF Parts
<1>3. CASE m[1] = "subject"
  BY <1>2, <1>3 DEF InboundScreenParts
<1>4. CASE m[1] = "body"
  BY <1>2, <1>4 DEF InboundScreenParts
<1>5. CASE \E j \in DOMAIN Parts.blocks : m = BlockName(j)
  <2>1. PICK j \in DOMAIN Parts.blocks : m = BlockName(j)
    BY <1>5
  <2>2. m[1] = "request_block" /\ m[2] = j
    BY <2>1 DEF BlockName
  <2> QED BY <1>2, <2>2 DEF InboundScreenParts
<1> QED BY <1>3, <1>4, <1>5 DEF PartNames

\* The score of the parts that count.
LEMMA ScoreOfParts ==
    ASSUME Mailed, NEW lost
    PROVE  LET scores == ScreenParts(InboundScreenParts, lost)
               score == MaxOf(scores, RequestNames)
           IN /\ score \in {0, 100, None}
              /\ lost = {} /\ Steered => score = 100
              /\ score = 100 => Steers
<1> DEFINE parts == InboundScreenParts
           counted == RequestNames \cap PartNames
           values == {ScreenPart(m, parts[m], lost) : m \in counted}
<1>1. MaxOf(ScreenParts(parts, lost), RequestNames) = MaxScore(values)
  BY PartsThatCount DEF MaxOf, ScreenParts
<1>2. \A m \in counted : m \in PartNames /\ TextSound(parts[m]) /\ parts[m] \in SteeringTexts
  BY PartsThatCount, PartsSound DEF SteeringTexts
<1>3. SteeringTexts = {parts[m] : m \in counted}
  BY PartsThatCount DEF SteeringTexts
<1> HIDE DEF parts, counted
<1>4. values \subseteq {0, 100, None}
  BY <1>2, ScreenFinds
<1>5. ASSUME lost = {}, Steered PROVE 100 \in values
  <2>1. PICK m \in counted : Flagged(parts[m], {"steering"})
    BY <1>3, <1>5 DEF Steered
  <2>2. HasPhrase(parts[m], "steering")
    BY <2>1 DEF Flagged, HasPhrase
  <2> QED BY <1>2, <1>5, <2>1, <2>2, ScreenFinds
<1>6. ASSUME 100 \in values PROVE Steers
  <2>1. PICK m \in counted : ScreenPart(m, parts[m], lost) = 100
    BY <1>6
  <2>2. \E flaw \in parts[m].flaws : flaw.kind = "steering"
    BY <1>2, <2>1, ScreenFinds
  <2> QED BY <1>2, <2>1, <2>2 DEF Steers
<1> HIDE DEF values
<1>7. MaxScore(values) \in {0, 100, None} /\ (MaxScore(values) = 100 <=> 100 \in values)
  <2>1. None # 100
    BY NoneIsNoNumber
  <2>2. /\ 100 \in values => MaxScore(values) = 100
        /\ 100 \notin values => MaxScore(values) \in {0, None}
    BY <1>4, MaxScoreIs
  <2> QED BY <2>1, <2>2
<1> QED BY <1>1, <1>5, <1>6, <1>7 DEF parts

-----------------------------------------------------------------------------
(* The policy and the parser.                                              *)

\* What the rules of the verbs may say.
PolicyDecisions == {Allowed, Denied("invalid_params"), Denied("sensitive_query_refused")}

LEMMA KnownDecisions ==
    ASSUME NEW verb \in Verbs, NEW p
    PROVE  EvaluateKnownParams(verb, p) \in PolicyDecisions
<1>1. ASSUME NEW valid PROVE AllowedIf(valid) \in PolicyDecisions
  BY DEF AllowedIf, PolicyDecisions
<1>2. Allowed \in PolicyDecisions /\ Denied("invalid_params") \in PolicyDecisions
         /\ Denied("sensitive_query_refused") \in PolicyDecisions
  BY DEF PolicyDecisions
<1>3. ASSUME NEW q
      PROVE  /\ EvaluateGmailSearch(q) \in PolicyDecisions
             /\ EvaluateCreateDraft(q) \in PolicyDecisions
             /\ EvaluateListEvents(q) \in PolicyDecisions
             /\ EvaluateCreateEvent(q) \in PolicyDecisions
             /\ EvaluateUpdateEvent(q) \in PolicyDecisions
             /\ EvaluateDeleteEvent(q) \in PolicyDecisions
             /\ EvaluateCreateFile(q) \in PolicyDecisions
             /\ EvaluateFileWrite(verb, q) \in PolicyDecisions
  <2>1. EvaluateGmailSearch(q) \in PolicyDecisions
    BY <1>1, <1>2, Zenon DEF EvaluateGmailSearch
  <2>2. EvaluateCreateDraft(q) \in PolicyDecisions
    BY <1>2 DEF EvaluateCreateDraft, AllowedIf
  <2>3. EvaluateListEvents(q) \in PolicyDecisions
    BY <1>1, Zenon DEF EvaluateListEvents
  <2>4. EvaluateCreateEvent(q) \in PolicyDecisions
    BY <1>1, Zenon DEF EvaluateCreateEvent
  <2>5. EvaluateUpdateEvent(q) \in PolicyDecisions
    BY <1>1, Zenon DEF EvaluateUpdateEvent
  <2>6. EvaluateDeleteEvent(q) \in PolicyDecisions
    BY <1>1, Zenon DEF EvaluateDeleteEvent
  <2>7. EvaluateCreateFile(q) \in PolicyDecisions
    BY <1>2 DEF EvaluateCreateFile, AllowedIf
  <2>8. EvaluateFileWrite(verb, q) \in PolicyDecisions
    BY <1>2 DEF EvaluateFileWrite, AllowedIf
  <2> QED BY <2>1, <2>2, <2>3, <2>4, <2>5, <2>6, <2>7, <2>8
<1> QED BY <1>2, <1>3 DEF EvaluateKnownParams, Verbs

\* No rule of the policy but the gate says that a request was screened.
LEMMA PolicyErrors ==
    ASSUME NEW verb, NEW p
    PROVE  EvaluatePolicy(verb, p).error # "screened"
<1>1. None # "screened"
  BY NoneIsNoError
<1>2. ASSUME NEW d \in PolicyDecisions, NEW ignored
      PROVE  d.error # "screened" /\ [d EXCEPT !.ignored = ignored].error # "screened"
  BY <1>1 DEF PolicyDecisions, Allowed, Denied, Decision
<1> QED BY <1>1, <1>2, KnownDecisions DEF EvaluatePolicy, Denied, Decision

\* What the gates make of a score.
LEMMA Gates ==
    ASSUME NEW score \in {0, 100, None}
    PROVE  (score = 100) <=> ~ClearsScreen(score, FALSE)
<1>1. InjectionDenyThreshold \in 1..100 /\ InjectionDenyThreshold # None
  BY ScreenThresholds, NoneIsNoNumber
<1> QED BY <1>1, NoneIsNoNumber DEF ClearsScreen

\* A score of 100 shuts them to every write.
LEMMA GateShuts ==
    ASSUME NEW verb \in WriteVerbs, NEW p
    PROVE  Decide(verb, p, 100).status # "allowed"
<1>1. ~ClearsScreen(100, FALSE)
  BY Gates
<1> QED BY <1>1 DEF Decide, ApplyScreenGate, ApplyExtraParamsGate, Denied, Decision

\* And nothing else is said to be screened.
LEMMA GateReason ==
    ASSUME NEW score \in {0, 100, None}, NEW verb, NEW p,
           Decide(verb, p, score).error = "screened"
    PROVE  score = 100
<1>1. (score = 100) <=> ~ClearsScreen(score, FALSE)
  BY Gates
<1>2. EvaluatePolicy(verb, p).error # "screened"
  BY PolicyErrors
<1> QED BY <1>1, <1>2 DEF Decide, ApplyScreenGate, ApplyExtraParamsGate, Denied, Decision

\* Nothing the parser refuses is said to be screened.
LEMMA ItemErrors ==
    ASSUME NEW items, NEW i, NEW id, NEW payloads
    PROVE  ParseItem(items, i, id, payloads).parse_error # "screened"
<1>1. None # "screened"
  BY NoneIsNoError
<1> QED BY <1>1 DEF ParseItem, BlockError, BlockRequest, Parsed

\* A batch's items are those of its envelope.
LEMMA BatchItems ==
    ASSUME NEW data, NEW payloads, data # Junk,
           data.requests \notin {None, Junk} => IsSequence(data.requests)
    PROVE  LET request == ParseBatch(data, payloads)
           IN /\ request.source = "block"
              /\ request.parse_error # "screened"
              /\ Len(request.batch_items) \in Nat
              /\ \A i \in 1..Len(request.batch_items) :
                     request.batch_items[i].parse_error # "screened"
<1> DEFINE items == data.requests
           id == data.request_id
           parsedItems == [i \in DOMAIN items |-> ParseItem(items, i, id, payloads)]
           full == Parsed(id, "batch", <<>>, "block", None, parsedItems)
           request == ParseBatch(data, payloads)
<1>1. None # "screened"
  BY NoneIsNoError
<1>2. \/ request \in {BlockError(id, "batch", "invalid_request_block"),
                      BlockError(id, "batch", "invalid_payload")}
      \/ request = full /\ items \notin {None, Junk}
  BY DEF ParseBatch
<1>3. CASE request \in {BlockError(id, "batch", "invalid_request_block"),
                       BlockError(id, "batch", "invalid_payload")}
  BY <1>3 DEF BlockError, Parsed
<1>4. CASE request = full /\ items \notin {None, Junk}
  <2>1. /\ full.source = "block" /\ full.parse_error = None
        /\ full.batch_items = parsedItems
    BY DEF Parsed
  <2>2. Len(items) \in Nat /\ DOMAIN items = 1..Len(items)
    BY <1>4 DEF IsSequence
  <2>3. Len(parsedItems) = Len(items)
    <3> HIDE DEF items, id
    <3>1. parsedItems = [i \in 1..Len(items) |-> ParseItem(items, i, id, payloads)]
      BY <2>2
    <3> QED BY <2>2, <3>1
  <2>4. \A i \in 1..Len(parsedItems) : parsedItems[i].parse_error # "screened"
    BY <2>2, <2>3, ItemErrors
  <2> QED BY <1>1, <1>4, <2>1, <2>2, <2>3, <2>4
<1> QED BY <1>2, <1>3, <1>4

\* A score of 100 keeps a message from the reader LLM, and a message that it
\* read is no batch.
LEMMA ParsedErrors ==
    ASSUME Mailed, NEW score \in {0, 100, None}, NEW extraction, NEW fallback
    PROVE  LET request == ParseRequest(Parts, score, extraction, fallback)
           IN /\ score = 100 => request.source # "llm"
              /\ request.parse_error # "screened"
              /\ Len(request.batch_items) \in Nat
              /\ \A i \in 1..Len(request.batch_items) :
                     request.batch_items[i].parse_error # "screened"
<1> DEFINE request == ParseRequest(Parts, score, extraction, fallback)
           Fine(r) == /\ r.parse_error # "screened"
                      /\ Len(r.batch_items) \in Nat
                      /\ \A i \in 1..Len(r.batch_items) : r.batch_items[i].parse_error # "screened"
<1>1. None # "screened"
  BY NoneIsNoError
<1>2. ASSUME NEW id, NEW verb, NEW params, NEW source, NEW error, error # "screened"
      PROVE  Fine(Parsed(id, verb, params, source, error, <<>>))
                /\ Parsed(id, verb, params, source, error, <<>>).source = source
  BY <1>2 DEF Parsed
<1>3. CASE HasBlock(Parts)
  <2> DEFINE Closed(r) == Fine(r) /\ r.source = "block"
  <2>1. ASSUME NEW id, NEW verb, NEW error \in {"invalid_request_block", "invalid_payload",
                                                "ambiguous_request"}
        PROVE  Closed(BlockError(id, verb, error))
    BY <1>2 DEF BlockError
  <2>2. ASSUME NEW id, NEW verb, NEW params PROVE Closed(BlockRequest(id, verb, params))
    BY <1>1, <1>2 DEF BlockRequest
  <2>3. ASSUME NEW data, NEW payloads PROVE Closed(ParseSingle(data, payloads))
    <3> HIDE DEF Closed
    <3> QED BY <2>1, <2>2 DEF ParseSingle
  <2>4. ASSUME ~(Len(Parts.blocks) > 1), Parts.blocks # <<>>,
               ValidateRequestShape(Parts.blocks[1].data).ok
        PROVE  Closed(ParseBatch(Parts.blocks[1].data, Parts.payloads))
    <3> DEFINE data == Parts.blocks[1].data
    <3>1. PICK i \in DOMAIN Scenarios : mail = Scenarios[i].mail
      BY DEF Mailed
    <3>2. IsSequence(Parts.blocks)
      BY <3>1, Mails DEF Parts
    <3>3. 1 \in DOMAIN Parts.blocks
      <4>1. ASSUME NEW s, IsSequence(s), ~(Len(s) > 1), s # <<>> PROVE 1 \in DOMAIN s
        BY <4>1 DEF IsSequence
      <4> QED BY <2>4, <3>2, <4>1
    <3>4. data # Junk
      <4>1. ValidateRequestShape(data).ok => data # Junk
        BY DEF ValidateRequestShape
      <4> QED BY <2>4, <4>1
    <3>5. data.requests \notin {None, Junk} => IsSequence(data.requests)
      BY <3>1, <3>3, <3>4, Mails DEF Parts
    <3> HIDE DEF data
    <3> QED BY <3>4, <3>5, BatchItems DEF data
  <2>5. request = ParseBlock(Parts, fallback)
    BY <1>3 DEF ParseRequest
  <2>6. Closed(ParseBlock(Parts, fallback))
    <3> HIDE DEF Closed
    <3> QED BY <2>1, <2>3, <2>4 DEF ParseBlock
  <2> QED BY <2>5, <2>6
<1>4. CASE ~HasBlock(Parts)
  <2>1. /\ Fine(ParseViaLLM(extraction, fallback))
    <3> HIDE DEF Fine
    <3> QED BY <1>1, <1>2 DEF ParseViaLLM
  <2>2. score = 100 => ~ClearsScreen(score, FALSE)
    BY Gates
  <2>3. /\ Fine(request) /\ (score = 100 => request.source = "screened")
    <3> DEFINE refused == Parsed(fallback, "unsupported", <<>>, "screened", None, <<>>)
               skipped == Parsed(fallback, "unsupported", <<>>, "llm_skipped",
                                 "too_long_for_freeform", <<>>)
    <3>1. Fine(refused) /\ refused.source = "screened"
      BY <1>1, <1>2
    <3>2. Fine(skipped)
      BY <1>2
    <3>3. request = IF ~ClearsScreen(score, FALSE) THEN refused
                    ELSE IF Parts.remainder.size > ReaderLLMMaxInputChars THEN skipped
                    ELSE ParseViaLLM(extraction, fallback)
      BY <1>4 DEF ParseRequest
    <3> HIDE DEF Fine, refused, skipped, request
    <3> QED BY <2>1, <2>2, <3>1, <3>2, <3>3
  <2> QED BY <2>3
<1> QED BY <1>3, <1>4

-----------------------------------------------------------------------------
(* The steps.                                                              *)

\* Which texts steer is a matter of the e-mail.
LEMMA SameTexts ==
    ASSUME mail' = mail
    PROVE  SteeringTexts' = SteeringTexts
BY DEF SteeringTexts, InboundScreenParts, PartNames, Parts

LEMMA SameSteering ==
    ASSUME mail' = mail
    PROVE  Steered' = Steered /\ Steers' = Steers /\ Mailed' = Mailed
BY SameTexts DEF Steered, Steers, Mailed

LEMMA GateInit == Init => GateInv
<1> SUFFICES ASSUME Init PROVE GateInv
  OBVIOUS
<1>1. stage = "layer0" /\ outcomes = <<>> /\ call.at = "idle" /\ call.error = None
  BY DEF Init, NoCall, Call
<1>2. Mailed
  BY DEF Init, Mailed
<1> QED BY <1>1, <1>2, NoneIsNoError DEF GateInv, ScoreOK, ParsedOK, CallOK, OutcomesOK, IsSequence

\* The screen answers, or is not there.
LEMMA ScreenInboundGate ==
    ASSUME GateInv, ScreenInbound
    PROVE  GateInv'
<1> DEFINE parts == InboundScreenParts
           scores(lost) == IF setup.screening THEN ScreenParts(parts, lost) ELSE NoSignal(parts)
           score(lost) == MaxOf(scores(lost), RequestNames)
<1>1. PICK lost : screen' = [score |-> score(lost),
                             status |-> IF ~setup.screening THEN "disabled"
                                        ELSE IF lost # {} THEN "degraded" ELSE "ok"]
  BY DEF ScreenInbound
<1>2. screen'.score = score(lost)
  BY <1>1
<1>3. (screen'.status = "ok") => setup.screening /\ lost = {}
  BY <1>1
<1>4. /\ score(lost) \in {0, 100, None}
      /\ screen'.status = "ok" /\ Steered => score(lost) = 100
      /\ score(lost) = 100 => Steers
  <2>1. CASE setup.screening
    BY <1>3, <2>1, ScoreOfParts DEF GateInv
  <2>2. CASE ~setup.screening
    <3> DEFINE values == {scores(lost)[n] : n \in RequestNames \cap DOMAIN scores(lost)}
    <3>1. values \subseteq {None}
      BY <2>2 DEF NoSignal
    <3>2. score(lost) = MaxScore(values)
      BY DEF MaxOf
    <3> HIDE DEF values
    <3>3. MaxScore(values) \in {0, None} /\ None # 100
      <4>1. None # 100
        BY NoneIsNoNumber
      <4>2. values \subseteq {0, 100, None} /\ 100 \notin values
        BY <3>1, <4>1
      <4> QED BY <4>1, <4>2, MaxScoreIs
    <3> QED BY <1>3, <2>2, <3>2, <3>3
  <2> QED BY <2>1, <2>2
<1> HIDE DEF score
<1>5. ScoreOK'
  BY <1>2, <1>4, SameSteering DEF ScoreOK, ScreenInbound
<1> QED BY <1>5, SameSteering DEF ScreenInbound, GateInv, ParsedOK, CallOK, OutcomesOK,
                                  executorVars

\* The message is parsed.
LEMMA ParseGate ==
    ASSUME GateInv, Parse
    PROVE  GateInv'
<1>1. PICK extraction : parsed' = ParseRequest(Parts, screen.score, extraction, FallbackId)
  BY DEF Parse
<1>2. screen.score \in {0, 100, None}
  BY DEF GateInv, ScoreOK, Parse
<1>3. /\ screen.score = 100 => parsed'.source # "llm"
      /\ parsed'.parse_error # "screened"
      /\ Len(parsed'.batch_items) \in Nat
      /\ \A i \in 1..Len(parsed'.batch_items) : parsed'.batch_items[i].parse_error # "screened"
  BY <1>1, <1>2, ParsedErrors DEF GateInv
<1>4. ParsedOK'
  BY <1>3 DEF ParsedOK, Items, IsBatch, Parse
<1> QED BY <1>4, SameSteering DEF Parse, GateInv, ScoreOK, CallOK, OutcomesOK, executorVars

\* An answer more.
LEMMA AnsweredGate ==
    ASSUME OutcomesOK, NEW outcome, Answered(outcome), stage = "layer4",
           outcome.error = "screened" => screen.score = 100,
           UNCHANGED <<stage, screen>>
    PROVE  OutcomesOK'
<1> DEFINE S == {outcomes[i] : i \in 1..Len(outcomes)} \cup {outcome}
<1>1. outcomes \in Seq(S) /\ outcome \in S
  <2>1. outcomes \in [1..Len(outcomes) -> S]
    BY DEF OutcomesOK, IsSequence
  <2> QED BY <2>1 DEF OutcomesOK, IsSequence
<1> HIDE DEF S
<1>2. /\ Len(outcomes') = Len(outcomes) + 1 /\ Len(outcomes) \in Nat
      /\ \A i \in 1..Len(outcomes) : outcomes'[i] = outcomes[i]
      /\ outcomes'[Len(outcomes) + 1] = outcome
  BY <1>1, AppendProperties, LenProperties DEF Answered
<1>3. IsSequence(outcomes')
  BY AppendSequence DEF Answered, OutcomesOK
<1>4. \A i \in 1..Len(outcomes') : outcomes'[i].error = "screened" => screen'.score = 100
  BY <1>2 DEF OutcomesOK
<1> QED BY <1>3, <1>4 DEF OutcomesOK

\* A request is refused, or its call begins.
LEMMA BeginGate ==
    ASSUME GateInv, Begin
    PROVE  GateInv'
<1> DEFINE i == Len(outcomes) + 1
           item == Items[i]
           decision == DecisionOf(item)
<1>1. /\ stage = "layer4" /\ screen.score \in {0, 100, None}
      /\ item.parse_error # "screened"
  <2>1. Len(outcomes) \in Nat /\ Len(Items) \in Nat /\ Len(outcomes) < Len(Items)
    BY DEF Begin, GateInv, OutcomesOK, IsSequence, ParsedOK
  <2>2. i \in 1..Len(Items)
    BY <2>1
  <2> QED BY <2>2 DEF Begin, GateInv, ParsedOK, ScoreOK
<1> HIDE DEF i, item
<1>2. decision.error = "screened" => screen.score = 100
  <2>1. CASE item.parse_error # None
    BY <1>1, <2>1 DEF DecisionOf, Denied, Decision
  <2>2. CASE item.parse_error = None
    BY <1>1, <2>2, GateReason DEF DecisionOf
  <2> QED BY <2>1, <2>2
<1>3. decision.status = "allowed" /\ screen.score = 100 => item.verb \notin WriteVerbs
  <2>1. CASE item.parse_error # None
    BY <2>1 DEF DecisionOf, Denied, Decision
  <2>2. CASE item.parse_error = None
    <3>1. decision = Decide(item.verb, item.params, screen.score)
      BY <2>2 DEF DecisionOf
    <3>2. \A verb \in WriteVerbs : \A p : Decide(verb, p, 100).status # "allowed"
      BY GateShuts
    <3> QED BY <3>1, <3>2
  <2> QED BY <2>1, <2>2
<1> HIDE DEF decision
<1>4. \/ /\ UNCHANGED call
         /\ Answered(Outcome(item, "duplicate", "duplicate_request", FALSE))
      \/ /\ UNCHANGED call
         /\ Answered(Outcome(item, decision.status, decision.error, FALSE))
      \/ /\ decision.status = "allowed" /\ UNCHANGED outcomes
         /\ call' = Call("start", item.request_id, item.verb, KnownParams(item.verb, item.params))
  BY DEF Begin, i, item, decision
<1>5. UNCHANGED <<stage, mail, screen, parsed>>
  BY DEF Begin
<1>6. OutcomesOK'
  <2>1. \A status, error : Outcome(item, status, error, FALSE).error = error
    BY DEF Outcome
  <2>2. CASE UNCHANGED outcomes
    BY <1>5, <2>2 DEF GateInv, OutcomesOK
  <2>3. CASE Answered(Outcome(item, "duplicate", "duplicate_request", FALSE))
    BY <1>1, <1>5, <2>1, <2>3, AnsweredGate DEF GateInv
  <2>4. CASE Answered(Outcome(item, decision.status, decision.error, FALSE))
    BY <1>1, <1>2, <1>5, <2>1, <2>4, AnsweredGate DEF GateInv
  <2> QED BY <1>4, <2>2, <2>3, <2>4
<1>7. CallOK'
  <2>1. CASE UNCHANGED call
    BY <1>5, <2>1 DEF GateInv, CallOK
  <2>2. CASE /\ decision.status = "allowed"
             /\ call' = Call("start", item.request_id, item.verb, KnownParams(item.verb, item.params))
    <3>1. call'.verb = item.verb /\ call'.error = None
      BY <2>2 DEF Call
    <3> QED BY <1>1, <1>3, <1>5, <2>2, <3>1, NoneIsNoError DEF CallOK
  <2> QED BY <1>4, <2>1, <2>2
<1>8. ScoreOK' /\ ParsedOK' /\ Mailed'
  BY <1>5, SameSteering DEF GateInv, ScoreOK, ParsedOK, Items, IsBatch
<1> QED BY <1>6, <1>7, <1>8 DEF GateInv

\* A call's answer is kept.
LEMMA EndGate ==
    ASSUME GateInv, End
    PROVE  GateInv'
<1>1. call.error # "screened" /\ stage = "layer4"
  BY DEF GateInv, CallOK, End
<1>2. UNCHANGED <<stage, mail, screen, parsed>>
  BY DEF End
<1>3. PICK outcome : Answered(outcome) /\ outcome.error = call.error
  <2> DEFINE made == Outcome(Items[Len(outcomes) + 1], call.status, call.error, call.retryable)
             kept == [made EXCEPT !.ignored = DecisionOf(Items[Len(outcomes) + 1]).ignored,
                                  !.result = call.result]
  <2>1. Answered(kept)
    BY DEF End
  <2>2. kept.error = call.error
    BY DEF Outcome
  <2> QED BY <2>1, <2>2
<1>4. OutcomesOK'
  BY <1>1, <1>2, <1>3, AnsweredGate DEF GateInv
<1>5. call'.at = "idle" /\ call'.error = None
  BY DEF End, NoCall, Call
<1> QED BY <1>2, <1>4, <1>5, NoneIsNoError, SameSteering
        DEF GateInv, ScoreOK, ParsedOK, Items, IsBatch, CallOK

\* A call keeps to its request.
KeepsRequest ==
    /\ call.at # "idle"
    /\ call'.verb = call.verb /\ call'.p = call.p /\ call'.error # "screened"

LEMMA EndsKeepRequest ==
    ASSUME CallShape, call.at # "idle"
    PROVE  /\ \A error : error # "screened" /\ Deny(error) => KeepsRequest
           /\ \A error : Fail(error) => KeepsRequest
           /\ \A result : Complete(result) => KeepsRequest
<1>1. ASSUME NEW status, NEW error, NEW retryable, NEW result, error # "screened",
             Finish(status, error, retryable, result)
      PROVE  KeepsRequest
  BY <1>1 DEF Finish, CallShape, KeepsRequest
<1>2. \A error : ClassifyFailure(error).code # "screened"
  BY DEF ClassifyFailure, Failure
<1> QED BY <1>1, <1>2, NoneIsNoError DEF Deny, Fail, Complete

\* Going on, a call changes only how far it is and what it has read.
LEMMA GoesOnKeepsRequest ==
    ASSUME CallShape, call.at # "idle", call.error # "screened"
    PROVE  /\ \A at : call' = [call EXCEPT !.at = at] => KeepsRequest
           /\ \A seen : call' = [call EXCEPT !.seen = seen] => KeepsRequest
           /\ \A at, seen : call' = [call EXCEPT !.at = at, !.seen = seen] => KeepsRequest
           /\ \A at, target : call' = [call EXCEPT !.at = at, !.target = target] => KeepsRequest
           /\ \A at, seen, since :
                  call' = [call EXCEPT !.at = at, !.seen = seen, !.since = since] => KeepsRequest
           /\ \A at, target, seen, since :
                  call' = [call EXCEPT !.at = at, !.target = target, !.seen = seen,
                                       !.since = since] => KeepsRequest
BY DEF CallShape, KeepsRequest

LEMMA ExecuteKeepsRequest ==
    ASSUME CallShape, call.error # "screened", Execute
    PROVE  KeepsRequest
<1>1. CASE CalendarStep
  <2>1. CASE ListCalendars
    BY <2>1, EndsKeepRequest DEF ListCalendars, Calling
  <2>2. CASE ListEvents
    BY <2>2, EndsKeepRequest, GoesOnKeepsRequest DEF ListEvents, Calling
  <2>3. CASE GuardInvite
    <3>1. \A lost : InviteGuard(InviteTexts, lost) # "screened"
      BY NoneIsNoError DEF InviteGuard
    <3> QED BY <2>3, <3>1, NoneIsNoError, EndsKeepRequest, GoesOnKeepsRequest DEF GuardInvite
  <2>4. CASE StartCreate
    BY <2>4, GoesOnKeepsRequest DEF StartCreate, Calling
  <2>5. CASE InsertEvent
    BY <2>5, EndsKeepRequest DEF InsertEvent, Calling
  <2>6. CASE GetOwnEvent
    <3> DEFINE cal == ResolveCalendar(Requested(call.p), WriteRoles)
               at == IF call.verb = "calendar.update_event" /\ NeedsInviteGuard(Existing(cal), call.p)
                     THEN "invite_guard" ELSE "write"
    <3>1. \/ Deny("invalid_params") \/ Fail(HttpError(404))
          \/ Deny("not_gatekeeper_event") \/ Deny("too_many_attendees")
          \/ call' = [call EXCEPT !.at = at, !.target = cal, !.seen = Existing(cal),
                                  !.since = ownerSteps]
      BY <2>6 DEF GetOwnEvent
    <3> HIDE DEF cal, at
    <3>2. call.at # "idle"
      BY <2>6 DEF GetOwnEvent
    <3>3. CASE call' = [call EXCEPT !.at = at, !.target = cal, !.seen = Existing(cal),
                                    !.since = ownerSteps]
      BY <3>2, <3>3, GoesOnKeepsRequest, Zenon
    <3> QED BY <3>1, <3>2, <3>3, EndsKeepRequest
  <2>7. CASE PatchEvent
    BY <2>7, EndsKeepRequest DEF PatchEvent, Calling
  <2>8. CASE DeleteEvent
    BY <2>8, EndsKeepRequest DEF DeleteEvent, Calling
  <2> QED BY <1>1, <2>1, <2>2, <2>3, <2>4, <2>5, <2>6, <2>7, <2>8 DEF CalendarStep
<1>2. CASE DriveStep
  <2>1. CASE ResolveFolder
    BY <2>1, GoesOnKeepsRequest DEF ResolveFolder, Calling
  <2>2. CASE CreateFile
    BY <2>2, EndsKeepRequest DEF CreateFile, Calling
  <2>3. CASE ResolveFileId
    BY <2>3, EndsKeepRequest, GoesOnKeepsRequest DEF ResolveFileId
  <2>4. CASE ReadFile
    <3>1. call.at # "idle"
      BY <2>4 DEF ReadFile
    <3>2. ASSUME NEW file,
                 call' = [call EXCEPT !.at = "edit_guard", !.seen = file, !.since = ownerSteps]
          PROVE  KeepsRequest
      BY <3>1, <3>2, GoesOnKeepsRequest, Zenon
    <3> QED BY <2>4, <3>1, <3>2, EndsKeepRequest DEF ReadFile
  <2>5. CASE GuardEdit
    <3>1. \A lost : EditGuard(call.p.content, lost) # "screened"
      BY NoneIsNoError DEF EditGuard
    <3> QED BY <2>5, <3>1, NoneIsNoError, EndsKeepRequest, GoesOnKeepsRequest DEF GuardEdit
  <2>6. CASE WriteFile
    BY <2>6, EndsKeepRequest DEF WriteFile
  <2> QED BY <1>2, <2>1, <2>2, <2>3, <2>4, <2>5, <2>6 DEF DriveStep
<1>3. CASE GmailStep
  <2>1. CASE SearchIds
    BY <2>1, GoesOnKeepsRequest DEF SearchIds, Calling
  <2>2. CASE FetchMetadata
    BY <2>2, EndsKeepRequest DEF FetchMetadata, Calling
  <2>3. CASE ReplyHeaders
    <3>1. call.at # "idle"
      BY <2>3 DEF ReplyHeaders, Calling
    <3>2. ASSUME NEW seen, call' = [call EXCEPT !.at = "write", !.seen = seen, !.since = ownerSteps]
          PROVE  KeepsRequest
      BY <3>1, <3>2, GoesOnKeepsRequest, Zenon
    <3> QED BY <2>3, <3>1, <3>2, EndsKeepRequest DEF ReplyHeaders
  <2>4. CASE CreateDraft
    BY <2>4, EndsKeepRequest DEF CreateDraft, Calling
  <2> QED BY <1>3, <2>1, <2>2, <2>3, <2>4 DEF GmailStep
<1>4. CASE Capabilities
  BY <1>4, EndsKeepRequest DEF Capabilities, Calling
<1>5. CASE GoogleFails
  BY <1>5, EndsKeepRequest DEF GoogleFails, AsksGoogle, Running
<1> QED BY <1>1, <1>2, <1>3, <1>4, <1>5 DEF Execute

\* The executors' steps are the service's.
LEMMA ExecuteByService ==
    ASSUME Execute
    PROVE  ownerSteps' = ownerSteps /\ setup' = setup
BY DEF Execute, CalendarStep, ListCalendars, ListEvents, StartCreate, GuardInvite, InsertEvent,
       GetOwnEvent, PatchEvent, DeleteEvent, DriveStep, ResolveFolder, CreateFile, ResolveFileId,
       ReadFile, GuardEdit, WriteFile, GmailStep, SearchIds, FetchMetadata, ReplyHeaders,
       CreateDraft, Capabilities, GoogleFails

LEMMA GateStep ==
    ASSUME Inv, GateInv, [Next]_vars
    PROVE  GateInv'
<1>1. CASE Receive
  BY <1>1, SameSteering DEF Receive, executorVars, GateInv, ScoreOK, ParsedOK, CallOK, OutcomesOK
<1>2. CASE Execute /\ UNCHANGED gatewayVars
  <2>1. KeepsRequest
    BY <1>2, ExecuteKeepsRequest DEF Inv, Shape, GateInv, CallOK
  <2> QED BY <1>2, <2>1, SameSteering
          DEF gatewayVars, KeepsRequest, GateInv, ScoreOK, ParsedOK, Items, IsBatch, CallOK, OutcomesOK
<1>3. CASE Owner /\ UNCHANGED gatewayVars
  <2>1. UNCHANGED call
    BY <1>3 DEF Owner, OwnerChangesEvent, OwnerChangesFile, MailboxChanges, OwnerActs
  <2> QED BY <1>3, <2>1, SameSteering
          DEF gatewayVars, GateInv, ScoreOK, ParsedOK, Items, IsBatch, CallOK, OutcomesOK
<1>4. CASE Reply
  BY <1>4, SameSteering DEF Reply, executorVars, GateInv, ScoreOK, ParsedOK, Items, IsBatch,
                            CallOK, OutcomesOK
<1>5. CASE UNCHANGED vars
  BY <1>5, SameSteering DEF vars, executorVars, gatewayVars, GateInv, ScoreOK, ParsedOK, Items,
                            IsBatch, CallOK, OutcomesOK
<1> QED BY <1>1, <1>2, <1>3, <1>4, <1>5, ScreenInboundGate, ParseGate, BeginGate, EndGate DEF Next

\* When the screen has answered, a message that steers writes nothing and its
\* plain text is not read by the LLM; and what a payload says never stops a
\* request.
THEOREM SteeringStopped == Spec => []ScreenedBeforeWrite
<1>1. ASSUME GateInv PROVE ScreenedBeforeWrite
  BY <1>1 DEF GateInv, ScoreOK, ParsedOK, CallOK, OutcomesOK, IsSequence, ScreenedBeforeWrite,
              Steered, Steers
<1> QED BY GateInit, GateStep, InvHolds, <1>1, PTL DEF Spec

-----------------------------------------------------------------------------
(* The guard of edits.                                                     *)

\* With the screens configured no request writes a malicious text into a
\* file that is there, whichever calls to the classifier fail
\* (_make_drive_edit_guard).
MaliceKeptOut ==
    [][setup.screening /\ ByService =>
        \A id \in FileId : files[id] # None /\ files'[id] # files[id] /\ TextSound(call.p.content) =>
            ~HasPhrase(call.p.content, "malicious")]_vars

\* What has got past the guard.
EditGuarded ==
    call.at = "write" /\ call.verb \in EditVerbs /\ setup.screening /\ TextSound(call.p.content) =>
        ~HasPhrase(call.p.content, "malicious")

\* An edit comes to its write past the guard only.
LEMMA WayToWrite ==
    ASSUME Inv, Execute
    PROVE  call'.at # "write" \/ call'.verb \notin EditVerbs \/ GuardEdit
<1>1. CallShape /\ StepsOfVerbs
  BY DEF Inv, Shape
<1>2. /\ \A error : Deny(error) \/ Fail(error) => call'.at # "write"
      /\ \A result : Complete(result) => call'.at # "write"
  BY <1>1, EndingShape
<1>3. CASE CalendarStep
  <2>1. CASE ListCalendars
    BY <1>2, <2>1 DEF ListCalendars
  <2>2. CASE ListEvents
    <3>1. ASSUME NEW read, call' = [call EXCEPT !.seen = read] PROVE call'.at # "write"
      BY <1>1, <2>2, <3>1 DEF ListEvents, Calling, CallShape
    <3> QED BY <1>2, <2>2, <3>1 DEF ListEvents
  <2>3. CASE GuardInvite
    <3>1. call.verb \notin EditVerbs
      BY <1>1, <2>3 DEF GuardInvite, StepsOfVerbs, EditVerbs
    <3>2. ASSUME call' = [call EXCEPT !.at = "write"] PROVE call'.verb = call.verb
      BY <1>1, <3>2 DEF CallShape
    <3> QED BY <1>2, <2>3, <3>1, <3>2 DEF GuardInvite
  <2>4. CASE StartCreate
    BY <1>1, <2>4 DEF StartCreate, Calling, CallShape, EditVerbs
  <2>5. CASE InsertEvent
    BY <1>2, <2>5 DEF InsertEvent
  <2>6. CASE GetOwnEvent
    <3> DEFINE cal == ResolveCalendar(Requested(call.p), WriteRoles)
               at == IF call.verb = "calendar.update_event" /\ NeedsInviteGuard(Existing(cal), call.p)
                     THEN "invite_guard" ELSE "write"
    <3>1. \/ Deny("invalid_params") \/ Fail(HttpError(404))
          \/ Deny("not_gatekeeper_event") \/ Deny("too_many_attendees")
          \/ call' = [call EXCEPT !.at = at, !.target = cal, !.seen = Existing(cal),
                                  !.since = ownerSteps]
      BY <2>6 DEF GetOwnEvent
    <3> HIDE DEF cal, at
    <3>2. CASE call' = [call EXCEPT !.at = at, !.target = cal, !.seen = Existing(cal),
                                    !.since = ownerSteps]
      BY <1>1, <2>6, <3>2 DEF GetOwnEvent, CallShape, EditVerbs
    <3> QED BY <1>2, <3>1, <3>2
  <2>7. CASE PatchEvent
    BY <1>2, <2>7 DEF PatchEvent
  <2>8. CASE DeleteEvent
    BY <1>2, <2>8 DEF DeleteEvent
  <2> QED BY <1>3, <2>1, <2>2, <2>3, <2>4, <2>5, <2>6, <2>7, <2>8 DEF CalendarStep
<1>4. CASE DriveStep
  <2>1. CASE ResolveFolder
    BY <1>1, <2>1 DEF ResolveFolder, Calling, CallShape, EditVerbs
  <2>2. CASE CreateFile
    BY <1>2, <2>2 DEF CreateFile
  <2>3. CASE ResolveFileId
    <3>1. ASSUME NEW target, call' = [call EXCEPT !.at = "read", !.target = target]
          PROVE  call'.at # "write"
      BY <1>1, <3>1 DEF CallShape
    <3> QED BY <1>2, <2>3, <3>1 DEF ResolveFileId
  <2>4. CASE ReadFile
    <3>1. ASSUME NEW file,
                 call' = [call EXCEPT !.at = "edit_guard", !.seen = file, !.since = ownerSteps]
          PROVE  call'.at # "write"
      BY <1>1, <3>1 DEF CallShape
    <3> QED BY <1>2, <2>4, <3>1 DEF ReadFile
  <2>5. CASE WriteFile
    BY <1>2, <2>5 DEF WriteFile
  <2> QED BY <1>4, <2>1, <2>2, <2>3, <2>4, <2>5 DEF DriveStep
<1>5. CASE GmailStep
  <2>1. CASE SearchIds
    BY <1>1, <2>1 DEF SearchIds, CallShape
  <2>2. CASE FetchMetadata
    BY <1>2, <2>2 DEF FetchMetadata
  <2>3. CASE ReplyHeaders
    <3>1. ASSUME NEW seen, call' = [call EXCEPT !.at = "write", !.seen = seen, !.since = ownerSteps]
          PROVE  call'.verb \notin EditVerbs
      BY <1>1, <2>3, <3>1 DEF ReplyHeaders, Calling, CallShape, EditVerbs
    <3> QED BY <1>2, <2>3, <3>1 DEF ReplyHeaders
  <2>4. CASE CreateDraft
    BY <1>2, <2>4 DEF CreateDraft
  <2> QED BY <1>5, <2>1, <2>2, <2>3, <2>4 DEF GmailStep
<1>6. CASE Capabilities
  BY <1>2, <1>6 DEF Capabilities
<1>7. CASE GoogleFails
  BY <1>2, <1>7 DEF GoogleFails
<1> QED BY <1>3, <1>4, <1>5, <1>6, <1>7 DEF Execute

\* The guard lets nothing malicious past.
LEMMA GuardEditGuards ==
    ASSUME CallShape, GuardEdit
    PROVE  EditGuarded'
<1>1. ASSUME NEW lost, setup.screening, EditGuard(call.p.content, lost) = None,
             call' = [call EXCEPT !.at = "write"], setup' = setup
      PROVE  EditGuarded'
  <2>1. call'.p = call.p
    BY <1>1 DEF CallShape
  <2>2. TextSound(call.p.content) => ~HasPhrase(call.p.content, "malicious")
    BY <1>1, MaliciousRefused, NoneIsNoError
  <2> QED BY <2>1, <2>2 DEF EditGuarded
<1>2. CASE \E error : Deny(error)
  <2>1. call'.at = "done"
    BY <1>2, EndingShape
  <2> QED BY <2>1 DEF EditGuarded
<1>3. CASE ~setup.screening
  BY <1>3 DEF GuardEdit, EditGuarded
<1>4. CASE setup.screening
  BY <1>1, <1>2, <1>4 DEF GuardEdit
<1> QED BY <1>3, <1>4

LEMMA EditGuardedStep ==
    ASSUME Inv, EditGuarded, [Next]_vars
    PROVE  EditGuarded'
<1>1. CASE Execute /\ UNCHANGED gatewayVars
  <2>1. CASE GuardEdit
    BY <2>1, GuardEditGuards DEF Inv, Shape
  <2> QED BY <1>1, <2>1, WayToWrite DEF EditGuarded
<1>2. CASE UNCHANGED <<call, setup>>
  BY <1>2 DEF EditGuarded
<1>3. CASE Begin
  <2>1. CASE UNCHANGED call
    BY <1>2, <1>3, <2>1 DEF Begin
  <2>2. ASSUME NEW id, NEW verb, NEW p, call' = Call("start", id, verb, p) PROVE call'.at # "write"
    BY <2>2 DEF Call
  <2> QED BY <1>3, <2>1, <2>2 DEF Begin, EditGuarded
<1>4. CASE End
  BY <1>4 DEF End, NoCall, Call, EditGuarded
<1> QED BY <1>1, <1>2, <1>3, <1>4
        DEF Next, vars, executorVars, Receive, ScreenInbound, Parse, Reply, Owner,
            OwnerChangesEvent, OwnerChangesFile, MailboxChanges, OwnerActs

\* No request writes a malicious text into a file that is there, as long as
\* the classifier would know it for one.
THEOREM MaliceStopped == Spec => MaliceKeptOut
<1>1. Init => EditGuarded
  BY DEF Init, NoCall, Call, EditGuarded
<1>2. ASSUME Inv, EditGuarded, [Next]_vars
      PROVE  [setup.screening /\ ByService =>
                \A id \in FileId :
                    files[id] # None /\ files'[id] # files[id] /\ TextSound(call.p.content) =>
                        ~HasPhrase(call.p.content, "malicious")]_vars
  <2>1. ASSUME setup.screening, ByService, NEW id \in FileId,
               files[id] # None, files'[id] # files[id]
        PROVE  call.at = "write" /\ call.verb \in EditVerbs
    <3>1. ~CreateFile
      BY <1>2, <2>1 DEF CreateFile, Inv, Shape, FilesOK
    <3>2. WriteFile
      BY <1>2, <2>1, <3>1, ServiceWrites
    <3> QED BY <3>2 DEF WriteFile
  <2> QED BY <1>2, <2>1 DEF EditGuarded
<1> QED BY <1>1, <1>2, EditGuardedStep, InvHolds, PTL DEF Spec, MaliceKeptOut

-----------------------------------------------------------------------------
(* Nothing of a message is dropped in silence: the parser's part.          *)

\* A set has subsets of every size that it allows.
LEMMA SubsetOfSize ==
    ASSUME NEW S, IsFiniteSet(S), NEW n \in Nat, n <= Cardinality(S)
    PROVE  \E T \in SUBSET S : Cardinality(T) = n
<1> DEFINE size == Cardinality(S)
<1>1. size \in Nat /\ ExistsBijection(1..size, S)
  BY FS_CardinalityType
<1>2. PICK f \in Bijection(1..size, S) : TRUE
  BY <1>1 DEF ExistsBijection
<1> HIDE DEF size
<1> DEFINE T == {f[k] : k \in 1..n}
           g == [k \in 1..n |-> f[k]]
<1>3. n <= size
  BY DEF size
<1>4. f \in [1..size -> S] /\ \A j, k \in 1..size : f[j] = f[k] => j = k
  BY <1>2 DEF Bijection, Injection, IsInjective
<1>5. T \in SUBSET S
  BY <1>1, <1>3, <1>4
<1>6. g \in Bijection(1..n, T)
  BY <1>1, <1>3, <1>4 DEF Bijection, Injection, Surjection, IsInjective
<1>7. Cardinality(T) = n
  BY <1>6, FS_CountingElements DEF ExistsBijection
<1> QED BY <1>5, <1>7

\* Of the names of ignored parameters an answer gives all or the most it may.
LEMMA FirstNamesOf ==
    ASSUME NEW names, IsFiniteSet(names)
    PROVE  LET first == FirstNames(names)
           IN /\ first \subseteq names
              /\ first = names \/ Cardinality(first) = IgnoredParamsMax
              /\ Cardinality(first) \in 0..IgnoredParamsMax
<1>1. CASE Cardinality(names) <= IgnoredParamsMax
  BY <1>1, FS_CardinalityType, PolicyConstants DEF FirstNames
<1>2. CASE ~(Cardinality(names) <= IgnoredParamsMax)
  <2>1. Cardinality(names) \in Nat /\ IgnoredParamsMax \in Nat
    BY FS_CardinalityType, PolicyConstants
  <2>2. \E T \in SUBSET names : Cardinality(T) = IgnoredParamsMax
    BY <1>2, <2>1, SubsetOfSize
  <2> QED BY <1>2, <2>1, <2>2 DEF FirstNames
<1> QED BY <1>1, <1>2

\* What an answer must say of the parameters of a request that were not used.
Named(item, ignored) ==
    LET unread == DOMAIN item.params \ VerbParams[item.verb]
    IN /\ ignored \subseteq unread
       /\ ignored = unread \/ Cardinality(ignored) = IgnoredParamsMax
       /\ Cardinality(ignored) \in 0..IgnoredParamsMax

\* No decision says that anything is done, and what is allowed comes with the
\* names of what is not read.
LEMMA DecisionNames ==
    ASSUME NEW item, IsFiniteSet(DOMAIN item.params)
    PROVE  /\ DecisionOf(item).status # "completed"
           /\ DecisionOf(item).status = "allowed" =>
                 item.parse_error = None /\ Named(item, DecisionOf(item).ignored)
<1> DEFINE verb == item.verb
           p == item.params
           unread == DOMAIN p \ VerbParams[verb]
           decision == EvaluateKnownParams(verb, KnownParams(verb, p))
<1>1. ASSUME NEW error PROVE Denied(error).status = "denied"
  BY DEF Denied, Decision
<1>2. CASE item.parse_error # None
  BY <1>1, <1>2 DEF DecisionOf
<1>3. CASE item.parse_error = None
  <2> DEFINE policy == EvaluatePolicy(verb, p)
  <2>1. \/ policy.status \in {"not_implemented", "unsupported", "denied"}
        \/ policy.status = "allowed" /\ policy.ignored = FirstNames(unread)
    <3>1. CASE verb \in NotImplementedVerbs \/ verb \notin Verbs \/ verb = "unsupported"
      BY <3>1 DEF EvaluatePolicy, Decision
    <3>2. CASE ~(verb \in NotImplementedVerbs) /\ verb \in Verbs /\ verb # "unsupported"
      <4> DEFINE named == [decision EXCEPT !.ignored = FirstNames(unread)]
      <4>1. decision \in PolicyDecisions
        BY <3>2, KnownDecisions
      <4>2. \A d \in PolicyDecisions :
                /\ d.status \in {"allowed", "denied"}
                /\ \A names : /\ [d EXCEPT !.ignored = names].status = d.status
                              /\ [d EXCEPT !.ignored = names].ignored = names
        BY DEF PolicyDecisions, Allowed, Denied, Decision
      <4>3. \/ policy = Denied("invalid_params")
            \/ decision.status = "allowed" /\ policy = named
            \/ decision.status # "allowed" /\ policy = decision
        BY <3>2 DEF EvaluatePolicy
      <4>4. /\ named.status = decision.status
            /\ named.ignored = FirstNames(unread)
        BY <4>1, <4>2
      <4>5. Denied("invalid_params").status = "denied"
        BY <1>1
      <4> HIDE DEF decision, policy, unread, named
      <4> QED BY <4>1, <4>2, <4>3, <4>4, <4>5
    <3> QED BY <3>1, <3>2
  <2>2. \/ DecisionOf(item) = policy
        \/ DecisionOf(item).status = "denied"
    BY <1>1, <1>3 DEF DecisionOf, Decide, ApplyExtraParamsGate, ApplyScreenGate
  <2>3. /\ FirstNames(unread) \subseteq unread
        /\ FirstNames(unread) = unread \/ Cardinality(FirstNames(unread)) = IgnoredParamsMax
        /\ Cardinality(FirstNames(unread)) \in 0..IgnoredParamsMax
    <3>1. IsFiniteSet(unread)
      BY FS_Subset
    <3> QED BY <3>1, FirstNamesOf
  <2> HIDE DEF policy
  <2> QED BY <1>3, <2>1, <2>2, <2>3 DEF Named
<1> QED BY <1>2, <1>3

\* A message whose payloads are all used, and one none of whose requests runs.
PayloadsUsed ==
    \A name \in DOMAIN Parts.payloads : \E i \in DOMAIN Items :
        \E f \in PayloadParams(Items[i].verb) \cap DOMAIN Items[i].params :
            Items[i].params[f] = Parts.payloads[name]

Refused == \A i \in 1..Len(Items) : Items[i].parse_error # None

\* The requests that a parsed message comes to.
RequestsOf(request) ==
    IF request.verb = "batch" /\ request.parse_error = None THEN request.batch_items
    ELSE <<request>>

\* What the parser makes of a message with these payloads.
ParsedWhole(request, payloads) ==
    LET items == RequestsOf(request)
    IN /\ \A i \in 1..Len(items) : AreParams(items[i].params)
       /\ \/ \A name \in DOMAIN payloads : \E i \in DOMAIN items :
                 \E f \in PayloadParams(items[i].verb) \cap DOMAIN items[i].params :
                     items[i].params[f] = payloads[name]
          \/ \A i \in 1..Len(items) : items[i].parse_error # None

\* No parameters are sound parameters.
LEMMA NoParams == AreParams(<<>>) /\ DOMAIN <<>> = {}
<1>1. DOMAIN <<>> = {}
  OBVIOUS
<1> QED BY <1>1, FS_EmptySet DEF AreParams

\* The texts of payloads.
SoundPayloads(payloads) == \A name \in DOMAIN payloads : TextSound(payloads[name])

\* A parameter that refers to a payload gets it.
LEMMA Substituted ==
    ASSUME NEW data, NEW payloads, IsMapping(data), data.params # Junk,
           PayloadsResolve(data, payloads), SoundPayloads(payloads)
    PROVE  LET p == SubstitutePayloads(data, payloads)
           IN /\ AreParams(p)
              /\ \A key \in DOMAIN data.refs :
                     key \in DOMAIN p /\ p[key] = payloads[data.refs[key].payload]
<1> DEFINE given == ParamsOf(data)
           refs == DOMAIN data.refs
           p == SubstitutePayloads(data, payloads)
<1>1. AreParams(given)
  BY NoParams DEF IsMapping, ParamsOf
<1>2. IsFiniteSet(refs \cup DOMAIN given)
  BY <1>1, FS_Union DEF IsMapping, AreParams
<1>3. /\ DOMAIN p = refs \cup DOMAIN given
      /\ \A key \in refs : p[key] = payloads[data.refs[key].payload]
      /\ \A key \in DOMAIN given \ refs : p[key] = given[key]
  BY DEF SubstitutePayloads
<1>4. ASSUME NEW key \in refs PROVE key \notin ListParams /\ MayBeText(p[key])
  <2>1. key \in PayloadParams(data.verb) /\ data.refs[key].payload \in DOMAIN payloads
    BY DEF PayloadsResolve
  <2>2. key \in {"body", "content", "description"}
    BY <2>1 DEF PayloadParams
  <2> QED BY <1>3, <2>1, <2>2 DEF ListParams, SoundPayloads, MayBeText
<1> HIDE DEF given, p
<1>5. AreParams(p)
  BY <1>1, <1>2, <1>3, <1>4 DEF AreParams
<1> QED BY <1>3, <1>5 DEF p

\* A message that is refused as a whole.
LEMMA RefusedWhole ==
    ASSUME NEW id, NEW verb, NEW payloads,
           NEW error \in {"invalid_request_block", "invalid_payload", "ambiguous_request"}
    PROVE  ParsedWhole(BlockError(id, verb, error), payloads)
<1> DEFINE request == BlockError(id, verb, error)
<1>1. request.parse_error = error /\ error # None /\ request.params = <<>>
  BY NoneIsNoError DEF BlockError, Parsed
<1>2. RequestsOf(request) = <<request>>
  BY <1>1 DEF RequestsOf
<1>3. AreParams(<<>>)
  BY NoParams
<1> HIDE DEF request
<1>4. Len(<<request>>) = 1 /\ <<request>>[1] = request
  OBVIOUS
<1> QED BY <1>1, <1>2, <1>3, <1>4 DEF ParsedWhole, request

\* A single request that is not refused uses every payload.
LEMMA SingleWhole ==
    ASSUME NEW data, NEW payloads, IsMapping(data), ValidateRequestShape(data).ok,
           data.verb # "batch", SoundPayloads(payloads)
    PROVE  ParsedWhole(ParseSingle(data, payloads), payloads)
<1> DEFINE p == SubstitutePayloads(data, payloads)
           request == BlockRequest(data.request_id, data.verb, p)
<1>1. data.params # Junk
  BY DEF ValidateRequestShape
<1>2. CASE ~PayloadsResolve(data, payloads) \/ DOMAIN payloads \ UsedPayloads(data) # {}
  BY <1>2, RefusedWhole DEF ParseSingle
<1>3. CASE PayloadsResolve(data, payloads) /\ DOMAIN payloads \ UsedPayloads(data) = {}
  <2>1. ParseSingle(data, payloads) = request
    BY <1>3 DEF ParseSingle
  <2>2. request.verb = data.verb /\ request.params = p
    BY DEF BlockRequest, Parsed
  <2>3. /\ AreParams(p)
        /\ \A key \in DOMAIN data.refs :
               key \in DOMAIN p /\ p[key] = payloads[data.refs[key].payload]
    BY <1>1, <1>3, Substituted
  <2>4. ASSUME NEW name \in DOMAIN payloads
        PROVE  \E key \in PayloadParams(data.verb) \cap DOMAIN p : p[key] = payloads[name]
    <3>1. PICK key \in DOMAIN data.refs : data.refs[key].payload = name
      BY <1>3 DEF UsedPayloads
    <3>2. key \in PayloadParams(data.verb)
      BY <1>3 DEF PayloadsResolve
    <3> QED BY <2>3, <3>1, <3>2
  <2> HIDE DEF p, request
  <2>5. RequestsOf(request) = <<request>>
    BY <2>2 DEF RequestsOf
  <2>6. Len(<<request>>) = 1 /\ <<request>>[1] = request /\ DOMAIN <<request>> = {1}
    OBVIOUS
  <2> QED BY <2>1, <2>2, <2>3, <2>4, <2>5, <2>6 DEF ParsedWhole
<1> QED BY <1>2, <1>3
\* An item of a batch, with all its payloads if it is not refused.
LEMMA ItemWhole ==
    ASSUME NEW items, NEW i, NEW id, NEW payloads, SoundPayloads(payloads),
           items[i] # Junk => IsMapping(items[i])
    PROVE  LET item == ParseItem(items, i, id, payloads)
           IN /\ AreParams(item.params)
              /\ item.parse_error = None =>
                    \A key \in DOMAIN items[i].refs :
                        /\ key \in PayloadParams(item.verb) \cap DOMAIN item.params
                        /\ item.params[key] = payloads[items[i].refs[key].payload]
<1> DEFINE data == items[i]
           item == ParseItem(items, i, id, payloads)
           p == SubstitutePayloads(data, payloads)
           taken == BlockRequest(data.request_id, data.verb, p)
<1>1. \/ \E newId, verb, error :
             /\ error \in {"invalid_request_block", "invalid_payload"}
             /\ item = BlockError(newId, verb, error)
      \/ item = taken /\ ValidateRequestShape(data).ok /\ PayloadsResolve(data, payloads)
  BY DEF ParseItem, ValidateRequestShape
<1>2. ASSUME NEW newId, NEW verb, NEW error,
             error \in {"invalid_request_block", "invalid_payload"},
             item = BlockError(newId, verb, error)
      PROVE  item.parse_error # None /\ AreParams(item.params)
  <2>1. item.parse_error = error /\ item.params = <<>>
    BY <1>2 DEF BlockError, Parsed
  <2> QED BY <1>2, <2>1, NoneIsNoError, NoParams
<1>3. CASE item = taken /\ ValidateRequestShape(data).ok /\ PayloadsResolve(data, payloads)
  <2>1. taken.verb = data.verb /\ taken.params = p
    BY DEF BlockRequest, Parsed
  <2>2. data # Junk /\ data.params # Junk
    BY <1>3, NoneIsNoError DEF ValidateRequestShape
  <2>3. /\ AreParams(p)
        /\ \A key \in DOMAIN data.refs :
               key \in DOMAIN p /\ p[key] = payloads[data.refs[key].payload]
    BY <1>3, <2>2, Substituted
  <2>4. \A key \in DOMAIN data.refs : key \in PayloadParams(data.verb)
    BY <1>3 DEF PayloadsResolve
  <2> HIDE DEF p, taken, item
  <2> QED BY <1>3, <2>1, <2>3, <2>4 DEF item
<1> QED BY <1>1, <1>2, <1>3

\* A batch that is not refused uses every payload in some item.
LEMMA BatchWhole ==
    ASSUME NEW data, NEW payloads, SoundPayloads(payloads),
           data.requests \notin {None, Junk} =>
               /\ IsSequence(data.requests)
               /\ \A k \in DOMAIN data.requests :
                      data.requests[k] # Junk => IsMapping(data.requests[k])
    PROVE  ParsedWhole(ParseBatch(data, payloads), payloads)
<1> DEFINE items == data.requests
           id == data.request_id
           parsedItems == [i \in DOMAIN items |-> ParseItem(items, i, id, payloads)]
           taken == {j \in DOMAIN items : parsedItems[j].parse_error = None}
           used == UNION {UsedPayloads(items[i]) : i \in taken}
           full == Parsed(id, "batch", <<>>, "block", None, parsedItems)
           request == ParseBatch(data, payloads)
<1>1. \/ \E error \in {"invalid_request_block", "invalid_payload"} :
             request = BlockError(id, "batch", error)
      \/ request = full /\ items \notin {None, Junk} /\ DOMAIN payloads \ used = {}
  BY DEF ParseBatch
<1>2. CASE \E error \in {"invalid_request_block", "invalid_payload"} :
               request = BlockError(id, "batch", error)
  BY <1>2, RefusedWhole
<1>3. CASE request = full /\ items \notin {None, Junk} /\ DOMAIN payloads \ used = {}
  <2>1. RequestsOf(full) = parsedItems
    BY DEF RequestsOf, Parsed
  <2>2. Len(items) \in Nat /\ DOMAIN items = 1..Len(items)
    BY <1>3 DEF IsSequence
  <2>3. Len(parsedItems) = Len(items) /\ DOMAIN parsedItems = 1..Len(items)
    <3> HIDE DEF items, id
    <3>1. parsedItems = [i \in 1..Len(items) |-> ParseItem(items, i, id, payloads)]
      BY <2>2
    <3> QED BY <2>2, <3>1
  <2>4. ASSUME NEW i \in DOMAIN items
        PROVE  /\ AreParams(parsedItems[i].params)
               /\ parsedItems[i].parse_error = None =>
                     \A key \in DOMAIN items[i].refs :
                         /\ key \in PayloadParams(parsedItems[i].verb) \cap DOMAIN parsedItems[i].params
                         /\ parsedItems[i].params[key] = payloads[items[i].refs[key].payload]
    <3>1. items[i] # Junk => IsMapping(items[i])
      BY <1>3
    <3>2. parsedItems[i] = ParseItem(items, i, id, payloads)
      OBVIOUS
    <3> HIDE DEF parsedItems, items, id
    <3> QED BY <3>1, <3>2, ItemWhole
  <2> HIDE DEF parsedItems
  <2>5. ASSUME NEW name \in DOMAIN payloads
        PROVE  \E i \in DOMAIN parsedItems :
                   \E f \in PayloadParams(parsedItems[i].verb) \cap DOMAIN parsedItems[i].params :
                       parsedItems[i].params[f] = payloads[name]
    <3>1. PICK i \in taken : name \in UsedPayloads(items[i])
      BY <1>3
    <3>2. PICK key \in DOMAIN items[i].refs : items[i].refs[key].payload = name
      BY <3>1 DEF UsedPayloads
    <3>3. i \in DOMAIN items /\ parsedItems[i].parse_error = None
      BY <3>1
    <3> QED BY <2>2, <2>3, <2>4, <3>2, <3>3
  <2> HIDE DEF items, full, request
  <2> QED BY <1>3, <2>1, <2>2, <2>3, <2>4, <2>5 DEF ParsedWhole, request
<1> QED BY <1>1, <1>2, <1>3

\* What the reader LLM fills in.
LEMMA ExtractedSound ==
    ASSUME NEW selection, NEW fields,
           fields.failure = None => AreParams(fields.values)
    PROVE  LET extraction == Extract(selection, fields)
           IN extraction.failure = None => AreParams(extraction.params)
<1>1. CASE selection.failure # None
  BY <1>1 DEF Extract
<1>2. CASE selection.failure = None /\ selection.verb \notin DOMAIN Stage2
  <2>1. Extract(selection, fields).params = <<>>
    BY <1>2 DEF Extract
  <2> QED BY <2>1, NoParams
<1>3. CASE selection.failure = None /\ selection.verb \in DOMAIN Stage2 /\ fields.failure # None
  BY <1>3 DEF Extract
<1>4. CASE selection.failure = None /\ selection.verb \in DOMAIN Stage2 /\ fields.failure = None
  <2> DEFINE filled == {g \in DOMAIN fields.values : fields.values[g] # None}
             p == [f \in filled |-> fields.values[f]]
  <2>1. Extract(selection, fields).params = p
    BY <1>4 DEF Extract
  <2>2. IsFiniteSet(filled)
    BY <1>4, FS_Subset DEF AreParams
  <2>3. AreParams(p)
    BY <1>4, <2>2 DEF AreParams
  <2> QED BY <2>1, <2>3
<1> QED BY <1>1, <1>2, <1>3, <1>4

\* Whichever way a message is parsed, its payloads are used or it is refused.
LEMMA RequestWhole ==
    ASSUME Mailed, NEW score, NEW extraction, NEW fallback,
           ReadsPlainText(Parts, score) /\ extraction.failure = None =>
               AreParams(extraction.params)
    PROVE  ParsedWhole(ParseRequest(Parts, score, extraction, fallback), Parts.payloads)
<1> DEFINE payloads == Parts.payloads
           request == ParseRequest(Parts, score, extraction, fallback)
<1>1. CASE HasBlock(Parts)
  <2> DEFINE data == Parts.blocks[1].data
             shape == ValidateRequestShape(data)
  <2>1. \/ \E id, verb, error :
               /\ error \in {"invalid_request_block", "invalid_payload", "ambiguous_request"}
               /\ request = BlockError(id, verb, error)
        \/ /\ ~(Len(Parts.blocks) > 1) /\ Parts.blocks # <<>> /\ shape.ok
           /\ \/ request = ParseBatch(data, payloads)
              \/ shape.verb # "batch" /\ request = ParseSingle(data, payloads)
    BY <1>1 DEF ParseRequest, ParseBlock
  <2>2. ASSUME ~(Len(Parts.blocks) > 1), Parts.blocks # <<>>, shape.ok
        PROVE  /\ IsMapping(data)
               /\ data.requests \notin {None, Junk} =>
                     /\ IsSequence(data.requests)
                     /\ \A k \in DOMAIN data.requests :
                            data.requests[k] # Junk => IsMapping(data.requests[k])
    <3>1. PICK i \in DOMAIN Scenarios : mail = Scenarios[i].mail
      BY DEF Mailed
    <3>2. IsSequence(Parts.blocks)
      BY <3>1, Mails DEF Parts
    <3>3. 1 \in DOMAIN Parts.blocks
      <4>1. ASSUME NEW s, IsSequence(s), ~(Len(s) > 1), s # <<>> PROVE 1 \in DOMAIN s
        BY <4>1 DEF IsSequence
      <4> QED BY <2>2, <3>2, <4>1
    <3>4. data # Junk
      <4>1. shape.ok => data # Junk
        BY DEF ValidateRequestShape
      <4> QED BY <2>2, <4>1
    <3> QED BY <3>1, <3>3, <3>4, Mails DEF Parts
  <2>3. ASSUME shape.ok, shape.verb # "batch" PROVE data.verb # "batch"
    BY <2>3 DEF ValidateRequestShape
  <2>7. SoundPayloads(payloads)
    BY Mails DEF Mailed, Parts, SoundPayloads
  <2> HIDE DEF data, payloads, request
  <2>4. CASE \E id, verb, error :
                 /\ error \in {"invalid_request_block", "invalid_payload", "ambiguous_request"}
                 /\ request = BlockError(id, verb, error)
    BY <2>4, RefusedWhole DEF request, payloads
  <2>5. CASE /\ ~(Len(Parts.blocks) > 1) /\ Parts.blocks # <<>> /\ shape.ok
             /\ request = ParseBatch(data, payloads)
    BY <2>2, <2>5, <2>7, BatchWhole DEF request, payloads
  <2>6. CASE /\ ~(Len(Parts.blocks) > 1) /\ Parts.blocks # <<>> /\ shape.ok
             /\ shape.verb # "batch" /\ request = ParseSingle(data, payloads)
    BY <2>2, <2>3, <2>6, <2>7, SingleWhole DEF request, payloads
  <2> QED BY <2>1, <2>4, <2>5, <2>6
<1>2. CASE ~HasBlock(Parts)
  <2>1. DOMAIN payloads = {}
    BY <1>2 DEF HasBlock
  <2>2. /\ request.params = <<>> \/ AreParams(request.params)
        /\ request.batch_items = <<>>
    <3>1. CASE ReadsPlainText(Parts, score)
      BY <1>2, <3>1 DEF ParseRequest, ReadsPlainText, ParseViaLLM, Parsed
    <3>2. CASE ~ReadsPlainText(Parts, score)
      <4>1. Parts.remainder.size \in Nat
        BY Mails DEF Mailed, Parts, TextSound
      <4>2. ~ClearsScreen(score, FALSE) \/ Parts.remainder.size > ReaderLLMMaxInputChars
        <5>1. ~ClearsScreen(score, FALSE) \/ ~(Parts.remainder.size <= ReaderLLMMaxInputChars)
          BY <1>2, <3>2, Zenon DEF ReadsPlainText
        <5>2. \A n, m \in Nat : ~(n <= m) => n > m
          OBVIOUS
        <5> QED BY <4>1, <5>1, <5>2, ParserConstants, Zenon
      <4> QED BY <1>2, <4>2 DEF ParseRequest, Parsed
    <3> QED BY <3>1, <3>2
  <2>3. AreParams(<<>>) /\ Len(<<>>) = 0
    BY NoParams
  <2>4. AreParams(request.params)
    BY <2>2, <2>3
  <2> HIDE DEF request, payloads
  <2>5. RequestsOf(request) \in {<<>>, <<request>>}
    BY <2>2 DEF RequestsOf
  <2>6. Len(<<request>>) = 1 /\ <<request>>[1] = request
    OBVIOUS
  <2>7. ASSUME NEW i \in 1..Len(RequestsOf(request))
        PROVE  RequestsOf(request)[i] = request
    BY <2>3, <2>5, <2>6, <2>7
  <2> QED BY <2>1, <2>4, <2>7 DEF ParsedWhole, request, payloads
<1> QED BY <1>1, <1>2
\* What is promised of the answers that have been given.
AnswersName ==
    \A i \in 1..Len(outcomes) : outcomes[i].status = "completed" =>
        Named(Items[i], outcomes[i].ignored)

\* A parsed message is refused or uses its payloads; and the call under way is
\* for the next request, which the policy has allowed.
UsedInv ==
    /\ stage \in {"layer4", "done"} =>
           /\ \A i \in 1..Len(Items) : AreParams(Items[i].params)
           /\ PayloadsUsed \/ Refused
    /\ call.at # "idle" =>
           /\ PayloadsUsed
           /\ Len(outcomes) + 1 \in 1..Len(Items)
           /\ DecisionOf(Items[Len(outcomes) + 1]).status = "allowed"
    /\ AnswersName

\* All of it is about the message, the answers and whether a call is under way.
LEMMA UsedStays ==
    ASSUME UsedInv, UNCHANGED <<mail, screen, parsed, outcomes>>,
           stage' \in {"layer4", "done"} => stage \in {"layer4", "done"},
           call'.at # "idle" => call.at # "idle"
    PROVE  UsedInv'
<1>1. Items' = Items /\ Parts' = Parts
  BY DEF Items, IsBatch, Parts
<1> QED BY <1>1 DEF UsedInv, PayloadsUsed, Refused, AnswersName, DecisionOf

\* One more answer that says what it must.
LEMMA AnsweredNames ==
    ASSUME IsSequence(outcomes), AnswersName, UNCHANGED parsed, NEW outcome, Answered(outcome),
           outcome.status = "completed" => Named(Items[Len(outcomes) + 1], outcome.ignored)
    PROVE  AnswersName'
<1>1. Items' = Items
  BY DEF Items, IsBatch
<1> DEFINE S == {outcomes[i] : i \in 1..Len(outcomes)} \cup {outcome}
<1>2. outcomes \in Seq(S) /\ outcome \in S
  <2>1. outcomes \in [1..Len(outcomes) -> S]
    BY DEF IsSequence
  <2> QED BY <2>1 DEF IsSequence
<1> HIDE DEF S
<1>3. /\ Len(outcomes') = Len(outcomes) + 1 /\ Len(outcomes) \in Nat
      /\ \A i \in 1..Len(outcomes) : outcomes'[i] = outcomes[i]
      /\ outcomes'[Len(outcomes) + 1] = outcome
  BY <1>2, AppendProperties, LenProperties DEF Answered
<1> QED BY <1>1, <1>3 DEF AnswersName

LEMMA ParseUsed ==
    ASSUME GateInv, UsedInv, Parse
    PROVE  UsedInv'
<1>1. /\ Mailed /\ call.at = "idle" /\ outcomes = <<>>
      /\ UNCHANGED <<mail, screen, outcomes, call>>
  BY DEF GateInv, CallOK, OutcomesOK, Parse, executorVars
<1>2. PICK i \in DOMAIN Scenarios : mail = Scenarios[i].mail
  BY <1>1 DEF Mailed
<1>3. ASSUME NEW selection \in mail.selections, NEW fields \in mail.fields
      PROVE  LET extraction == Extract(selection, fields)
             IN extraction.failure = None => AreParams(extraction.params)
  <2>1. fields.failure = None => AreParams(fields.values)
    BY <1>2, Mails
  <2> QED BY <2>1, ExtractedSound
<1>4. PICK extraction :
          /\ parsed' = ParseRequest(Parts, screen.score, extraction, FallbackId)
          /\ ReadsPlainText(Parts, screen.score) /\ extraction.failure = None =>
                 AreParams(extraction.params)
  BY <1>3 DEF Parse
<1>5. ParsedWhole(parsed', Parts.payloads)
  BY <1>1, <1>4, RequestWhole
<1>6. Items' = RequestsOf(parsed') /\ Parts' = Parts
  BY <1>1 DEF Items, IsBatch, RequestsOf, Parts
<1>7. /\ \A j \in 1..Len(Items') : AreParams(Items'[j].params)
      /\ PayloadsUsed' \/ Refused'
  BY <1>5, <1>6 DEF ParsedWhole, PayloadsUsed, Refused
<1>8. AnswersName'
  BY <1>1 DEF AnswersName
<1> QED BY <1>1, <1>7, <1>8 DEF UsedInv

LEMMA BeginUsed ==
    ASSUME GateInv, UsedInv, Begin
    PROVE  UsedInv'
<1> DEFINE i == Len(outcomes) + 1
           item == Items[i]
           decision == DecisionOf(item)
<1>1. UNCHANGED <<stage, mail, screen, parsed>> /\ stage = "layer4" /\ call.at = "idle"
  BY DEF Begin
<1>2. Items' = Items /\ Parts' = Parts
  BY <1>1 DEF Items, IsBatch, Parts
<1>3. i \in 1..Len(Items) /\ IsSequence(outcomes)
  <2>1. Len(outcomes) \in Nat /\ Len(Items) \in Nat /\ Len(outcomes) < Len(Items)
    BY DEF Begin, GateInv, OutcomesOK, IsSequence, ParsedOK
  <2> QED BY <2>1 DEF GateInv, OutcomesOK
<1>4. IsFiniteSet(DOMAIN item.params)
  BY <1>1, <1>3 DEF UsedInv, AreParams
<1>5. /\ decision.status # "completed"
      /\ decision.status = "allowed" => item.parse_error = None
  BY <1>4, DecisionNames
<1>6. /\ \A j \in 1..Len(Items') : AreParams(Items'[j].params)
      /\ PayloadsUsed' \/ Refused'
  BY <1>1, <1>2 DEF UsedInv, PayloadsUsed, Refused
<1>7. CASE /\ UNCHANGED call
           /\ \/ Answered(Outcome(item, "duplicate", "duplicate_request", FALSE))
              \/ Answered(Outcome(item, decision.status, decision.error, FALSE))
  <2>1. \A status, error : Outcome(item, status, error, FALSE).status = status
    BY DEF Outcome
  <2>2. PICK outcome : Answered(outcome) /\ outcome.status # "completed"
    <3> HIDE DEF item, decision
    <3> QED BY <1>5, <1>7, <2>1
  <2>3. AnswersName'
    BY <1>1, <1>3, <2>2, AnsweredNames DEF UsedInv
  <2> QED BY <1>1, <1>6, <1>7, <2>3 DEF UsedInv
<1>8. CASE /\ decision.status = "allowed" /\ UNCHANGED outcomes
  <2>1. ~Refused /\ PayloadsUsed
    BY <1>1, <1>3, <1>5, <1>8 DEF Refused, UsedInv
  <2>2. PayloadsUsed'
    BY <1>2, <2>1 DEF PayloadsUsed
  <2>3. DecisionOf(Items[Len(outcomes) + 1])'.status = "allowed"
    BY <1>1, <1>2, <1>8 DEF DecisionOf
  <2>4. AnswersName'
    BY <1>2, <1>8 DEF AnswersName, UsedInv
  <2> QED BY <1>2, <1>3, <1>6, <1>8, <2>2, <2>3, <2>4 DEF UsedInv
<1> QED BY <1>7, <1>8 DEF Begin

LEMMA EndUsed ==
    ASSUME GateInv, UsedInv, End
    PROVE  UsedInv'
<1> DEFINE item == Items[Len(outcomes) + 1]
           made == Outcome(item, call.status, call.error, call.retryable)
           outcome == [made EXCEPT !.ignored = DecisionOf(item).ignored, !.result = call.result]
<1>1. UNCHANGED <<stage, mail, screen, parsed>> /\ stage = "layer4" /\ call.at # "idle"
  BY DEF End, GateInv, CallOK
<1>2. Items' = Items /\ Parts' = Parts
  BY <1>1 DEF Items, IsBatch, Parts
<1>3. IsFiniteSet(DOMAIN item.params) /\ DecisionOf(item).status = "allowed"
  BY <1>1 DEF UsedInv, AreParams
<1>4. Named(item, DecisionOf(item).ignored)
  BY <1>3, DecisionNames
<1>5. Answered(outcome) /\ outcome.ignored = DecisionOf(item).ignored
  BY DEF End, Outcome
<1> HIDE DEF outcome
<1>6. AnswersName'
  BY <1>1, <1>4, <1>5, AnsweredNames DEF UsedInv, GateInv, OutcomesOK
<1>7. call'.at = "idle"
  BY DEF End, NoCall, Call
<1> QED BY <1>1, <1>2, <1>6, <1>7 DEF UsedInv, PayloadsUsed, Refused

LEMMA UsedStep ==
    ASSUME Inv, GateInv, UsedInv, [Next]_vars
    PROVE  UsedInv'
<1>1. CASE Receive \/ Reply
  BY <1>1, UsedStays DEF Receive, Reply, executorVars
<1>2. CASE ScreenInbound
  <2>1. /\ call.at = "idle" /\ outcomes = <<>> /\ stage' = "layer2"
        /\ UNCHANGED <<call, outcomes>>
    BY <1>2 DEF GateInv, CallOK, OutcomesOK, ScreenInbound, executorVars
  <2> QED BY <2>1 DEF UsedInv, AnswersName
<1>3. CASE Execute /\ UNCHANGED gatewayVars
  <2>1. KeepsRequest
    BY <1>3, ExecuteKeepsRequest DEF Inv, Shape, GateInv, CallOK
  <2> QED BY <1>3, <2>1, UsedStays DEF gatewayVars, KeepsRequest
<1>4. CASE Owner /\ UNCHANGED gatewayVars
  <2>1. UNCHANGED call
    BY <1>4 DEF Owner, OwnerChangesEvent, OwnerChangesFile, MailboxChanges, OwnerActs
  <2> QED BY <1>4, <2>1, UsedStays DEF gatewayVars
<1>5. CASE UNCHANGED vars
  BY <1>5, UsedStays DEF vars, executorVars, gatewayVars
<1> QED BY <1>1, <1>2, <1>3, <1>4, <1>5, ParseUsed, BeginUsed, EndUsed DEF Next

LEMMA UsedInit == Init => UsedInv
<1>1. Init => stage = "layer0" /\ call.at = "idle" /\ outcomes = <<>>
  BY DEF Init, NoCall, Call
<1>2. Len(<<>>) = 0
  OBVIOUS
<1> QED BY <1>1, <1>2 DEF UsedInv, AnswersName

\* A request only runs when every payload of the message is part of some
\* request, and an answer names the parameters that were not used, as many as
\* an answer may name, whatever the message is made of.
THEOREM NothingDropped == Spec => []WholeMessageUsed
<1>1. ASSUME GateInv, UsedInv PROVE WholeMessageUsed
  <2>1. DOMAIN outcomes = 1..Len(outcomes)
    BY <1>1 DEF GateInv, OutcomesOK, IsSequence
  <2> QED BY <1>1, <2>1 DEF UsedInv, PayloadsUsed, AnswersName, Named, Running, WholeMessageUsed
<1> QED BY UsedInit, <1>1, GateInit, GateStep, UsedStep, InvHolds, PTL DEF Spec

-----------------------------------------------------------------------------
(* The types.                                                              *)

\* A call that goes on has no outcome yet, one that is over has one.
GoingOn == {"start", "read", "metadata", "invite_guard", "edit_guard", "write"}

NoOutcome == call.status = None /\ call.error = None /\ ~call.retryable /\ call.result = NoResult

HasOutcome ==
    /\ call.status \in {"completed", "denied", "error"}
    /\ call.error = None <=> call.status = "completed"
    /\ call.status # "completed" => call.result = NoResult
    /\ call.retryable => call.status = "error"

CallTyped ==
    \/ call.at \in GoingOn \cup {"idle"} /\ NoOutcome
    \/ call.at = "done" /\ HasOutcome

\* At most one folder is made for each request that has begun.
FoldersCounted ==
    /\ folders \in Nat
    /\ folders <= Len(outcomes) + 1
    /\ call.at \in {"idle", "start"} => folders <= Len(outcomes)

\* What is there of the message at which stage.
MessageTyped ==
    /\ stage \in {"layer0", "screen", "layer2", "layer4", "done", "rejected"}
    /\ IF stage \in {"layer0", "screen", "rejected"} THEN screen = None
       ELSE DOMAIN screen = {"score", "status"}
    /\ IF stage \in {"layer4", "done"}
       THEN DOMAIN parsed = {"request_id", "verb", "params", "source", "parse_error", "batch_items"}
       ELSE parsed = None
    /\ IF stage = "done" THEN DOMAIN reply = {"size", "block", "items", "shows"} ELSE reply = None

TypeInv == CallTyped /\ FoldersCounted /\ MessageTyped /\ ownerSteps \in 0..MaxOwnerSteps

\* How a step of a call leaves it.
CallEnds == call'.at = "done" /\ HasOutcome'
CallGoesOn(steps) == call'.at \in steps /\ NoOutcome'

LEMMA EndsTyped ==
    ASSUME CallShape
    PROVE  /\ \A error : error # None /\ Deny(error) => CallEnds
           /\ \A error : Fail(error) => CallEnds
           /\ \A result : Complete(result) => CallEnds
<1>1. ASSUME NEW error, error # None, Deny(error) PROVE CallEnds
  BY <1>1 DEF Deny, Finish, CallShape, CallEnds, HasOutcome
<1>2. ASSUME NEW error, Fail(error) PROVE CallEnds
  <2> DEFINE code == ClassifyFailure(error).code
             retryable == ClassifyFailure(error).retryable
  <2>1. code # None
    BY NoneIsNoError DEF ClassifyFailure, Failure
  <2> HIDE DEF code, retryable
  <2>2. call' = [call EXCEPT !.at = "done", !.status = "error", !.error = code,
                             !.retryable = retryable, !.result = NoResult]
    BY <1>2 DEF Fail, Finish, code, retryable
  <2> QED BY <2>1, <2>2 DEF CallShape, CallEnds, HasOutcome
<1>3. ASSUME NEW result, Complete(result) PROVE CallEnds
  BY <1>3 DEF Complete, Finish, CallShape, CallEnds, HasOutcome
<1> QED BY <1>1, <1>2, <1>3

LEMMA GoesOnTyped ==
    ASSUME CallShape, NoOutcome
    PROVE  /\ \A at : call' = [call EXCEPT !.at = at] => CallGoesOn({at})
           /\ \A seen : call' = [call EXCEPT !.seen = seen] => CallGoesOn({call.at})
           /\ \A at, seen : call' = [call EXCEPT !.at = at, !.seen = seen] => CallGoesOn({at})
           /\ \A at, target :
                  call' = [call EXCEPT !.at = at, !.target = target] => CallGoesOn({at})
           /\ \A at, seen, since :
                  call' = [call EXCEPT !.at = at, !.seen = seen, !.since = since] =>
                      CallGoesOn({at})
           /\ \A at, target, seen, since :
                  call' = [call EXCEPT !.at = at, !.target = target, !.seen = seen,
                                       !.since = since] => CallGoesOn({at})
BY DEF CallShape, NoOutcome, CallGoesOn

\* A step of the executors: the call ends, or goes on where it does not begin
\* anew, or reads another page where it began.
CallStepTyped ==
    /\ call.at \in GoingOn
    /\ \/ CallEnds
       \/ CallGoesOn(GoingOn \ {"start"})
       \/ call.at = "start" /\ CallGoesOn({"start"})

LEMMA CalendarTyped ==
    ASSUME CallShape, CallTyped, CalendarStep
    PROVE  CallStepTyped
<1>1. call.at \in GoingOn => NoOutcome
  BY DEF CallTyped, GoingOn
<1>2. CASE ListCalendars
  BY <1>2, EndsTyped DEF ListCalendars, Calling, CallStepTyped, GoingOn
<1>3. CASE ListEvents
  <2>1. call.at = "start" /\ call.at \in GoingOn
    BY <1>3 DEF ListEvents, Calling, GoingOn
  <2>2. \/ Deny("invalid_params")
        \/ \E seen : call' = [call EXCEPT !.seen = seen]
        \/ \E result : Complete(result)
    BY <1>3 DEF ListEvents
  <2> QED BY <1>1, <2>1, <2>2, NoneIsNoError, EndsTyped, GoesOnTyped DEF CallStepTyped
<1>4. CASE GuardInvite
  <2>1. call.at \in GoingOn
    BY <1>4 DEF GuardInvite, GoingOn
  <2>2. \/ \E error : error # None /\ Deny(error)
        \/ call' = [call EXCEPT !.at = "write"]
    BY <1>4 DEF GuardInvite
  <2>3. CallEnds \/ CallGoesOn({"write"})
    BY <1>1, <2>1, <2>2, EndsTyped, GoesOnTyped
  <2> QED BY <2>1, <2>3 DEF CallStepTyped, CallGoesOn, GoingOn
<1>5. CASE StartCreate
  <2>1. call.at \in GoingOn
    BY <1>5 DEF StartCreate, Calling, GoingOn
  <2>2. \E at \in {"invite_guard", "write"} : call' = [call EXCEPT !.at = at]
    BY <1>5 DEF StartCreate
  <2>3. CallGoesOn({"invite_guard", "write"})
    BY <1>1, <2>1, <2>2, GoesOnTyped DEF CallGoesOn
  <2> QED BY <2>1, <2>3 DEF CallStepTyped, CallGoesOn, GoingOn
<1>6. CASE InsertEvent
  BY <1>6, NoneIsNoError, EndsTyped DEF InsertEvent, Calling, CallStepTyped, GoingOn
<1>7. CASE GetOwnEvent
  <2> DEFINE cal == ResolveCalendar(Requested(call.p), WriteRoles)
             at == IF call.verb = "calendar.update_event" /\ NeedsInviteGuard(Existing(cal), call.p)
                   THEN "invite_guard" ELSE "write"
  <2>1. \/ Deny("invalid_params") \/ Fail(HttpError(404))
        \/ Deny("not_gatekeeper_event") \/ Deny("too_many_attendees")
        \/ call' = [call EXCEPT !.at = at, !.target = cal, !.seen = Existing(cal),
                                !.since = ownerSteps]
    BY <1>7 DEF GetOwnEvent
  <2>2. at \in {"invite_guard", "write"}
    OBVIOUS
  <2> HIDE DEF cal, at
  <2>3. call.at \in GoingOn
    BY <1>7 DEF GetOwnEvent, GoingOn
  <2>4. CASE call' = [call EXCEPT !.at = at, !.target = cal, !.seen = Existing(cal),
                                  !.since = ownerSteps]
    <3>1. CallGoesOn({at})
      BY <1>1, <2>3, <2>4, GoesOnTyped, Zenon
    <3> QED BY <2>2, <2>3, <3>1 DEF CallStepTyped, CallGoesOn, GoingOn
  <2>5. CASE \/ Deny("invalid_params") \/ Fail(HttpError(404))
             \/ Deny("not_gatekeeper_event") \/ Deny("too_many_attendees")
    BY <2>3, <2>5, NoneIsNoError, EndsTyped DEF CallStepTyped
  <2> QED BY <2>1, <2>4, <2>5
<1>8. CASE PatchEvent
  BY <1>8, NoneIsNoError, EndsTyped DEF PatchEvent, Calling, CallStepTyped, GoingOn
<1>9. CASE DeleteEvent
  BY <1>9, EndsTyped DEF DeleteEvent, Calling, CallStepTyped, GoingOn
<1> QED BY <1>2, <1>3, <1>4, <1>5, <1>6, <1>7, <1>8, <1>9 DEF CalendarStep

LEMMA DriveTyped ==
    ASSUME CallShape, CallTyped, DriveStep
    PROVE  CallStepTyped
<1>1. call.at \in GoingOn => NoOutcome
  BY DEF CallTyped, GoingOn
<1>2. CASE ResolveFolder
  <2> DEFINE folder == IF setup.folder = None THEN Elsewhere ELSE setup.folder
  <2>1. call.at \in GoingOn
    BY <1>2 DEF ResolveFolder, Calling, GoingOn
  <2>2. call' = [call EXCEPT !.at = "write", !.target = folder]
    BY <1>2 DEF ResolveFolder
  <2> HIDE DEF folder
  <2>3. CallGoesOn({"write"})
    BY <1>1, <2>1, <2>2, GoesOnTyped
  <2> QED BY <2>1, <2>3 DEF CallStepTyped, CallGoesOn, GoingOn
<1>3. CASE CreateFile
  BY <1>3, EndsTyped DEF CreateFile, Calling, CallStepTyped, GoingOn
<1>4. CASE ResolveFileId
  <2>1. call.at \in GoingOn
    BY <1>4 DEF ResolveFileId, GoingOn
  <2>2. \/ Deny("not_found") \/ Deny("ambiguous_file")
        \/ \E target : call' = [call EXCEPT !.at = "read", !.target = target]
    BY <1>4 DEF ResolveFileId
  <2>3. CallEnds \/ CallGoesOn({"read"})
    BY <1>1, <2>1, <2>2, NoneIsNoError, EndsTyped, GoesOnTyped
  <2> QED BY <2>1, <2>3 DEF CallStepTyped, CallGoesOn, GoingOn
<1>5. CASE ReadFile
  <2>1. call.at \in GoingOn
    BY <1>5 DEF ReadFile, GoingOn
  <2>2. \/ Deny("not_gatekeeper_file") \/ Deny("invalid_params") \/ Fail(HttpError(404))
        \/ \E seen : call' = [call EXCEPT !.at = "edit_guard", !.seen = seen, !.since = ownerSteps]
    BY <1>5 DEF ReadFile
  <2>3. ASSUME NEW seen,
               call' = [call EXCEPT !.at = "edit_guard", !.seen = seen, !.since = ownerSteps]
        PROVE  CallGoesOn({"edit_guard"})
    BY <1>1, <2>1, <2>3, GoesOnTyped, Zenon
  <2>4. CallEnds \/ CallGoesOn({"edit_guard"})
    BY <2>2, <2>3, NoneIsNoError, EndsTyped
  <2> QED BY <2>1, <2>4 DEF CallStepTyped, CallGoesOn, GoingOn
<1>6. CASE GuardEdit
  <2>1. call.at \in GoingOn
    BY <1>6 DEF GuardEdit, GoingOn
  <2>2. \/ \E error : error # None /\ Deny(error)
        \/ call' = [call EXCEPT !.at = "write"]
    BY <1>6 DEF GuardEdit
  <2>3. CallEnds \/ CallGoesOn({"write"})
    BY <1>1, <2>1, <2>2, EndsTyped, GoesOnTyped
  <2> QED BY <2>1, <2>3 DEF CallStepTyped, CallGoesOn, GoingOn
<1>7. CASE WriteFile
  BY <1>7, EndsTyped DEF WriteFile, CallStepTyped, GoingOn
<1> QED BY <1>2, <1>3, <1>4, <1>5, <1>6, <1>7 DEF DriveStep

LEMMA GmailTyped ==
    ASSUME CallShape, CallTyped, GmailStep
    PROVE  CallStepTyped
<1>1. call.at \in GoingOn => NoOutcome
  BY DEF CallTyped, GoingOn
<1>2. CASE SearchIds
  <2>1. call.at \in GoingOn
    BY <1>2 DEF SearchIds, Calling, GoingOn
  <2>2. \E seen : call' = [call EXCEPT !.at = "metadata", !.seen = seen]
    BY <1>2 DEF SearchIds
  <2>3. CallGoesOn({"metadata"})
    BY <1>1, <2>1, <2>2, GoesOnTyped
  <2> QED BY <2>1, <2>3 DEF CallStepTyped, CallGoesOn, GoingOn
<1>3. CASE FetchMetadata
  BY <1>3, EndsTyped DEF FetchMetadata, Calling, CallStepTyped, GoingOn
<1>4. CASE ReplyHeaders
  <2>1. call.at \in GoingOn
    BY <1>4 DEF ReplyHeaders, Calling, GoingOn
  <2>2. \/ Fail(HttpError(404))
        \/ \E seen : call' = [call EXCEPT !.at = "write", !.seen = seen, !.since = ownerSteps]
    BY <1>4 DEF ReplyHeaders
  <2>3. ASSUME NEW seen, call' = [call EXCEPT !.at = "write", !.seen = seen, !.since = ownerSteps]
        PROVE  CallGoesOn({"write"})
    BY <1>1, <2>1, <2>3, GoesOnTyped, Zenon
  <2>4. CallEnds \/ CallGoesOn({"write"})
    BY <2>2, <2>3, EndsTyped
  <2> QED BY <2>1, <2>4 DEF CallStepTyped, CallGoesOn, GoingOn
<1>5. CASE CreateDraft
  BY <1>5, EndsTyped DEF CreateDraft, Calling, CallStepTyped, GoingOn
<1> QED BY <1>2, <1>3, <1>4, <1>5 DEF GmailStep

LEMMA ExecuteTyped ==
    ASSUME CallShape, TypeInv, Execute, UNCHANGED gatewayVars
    PROVE  TypeInv'
<1>1. CallStepTyped
  <2>1. CASE Capabilities
    BY <2>1, EndsTyped DEF Capabilities, Calling, CallStepTyped, GoingOn
  <2>2. CASE GoogleFails
    <3>1. call.at \in GoingOn
      BY <2>2 DEF GoogleFails, AsksGoogle, Running, TypeInv, CallTyped, GoingOn
    <3> QED BY <2>2, <3>1, EndsTyped DEF GoogleFails, CallStepTyped
  <2> QED BY <2>1, <2>2, CalendarTyped, DriveTyped, GmailTyped DEF Execute, TypeInv
<1>2. CallTyped'
  BY <1>1 DEF CallStepTyped, CallEnds, CallGoesOn, CallTyped, GoingOn
<1>3. UNCHANGED ownerSteps
  BY ExecuteByService
<1>4. FoldersCounted'
  <2>1. CASE UNCHANGED folders
    BY <1>1, <2>1 DEF CallStepTyped, CallEnds, CallGoesOn, GoingOn, TypeInv, FoldersCounted,
                      gatewayVars
  <2>2. CASE ResolveFolder
    <3>1. call.at = "start" /\ call'.at = "write" /\ folders' \in {folders, folders + 1}
      BY <2>2 DEF ResolveFolder, Calling, CallShape
    <3>2. folders \in Nat /\ folders <= Len(outcomes) /\ outcomes' = outcomes
      BY <3>1 DEF TypeInv, FoldersCounted, gatewayVars
    <3>3. folders' \in Nat /\ folders' <= Len(outcomes) + 1
      BY <3>1, <3>2 DEF IsSequence
    <3> QED BY <3>1, <3>2, <3>3 DEF FoldersCounted
  <2> QED BY <2>1, <2>2 DEF Execute, DriveStep, CreateFile, ResolveFileId, ReadFile, GuardEdit,
                            WriteFile, workspaceVars
<1>5. MessageTyped'
  BY DEF TypeInv, MessageTyped, gatewayVars
<1> QED BY <1>2, <1>3, <1>4, <1>5 DEF TypeInv

\* A parsed request has the fields of one, and so does a reply.
ParsedFields == {"request_id", "verb", "params", "source", "parse_error", "batch_items"}

LEMMA ParsedTyped ==
    ASSUME NEW parts, NEW score, NEW extraction, NEW fallback
    PROVE  DOMAIN ParseRequest(parts, score, extraction, fallback) = ParsedFields
<1>1. \A id, verb, params, source, error, items :
          DOMAIN Parsed(id, verb, params, source, error, items) = ParsedFields
  BY DEF Parsed, ParsedFields
<1>2. \A id, verb, params, error : /\ DOMAIN BlockRequest(id, verb, params) = ParsedFields
                                   /\ DOMAIN BlockError(id, verb, error) = ParsedFields
  BY <1>1 DEF BlockRequest, BlockError
<1>3. \A data, payloads : /\ DOMAIN ParseSingle(data, payloads) = ParsedFields
                          /\ DOMAIN ParseBatch(data, payloads) = ParsedFields
  BY <1>1, <1>2 DEF ParseSingle, ParseBatch
<1>4. DOMAIN ParseBlock(parts, fallback) = ParsedFields
  BY <1>2, <1>3 DEF ParseBlock
<1>5. DOMAIN ParseViaLLM(extraction, fallback) = ParsedFields
  BY <1>1 DEF ParseViaLLM
<1> QED BY <1>1, <1>4, <1>5 DEF ParseRequest

LEMMA ReplyTyped ==
    ASSUME NEW output
    PROVE  DOMAIN Render(output) = {"size", "block", "items", "shows"}
<1>1. \A prose, block : DOMAIN Body(prose, block) = {"size", "block", "items", "shows"}
  BY DEF Body
<1> QED BY <1>1 DEF Render, RenderReply, RenderBatchReply

LEMMA AnsweredTyped ==
    ASSUME IsSequence(outcomes), NEW outcome, Answered(outcome)
    PROVE  Len(outcomes') = Len(outcomes) + 1 /\ Len(outcomes) \in Nat
<1> DEFINE S == {outcomes[i] : i \in 1..Len(outcomes)} \cup {outcome}
<1>1. outcomes \in Seq(S) /\ outcome \in S
  <2>1. outcomes \in [1..Len(outcomes) -> S]
    BY DEF IsSequence
  <2> QED BY <2>1 DEF IsSequence
<1> HIDE DEF S
<1> QED BY <1>1, AppendProperties, LenProperties DEF Answered

LEMMA NewCallTyped ==
    ASSUME NEW id, NEW verb, NEW p
    PROVE  /\ call' = Call("start", id, verb, p) => CallGoesOn({"start"})
           /\ call' = NoCall => CallGoesOn({"idle"})
BY DEF Call, NoCall, CallGoesOn, NoOutcome

LEMMA TypeStep ==
    ASSUME Inv, GateInv, TypeInv, [Next]_vars
    PROVE  TypeInv'
<1>1. IsSequence(outcomes) /\ Len(outcomes) \in Nat
  BY DEF GateInv, OutcomesOK, IsSequence
<1>2. CASE /\ UNCHANGED <<call, ownerSteps, folders, outcomes>>
           /\ MessageTyped'
  BY <1>2 DEF TypeInv, CallTyped, NoOutcome, HasOutcome, FoldersCounted
<1>3. CASE Receive
  <2>1. MessageTyped'
    BY <1>3 DEF Receive, TypeInv, MessageTyped
  <2> QED BY <1>2, <1>3, <2>1 DEF Receive, executorVars, workspaceVars
<1>4. CASE ScreenInbound
  <2>1. DOMAIN screen' = {"score", "status"}
    BY <1>4 DEF ScreenInbound
  <2>2. MessageTyped'
    BY <1>4, <2>1 DEF ScreenInbound, TypeInv, MessageTyped
  <2> QED BY <1>2, <1>4, <2>2 DEF ScreenInbound, executorVars, workspaceVars
<1>5. CASE Parse
  <2>1. DOMAIN parsed' = ParsedFields
    BY <1>5, ParsedTyped DEF Parse
  <2>2. MessageTyped'
    BY <1>5, <2>1 DEF Parse, TypeInv, MessageTyped, ParsedFields
  <2> QED BY <1>2, <1>5, <2>2 DEF Parse, executorVars, workspaceVars
<1>6. CASE Reply
  <2>1. DOMAIN reply' = {"size", "block", "items", "shows"}
    BY <1>6, ReplyTyped DEF Reply
  <2>2. MessageTyped'
    BY <1>6, <2>1 DEF Reply, TypeInv, MessageTyped
  <2> QED BY <1>2, <1>6, <2>2 DEF Reply, executorVars, workspaceVars
<1>7. CASE Begin
  <2>1. /\ UNCHANGED <<ownerSteps, folders>> /\ MessageTyped' /\ call.at = "idle"
        /\ folders \in Nat /\ folders <= Len(outcomes)
    BY <1>7 DEF Begin, workspaceVars, TypeInv, MessageTyped, FoldersCounted
  <2>2. \/ UNCHANGED call /\ \E outcome : Answered(outcome)
        \/ UNCHANGED outcomes /\ \E id, verb, p : call' = Call("start", id, verb, p)
    BY <1>7 DEF Begin
  <2>3. CASE UNCHANGED call /\ \E outcome : Answered(outcome)
    <3>1. Len(outcomes') = Len(outcomes) + 1
      BY <1>1, <2>3, AnsweredTyped
    <3>2. FoldersCounted'
      BY <1>1, <2>1, <2>3, <3>1 DEF FoldersCounted
    <3> QED BY <2>1, <2>3, <3>2 DEF TypeInv, CallTyped, NoOutcome, HasOutcome
  <2>4. CASE UNCHANGED outcomes /\ \E id, verb, p : call' = Call("start", id, verb, p)
    <3>1. CallGoesOn({"start"})
      BY <2>4, NewCallTyped
    <3>2. CallTyped'
      BY <3>1 DEF CallGoesOn, CallTyped, GoingOn
    <3>3. FoldersCounted'
      BY <1>1, <2>1, <2>4 DEF FoldersCounted
    <3> QED BY <2>1, <3>2, <3>3 DEF TypeInv
  <2> QED BY <2>2, <2>3, <2>4
<1>8. CASE End
  <2>1. /\ UNCHANGED <<ownerSteps, folders>> /\ MessageTyped'
        /\ folders \in Nat /\ folders <= Len(outcomes) + 1
    BY <1>8 DEF End, workspaceVars, TypeInv, MessageTyped, FoldersCounted
  <2>2. \E outcome : Answered(outcome)
    BY <1>8 DEF End
  <2>3. Len(outcomes') = Len(outcomes) + 1
    BY <1>1, <2>2, AnsweredTyped
  <2>4. CallGoesOn({"idle"})
    BY <1>8, NewCallTyped DEF End
  <2>5. CallTyped'
    BY <2>4 DEF CallGoesOn, CallTyped
  <2>6. FoldersCounted'
    BY <1>1, <2>1, <2>3 DEF FoldersCounted
  <2> QED BY <2>1, <2>5, <2>6 DEF TypeInv
<1>9. CASE Execute /\ UNCHANGED gatewayVars
  BY <1>9, ExecuteTyped DEF Inv, Shape
<1>10. CASE Owner /\ UNCHANGED gatewayVars
  <2>1. /\ UNCHANGED <<call, folders>>
        /\ ownerSteps < MaxOwnerSteps /\ ownerSteps' = ownerSteps + 1
    BY <1>10 DEF Owner, OwnerChangesEvent, OwnerChangesFile, MailboxChanges, OwnerActs
  <2>2. ownerSteps' \in 0..MaxOwnerSteps
    BY <2>1, OwnerStepsAreCounted DEF TypeInv
  <2>3. FoldersCounted' /\ CallTyped' /\ MessageTyped'
    BY <1>10, <2>1 DEF TypeInv, FoldersCounted, CallTyped, NoOutcome, HasOutcome, MessageTyped,
                       gatewayVars
  <2> QED BY <2>2, <2>3 DEF TypeInv
<1>11. CASE UNCHANGED vars
  <2>1. MessageTyped'
    BY <1>11 DEF vars, gatewayVars, TypeInv, MessageTyped
  <2> QED BY <1>2, <1>11, <2>1 DEF vars, executorVars, workspaceVars, gatewayVars
<1> QED BY <1>3, <1>4, <1>5, <1>6, <1>7, <1>8, <1>9, <1>10, <1>11 DEF Next

\* It has its type at the start.
LEMMA TypeInit == Init => TypeInv
<1> SUFFICES ASSUME Init PROVE TypeInv
  OBVIOUS
<1>1. call.at = "idle" /\ NoOutcome
  BY DEF Init, NoCall, Call, NoOutcome
<1>2. Len(<<>>) = 0
  OBVIOUS
<1>3. FoldersCounted
  BY <1>2 DEF Init, FoldersCounted
<1> QED BY <1>1, <1>3, OwnerStepsAreCounted DEF Init, TypeInv, CallTyped, MessageTyped

\* The state always has its type: a call has an outcome exactly when it is
\* done, and an error code unless it completed; only a completed call has a
\* result, and only an error invites a resend.
THEOREM TypeCorrect == Spec => []TypeOK
<1>1. ASSUME Inv, GateInv, TypeInv PROVE TypeOK
  <2>1. folders \in 0..Len(outcomes) + 1
    BY <1>1 DEF GateInv, OutcomesOK, IsSequence, TypeInv, FoldersCounted
  <2>2. EventsOK /\ FilesOK
    BY <1>1 DEF Inv, Shape
  <2>3. /\ call.at \in {"idle", "start", "read", "metadata", "invite_guard", "edit_guard", "write", "done"}
        /\ call.status \in IF call.at = "done" THEN {"completed", "denied", "error"} ELSE {None}
        /\ call.at = "done" => (call.error = None <=> call.status = "completed")
        /\ call.retryable => call.status = "error"
    BY <1>1 DEF TypeInv, CallTyped, NoOutcome, HasOutcome, GoingOn
  <2>4. call.status # "completed" => call.result = NoResult
    BY <1>1 DEF TypeInv, CallTyped, NoOutcome, HasOutcome
  <2> QED BY <1>1, <2>1, <2>2, <2>3, <2>4 DEF TypeOK, TypeInv, MessageTyped, EventsOK, FilesOK
<1> QED BY <1>1, TypeInit, GateInit, GateStep, TypeStep, InvHolds, PTL DEF Spec
-----------------------------------------------------------------------------
(* What is sent to guests.                                                 *)

\* What the invite guard looks for.
Unfit == {"sensitive", "steering"}

\* The parameters of a new event that is allowed: texts, and a list of guests.
LEMMA CreateTexts ==
    ASSUME NEW p, AreParams(p), EvaluateCreateEvent(p).status = "allowed"
    PROVE  /\ p.title # None /\ TextSound(p.title)
           /\ MayBeText(Field(p, "location")) /\ MayBeText(Field(p, "description"))
           /\ IsSequence(FieldOr(p, "attendees", <<>>))
<1>1. /\ ValidTitle(Field(p, "title"))
      /\ Has(p, "attendees") => ValidAttendees(p.attendees)
      /\ Has(p, "location") => ValidLocation(p.location)
      /\ Has(p, "description") => ValidDescription(p.description)
  BY DEF EvaluateCreateEvent, AllowedIf, Allowed, Denied, Decision, Optional
<1>2. Has(p, "title") /\ p.title # None /\ p.title # Junk
  BY <1>1 DEF ValidTitle, IsFilledLine, IsLine, IsText, Field
<1>3. TextSound(p.title)
  BY <1>2 DEF AreParams, TextParams, Has, MayBeText
<1>4. MayBeText(Field(p, "location"))
  <2>1. Has(p, "location") => p.location # Junk
    BY <1>1 DEF ValidLocation, IsLine, IsText
  <2> QED BY <2>1 DEF AreParams, TextParams, Has, Field, MayBeText
<1>5. MayBeText(Field(p, "description"))
  <2>1. Has(p, "description") => p.description # Junk
    BY <1>1 DEF ValidDescription, IsLines, IsText
  <2> QED BY <2>1 DEF AreParams, TextParams, Has, Field, MayBeText
<1>6. IsSequence(FieldOr(p, "attendees", <<>>))
  <2>1. Has(p, "attendees") => p.attendees # Junk /\ p.attendees # None
    BY <1>1 DEF ValidAttendees, IsText
  <2>2. IsSequence(<<>>)
    BY DEF IsSequence
  <2> QED BY <2>1, <2>2 DEF AreParams, ListParams, Has, FieldOr
<1> QED BY <1>2, <1>3, <1>4, <1>5, <1>6

\* And those of a change that is.
LEMMA UpdateTexts ==
    ASSUME NEW p, AreParams(p), EvaluateUpdateEvent(p).status = "allowed"
    PROVE  /\ Has(p, "title") => MayBeText(p.title)
           /\ Has(p, "location") => MayBeText(p.location)
           /\ Has(p, "description") => MayBeText(p.description)
           /\ IsSequence(Adds(p)) /\ IsSequence(Removes(p))
<1>1. /\ Has(p, "title") => ValidTitle(p.title)
      /\ Has(p, "add_attendees") => ValidAttendees(p.add_attendees)
      /\ Has(p, "remove_attendees") => ValidAttendees(p.remove_attendees)
      /\ Has(p, "location") => ValidLocation(p.location)
      /\ Has(p, "description") => ValidDescription(p.description)
  BY DEF EvaluateUpdateEvent, AllowedIf, Allowed, Denied, Decision, Optional
<1>2. Has(p, "title") => MayBeText(p.title)
  <2>1. Has(p, "title") => p.title # Junk
    BY <1>1 DEF ValidTitle, IsFilledLine, IsLine, IsText
  <2> QED BY <2>1 DEF AreParams, TextParams, Has
<1>3. Has(p, "location") => MayBeText(p.location)
  <2>1. Has(p, "location") => p.location # Junk
    BY <1>1 DEF ValidLocation, IsLine, IsText
  <2> QED BY <2>1 DEF AreParams, TextParams, Has
<1>4. Has(p, "description") => MayBeText(p.description)
  <2>1. Has(p, "description") => p.description # Junk
    BY <1>1 DEF ValidDescription, IsLines, IsText
  <2> QED BY <2>1 DEF AreParams, TextParams, Has
<1>5. IsSequence(<<>>)
  BY DEF IsSequence
<1>6. IsSequence(Adds(p))
  <2>1. Has(p, "add_attendees") => p.add_attendees # Junk /\ p.add_attendees # None
    BY <1>1 DEF ValidAttendees, IsText
  <2> QED BY <2>1, <1>5 DEF AreParams, ListParams, Has, FieldOr, Adds
<1>7. IsSequence(Removes(p))
  <2>1. Has(p, "remove_attendees") => p.remove_attendees # Junk /\ p.remove_attendees # None
    BY <1>1 DEF ValidAttendees, IsText
  <2> QED BY <2>1, <1>5 DEF AreParams, ListParams, Has, FieldOr, Removes
<1> QED BY <1>2, <1>3, <1>4, <1>6, <1>7

\* An empty text is none.
LEMMA NoneIfEmptyKeeps ==
    ASSUME NEW text, MayBeText(text)
    PROVE  /\ MayBeText(NoneIfEmpty(text))
           /\ \A kinds : Flagged(NoneIfEmpty(text), kinds) => Flagged(text, kinds)
BY DEF NoneIfEmpty, MayBeText, Flagged

\* The guests that a change comes to are a list.
LEMMA ResultingSound ==
    ASSUME NEW event, IsLegible(event), NEW p, IsSequence(Adds(p))
    PROVE  /\ IsSequence(ResultingGuests(event, p))
           /\ ChangesGuests(p) => ResultingGuests(event, p) = MergeAttendees(event.guests, Adds(p), Removes(p))
<1>1. IsSequence(event.guests)
  BY DEF IsLegible
<1>2. IsSequence(MergeAttendees(event.guests, Adds(p), Removes(p)))
  BY <1>1, Merged
<1> QED BY <1>1, <1>2 DEF ResultingGuests
\* A new event is legible, and its texts are those the request gives.
LEMMA NewLegible ==
    ASSUME NEW p, AreParams(p), EvaluateCreateEvent(p).status = "allowed", NEW cal, NEW id
    PROVE  LET new == NewEvent(p, cal, id)
           IN /\ IsLegible(new)
              /\ new.guests # <<>> => FieldOr(p, "attendees", <<>>) # <<>>
              /\ new.title = p.title
              /\ new.location = NoneIfEmpty(Field(p, "location"))
              /\ new.description = NoneIfEmpty(Field(p, "description"))
<1> DEFINE new == NewEvent(p, cal, id)
           asked == FieldOr(p, "attendees", <<>>)
           guests == [i \in DOMAIN asked |-> [email |-> p.attendees[i].box, said |-> "needsAction"]]
<1>1. /\ new.guests = guests
      /\ new.title = p.title
      /\ new.location = NoneIfEmpty(Field(p, "location"))
      /\ new.description = NoneIfEmpty(Field(p, "description"))
  BY DEF NewEvent
<1>2. IsSequence(asked)
  BY CreateTexts
<1>3. IsSequence(guests)
  <2> HIDE DEF asked
  <2> QED BY <1>2 DEF IsSequence
<1>4. asked = <<>> => guests = <<>>
  <2>1. DOMAIN <<>> = {} /\ \A f : [i \in {} |-> f[i]] = <<>>
    OBVIOUS
  <2> HIDE DEF asked
  <2> QED BY <2>1
<1>5. MayBeText(new.title) /\ MayBeText(new.location) /\ MayBeText(new.description)
  BY <1>1, CreateTexts, NoneIfEmptyKeeps DEF MayBeText
<1> HIDE DEF new, guests, asked
<1>6. IsLegible(new)
  BY <1>1, <1>3, <1>5 DEF IsLegible
<1> QED BY <1>1, <1>4, <1>6 DEF new, asked

\* What a patch makes of the texts and the guests of an event.
LEMMA PatchLegible ==
    ASSUME NEW event, IsEvent(event), IsLegible(event), NEW seen, IsLegible(seen),
           NEW p, AreParams(p), EvaluateUpdateEvent(p).status = "allowed"
    PROVE  LET new == Patched(event, seen, p)
           IN /\ IsLegible(new)
              /\ new.title = PatchedText(event.title, p, "title")
              /\ new.location = PatchedText(event.location, p, "location")
              /\ new.description = PatchedText(event.description, p, "description")
              /\ new.guests = IF ChangesGuests(p) THEN ResultingGuests(seen, p) ELSE event.guests
<1> DEFINE new == Patched(event, seen, p)
           t == ChangedTimingOf(p)
           timing == IF ChangesTiming(t) THEN UpdatedTiming(SpanOf(seen), t) ELSE SpanOf(event)
           title == PatchedText(event.title, p, "title")
           location == PatchedText(event.location, p, "location")
           description == PatchedText(event.description, p, "description")
           guests == IF ChangesGuests(p) THEN ResultingGuests(seen, p) ELSE event.guests
<1>1. new = [event EXCEPT !.title = title, !.location = location, !.description = description,
                          !.guests = guests,
                          !.allDay = timing.allDay, !.start = timing.start, !.end = timing.end]
  BY DEF Patched
<1>2. MayBeText(title) /\ MayBeText(location) /\ MayBeText(description)
  BY UpdateTexts, NoneIfEmptyKeeps DEF PatchedText, IsLegible
<1>3. IsSequence(guests)
  <2>1. IsSequence(ResultingGuests(seen, p))
    BY UpdateTexts, ResultingSound
  <2> QED BY <2>1 DEF IsLegible
<1> HIDE DEF new, title, location, description, guests, timing
<1>4. /\ new.title = title /\ new.location = location /\ new.description = description
      /\ new.guests = guests
  BY <1>1 DEF IsEvent
<1>5. IsLegible(new)
  BY <1>2, <1>3, <1>4 DEF IsLegible
<1> QED BY <1>4, <1>5 DEF new, title, location, description, guests

\* What the owner makes of an event is legible too.
LEMMA OwnerEditsLegible ==
    ASSUME NEW event, IsEvent(event), IsLegible(event),
           NEW edited \in OwnerEdits(event), edited # None
    PROVE  IsLegible(edited)
<1> DEFINE invited == Append(event.guests, [email |-> OwnersGuest, said |-> "accepted"])
           declined == [i \in DOMAIN event.guests |-> [event.guests[i] EXCEPT !.said = "declined"]]
<1>1. IsSequence(event.guests)
  BY DEF IsLegible
<1>2. IsSequence(invited)
  BY <1>1, AppendSequence
<1>3. IsSequence(declined)
  BY <1>1 DEF IsSequence
<1>4. \/ edited = [event EXCEPT !.title = OwnersTitle]
      \/ edited = [event EXCEPT !.guests = invited]
      \/ edited = [event EXCEPT !.guests = declined]
      \/ edited = [event EXCEPT !.start = event.start + Day, !.end = event.end + Day]
  BY DEF OwnerEdits
<1> HIDE DEF invited, declined
<1>5. CASE edited = [event EXCEPT !.title = OwnersTitle]
  BY <1>5, Workspaces DEF IsEvent, IsLegible, MayBeText
<1>6. CASE edited = [event EXCEPT !.guests = invited]
  BY <1>2, <1>6 DEF IsEvent, IsLegible
<1>7. CASE edited = [event EXCEPT !.guests = declined]
  BY <1>3, <1>7 DEF IsEvent, IsLegible
<1>8. CASE edited = [event EXCEPT !.start = event.start + Day, !.end = event.end + Day]
  BY <1>8 DEF IsEvent, IsLegible
<1> QED BY <1>4, <1>5, <1>6, <1>7, <1>8
\* The texts and the guests on the calendars are texts and lists of guests.
EventsLegible == \A e \in EventId : events[e] # None => IsLegible(events[e])

\* A call has the parameters its request came with.
ParamsKept == call.at # "idle" => AreParams(call.p)

\* A change has read the event it is about, which is as it was read unless the
\* owner has changed something since.
EventSeen ==
    call.at \in {"invite_guard", "write"} /\ call.verb = "calendar.update_event" =>
        /\ IsLegible(call.seen)
        /\ Undisturbed => TargetId \in EventId /\ events[TargetId] = call.seen

InviteVerbs == {"calendar.create_event", "calendar.update_event"}

\* A call that sends guests something.
InvitesGuests ==
    IF call.verb = "calendar.create_event" THEN FieldOr(call.p, "attendees", <<>>) # <<>>
    ELSE NeedsInviteGuard(call.seen, call.p)

InviteIsFit == \A i \in 1..3 : ~Flagged(InviteTexts[i], Unfit)

\* What has got past the guard of invitations.
InviteGuarded ==
    call.at = "write" /\ call.verb \in InviteVerbs /\ setup.screening /\ FailClosed /\ InvitesGuests =>
        InviteIsFit

InviteInv == EventsLegible /\ ParamsKept /\ EventSeen /\ InviteGuarded

\* The texts that the guard is given can be judged.
LEMMA InviteTextsSound ==
    ASSUME Inv, InviteInv, call.at = "invite_guard"
    PROVE  FieldsSound(InviteTexts) /\ DOMAIN InviteTexts = 1..3
<1>1. AreParams(call.p) /\ Running
  BY DEF InviteInv, ParamsKept, Running
<1>2. CASE call.verb = "calendar.create_event"
  <2>1. EvaluateCreateEvent(call.p).status = "allowed"
    BY <1>1, <1>2 DEF Inv, CheckedParams
  <2>2. /\ TextSound(call.p.title)
        /\ MayBeText(Field(call.p, "location")) /\ MayBeText(Field(call.p, "description"))
    BY <1>1, <2>1, CreateTexts
  <2>3. InviteTexts = <<call.p.title, Field(call.p, "location"), Field(call.p, "description")>>
    BY <1>2 DEF InviteTexts
  <2>4. DOMAIN InviteTexts = 1..3 /\ \A i \in 1..3 : MayBeText(InviteTexts[i])
    BY <2>2, <2>3 DEF MayBeText
  <2> QED BY <2>4 DEF FieldsSound, MayBeText
<1>3. CASE call.verb = "calendar.update_event"
  <2>1. EvaluateUpdateEvent(call.p).status = "allowed"
    BY <1>1, <1>3 DEF Inv, CheckedParams
  <2>2. IsLegible(call.seen)
    BY <1>3 DEF InviteInv, EventSeen
  <2>3. InviteTexts = <<FieldOr(call.p, "title", call.seen.title),
                        FieldOr(call.p, "location", call.seen.location),
                        FieldOr(call.p, "description", call.seen.description)>>
    BY <1>3 DEF InviteTexts
  <2>4. /\ MayBeText(FieldOr(call.p, "title", call.seen.title))
        /\ MayBeText(FieldOr(call.p, "location", call.seen.location))
        /\ MayBeText(FieldOr(call.p, "description", call.seen.description))
    BY <1>1, <2>1, <2>2, UpdateTexts DEF FieldOr, IsLegible
  <2>5. DOMAIN InviteTexts = 1..3 /\ \A i \in 1..3 : MayBeText(InviteTexts[i])
    BY <2>3, <2>4
  <2> QED BY <2>5 DEF FieldsSound, MayBeText
<1> QED BY <1>2, <1>3 DEF Inv, StepsOfVerbs

\* The guard lets nothing unfit past, whichever calls are lost.
LEMMA InviteRefused ==
    ASSUME Inv, InviteInv, call.at = "invite_guard", FailClosed, NEW lost,
           InviteGuard(InviteTexts, lost) = None
    PROVE  InviteIsFit
<1> DEFINE texts == InviteTexts
<1>1. FieldsSound(texts) /\ DOMAIN texts = 1..3
  BY InviteTextsSound
<1>2. ~ScreenItem("invite", texts, lost).withheld
  BY NoneIsNoError DEF InviteGuard
<1> HIDE DEF texts
<1>3. ASSUME NEW i \in 1..3, Flagged(texts[i], Unfit) PROVE FALSE
  <2>1. PICK kind \in Unfit : texts[i] # None /\ HasPhrase(texts[i], kind)
    BY <1>3 DEF Flagged, HasPhrase
  <2> QED BY <1>1, <1>2, <2>1, FlawedWithheld DEF Unfit
<1> QED BY <1>3 DEF InviteIsFit, texts

\* An invitation comes to its guard and to its write in three steps only.
LEMMA WayToInvite ==
    ASSUME Inv, Execute
    PROVE  \/ call'.at \notin {"invite_guard", "write"} \/ call'.verb \notin InviteVerbs
           \/ StartCreate \/ GuardInvite \/ GetOwnEvent
<1>1. CallShape /\ StepsOfVerbs
  BY DEF Inv, Shape
<1>2. /\ \A error : Deny(error) \/ Fail(error) => call'.at = "done"
      /\ \A result : Complete(result) => call'.at = "done"
  BY <1>1, EndingShape
<1>3. CASE CalendarStep
  <2>1. CASE ListCalendars
    BY <1>2, <2>1 DEF ListCalendars
  <2>2. CASE ListEvents
    <3>1. ASSUME NEW read, call' = [call EXCEPT !.seen = read] PROVE call'.at = "start"
      BY <1>1, <2>2, <3>1 DEF ListEvents, Calling, CallShape
    <3> QED BY <1>2, <2>2, <3>1 DEF ListEvents
  <2>3. CASE InsertEvent
    BY <1>2, <2>3 DEF InsertEvent
  <2>4. CASE PatchEvent
    BY <1>2, <2>4 DEF PatchEvent
  <2>5. CASE DeleteEvent
    BY <1>2, <2>5 DEF DeleteEvent
  <2> QED BY <1>3, <2>1, <2>2, <2>3, <2>4, <2>5 DEF CalendarStep
<1>4. CASE DriveStep
  <2>1. CASE ResolveFolder
    BY <1>1, <2>1 DEF ResolveFolder, Calling, CallShape, InviteVerbs
  <2>2. CASE CreateFile
    BY <1>2, <2>2 DEF CreateFile
  <2>3. CASE ResolveFileId
    <3>1. ASSUME NEW target, call' = [call EXCEPT !.at = "read", !.target = target]
          PROVE  call'.at = "read"
      BY <1>1, <3>1 DEF CallShape
    <3> QED BY <1>2, <2>3, <3>1 DEF ResolveFileId
  <2>4. CASE ReadFile
    <3>1. ASSUME NEW file,
                 call' = [call EXCEPT !.at = "edit_guard", !.seen = file, !.since = ownerSteps]
          PROVE  call'.at = "edit_guard"
      BY <1>1, <3>1 DEF CallShape
    <3> QED BY <1>2, <2>4, <3>1 DEF ReadFile
  <2>5. CASE GuardEdit
    <3>1. call.verb \notin InviteVerbs
      BY <1>1, <2>5 DEF GuardEdit, StepsOfVerbs, EditVerbs, InviteVerbs
    <3>2. ASSUME call' = [call EXCEPT !.at = "write"] PROVE call'.verb = call.verb
      BY <1>1, <3>2 DEF CallShape
    <3> QED BY <1>2, <2>5, <3>1, <3>2 DEF GuardEdit
  <2>6. CASE WriteFile
    BY <1>2, <2>6 DEF WriteFile
  <2> QED BY <1>4, <2>1, <2>2, <2>3, <2>4, <2>5, <2>6 DEF DriveStep
<1>5. CASE GmailStep
  <2>1. CASE SearchIds
    BY <1>1, <2>1 DEF SearchIds, Calling, CallShape
  <2>2. CASE FetchMetadata
    BY <1>2, <2>2 DEF FetchMetadata
  <2>3. CASE ReplyHeaders
    <3>1. ASSUME NEW seen, call' = [call EXCEPT !.at = "write", !.seen = seen, !.since = ownerSteps]
          PROVE  call'.verb \notin InviteVerbs
      BY <1>1, <2>3, <3>1 DEF ReplyHeaders, Calling, CallShape, InviteVerbs
    <3> QED BY <1>2, <2>3, <3>1 DEF ReplyHeaders
  <2>4. CASE CreateDraft
    BY <1>2, <2>4 DEF CreateDraft
  <2> QED BY <1>5, <2>1, <2>2, <2>3, <2>4 DEF GmailStep
<1>6. CASE Capabilities
  BY <1>2, <1>6 DEF Capabilities
<1>7. CASE GoogleFails
  BY <1>2, <1>7 DEF GoogleFails
<1> QED BY <1>3, <1>4, <1>5, <1>6, <1>7 DEF Execute
\* Events stay legible.
LEMMA LegibleStep ==
    ASSUME Inv, InviteInv, [Next]_vars
    PROVE  EventsLegible'
<1>1. EventsLegible /\ DOMAIN events = EventId
      /\ \A e \in EventId : events[e] # None => IsEvent(events[e])
  BY DEF InviteInv, Inv, Shape, EventsOK
<1>2. CASE events' = events
  BY <1>1, <1>2 DEF EventsLegible
<1>3. CASE Owner /\ events' # events
  <2>1. PICK e \in EventId : \E edited \in OwnerEdits(events[e]) :
            events[e] # None /\ events' = [events EXCEPT ![e] = edited]
    BY <1>3 DEF Owner, OwnerChangesEvent
  <2> PICK edited \in OwnerEdits(events[e]) :
            events[e] # None /\ events' = [events EXCEPT ![e] = edited]
    BY <2>1
  <2>2. edited # None => IsLegible(edited)
    BY <1>1, <2>1, OwnerEditsLegible DEF EventsLegible
  <2> QED BY <1>1, <2>1, <2>2 DEF EventsLegible
<1>4. CASE Execute /\ events' # events
  <2>1. ByService
    BY <1>4, ExecuteByService DEF ByService
  <2>2. ASSUME NEW e \in EventId, events'[e] # None, events'[e] # events[e]
        PROVE  IsLegible(events'[e])
    <3>1. InsertEvent \/ PatchEvent
      BY <2>1, <2>2, EventWritten
    <3>2. call.at = "write" /\ AreParams(call.p) /\ Running
      BY <3>1 DEF InsertEvent, PatchEvent, Calling, InviteInv, ParamsKept, Running
    <3>3. CASE InsertEvent
      <4>1. EvaluateCreateEvent(call.p).status = "allowed"
        BY <3>2, <3>3 DEF Inv, CheckedParams, InsertEvent, Calling
      <4>2. \E cal, id : events'[e] = NewEvent(call.p, cal, id)
        BY <1>1, <2>2, <3>3 DEF InsertEvent
      <4> QED BY <3>2, <4>1, <4>2, NewLegible
    <3>4. CASE PatchEvent
      <4>1. /\ events[e] # None /\ IsEvent(events[e])
            /\ events'[e] = Patched(events[e], call.seen, call.p)
            /\ EvaluateUpdateEvent(call.p).status = "allowed"
        BY <2>2, <3>4, PatchMade
      <4>2. IsLegible(events[e]) /\ IsLegible(call.seen)
        BY <1>1, <3>2, <3>4, <4>1 DEF EventsLegible, InviteInv, EventSeen, PatchEvent, Calling
      <4> QED BY <3>2, <4>1, <4>2, PatchLegible
    <3> QED BY <3>1, <3>3, <3>4
  <2> QED BY <1>1, <2>2 DEF EventsLegible
<1>5. CASE Receive \/ ScreenInbound \/ Parse \/ Begin \/ End \/ Reply \/ UNCHANGED vars
  BY <1>2, <1>5 DEF Receive, ScreenInbound, Parse, Begin, End, Reply, workspaceVars, vars
<1> QED BY <1>2, <1>3, <1>4, <1>5 DEF Next

\* A call is about its request all the time, and knows the event it is about.
LEMMA RequestKept ==
    ASSUME Inv, GateInv, InviteInv, Execute
    PROVE  ParamsKept' /\ EventSeen' /\ InviteGuarded'
<1>1. KeepsRequest /\ UNCHANGED <<ownerSteps, setup>> /\ CallShape /\ TargetId' = TargetId
  BY ExecuteKeepsRequest, ExecuteByService DEF Inv, Shape, GateInv, CallOK, KeepsRequest, TargetId
<1>2. ParamsKept'
  BY <1>1 DEF KeepsRequest, InviteInv, ParamsKept
<1>3. CASE call'.at \notin {"invite_guard", "write"} \/ call'.verb \notin InviteVerbs
  BY <1>2, <1>3 DEF EventSeen, InviteGuarded, InviteVerbs
<1>4. CASE StartCreate
  <2>1. /\ call'.verb = "calendar.create_event" /\ call'.p = call.p
        /\ call'.at = IF FieldOr(call.p, "attendees", <<>>) # <<>> THEN "invite_guard" ELSE "write"
    BY <1>1, <1>4 DEF StartCreate, Calling, CallShape
  <2> QED BY <1>2, <2>1 DEF EventSeen, InviteGuarded, InvitesGuests
<1>5. CASE GuardInvite
  <2>1. CASE \E error : Deny(error)
    <3>1. call'.at = "done"
      BY <1>1, <2>1, EndingShape
    <3> QED BY <1>3, <3>1
  <2>2. CASE /\ call' = [call EXCEPT !.at = "write"]
             /\ \E lost : setup.screening => InviteGuard(InviteTexts, lost) = None
    <3>1. /\ call'.at = "write" /\ call'.verb = call.verb /\ call'.p = call.p
          /\ call'.seen = call.seen /\ call'.since = call.since /\ call.at = "invite_guard"
          /\ events' = events
      BY <1>1, <1>5, <2>2 DEF CallShape, GuardInvite
    <3>2. InviteTexts' = InviteTexts
      BY <3>1 DEF InviteTexts
    <3>3. setup.screening /\ FailClosed => InviteIsFit
      BY <2>2, <3>1, InviteRefused
    <3>4. InviteGuarded'
      BY <1>1, <3>2, <3>3 DEF InviteGuarded, InviteIsFit
    <3>5. EventSeen'
      BY <1>1, <3>1 DEF InviteInv, EventSeen, Undisturbed
    <3> QED BY <1>2, <3>4, <3>5
  <2> QED BY <1>5, <2>1, <2>2 DEF GuardInvite
<1>6. CASE GetOwnEvent
  <2> DEFINE cal == ResolveCalendar(Requested(call.p), WriteRoles)
             event == Existing(cal)
             guarded == call.verb = "calendar.update_event" /\ NeedsInviteGuard(event, call.p)
             at == IF guarded THEN "invite_guard" ELSE "write"
  <2>1. CASE \E error : Deny(error) \/ Fail(error)
    <3>1. call'.at = "done"
      BY <1>1, <2>1, EndingShape
    <3> QED BY <1>3, <3>1
  <2>2. CASE /\ event # None
             /\ call' = [call EXCEPT !.at = at, !.target = cal, !.seen = event, !.since = ownerSteps]
    <3>1. TargetId \in EventId /\ event = events[TargetId] /\ events' = events
      BY <1>6, <2>2 DEF Existing, GetOwnEvent
    <3>2. IsLegible(event)
      BY <2>2, <3>1 DEF InviteInv, EventsLegible
    <3>3. at = "write" => ~guarded
      OBVIOUS
    <3> HIDE DEF event, cal, at
    <3>4. call'.at = at /\ call'.seen = event /\ call'.verb = call.verb /\ call'.p = call.p
      BY <1>1, <2>2 DEF CallShape
    <3>5. EventSeen'
      BY <1>1, <3>1, <3>2, <3>4 DEF EventSeen
    <3>6. call.verb # "calendar.create_event"
      BY <1>6 DEF GetOwnEvent
    <3>7. InvitesGuests' = NeedsInviteGuard(event, call.p)
      BY <3>4, <3>6 DEF InvitesGuests
    <3>8. InviteGuarded'
      BY <3>3, <3>4, <3>6, <3>7 DEF InviteGuarded, InviteVerbs
    <3> QED BY <1>2, <3>5, <3>8
  <2>3. \/ \E error : Deny(error) \/ Fail(error)
        \/ /\ event # None
           /\ call' = [call EXCEPT !.at = at, !.target = cal, !.seen = event, !.since = ownerSteps]
    <3>1. CASE cal = None \/ event = None
      BY <1>6, <3>1 DEF GetOwnEvent
    <3>2. CASE cal # None /\ event # None
      BY <1>6, <3>2 DEF GetOwnEvent
    <3> QED BY <3>1, <3>2
  <2> HIDE DEF cal, event, at
  <2> QED BY <2>1, <2>2, <2>3
<1> QED BY <1>3, <1>4, <1>5, <1>6, WayToInvite
\* The parameters that are read of a request are parameters.
LEMMA KnownAreParams ==
    ASSUME NEW verb, NEW p, AreParams(p)
    PROVE  AreParams(KnownParams(verb, p))
<1> DEFINE known == KnownParams(verb, p)
<1>1. DOMAIN known \subseteq DOMAIN p /\ \A f \in DOMAIN known : known[f] = p[f]
  BY DEF KnownParams
<1> HIDE DEF known
<1>2. IsFiniteSet(DOMAIN known)
  BY <1>1, FS_Subset DEF AreParams
<1>3. /\ \A f \in TextParams \cap DOMAIN known : known[f] = Junk \/ MayBeText(known[f])
      /\ \A f \in ListParams \cap DOMAIN known : known[f] \in {None, Junk} \/ IsSequence(known[f])
  BY <1>1 DEF AreParams
<1> QED BY <1>2, <1>3 DEF AreParams, known

LEMMA InviteInit == Init => InviteInv
<1>1. Init => call.at = "idle"
  BY DEF Init, NoCall, Call
<1>2. Init => EventsLegible
  BY Workspaces DEF Init, EventsLegible
<1> QED BY <1>1, <1>2 DEF InviteInv, ParamsKept, EventSeen, InviteGuarded

LEMMA InviteStep ==
    ASSUME Inv, GateInv, UsedInv, InviteInv, [Next]_vars
    PROVE  InviteInv'
<1>1. EventsLegible'
  BY LegibleStep
<1>2. ASSUME call'.at \notin {"invite_guard", "write"}, ParamsKept' PROVE InviteInv'
  BY <1>1, <1>2 DEF InviteInv, EventSeen, InviteGuarded
<1>3. CASE Execute
  BY <1>1, <1>3, RequestKept DEF InviteInv
<1>4. CASE Begin /\ UNCHANGED call
  BY <1>2, <1>4 DEF Begin, InviteInv, ParamsKept
<1>5. CASE Begin /\ call' # call
  <2> DEFINE i == Len(outcomes) + 1
             item == Items[i]
             p == KnownParams(item.verb, item.params)
  <2>1. i \in 1..Len(Items) /\ stage = "layer4"
    BY <1>5 DEF Begin, GateInv, OutcomesOK, IsSequence, ParsedOK
  <2>2. AreParams(p)
    BY <2>1, KnownAreParams DEF UsedInv
  <2>3. call' = Call("start", item.request_id, item.verb, p)
    BY <1>5 DEF Begin
  <2> HIDE DEF p
  <2>4. call'.at = "start" /\ call'.p = p
    BY <2>3 DEF Call
  <2> QED BY <1>2, <2>2, <2>4 DEF ParamsKept
<1>6. CASE End
  BY <1>2, <1>6 DEF End, NoCall, Call, ParamsKept
<1>7. CASE Owner
  <2>1. UNCHANGED <<call, setup>> /\ ~Undisturbed'
    BY <1>7 DEF Owner, OwnerChangesEvent, OwnerChangesFile, MailboxChanges, OwnerActs, Undisturbed,
                Inv, Shape, CountersOK
  <2>2. ParamsKept' /\ EventSeen' /\ InviteGuarded'
    BY <2>1 DEF InviteInv, ParamsKept, EventSeen, InviteGuarded, InvitesGuests, InviteIsFit, InviteTexts
  <2> QED BY <1>1, <2>2 DEF InviteInv
<1>8. CASE Receive \/ ScreenInbound \/ Parse \/ Reply \/ UNCHANGED vars
  <2>1. UNCHANGED <<call, setup, ownerSteps, events>>
    BY <1>8 DEF Receive, ScreenInbound, Parse, Reply, vars, executorVars, workspaceVars
  <2>2. ParamsKept' /\ EventSeen' /\ InviteGuarded'
    BY <2>1 DEF InviteInv, ParamsKept, EventSeen, InviteGuarded, InvitesGuests, InviteIsFit, InviteTexts,
                Undisturbed, TargetId
  <2> QED BY <1>1, <2>2 DEF InviteInv
<1> QED BY <1>3, <1>4, <1>5, <1>6, <1>7, <1>8 DEF Next

\* What an update comes to: the texts are those of the event as it is now, and
\* the guests those of the event as it was read.
LEMMA PatchComesTo ==
    ASSUME Inv, InviteInv, PatchEvent, NEW e \in EventId, events'[e] # events[e]
    PROVE  /\ TargetId = e /\ IsLegible(call.seen) /\ IsLegible(events[e])
           /\ AreParams(call.p) /\ EvaluateUpdateEvent(call.p).status = "allowed"
           /\ events'[e].title = PatchedText(events[e].title, call.p, "title")
           /\ events'[e].location = PatchedText(events[e].location, call.p, "location")
           /\ events'[e].description = PatchedText(events[e].description, call.p, "description")
           /\ events'[e].guests = IF ChangesGuests(call.p) THEN ResultingGuests(call.seen, call.p)
                                  ELSE events[e].guests
<1>1. call.at = "write" /\ call.verb = "calendar.update_event" /\ DOMAIN events = EventId
  BY DEF PatchEvent, Calling, Inv, Shape, EventsOK
<1>2. TargetId = e
  BY <1>1 DEF PatchEvent
<1>3. IsLegible(call.seen) /\ AreParams(call.p)
  BY <1>1 DEF InviteInv, EventSeen, ParamsKept
<1>4. /\ IsEvent(events[e]) /\ events'[e] = Patched(events[e], call.seen, call.p)
      /\ EvaluateUpdateEvent(call.p).status = "allowed" /\ events[e] # None
  BY PatchMade
<1>5. IsLegible(events[e])
  BY <1>4 DEF InviteInv, EventsLegible
<1> DEFINE old == events[e]
           seen == call.seen
           p == call.p
<1> HIDE DEF old, seen, p
<1>6. IsEvent(old) /\ IsLegible(old) /\ IsLegible(seen) /\ AreParams(p)
      /\ EvaluateUpdateEvent(p).status = "allowed"
  BY <1>3, <1>4, <1>5 DEF old, seen, p
<1>7. LET new == Patched(old, seen, p)
      IN /\ new.title = PatchedText(old.title, p, "title")
         /\ new.location = PatchedText(old.location, p, "location")
         /\ new.description = PatchedText(old.description, p, "description")
         /\ new.guests = IF ChangesGuests(p) THEN ResultingGuests(seen, p) ELSE old.guests
  BY <1>6, PatchLegible
<1> QED BY <1>2, <1>3, <1>4, <1>5, <1>7 DEF old, seen, p

\* The event an update writes to, unless the owner has changed something since,
\* is as it was read.
LEMMA PatchSeen ==
    ASSUME Inv, InviteInv, PatchEvent, Undisturbed, NEW e \in EventId, events'[e] # events[e]
    PROVE  /\ events[e] = call.seen /\ IsLegible(call.seen)
           /\ AreParams(call.p) /\ EvaluateUpdateEvent(call.p).status = "allowed"
           /\ events'[e].guests = ResultingGuests(call.seen, call.p)
<1>1. call.at = "write" /\ call.verb = "calendar.update_event"
  BY DEF PatchEvent, Calling
<1>2. TargetId = e
  BY PatchComesTo
<1>3. events[e] = call.seen
  BY <1>1, <1>2 DEF InviteInv, EventSeen
<1>4. events'[e].guests = IF ChangesGuests(call.p) THEN ResultingGuests(call.seen, call.p)
                          ELSE events[e].guests
  BY PatchComesTo
<1>5. /\ IsLegible(call.seen) /\ AreParams(call.p)
      /\ EvaluateUpdateEvent(call.p).status = "allowed"
  BY PatchComesTo
<1> QED BY <1>3, <1>4, <1>5 DEF ResultingGuests

\* What a new event sends its guests.
LEMMA CreationFit ==
    ASSUME Inv, InviteInv, setup.screening, FailClosed, InsertEvent,
           NEW e \in EventId, events'[e] # events[e], events'[e].guests # <<>>, NEW i \in 1..3
    PROVE  ~Flagged(Texts(events'[e])[i], Unfit)
<1>1. call.at = "write" /\ call.verb = "calendar.create_event" /\ DOMAIN events = EventId
  BY DEF InsertEvent, Calling, Inv, Shape, EventsOK
<1>2. AreParams(call.p) /\ EvaluateCreateEvent(call.p).status = "allowed"
  BY <1>1 DEF InviteInv, ParamsKept, Inv, CheckedParams, Running
<1>3. \E cal, id : events'[e] = NewEvent(call.p, cal, id)
  BY <1>1 DEF InsertEvent
<1> DEFINE location == Field(call.p, "location")
           description == Field(call.p, "description")
<1>4. /\ FieldOr(call.p, "attendees", <<>>) # <<>>
      /\ Texts(events'[e]) = <<call.p.title, NoneIfEmpty(location), NoneIfEmpty(description)>>
  BY <1>2, <1>3, NewLegible DEF Texts
<1>5. MayBeText(location) /\ MayBeText(description)
  BY <1>2, CreateTexts
<1>6. InviteIsFit /\ InviteTexts = <<call.p.title, location, description>>
  BY <1>1, <1>4 DEF InviteInv, InviteGuarded, InvitesGuests, InviteVerbs, InviteTexts
<1> HIDE DEF location, description
<1>7. ~Flagged(call.p.title, Unfit) /\ ~Flagged(location, Unfit) /\ ~Flagged(description, Unfit)
  BY <1>6 DEF InviteIsFit
<1> QED BY <1>4, <1>5, <1>7, NoneIfEmptyKeeps

\* The judgement of a text that a request names, and of one that it leaves as
\* it was read, covers what the event then says.
LEMMA JudgedText ==
    ASSUME NEW p, NEW f, NEW old, NEW seen, Has(p, f) => MayBeText(p[f]),
           ~Flagged(FieldOr(p, f, seen), Unfit)
    PROVE  LET new == PatchedText(old, p, f)
           IN Flagged(new, Unfit) => new = old /\ old # seen
<1>1. CASE Has(p, f)
  BY <1>1, NoneIfEmptyKeeps DEF PatchedText, FieldOr
<1>2. CASE ~Has(p, f)
  BY <1>2 DEF PatchedText, FieldOr
<1> QED BY <1>1, <1>2

\* What an update sends its guests, whatever the owner has done since the event
\* was read.
LEMMA ChangeFit ==
    ASSUME Inv, InviteInv, setup.screening, FailClosed, PatchEvent,
           NEW e \in EventId, events'[e] # events[e], events'[e].guests # <<>>,
           ~OnlyMoves(events[e], events'[e]), ~InvitedSince(events[e], events'[e]),
           NEW i \in 1..3, Flagged(Texts(events'[e])[i], Unfit)
    PROVE  WrittenSince(events[e], events'[e], i)
<1> DEFINE old == events[e]
           new == events'[e]
           seen == call.seen
           p == call.p
           title == FieldOr(p, "title", seen.title)
           location == FieldOr(p, "location", seen.location)
           description == FieldOr(p, "description", seen.description)
<1>1. call.at = "write" /\ call.verb = "calendar.update_event"
  BY DEF PatchEvent, Calling
<1>2. /\ IsLegible(seen) /\ AreParams(p) /\ EvaluateUpdateEvent(p).status = "allowed"
      /\ new.title = PatchedText(old.title, p, "title")
      /\ new.location = PatchedText(old.location, p, "location")
      /\ new.description = PatchedText(old.description, p, "description")
      /\ new.guests = IF ChangesGuests(p) THEN ResultingGuests(seen, p) ELSE old.guests
  BY PatchComesTo
<1>3. /\ ~(Adds(p) = <<>> /\ Texts(new) = Texts(old))
      /\ ~(seen.guests = <<>> /\ new.guests = old.guests) /\ new.guests # <<>>
  BY DEF OnlyMoves, InvitedSince
<1> HIDE DEF old, new, seen, p
<1>4. NeedsInviteGuard(seen, p)
  <2>1. ResultingGuests(seen, p) # <<>>
    BY <1>2, <1>3 DEF ResultingGuests
  <2>2. ASSUME Texts(new) # Texts(old) PROVE ChangesText(p)
    BY <1>2, <2>2 DEF Texts, PatchedText, Has, ChangesText
  <2> QED BY <1>3, <2>1, <2>2 DEF NeedsInviteGuard
<1>5. InviteIsFit /\ InviteTexts = <<title, location, description>>
  BY <1>1, <1>4 DEF InviteInv, InviteGuarded, InvitesGuests, InviteVerbs, InviteTexts, seen, p
<1>6. ~Flagged(title, Unfit) /\ ~Flagged(location, Unfit) /\ ~Flagged(description, Unfit)
  <2> HIDE DEF title, location, description
  <2> QED BY <1>5 DEF InviteIsFit
<1>7. /\ Has(p, "title") => MayBeText(p["title"])
      /\ Has(p, "location") => MayBeText(p["location"])
      /\ Has(p, "description") => MayBeText(p["description"])
  BY <1>2, UpdateTexts
<1>8. /\ Flagged(new.title, Unfit) => new.title = old.title /\ old.title # seen.title
      /\ Flagged(new.location, Unfit) => new.location = old.location /\ old.location # seen.location
      /\ Flagged(new.description, Unfit) =>
             new.description = old.description /\ old.description # seen.description
  BY <1>2, <1>6, <1>7, JudgedText
<1>9. Flagged(Texts(new)[i], Unfit)
  BY DEF new
<1>10. Texts(new)[i] = Texts(old)[i] /\ Texts(old)[i] # Texts(seen)[i]
  BY <1>8, <1>9 DEF Texts
<1> QED BY <1>10 DEF WrittenSince, old, new, seen

\* With the screens configured and failing closed, no request that makes or
\* updates an event sends guests a text that is sensitive or steers its
\* reader, with any owner at work and whichever calls to the classifier are
\* lost, but for a text the owner wrote after the event was read, for an event
\* whose first guest the owner invited after that, and for an update that only
\* moves the event or removes guests; and none writes a malicious text into a
\* file (update_event, _make_invite_guard, _make_drive_edit_guard).
THEOREM GuestsSpared == Spec => GuardedTextClean
<1>1. Init => EditGuarded
  BY DEF Init, NoCall, Call, EditGuarded
<1>2. Init => UsedInv
  BY UsedInit
<1>3. ASSUME Inv, InviteInv, [Next]_vars, setup.screening, FailClosed, ByService, NEW e \in EventId,
             events'[e] # events[e], events'[e] # None, events'[e].guests # <<>>,
             events[e] # None =>
                 ~OnlyMoves(events[e], events'[e]) /\ ~InvitedSince(events[e], events'[e]),
             NEW i \in 1..3, Flagged(Texts(events'[e])[i], {"sensitive", "steering"})
      PROVE  events[e] # None /\ WrittenSince(events[e], events'[e], i)
  <2>1. InsertEvent \/ PatchEvent
    BY <1>3, EventWritten
  <2>2. CASE InsertEvent
    BY <1>3, <2>2, CreationFit DEF Unfit
  <2>3. CASE PatchEvent
    <3>1. events[e] # None
      BY <1>3, <2>3, PatchMade
    <3> QED BY <1>3, <2>3, <3>1, ChangeFit DEF Unfit
  <2> QED BY <2>1, <2>2, <2>3
<1>4. ASSUME Inv, InviteInv, EditGuarded, [Next]_vars, setup.screening, ByService,
             NEW id \in FileId, files[id] # None, files'[id] # files[id]
      PROVE  ~Flagged(call.p.content, {"malicious"})
  <2>1. ~CreateFile
    BY <1>4 DEF CreateFile, Inv, Shape, FilesOK
  <2>2. WriteFile
    BY <1>4, <2>1, ServiceWrites
  <2>3. call.at = "write" /\ call.verb \in EditVerbs /\ AreParams(call.p) /\ Running
    BY <1>4, <2>2 DEF WriteFile, InviteInv, ParamsKept, Running
  <2>4. EvaluateFileWrite(call.verb, call.p).status = "allowed"
    BY <1>4, <2>3 DEF Inv, CheckedParams
  <2>5. TextSound(call.p.content)
    <3>1. IsLines(Field(call.p, "content"), 100000)
      BY <2>4 DEF EvaluateFileWrite, AllowedIf, Allowed, Denied, Decision
    <3>2. Has(call.p, "content") /\ call.p.content # None /\ call.p.content # Junk
      BY <3>1 DEF IsLines, IsText, Field
    <3> QED BY <2>3, <3>2 DEF AreParams, TextParams, Has, MayBeText
  <2>6. ~HasPhrase(call.p.content, "malicious")
    BY <1>4, <2>3, <2>5 DEF EditGuarded
  <2> QED BY <2>6 DEF Flagged, HasPhrase
<1>5. Inv /\ InviteInv /\ EditGuarded /\ [Next]_vars =>
        [setup.screening /\ FailClosed /\ ByService =>
            /\ \A e \in EventId :
                   LET old == events[e]
                       new == events'[e]
                   IN /\ new # old /\ new # None /\ new.guests # <<>>
                      /\ old # None => ~OnlyMoves(old, new) /\ ~InvitedSince(old, new)
                      => \A i \in 1..3 :
                             Flagged(Texts(new)[i], {"sensitive", "steering"}) =>
                                 old # None /\ WrittenSince(old, new, i)
            /\ \A id \in FileId : files[id] # None /\ files'[id] # files[id] =>
                   ~Flagged(call.p.content, {"malicious"})]_vars
  <2> SUFFICES ASSUME Inv, InviteInv, EditGuarded, [Next]_vars, setup.screening, FailClosed, ByService
               PROVE  /\ \A e \in EventId :
                             LET old == events[e]
                                 new == events'[e]
                             IN /\ new # old /\ new # None /\ new.guests # <<>>
                                /\ old # None => ~OnlyMoves(old, new) /\ ~InvitedSince(old, new)
                                => \A i \in 1..3 :
                                       Flagged(Texts(new)[i], {"sensitive", "steering"}) =>
                                           old # None /\ WrittenSince(old, new, i)
                      /\ \A id \in FileId : files[id] # None /\ files'[id] # files[id] =>
                             ~Flagged(call.p.content, {"malicious"})
    OBVIOUS
  <2> QED BY <1>3, <1>4
<1> QED BY <1>1, <1>2, <1>5, InviteInit, InviteStep, EditGuardedStep, GateInit, GateStep, UsedStep,
           InvHolds, PTL DEF Spec, GuardedTextClean

\* A change of the list of guests keeps those it does not name, with their
\* answers, adds those it names, and puts nobody on the list twice, unless
\* someone changed something after the event was read (merge_attendees).
THEOREM GuestsStay == Spec => GuestsKept
<1>1. ASSUME Inv, InviteInv, [Next]_vars, NEW e \in EventId,
             ByService, Undisturbed, Changed(e), events'[e] # None
      PROVE  LET before == events[e].guests
                 after == events'[e].guests
             IN /\ \A i \in DOMAIN before :
                       before[i].email \in Mailboxes(Removes(call.p))
                           \/ \E j \in DOMAIN after : after[j] = before[i]
                /\ Mailboxes(Adds(call.p)) \subseteq Emails(after)
                /\ \A email \in Emails(after) : Twice(after, email) => Twice(before, email)
  <2>1. events[e] # None /\ events'[e] # events[e]
    BY <1>1 DEF Changed
  <2>2. PatchEvent
    BY <1>1, <2>1, EventWritten, InsertionKept
  <2> DEFINE before == events[e].guests
             after == events'[e].guests
             add == Adds(call.p)
             remove == Removes(call.p)
  <2>3. /\ events[e] = call.seen /\ IsLegible(call.seen)
        /\ AreParams(call.p) /\ EvaluateUpdateEvent(call.p).status = "allowed"
        /\ events'[e].guests = ResultingGuests(call.seen, call.p)
    BY <1>1, <2>1, <2>2, PatchSeen
  <2>4. IsSequence(before) /\ IsSequence(add)
    BY <2>3, UpdateTexts DEF IsLegible
  <2>5. CASE ChangesGuests(call.p)
    <3>1. after = MergeAttendees(before, add, remove)
      BY <2>3, <2>5 DEF ResultingGuests
    <3> HIDE DEF before, after, add, remove
    <3>2. /\ \A i \in DOMAIN before :
                 before[i].email \in Mailboxes(remove) \/ \E j \in DOMAIN after : after[j] = before[i]
          /\ Mailboxes(add) \subseteq Emails(after)
          /\ \A email : Twice(after, email) => Twice(before, email)
      BY <2>4, <3>1, Merged
    <3> QED BY <3>2 DEF before, after, add, remove
  <2>6. CASE ~ChangesGuests(call.p)
    <3>1. after = before /\ add = <<>>
      BY <2>3, <2>6 DEF ResultingGuests, ChangesGuests
    <3>2. Mailboxes(add) = {}
      BY <3>1 DEF Mailboxes
    <3> HIDE DEF before, after, add
    <3> QED BY <3>1, <3>2 DEF before, after, add
  <2> QED BY <2>5, <2>6
<1>2. Inv /\ InviteInv /\ [Next]_vars =>
        [\A e \in EventId :
           ByService /\ Undisturbed /\ Changed(e) /\ events'[e] # None =>
               LET before == events[e].guests
                   after == events'[e].guests
               IN /\ \A i \in DOMAIN before :
                         before[i].email \in Mailboxes(Removes(call.p))
                             \/ \E j \in DOMAIN after : after[j] = before[i]
                  /\ Mailboxes(Adds(call.p)) \subseteq Emails(after)
                  /\ \A email \in Emails(after) : Twice(after, email) => Twice(before, email)]_vars
  BY <1>1
<1> QED BY <1>2, UsedInit, InviteInit, InviteStep, GateInit, GateStep, UsedStep, InvHolds, PTL
        DEF Spec, GuestsKept
=============================================================================
