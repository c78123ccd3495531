-------------------------------- MODULE Screens --------------------------------
(***************************************************************************)
(* The three screens that judge text with a remote classifier ("Jev"):     *)
(* app/jev.py, app/injection_screen.py, app/output_screen.py and           *)
(* app/drive_edit_screen.py, and the two guards app/pipeline.py makes of   *)
(* them.                                                                   *)
(*                                                                         *)
(* What the classifier finds is a flaw of the text: a phrase of some kind, *)
(* at a position and of a length.  A call answers 100 for a kind when the  *)
(* chunk it is given holds the whole of such a phrase and 0 when it does   *)
(* not; or it fails, and which calls fail is a parameter (lost).           *)
(***************************************************************************)
EXTENDS Policy, SequencesExt

CONSTANTS ChunkChars,           \* 4000 in the code
          ChunkOverlap,         \* 200
          SensitiveThreshold,   \* 50, in percent
          SteeringThreshold,    \* 70
          EditThreshold,        \* 70
          FailClosed            \* OUTPUT_SCREEN_FAIL_MODE is not "open"

ASSUME ScreenConstants ==
    /\ ChunkOverlap \in Nat
    /\ ChunkChars \in Nat
    /\ ChunkOverlap < ChunkChars

\* Scores and thresholds are in percent.
ASSUME ScreenThresholds ==
    {InjectionDenyThreshold, SensitiveThreshold, SteeringThreshold, EditThreshold} \subseteq 1..100

LabelChars == 10    \* the name of a field and what joins it to the value

-----------------------------------------------------------------------------
(* Chunks: character ranges [from, upto).                                  *)

ChunkStep == ChunkChars - ChunkOverlap

ChunkCount(size) ==
    IF size = 0 THEN 0
    ELSE IF size <= ChunkChars THEN 1
    ELSE (size - ChunkOverlap - 1) \div ChunkStep + 1

\* Mutant: the windows follow one another without the overlap.
ChunkDisjoint(size, i) ==
    LET from == (i - 1) * ChunkChars
    IN [from |-> from, upto |-> IF from + ChunkChars < size THEN from + ChunkChars ELSE size]

Chunk(size, i) ==
    LET from == (i - 1) * ChunkStep
    IN [from |-> from, upto |-> IF from + ChunkChars < size THEN from + ChunkChars ELSE size]

ChunkText(size) == [i \in 1..ChunkCount(size) |-> Chunk(size, i)]

Holds(chunk, flaw) == chunk.from <= flaw.at /\ flaw.at + flaw.len <= chunk.upto

\* A text whose flaws lie within it.
TextSound(text) ==
    /\ text.size \in Nat
    /\ \A flaw \in text.flaws : /\ DOMAIN flaw = {"kind", "at", "len"}
                                 /\ flaw.at \in Nat /\ flaw.len \in Nat \ {0}
                                 /\ flaw.at + flaw.len <= text.size

\* A phrase no chunk boundary can hide.
Recognizable(flaw) == flaw.len <= ChunkOverlap + 1

MaxScore(scores) ==
    LET present == scores \ {None}
    IN IF present = {} THEN None ELSE CHOOSE m \in present : \A s \in present : s <= m

Score(text, chunk, kind) ==
    IF \E flaw \in text.flaws : flaw.kind = kind /\ Holds(chunk, flaw) THEN 100 ELSE 0

-----------------------------------------------------------------------------
(* The injection screen: parts is a function from names to texts.          *)

Calls(parts) ==
    UNION {{<<name, i>> : i \in 1..ChunkCount(parts[name].size)} : name \in DOMAIN parts}

ScreenPart(name, text, lost) ==
    MaxScore({IF <<name, i>> \in lost THEN None
              ELSE Score(text, ChunkText(text.size)[i], "steering")
              : i \in 1..ChunkCount(text.size)})

ScreenParts(parts, lost) == [name \in DOMAIN parts |-> ScreenPart(name, parts[name], lost)]

NoSignal(parts) == [name \in DOMAIN parts |-> None]

MaxOf(scores, names) == MaxScore({scores[n] : n \in names \cap DOMAIN scores})

-----------------------------------------------------------------------------
(* The output screen: items is a function from keys to tuples of texts.    *)

AppendField(sofar, field) ==
    IF field = None \/ field.size = 0 THEN sofar
    ELSE LET from == sofar.size + LabelChars
         IN [size |-> from + field.size,
             flaws |-> sofar.flaws \cup {[flaw EXCEPT !.at = @ + from] : flaw \in field.flaws}]

ItemText(fields) == FoldLeft(AppendField, [size |-> 0, flaws |-> {}], fields)

ItemVerdict(sensitive, targetsReader, withheld, screened) ==
    [sensitive |-> sensitive, targets_reader |-> targetsReader,
     withheld |-> withheld, screened |-> screened]

\* Mutant: the item is judged by the chunks whose calls were answered.
ScreenItemAnswered(key, fields, lost) ==
    LET text == ItemText(fields)
        score(kind) == MaxScore({Score(text, ChunkText(text.size)[i], kind) :
                                 i \in {j \in 1..ChunkCount(text.size) : <<key, j>> \notin lost}})
    IN ItemVerdict(score("sensitive"), score("steering"),
                   \/ score("sensitive") # None /\ score("sensitive") >= SensitiveThreshold
                   \/ score("steering") # None /\ score("steering") >= SteeringThreshold, TRUE)

ScreenItem(key, fields, lost) ==
    LET text == ItemText(fields)
        calls == 1..ChunkCount(text.size)
        score(kind) == MaxScore({Score(text, ChunkText(text.size)[i], kind) : i \in calls})
    IN IF calls = {} THEN ItemVerdict(None, None, FALSE, TRUE)
       ELSE IF \E i \in calls : <<key, i>> \in lost THEN ItemVerdict(None, None, FailClosed, FALSE)
       ELSE ItemVerdict(score("sensitive"), score("steering"),
                        \/ score("sensitive") >= SensitiveThreshold
                        \/ score("steering") >= SteeringThreshold, TRUE)

ItemCalls(items) ==
    UNION {{<<key, i>> : i \in 1..ChunkCount(ItemText(items[key]).size)} : key \in DOMAIN items}

OutputStatus(verdicts) ==
    IF \A key \in DOMAIN verdicts : verdicts[key].screened THEN "ok" ELSE "degraded"

ScreenItems(items, lost) ==
    LET verdicts == [key \in DOMAIN items |-> ScreenItem(key, items[key], lost)]
    IN [verdicts |-> verdicts, status |-> OutputStatus(verdicts)]

\* No screen is configured: nothing is screened, nothing withheld.
UnscreenedItems(items) ==
    [verdicts |-> [key \in DOMAIN items |-> ItemVerdict(None, None, FALSE, FALSE)],
     status |-> "disabled"]

\* The screen itself raised.
AllWithheld(items) ==
    [verdicts |-> [key \in DOMAIN items |-> ItemVerdict(None, None, FailClosed, FALSE)],
     status |-> "degraded"]

\* There was nothing to be screened.
NoOutput == [verdicts |-> <<>>, status |-> None]

IsWithheld(output, key) == key \in DOMAIN output.verdicts /\ output.verdicts[key].withheld

WithheldCount(output) == Cardinality({key \in DOMAIN output.verdicts : output.verdicts[key].withheld})

\* One item's view of the result of a batch, whose keys are <<item, key>>.
\* An item that has no verdict gets no result at all.
ScopedOutput(output, item) ==
    LET keys == {key \in DOMAIN output.verdicts : key[1] = item}
        verdicts == [k \in {key[2] : key \in keys} |-> output.verdicts[<<item, k>>]]
    IN IF keys = {} THEN NoOutput
       ELSE [verdicts |-> verdicts,
             status |-> IF output.status = "degraded" THEN OutputStatus(verdicts)
                        ELSE output.status]

-----------------------------------------------------------------------------
(* The guards.  Either refuses the write or lets it go on; the outcome is  *)
(* the error the request ends with, or None.                               *)

\* The title, location and description of an event are screened as one item.
InviteGuard(texts, lost) ==
    IF ScreenItem("invite", texts, lost).withheld THEN "sensitive_content_refused" ELSE None

\* An edit that empties a file is judged too; whether it is unreasonable is
\* asked with the first chunk only.
EditGuard(new, lost) ==
    LET calls == 1..(IF new.size = 0 THEN 1 ELSE ChunkCount(new.size))
        chunk(i) == IF new.size = 0 THEN [from |-> 0, upto |-> 0] ELSE ChunkText(new.size)[i]
        scores == {Score(new, chunk(i), "malicious") : i \in calls}
                      \cup {Score(new, chunk(1), "unreasonable")}
    IN IF \/ \E i \in calls : <<"edit", i>> \in lost
          \/ \E score \in scores : score >= EditThreshold
       THEN "edit_refused" ELSE None
=============================================================================
