--------------------------------- MODULE Reply ---------------------------------
(***************************************************************************)
(* The reply's text, app/reply_guard.py.                                   *)
(*                                                                         *)
(* A line of prose is its size and the texts it shows; fixed wording,      *)
(* times and ids count Wording characters.  An outcome is what one request *)
(* came to: its verb, status, error, retryable flag, the names it ignored, *)
(* its result and the output screen's view of it.  A result has a count    *)
(* and items, each a tuple of the texts that are screened together; the    *)
(* items of a listing are one line each.  What redaction and escaping do   *)
(* to the characters of a text is not modelled.                            *)
(***************************************************************************)
EXTENDS RequestParser

CONSTANTS ReplyMaxChars     \* 25000 in the code

Wording == 150
SuffixChars == 30           \* "[showing N of M results]" and its blank line
FrameChars == 50            \* the markers around the status block
BlockChars == 300           \* the status block without the lists below
IgnoredNameChars == 70      \* one name in it, cut at 64 characters
BatchResultChars == 250     \* one entry of batch_results

\* The longest status block leaves room for the fixed lines of a reply.
ASSUME ReplyHasRoom ==
    /\ ReplyMaxChars \in Nat /\ BatchMaxItems \in Nat
    /\ FrameChars + BlockChars + 2 * IgnoredNameChars * IgnoredParamsMax + 3 * Wording + 2
           + SuffixChars <= ReplyMaxChars
    /\ FrameChars + BlockChars + BatchResultChars * BatchMaxItems + SuffixChars <= ReplyMaxChars

ListVerbs == {"gmail.search", "calendar.list_events", "calendar.list_calendars"}

NoResult == [count |-> 0, items |-> <<>>]

Outcome(parsed, status, error, retryable) ==
    [request_id |-> parsed.request_id, verb |-> parsed.verb, status |-> status,
     error |-> error, retryable |-> retryable, ignored |-> {}, result |-> NoResult,
     output |-> NoOutput]

-----------------------------------------------------------------------------
(* Prose.                                                                  *)

SumOf(sizes) == FoldLeft(LAMBDA a, b : a + b, 0, sizes)

Line(texts) ==
    [size |-> Wording + SumOf([i \in DOMAIN texts |-> IF texts[i] = None THEN 0 ELSE texts[i].size]),
     shows |-> {texts[i] : i \in DOMAIN texts} \ {None}]

FixedLine == Line(<<>>)

\* Mutant: a withheld item keeps its first text.
ItemLineKeepingTitle(item, withheld) ==
    IF withheld THEN Line(<<item.fields[1]>>) ELSE Line(item.fields)

ItemLine(item, withheld) == IF withheld THEN FixedLine ELSE Line(item.fields)

Listed(outcome) ==
    outcome.status = "completed" /\ outcome.verb \in ListVerbs /\ outcome.result.items # <<>>

\* The lines before the items of a listing, the items, and the lines after.
BuildProse(outcome) ==
    LET items == outcome.result.items
        lines == [i \in DOMAIN items |-> ItemLine(items[i], IsWithheld(outcome.output, i))]
        degraded == Listed(outcome) /\ outcome.verb # "calendar.list_events"
                       /\ outcome.output.status = "degraded"
        ignored == outcome.status = "completed" /\ outcome.ignored # {}
    IN [listed |-> Listed(outcome),
        head |-> IF outcome.status = "completed" /\ ~Listed(outcome) /\ items # <<>>
                 THEN lines ELSE <<FixedLine>>,
        items |-> IF Listed(outcome) THEN lines ELSE <<>>,
        tail |-> (IF degraded THEN <<FixedLine>> ELSE <<>>)
                     \o (IF ignored
                         THEN <<[size |-> Wording + IgnoredNameChars * Cardinality(outcome.ignored),
                                 shows |-> {}]>>
                         ELSE <<>>)]

Sizes(lines) == [i \in DOMAIN lines |-> lines[i].size]
Shows(lines) == UNION {lines[i].shows : i \in DOMAIN lines}

JoinedSize(lines) == IF lines = <<>> THEN 0 ELSE SumOf(Sizes(lines)) + Len(lines) - 1

TailSize(prose) == IF prose.tail = <<>> THEN 0 ELSE JoinedSize(prose.tail) + 1

-----------------------------------------------------------------------------
(* The cap on the reply's length.                                          *)

\* Mutant: the lines after the items get no room of their own.
ShownItemsForgettingTail(prose, available) ==
    LET budget == available - SuffixChars
        fits(k) == JoinedSize(prose.head) + SumOf(Sizes(SubSeq(prose.items, 1, k))) + k <= budget
    IN CHOOSE k \in 0..Len(prose.items) :
           /\ \A j \in 1..k : fits(j)
           /\ k = Len(prose.items) \/ ~fits(k + 1)

\* How many whole items are kept: up to the first that does not fit.
ShownItems(prose, available) ==
    LET budget == available - SuffixChars - TailSize(prose)
        fits(k) == JoinedSize(prose.head) + SumOf(Sizes(SubSeq(prose.items, 1, k))) + k <= budget
    IN CHOOSE k \in 0..Len(prose.items) :
           /\ \A j \in 1..k : fits(j)
           /\ k = Len(prose.items) \/ ~fits(k + 1)

\* The body: its size, the texts in it, and how many of the items it shows.
Body(prose, block) ==
    LET frame == FrameChars + block.size
        full == JoinedSize(prose.head \o prose.items) + TailSize(prose)
        available == ReplyMaxChars - frame
        kept == SubSeq(prose.items, 1, ShownItems(prose, available))
    IN IF full + frame <= ReplyMaxChars
       THEN [size |-> full + frame, block |-> block, items |-> Len(prose.items),
             shows |-> Shows(prose.head \o prose.items)]
       ELSE IF prose.listed
       THEN [size |-> JoinedSize(prose.head \o kept) + TailSize(prose) + SuffixChars + frame,
             block |-> block, items |-> Len(kept), shows |-> Shows(prose.head \o kept)]
       ELSE [size |-> (IF available > SuffixChars THEN available ELSE SuffixChars) + frame,
             block |-> block, items |-> 0, shows |-> Shows(prose.head)]

StatusBlock(id, status, error, count, retryable, output, ignored, entries) ==
    [request_id |-> id, status |-> status, error_code |-> error, retryable |-> retryable,
     result_count |-> count, withheld_count |-> WithheldCount(output),
     screen |-> output.status, ignored_params |-> ignored, batch_results |-> entries,
     size |-> BlockChars + IgnoredNameChars * Cardinality(ignored)
                  + BatchResultChars * Len(entries)]

IgnoredOf(outcome) == IF outcome.status = "completed" THEN outcome.ignored ELSE {}

RenderReply(outcome) ==
    Body(BuildProse(outcome),
         StatusBlock(outcome.request_id, outcome.status, outcome.error, outcome.result.count,
                     outcome.retryable, outcome.output, IgnoredOf(outcome), <<>>))

\* An item of a batch is one block of lines, indented, under a header.
ItemBlock(outcome) ==
    LET prose == BuildProse(outcome)
        lines == prose.head \o prose.items \o prose.tail
    IN [size |-> Wording + SumOf(Sizes(lines)) + 3 * Len(lines), shows |-> Shows(lines)]

BatchEntry(outcome) ==
    [request_id |-> outcome.request_id, verb |-> outcome.verb, status |-> outcome.status,
     error_code |-> outcome.error, retryable |-> outcome.retryable]

RenderBatchReply(id, outcomes, combined) ==
    Body([listed |-> TRUE, head |-> <<>>, tail |-> <<>>,
          items |-> [i \in DOMAIN outcomes |-> ItemBlock(outcomes[i])]],
         StatusBlock(id, "completed", None,
                     SumOf([i \in DOMAIN outcomes |-> outcomes[i].result.count]),
                     FALSE, combined, {}, [i \in DOMAIN outcomes |-> BatchEntry(outcomes[i])]))
=============================================================================
