----------------------------- MODULE ScreensProofs -----------------------------
(***************************************************************************)
(* Facts about the screens, for every size of chunk and overlap and every  *)
(* text:                                                                   *)
(*   ChunksCover       a phrase that is no longer than the overlap and one *)
(*                     lies wholly within some chunk;                      *)
(*   ScreenFinds       the injection screen, when no call is lost, scores  *)
(*                     a text with such a steering phrase 100;             *)
(*   MaliciousRefused  the edit guard refuses a text with such a malicious *)
(*                     phrase, whichever calls are lost;                   *)
(*   FlawedWithheld    the output screen shows no item with a sensitive or *)
(*                     steering phrase in any of its fields, whichever     *)
(*                     calls are lost.                                     *)
(* The text of an item is a fold over its fields: the last part reasons    *)
(* about it by induction on the number of fields folded (Counting).        *)
(***************************************************************************)
EXTENDS Screens, NaturalsInduction, WellFoundedInduction, TLAPS

\* Integer division.
LEMMA Division ==
    ASSUME NEW a \in Int, NEW b \in Nat, b > 0
    PROVE  /\ a \div b \in Int
           /\ b * (a \div b) <= a
           /\ a < b * (a \div b) + b
OBVIOUS

\* The step from chunk to chunk.
LEMMA StepPositive == ChunkStep \in Nat /\ ChunkStep > 0 /\ ChunkChars = ChunkStep + ChunkOverlap
BY ScreenConstants DEF ChunkStep

\* Where a chunk begins and ends.
LEMMA ChunkRange ==
    ASSUME NEW size \in Nat, NEW i \in Nat
    PROVE  /\ Chunk(size, i + 1).from = i * ChunkStep
           /\ Chunk(size, i + 1).upto = IF i * ChunkStep + ChunkChars < size
                                        THEN i * ChunkStep + ChunkChars ELSE size
<1>1. (i + 1) - 1 = i
  OBVIOUS
<1> QED BY <1>1 DEF Chunk

\* How many chunks a long text has, and that they reach its end.
LEMMA LastChunk ==
    ASSUME NEW size \in Nat, size > ChunkChars
    PROVE  \E n \in Nat : /\ ChunkCount(size) = n + 1
                          /\ size <= n * ChunkStep + ChunkChars
<1> DEFINE n == (size - ChunkOverlap - 1) \div ChunkStep
<1>1. size - ChunkOverlap - 1 \in Nat
  BY ScreenConstants
<1>2. n \in Int /\ ChunkStep * n <= size - ChunkOverlap - 1
      /\ size - ChunkOverlap - 1 < ChunkStep * n + ChunkStep
  BY <1>1, StepPositive, Division
<1> HIDE DEF n
<1>3. n >= 0
  <2>1. SUFFICES ASSUME n <= -1 PROVE FALSE
    BY <1>2
  <2>2. ChunkStep * n <= -ChunkStep
    BY <1>2, <2>1, StepPositive
  <2> QED BY <1>1, <1>2, <2>2, StepPositive
<1>4. ChunkCount(size) = n + 1
  BY ScreenConstants DEF ChunkCount, n
<1>5. ChunkStep * n \in Int /\ ChunkStep * n = n * ChunkStep
  BY <1>2, StepPositive
<1>6. size <= n * ChunkStep + ChunkChars
  BY <1>1, <1>2, <1>5, StepPositive, ScreenConstants
<1> QED BY <1>2, <1>3, <1>4, <1>6

\* No seam between two chunks hides a phrase the overlap is meant for, and
\* neither does the end of the text (chunk_text).
THEOREM ChunksCover ==
    ASSUME NEW size \in Nat, NEW flaw, flaw.at \in Nat, flaw.len \in Nat \ {0},
           flaw.at + flaw.len <= size, Recognizable(flaw)
    PROVE  \E i \in 1..ChunkCount(size) : Holds(Chunk(size, i), flaw)
<1> DEFINE at == flaw.at
           len == flaw.len
<1>1. /\ at \in Nat /\ len \in Nat /\ len > 0 /\ at + len <= size
      /\ len <= ChunkOverlap + 1
  BY DEF Recognizable
<1> HIDE DEF at, len
<1>2. CASE size <= ChunkChars
  <2>1. ChunkCount(size) = 1
    BY <1>1, <1>2 DEF ChunkCount
  <2>2. Chunk(size, 0 + 1).from = 0 /\ Chunk(size, 0 + 1).upto = size
    BY <1>2, ChunkRange, StepPositive, ScreenConstants
  <2>3. Holds(Chunk(size, 1), flaw)
    BY <1>1, <2>2 DEF Holds, at, len
  <2> QED BY <2>1, <2>3
<1>3. CASE size > ChunkChars
  <2>1. PICK n \in Nat : ChunkCount(size) = n + 1 /\ size <= n * ChunkStep + ChunkChars
    BY <1>3, LastChunk
  <2> DEFINE k == at \div ChunkStep
  <2>2. k \in Int /\ ChunkStep * k <= at /\ at < ChunkStep * k + ChunkStep
    BY <1>1, StepPositive, Division
  <2> HIDE DEF k
  <2>3. k >= 0
    <3>1. SUFFICES ASSUME k <= -1 PROVE FALSE
      BY <2>2
    <3>2. ChunkStep * k <= -ChunkStep
      BY <2>2, <3>1, StepPositive
    <3> QED BY <1>1, <2>2, <3>2, StepPositive
  <2> DEFINE from == k * ChunkStep
             final == n * ChunkStep
  <2>4. from \in Int /\ from <= at /\ at < from + ChunkStep
    BY <2>2, StepPositive
  <2>5. final \in Nat
    BY <2>1, StepPositive
  <2>6. /\ k \in Nat
        /\ Chunk(size, k + 1).from = from
        /\ Chunk(size, k + 1).upto = IF from + ChunkChars < size THEN from + ChunkChars ELSE size
    BY <2>2, <2>3, ChunkRange
  <2>7. /\ Chunk(size, n + 1).from = final
        /\ Chunk(size, n + 1).upto = IF final + ChunkChars < size THEN final + ChunkChars ELSE size
    BY <2>1, ChunkRange
  <2>8. k > n => final <= from
    BY <2>1, <2>2, StepPositive
  <2>9. size <= final + ChunkChars
    BY <2>1
  <2> HIDE DEF from, final
  <2>10. CASE k <= n
    <3>1. at + len <= from + ChunkChars
      BY <1>1, <2>4, StepPositive, ScreenConstants
    <3>2. Chunk(size, k + 1).from <= at /\ at + len <= Chunk(size, k + 1).upto
      BY <1>1, <2>4, <2>6, <3>1
    <3>3. k + 1 \in 1..ChunkCount(size)
      BY <2>1, <2>6, <2>10
    <3> QED BY <3>2, <3>3 DEF Holds, at, len
  <2>11. CASE k > n
    <3>1. Chunk(size, n + 1).from <= at /\ at + len <= Chunk(size, n + 1).upto
      BY <1>1, <2>4, <2>5, <2>7, <2>8, <2>9, <2>11, ScreenConstants
    <3>2. n + 1 \in 1..ChunkCount(size)
      BY <2>1
    <3> QED BY <3>1, <3>2 DEF Holds, at, len
  <2> QED BY <2>1, <2>2, <2>10, <2>11
<1> QED BY <1>2, <1>3, ScreenConstants

-----------------------------------------------------------------------------
(* Scores.                                                                 *)

\* A text with a phrase of a kind that the chunks cannot hide.
HasPhrase(text, kind) == \E flaw \in text.flaws : flaw.kind = kind /\ Recognizable(flaw)

\* A score is 0 or 100.
LEMMA ScoreTyped ==
    ASSUME NEW text, NEW chunk, NEW kind
    PROVE  Score(text, chunk, kind) \in {0, 100}
BY DEF Score

\* The highest of scores that are 0, 100 or absent.
LEMMA MaxScoreIs ==
    ASSUME NEW scores, scores \subseteq {0, 100, None}
    PROVE  /\ 100 \in scores => MaxScore(scores) = 100
           /\ 100 \notin scores => MaxScore(scores) \in {0, None}
<1> DEFINE present == scores \ {None}
           IsMax(m) == m \in present /\ \A x \in present : x <= m
<1>1. None # 0 /\ None # 100
  BY NoneIsNoNumber
<1>2. present \subseteq {0, 100}
  OBVIOUS
<1>3. ASSUME 100 \in scores PROVE MaxScore(scores) = 100
  <2>1. IsMax(100) /\ present # {}
    BY <1>2, <1>1, <1>3
  <2>2. \A m : IsMax(m) => m = 100
    BY <1>2, <2>1
  <2> QED BY <2>1, <2>2 DEF MaxScore
<1>4. ASSUME 100 \notin scores PROVE MaxScore(scores) \in {0, None}
  <2>1. CASE present = {}
    BY <2>1 DEF MaxScore
  <2>2. CASE present # {}
    <3>1. present = {0}
      BY <1>2, <1>4, <2>2
    <3>2. IsMax(0)
      BY <3>1
    <3> QED BY <2>2, <3>1, <3>2 DEF MaxScore
  <2> QED BY <2>1, <2>2
<1> QED BY <1>3, <1>4

\* Some chunk of a text gives it away.
LEMMA SomeChunkScores ==
    ASSUME NEW text, TextSound(text), NEW kind, HasPhrase(text, kind)
    PROVE  \E i \in 1..ChunkCount(text.size) :
               Score(text, ChunkText(text.size)[i], kind) = 100
<1>1. PICK flaw \in text.flaws : flaw.kind = kind /\ Recognizable(flaw)
  BY DEF HasPhrase
<1>2. PICK i \in 1..ChunkCount(text.size) : Holds(Chunk(text.size, i), flaw)
  BY <1>1, ChunksCover DEF TextSound
<1>3. ChunkText(text.size)[i] = Chunk(text.size, i)
  BY <1>2 DEF ChunkText
<1> QED BY <1>1, <1>2, <1>3 DEF Score

\* When no call for a part is lost, a steering phrase in it is scored, and
\* only such a phrase is (screen_parts).
THEOREM ScreenFinds ==
    ASSUME NEW name, NEW text, TextSound(text)
    PROVE  /\ HasPhrase(text, "steering") => ScreenPart(name, text, {}) = 100
           /\ \A lost : ScreenPart(name, text, lost) \in {0, 100, None}
           /\ \A lost : ScreenPart(name, text, lost) = 100 =>
                 \E flaw \in text.flaws : flaw.kind = "steering"
<1> DEFINE score(i, lost) == IF <<name, i>> \in lost THEN None
                             ELSE Score(text, ChunkText(text.size)[i], "steering")
           scores(lost) == {score(i, lost) : i \in 1..ChunkCount(text.size)}
<1>1. \A lost : scores(lost) \subseteq {0, 100, None}
  BY ScoreTyped
<1>2. \A lost : ScreenPart(name, text, lost) = MaxScore(scores(lost))
  BY DEF ScreenPart
<1>3. ASSUME HasPhrase(text, "steering") PROVE 100 \in scores({})
  BY <1>3, SomeChunkScores
<1>4. ASSUME NEW lost, 100 \in scores(lost)
      PROVE  \E flaw \in text.flaws : flaw.kind = "steering"
  <2>1. PICK i \in 1..ChunkCount(text.size) : score(i, lost) = 100
    BY <1>4
  <2>2. None # 100
    BY NoneIsNoNumber
  <2>3. Score(text, ChunkText(text.size)[i], "steering") = 100
    BY <2>1, <2>2
  <2> QED BY <2>3 DEF Score
<1> HIDE DEF scores
<1>5. ASSUME NEW lost, MaxScore(scores(lost)) = 100
      PROVE  100 \in scores(lost)
  BY <1>1, <1>5, MaxScoreIs, NoneIsNoNumber
<1> QED BY <1>1, <1>2, <1>3, <1>4, <1>5, MaxScoreIs

\* No malicious phrase passes the edit guard, be it across a seam, and be the
\* call for its chunk or for another lost (screen_edit).
THEOREM MaliciousRefused ==
    ASSUME NEW text, TextSound(text), HasPhrase(text, "malicious"), NEW lost
    PROVE  EditGuard(text, lost) = "edit_refused"
<1>1. PICK i \in 1..ChunkCount(text.size) :
          Score(text, ChunkText(text.size)[i], "malicious") = 100
  BY SomeChunkScores
<1>2. text.size # 0
  BY <1>1 DEF ChunkCount
<1>3. EditThreshold \in 1..100
  BY ScreenThresholds
<1> QED BY <1>1, <1>2, <1>3 DEF EditGuard

\* Every number, from one to the next.
LEMMA Counting ==
    ASSUME NEW S, 0 \in S, \A n \in Nat : n \in S => n + 1 \in S
    PROVE  \A n \in Nat : n \in S
<1> DEFINE R == {ss \in Nat \X Nat : ss[1] < ss[2]}
           T == Nat \ S
<1>1. IsWellFoundedOn(R, Nat)
  BY NatLessThanWellFounded DEF OpToRel
<1>2. ASSUME T # {} PROVE FALSE
  <2> HIDE DEF R
  <2>1. PICK x \in T : \A y \in T : ~(<<y, x>> \in R)
    BY <1>1, <1>2, WFMin
  <2> USE DEF R
  <2>2. x \in Nat /\ x # 0 /\ x - 1 \in Nat /\ x - 1 \notin S
    BY <2>1
  <2>3. <<x - 1, x>> \in R
    BY <2>2
  <2> QED BY <2>1, <2>2, <2>3
<1> QED BY <1>2

\* The greatest of the first numbers.
LEMMA MaxOfFirst ==
    ASSUME NEW n \in Nat, NEW s \in SUBSET (1..n + 1), n + 1 \in s
    PROVE  Max(s) = n + 1
<1>1. \A m \in s : (\A y \in s : m >= y) => m = n + 1
  OBVIOUS
<1>2. \A y \in s : n + 1 >= y
  OBVIOUS
<1> QED BY <1>1, <1>2 DEF Max

\* The iteration that makes the text of an item.
Iterates(fields, n, iter) ==
    iter = [s \in SUBSET (1..n) |->
               IF s = {} THEN [size |-> 0, flaws |-> {}]
               ELSE AppendField(iter[s \ {Max(s)}], fields[Max(s)])]

LEMMA IterationExists ==
    ASSUME NEW fields
    PROVE  \A n \in Nat : \E iter : Iterates(fields, n, iter)
<1> DEFINE S == {n \in Nat : \E iter : Iterates(fields, n, iter)}
<1>1. 0 \in S
  <2> DEFINE iter == [s \in SUBSET (1..0) |-> [size |-> 0, flaws |-> {}]]
  <2>1. \A s \in SUBSET (1..0) : s = {}
    OBVIOUS
  <2>2. Iterates(fields, 0, iter)
    BY <2>1 DEF Iterates
  <2> QED BY <2>2
<1>2. ASSUME NEW n \in Nat, n \in S PROVE n + 1 \in S
  <2>1. PICK iter : Iterates(fields, n, iter)
    BY <1>2
  <2> DEFINE more == [s \in SUBSET (1..n + 1) |->
                         IF n + 1 \in s THEN AppendField(iter[s \ {n + 1}], fields[n + 1])
                         ELSE iter[s]]
             next == [s \in SUBSET (1..n + 1) |->
                         IF s = {} THEN [size |-> 0, flaws |-> {}]
                         ELSE AppendField(more[s \ {Max(s)}], fields[Max(s)])]
  <2>2. ASSUME NEW s \in SUBSET (1..n + 1) PROVE more[s] = next[s]
    <3>1. CASE n + 1 \in s
      <4>1. Max(s) = n + 1
        BY <3>1, MaxOfFirst
      <4>2. s \ {n + 1} \in SUBSET (1..n + 1) /\ n + 1 \notin s \ {n + 1} /\ s # {}
        BY <3>1
      <4>3. more[s \ {n + 1}] = iter[s \ {n + 1}]
        BY <4>2
      <4>4. more[s] = AppendField(iter[s \ {n + 1}], fields[n + 1])
        BY <3>1
      <4>5. next[s] = AppendField(more[s \ {n + 1}], fields[n + 1])
        BY <4>1, <4>2
      <4> QED BY <4>3, <4>4, <4>5
    <3>2. CASE n + 1 \notin s
      <4>1. s \in SUBSET (1..n)
        BY <3>2
      <4>2. more[s] = iter[s]
        BY <3>2
      <4>3. iter[s] = IF s = {} THEN [size |-> 0, flaws |-> {}]
                      ELSE AppendField(iter[s \ {Max(s)}], fields[Max(s)])
        BY <2>1, <4>1 DEF Iterates
      <4>4. s \ {Max(s)} \in SUBSET (1..n + 1) /\ n + 1 \notin s \ {Max(s)}
        BY <3>2
      <4>5. more[s \ {Max(s)}] = iter[s \ {Max(s)}]
        BY <4>4
      <4>6. next[s] = IF s = {} THEN [size |-> 0, flaws |-> {}]
                      ELSE AppendField(more[s \ {Max(s)}], fields[Max(s)])
        OBVIOUS
      <4> HIDE DEF more, next
      <4> QED BY <4>2, <4>3, <4>5, <4>6
    <3> QED BY <3>1, <3>2
  <2>3. more = next
    <3>1. more = [s \in SUBSET (1..n + 1) |-> more[s]]
      OBVIOUS
    <3>2. next = [s \in SUBSET (1..n + 1) |-> next[s]]
      OBVIOUS
    <3> HIDE DEF more, next
    <3> QED BY <2>2, <3>1, <3>2
  <2>4. Iterates(fields, n + 1, more)
    BY <2>3 DEF Iterates
  <2> QED BY <2>4
<1>3. \A n \in Nat : n \in S
  <2> HIDE DEF S
  <2>1. 0 \in S
    BY <1>1
  <2> QED BY <1>1, <1>2, Counting
<1> QED BY <1>3

\* The text of an item is made field by field.
LEMMA FieldByField ==
    ASSUME NEW fields, NEW n \in Nat, DOMAIN fields = 1..n
    PROVE  \E sofar : /\ sofar[0] = [size |-> 0, flaws |-> {}]
                      /\ \A k \in 1..n : sofar[k] = AppendField(sofar[k - 1], fields[k])
                      /\ ItemText(fields) = sofar[n]
<1> DEFINE iter == CHOOSE f : Iterates(fields, n, f)
           sofar == [k \in 0..n |-> iter[1..k]]
<1>1. Iterates(fields, n, iter)
  BY IterationExists
<1>2. ItemText(fields) = iter[1..n]
  BY DEF ItemText, FoldLeft, MapThenFoldSet, Iterates
<1> HIDE DEF iter
<1>3. sofar[0] = [size |-> 0, flaws |-> {}]
  <2>1. 1..0 = {} /\ {} \in SUBSET (1..n)
    OBVIOUS
  <2> QED BY <1>1, <2>1 DEF Iterates
<1>4. ASSUME NEW k \in 1..n PROVE sofar[k] = AppendField(sofar[k - 1], fields[k])
  <2>1. 1..k \in SUBSET (1..n) /\ 1..k # {} /\ (1..k) \ {k} = 1..k - 1
    OBVIOUS
  <2>2. Max(1..k) = k
    <3>1. k - 1 \in Nat /\ (k - 1) + 1 = k /\ k \in 1..k
      OBVIOUS
    <3>2. 1..k \in SUBSET (1..(k - 1) + 1) /\ (k - 1) + 1 \in 1..k
      BY <3>1
    <3> HIDE DEF iter, sofar
    <3> QED BY <3>1, <3>2, MaxOfFirst
  <2>3. iter[1..k] = AppendField(iter[(1..k) \ {k}], fields[k])
    BY <1>1, <2>1, <2>2 DEF Iterates
  <2>4. sofar[k] = iter[1..k] /\ sofar[k - 1] = iter[1..k - 1]
    OBVIOUS
  <2> QED BY <2>1, <2>3, <2>4
<1>5. sofar[n] = iter[1..n]
  OBVIOUS
<1> HIDE DEF sofar
<1> QED BY <1>2, <1>3, <1>4, <1>5

\* Adding a field keeps what there is, and what the field has.
LEMMA FieldAdded ==
    ASSUME NEW sofar, TextSound(sofar), NEW field, field = None \/ TextSound(field)
    PROVE  LET text == AppendField(sofar, field)
           IN /\ TextSound(text)
              /\ \A kind : HasPhrase(sofar, kind) => HasPhrase(text, kind)
              /\ \A kind : field # None /\ HasPhrase(field, kind) => HasPhrase(text, kind)
<1> DEFINE text == AppendField(sofar, field)
           from == sofar.size + LabelChars
           moved(flaw) == [flaw EXCEPT !.at = flaw.at + from]
<1>1. CASE field = None \/ field.size = 0
  <2>1. text = sofar
    BY <1>1 DEF AppendField
  <2>2. ASSUME field # None, NEW flaw \in field.flaws PROVE FALSE
    BY <1>1, <2>2 DEF TextSound
  <2> QED BY <2>1, <2>2 DEF HasPhrase
<1>2. CASE ~(field = None \/ field.size = 0)
  <2>1. from \in Nat /\ sofar.size <= from
    BY DEF TextSound, LabelChars
  <2>2. text.size = from + field.size /\ text.flaws = sofar.flaws \cup {moved(flaw) : flaw \in field.flaws}
    BY <1>2 DEF AppendField
  <2> HIDE DEF from, text
  <2>3. ASSUME NEW flaw \in field.flaws
        PROVE  /\ moved(flaw).kind = flaw.kind /\ moved(flaw).len = flaw.len
               /\ moved(flaw).at = flaw.at + from
               /\ DOMAIN moved(flaw) = {"kind", "at", "len"}
    BY <1>2 DEF TextSound
  <2> HIDE DEF moved
  <2>4. TextSound(text)
    <3>1. text.size \in Nat /\ sofar.size <= text.size /\ sofar.size \in Nat /\ field.size \in Nat
      BY <1>2, <2>1, <2>2 DEF TextSound
    <3>2. ASSUME NEW flaw \in sofar.flaws
          PROVE  /\ DOMAIN flaw = {"kind", "at", "len"}
                 /\ flaw.at \in Nat /\ flaw.len \in Nat \ {0} /\ flaw.at + flaw.len <= text.size
      BY <3>1 DEF TextSound
    <3>3. ASSUME NEW flaw \in field.flaws
          PROVE  /\ DOMAIN moved(flaw) = {"kind", "at", "len"}
                 /\ moved(flaw).at \in Nat /\ moved(flaw).len \in Nat \ {0}
                 /\ moved(flaw).at + moved(flaw).len <= text.size
      <4>1. flaw.at \in Nat /\ flaw.len \in Nat \ {0} /\ flaw.at + flaw.len <= field.size
        BY <1>2 DEF TextSound
      <4> QED BY <2>1, <2>2, <2>3, <3>1, <4>1
    <3> QED BY <2>2, <3>1, <3>2, <3>3 DEF TextSound
  <2>5. ASSUME NEW kind, HasPhrase(sofar, kind) PROVE HasPhrase(text, kind)
    BY <2>2, <2>5 DEF HasPhrase
  <2>6. ASSUME NEW kind, HasPhrase(field, kind) PROVE HasPhrase(text, kind)
    <3>1. PICK flaw \in field.flaws : flaw.kind = kind /\ Recognizable(flaw)
      BY <2>6 DEF HasPhrase
    <3>2. moved(flaw) \in text.flaws /\ moved(flaw).kind = kind /\ Recognizable(moved(flaw))
      BY <2>2, <2>3, <3>1 DEF Recognizable
    <3> QED BY <3>2 DEF HasPhrase
  <2> QED BY <2>4, <2>5, <2>6 DEF text
<1> QED BY <1>1, <1>2

\* The fields of an item: a tuple of texts, some of them missing.
FieldsSound(fields) ==
    \E n \in Nat : /\ DOMAIN fields = 1..n
                   /\ \A i \in 1..n : fields[i] = None \/ TextSound(fields[i])

\* The text of an item has every phrase that a field of it has.
LEMMA ItemTextHas ==
    ASSUME NEW fields, FieldsSound(fields)
    PROVE  /\ TextSound(ItemText(fields))
           /\ \A i \in DOMAIN fields : \A kind :
                  fields[i] # None /\ HasPhrase(fields[i], kind) => HasPhrase(ItemText(fields), kind)
<1>1. PICK n \in Nat : /\ DOMAIN fields = 1..n
                       /\ \A i \in 1..n : fields[i] = None \/ TextSound(fields[i])
  BY DEF FieldsSound
<1>2. PICK sofar : /\ sofar[0] = [size |-> 0, flaws |-> {}]
                   /\ \A k \in 1..n : sofar[k] = AppendField(sofar[k - 1], fields[k])
                   /\ ItemText(fields) = sofar[n]
  BY <1>1, FieldByField
<1> DEFINE Fine(k) == /\ TextSound(sofar[k])
                      /\ \A i \in 1..k : \A kind :
                             fields[i] # None /\ HasPhrase(fields[i], kind) => HasPhrase(sofar[k], kind)
           S == {k \in Nat : k <= n => Fine(k)}
<1>3. 0 \in S
  BY <1>2 DEF TextSound
<1>4. ASSUME NEW k \in Nat, k \in S PROVE k + 1 \in S
  <2> SUFFICES ASSUME k + 1 <= n PROVE Fine(k + 1)
    OBVIOUS
  <2>1. Fine(k)
    BY <1>4
  <2>2. k + 1 \in 1..n /\ (k + 1) - 1 = k
    OBVIOUS
  <2>3. sofar[k + 1] = AppendField(sofar[k], fields[k + 1])
    BY <1>2, <2>2
  <2>4. fields[k + 1] = None \/ TextSound(fields[k + 1])
    BY <1>1, <2>2
  <2>5. /\ TextSound(sofar[k + 1])
        /\ \A kind : HasPhrase(sofar[k], kind) => HasPhrase(sofar[k + 1], kind)
        /\ \A kind : fields[k + 1] # None /\ HasPhrase(fields[k + 1], kind) =>
                         HasPhrase(sofar[k + 1], kind)
    BY <2>1, <2>3, <2>4, FieldAdded
  <2>6. \A i \in 1..k + 1 : i \in 1..k \/ i = k + 1
    OBVIOUS
  <2> QED BY <2>1, <2>5, <2>6
<1> HIDE DEF S
<1>5. n \in S
  BY <1>3, <1>4, Counting
<1> QED BY <1>1, <1>2, <1>5 DEF S

\* No item with a text that is sensitive or steers is shown when the screen
\* fails closed, whichever of its chunks the phrase is in and whichever calls
\* are lost (screen_items).
THEOREM FlawedWithheld ==
    ASSUME NEW key, NEW fields, FieldsSound(fields), NEW lost, FailClosed,
           NEW i \in DOMAIN fields, fields[i] # None, NEW kind \in {"sensitive", "steering"},
           HasPhrase(fields[i], kind)
    PROVE  ScreenItem(key, fields, lost).withheld
<1> DEFINE text == ItemText(fields)
           calls == 1..ChunkCount(text.size)
           scores(k) == {Score(text, ChunkText(text.size)[j], k) : j \in calls}
           verdict(a, b) == ItemVerdict(a, b, \/ a >= SensitiveThreshold
                                              \/ b >= SteeringThreshold, TRUE)
<1>1. TextSound(text) /\ HasPhrase(text, kind)
  BY ItemTextHas
<1> HIDE DEF text
<1>2. 100 \in scores(kind) /\ calls # {}
  BY <1>1, SomeChunkScores
<1>3. \A k : scores(k) \subseteq {0, 100, None}
  BY ScoreTyped
<1>4. MaxScore(scores(kind)) = 100
  BY <1>2, <1>3, MaxScoreIs
<1>5. \/ ScreenItem(key, fields, lost) = ItemVerdict(None, None, FailClosed, FALSE)
      \/ ScreenItem(key, fields, lost) = verdict(MaxScore(scores("sensitive")), MaxScore(scores("steering")))
  BY <1>2 DEF ScreenItem, text
<1>6. 100 >= SensitiveThreshold /\ 100 >= SteeringThreshold
  BY ScreenThresholds
<1> HIDE DEF scores, calls
<1>7. MaxScore(scores("sensitive")) >= SensitiveThreshold \/ MaxScore(scores("steering")) >= SteeringThreshold
  BY <1>4, <1>6
<1>8. \A a, b : a >= SensitiveThreshold \/ b >= SteeringThreshold => verdict(a, b).withheld
  BY DEF ItemVerdict
<1>9. ItemVerdict(None, None, FailClosed, FALSE).withheld
  BY DEF ItemVerdict
<1> QED BY <1>5, <1>7, <1>8, <1>9

=============================================================================
