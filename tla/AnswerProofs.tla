------------------------------ MODULE AnswerProofs ------------------------------
(***************************************************************************)
(* What the answer to an e-mail shows, how long it is and what it leaves   *)
(* out, for every e-mail, workspace and number of steps of the owner:      *)
(*   ReplyIsShort     no reply is longer than its cap;                     *)
(*   NothingSlipsOut  none shows what the output screen is to withhold;    *)
(*   NothingIsHidden  a listing names everything there is in its window,   *)
(*                    up to as much as was asked for.                      *)
(* What folds return (a sorted list, lists joined, copies left out, sizes  *)
(* added up) is proved of their values after k steps, for every k.         *)
(***************************************************************************)
EXTENDS ScreenGateProofs

-----------------------------------------------------------------------------
(* Sequences.                                                              *)

\* A sequence is a sequence over a set.
LEMMA OverASet ==
    ASSUME NEW s, IsSequence(s), NEW S, \A i \in 1..Len(s) : s[i] \in S
    PROVE  s \in Seq(S) /\ Len(s) \in Nat /\ DOMAIN s = 1..Len(s)
<1>1. s \in [1..Len(s) -> S]
  BY DEF IsSequence
<1> QED BY <1>1 DEF IsSequence

\* What is in a sequence.
LEMMA Members ==
    ASSUME NEW s, IsSequence(s)
    PROVE  /\ \A i \in 1..Len(s) : s[i] \in ToSet(s)
           /\ \A x \in ToSet(s) : \E i \in 1..Len(s) : x = s[i]
           /\ s \in Seq(ToSet(s)) /\ Len(s) \in Nat /\ DOMAIN s = 1..Len(s)
<1>1. DOMAIN s = 1..Len(s)
  BY DEF IsSequence
<1>2. \A i \in 1..Len(s) : s[i] \in ToSet(s)
  BY <1>1 DEF ToSet
<1> QED BY <1>1, <1>2, OverASet DEF ToSet

\* A function on the first numbers is a sequence.
LEMMA Numbered ==
    ASSUME NEW n \in Nat, NEW f, DOMAIN f = 1..n, f = [i \in DOMAIN f |-> f[i]]
    PROVE  IsSequence(f) /\ Len(f) = n
<1> DEFINE S == {f[i] : i \in 1..n}
<1>1. f \in [1..n -> S]
  OBVIOUS
<1> HIDE DEF S
<1>2. f \in Seq(S) /\ Len(f) = n
  BY <1>1
<1> QED BY <1>2, SequenceOf

\* One more at the end.
LEMMA AtTheEnd ==
    ASSUME NEW s, IsSequence(s), NEW x
    PROVE  IsSequence(Append(s, x)) /\ ToSet(Append(s, x)) = ToSet(s) \cup {x}
<1> DEFINE t == Append(s, x)
<1>1. /\ IsSequence(t)
      /\ DOMAIN s = 1..Len(s) /\ DOMAIN t = 1..Len(s) + 1
      /\ Len(s) \in Nat
      /\ \A i \in DOMAIN s : t[i] = s[i]
      /\ t[Len(s) + 1] = x
  BY OneMore
<1> HIDE DEF t
<1>2. \A i \in DOMAIN t : i \in DOMAIN s \/ i = Len(s) + 1
  BY <1>1
<1>3. \A i \in DOMAIN s : i \in DOMAIN t
  BY <1>1
<1>4. Len(s) + 1 \in DOMAIN t
  BY <1>1
<1>5. ToSet(t) = ToSet(s) \cup {x}
  BY <1>1, <1>2, <1>3, <1>4 DEF ToSet
<1> QED BY <1>1, <1>5 DEF t

\* One sequence after another.
LEMMA OneAfterAnother ==
    ASSUME NEW s, IsSequence(s), NEW t, IsSequence(t)
    PROVE  /\ IsSequence(s \o t) /\ Len(s \o t) = Len(s) + Len(t)
           /\ \A i \in 1..Len(s) : (s \o t)[i] = s[i]
           /\ \A i \in 1..Len(t) : (s \o t)[Len(s) + i] = t[i]
           /\ ToSet(s \o t) = ToSet(s) \cup ToSet(t)
<1> DEFINE S == ToSet(s) \cup ToSet(t)
           u == s \o t
<1>1. /\ s \in Seq(S) /\ Len(s) \in Nat /\ DOMAIN s = 1..Len(s)
      /\ t \in Seq(S) /\ Len(t) \in Nat /\ DOMAIN t = 1..Len(t)
  BY Members, OverASet
<1> HIDE DEF S
<1>2. /\ u \in Seq(S) /\ Len(u) = Len(s) + Len(t)
      /\ \A i \in 1..Len(s) + Len(t) : u[i] = IF i <= Len(s) THEN s[i] ELSE t[i - Len(s)]
  BY <1>1, ConcatProperties
<1>3. IsSequence(u) /\ DOMAIN u = 1..Len(s) + Len(t)
  BY <1>2, SequenceOf, LenProperties
<1> HIDE DEF u
<1>4. \A i \in 1..Len(s) : u[i] = s[i] /\ i \in DOMAIN u
  BY <1>1, <1>2, <1>3
<1>5. \A i \in 1..Len(t) : u[Len(s) + i] = t[i] /\ Len(s) + i \in DOMAIN u
  BY <1>1, <1>2, <1>3
<1>6. \A i \in DOMAIN u : u[i] \in ToSet(s) \cup ToSet(t)
  <2> SUFFICES ASSUME NEW i \in DOMAIN u PROVE u[i] \in ToSet(s) \cup ToSet(t)
    OBVIOUS
  <2>1. CASE i <= Len(s)
    <3>1. i \in DOMAIN s
      BY <1>1, <1>3, <2>1
    <3> QED BY <1>1, <1>4, <3>1 DEF ToSet
  <2>2. CASE ~(i <= Len(s))
    <3>1. i - Len(s) \in DOMAIN t /\ u[i] = t[i - Len(s)]
      BY <1>1, <1>2, <1>3, <2>2
    <3> QED BY <3>1 DEF ToSet
  <2> QED BY <2>1, <2>2
<1>7. ToSet(s) \cup ToSet(t) \subseteq ToSet(u)
  BY <1>1, <1>4, <1>5 DEF ToSet
<1>8. ToSet(u) \subseteq ToSet(s) \cup ToSet(t)
  BY <1>6 DEF ToSet
<1> QED BY <1>2, <1>3, <1>4, <1>5, <1>7, <1>8 DEF u

\* The first ones.
LEMMA TheFirst ==
    ASSUME NEW s, IsSequence(s), NEW n \in Nat
    PROVE  LET t == FirstOf(s, n)
           IN /\ IsSequence(t) /\ Len(t) = (IF n < Len(s) THEN n ELSE Len(s))
              /\ \A i \in 1..Len(t) : i \in 1..Len(s) /\ t[i] = s[i]
              /\ ToSet(t) \subseteq ToSet(s)
<1> DEFINE m == IF n < Len(s) THEN n ELSE Len(s)
           t == SubSeq(s, 1, m)
<1>1. s \in Seq(ToSet(s)) /\ Len(s) \in Nat /\ \A i \in 1..Len(s) : s[i] \in ToSet(s)
  BY Members
<1>2. m \in Nat /\ m <= Len(s) /\ \A i \in 1..m : s[i] \in ToSet(s)
  BY <1>1
<1> HIDE DEF m
<1>3. /\ t \in Seq(ToSet(s)) /\ Len(t) = m
      /\ \A i \in 1..m : t[i] = s[i]
  BY <1>2, SubSeqProperties
<1>4. IsSequence(t)
  BY <1>3, SequenceOf
<1> HIDE DEF t
<1>5. ToSet(t) \subseteq ToSet(s)
  <2> SUFFICES ASSUME NEW x \in ToSet(t) PROVE x \in ToSet(s)
    OBVIOUS
  <2>1. PICK i \in 1..Len(t) : x = t[i]
    BY <1>4, Members
  <2> QED BY <1>2, <1>3, <2>1
<1>6. \A i \in 1..Len(t) : i \in 1..Len(s) /\ t[i] = s[i]
  BY <1>1, <1>2, <1>3
<1> QED BY <1>3, <1>4, <1>5, <1>6 DEF FirstOf, m, t

\* One more somewhere.
LEMMA Inserted ==
    ASSUME NEW s, IsSequence(s), NEW at \in 1..Len(s) + 1, NEW x
    PROVE  LET t == InsertAt(s, at, x)
           IN /\ IsSequence(t) /\ Len(t) = Len(s) + 1
              /\ \A i \in 1..Len(s) + 1 :
                     t[i] = IF i < at THEN s[i] ELSE IF i = at THEN x ELSE s[i - 1]
              /\ ToSet(t) = ToSet(s) \cup {x}
<1> DEFINE S == ToSet(s) \cup {x}
           a == SubSeq(s, 1, at - 1)
           b == SubSeq(s, at, Len(s))
           t == (a \o <<x>>) \o b
<1>1. s \in Seq(S) /\ Len(s) \in Nat /\ DOMAIN s = 1..Len(s) /\ x \in S
      /\ \A i \in 1..Len(s) : s[i] \in S
  BY Members, OverASet
<1>2. at \in Int /\ at - 1 \in Nat /\ at - 1 <= Len(s)
  BY <1>1
<1> HIDE DEF S
<1>3. /\ a \in Seq(S) /\ Len(a) = at - 1 /\ \A i \in 1..at - 1 : a[i] = s[i]
  <2>1. \A i \in 1..at - 1 : s[i] \in S
    BY <1>1, <1>2
  <2>2. /\ a \in Seq(S) /\ Len(a) = IF 1 <= at - 1 THEN (at - 1) - 1 + 1 ELSE 0
        /\ \A i \in 1..(at - 1) - 1 + 1 : a[i] = s[1 + i - 1]
    BY <1>2, <2>1, SubSeqProperties
  <2> HIDE DEF a
  <2> QED BY <1>2, <2>2
<1>4. b \in Seq(S) /\ Len(b) = Len(s) - at + 1 /\ \A i \in 1..Len(s) - at + 1 : b[i] = s[at + i - 1]
  <2>1. \A i \in at..Len(s) : s[i] \in S
    BY <1>1, <1>2
  <2>2. /\ b \in Seq(S) /\ Len(b) = IF at <= Len(s) THEN Len(s) - at + 1 ELSE 0
        /\ \A i \in 1..Len(s) - at + 1 : b[i] = s[at + i - 1]
    BY <1>1, <1>2, <2>1, SubSeqProperties
  <2> HIDE DEF b
  <2> QED BY <1>1, <1>2, <2>2
<1> HIDE DEF a, b
<1>5. <<x>> \in Seq(S) /\ Len(<<x>>) = 1 /\ <<x>>[1] = x
  BY <1>1
<1>6. /\ (a \o <<x>>) \in Seq(S) /\ Len(a \o <<x>>) = at
      /\ \A i \in 1..at : (a \o <<x>>)[i] = IF i <= at - 1 THEN s[i] ELSE x
  <2>1. /\ (a \o <<x>>) \in Seq(S) /\ Len(a \o <<x>>) = Len(a) + 1
        /\ \A i \in 1..Len(a) + 1 : (a \o <<x>>)[i] = IF i <= Len(a) THEN a[i] ELSE <<x>>[i - Len(a)]
    BY <1>3, <1>5, ConcatProperties
  <2> QED BY <1>2, <1>3, <1>5, <2>1
<1> DEFINE c == a \o <<x>>
<1> HIDE DEF c
<1>7. c \in Seq(S) /\ Len(c) = at /\ \A i \in 1..at : c[i] = IF i <= at - 1 THEN s[i] ELSE x
  BY <1>6 DEF c
<1>8. /\ (c \o b) \in Seq(S) /\ Len(c \o b) = Len(c) + Len(b)
      /\ \A i \in 1..Len(c) + Len(b) : (c \o b)[i] = IF i <= Len(c) THEN c[i] ELSE b[i - Len(c)]
  BY <1>4, <1>7, ConcatProperties
<1>9. t = c \o b
  BY DEF c
<1> HIDE DEF t
<1>10. t \in Seq(S) /\ Len(t) = Len(s) + 1
  BY <1>1, <1>2, <1>4, <1>7, <1>8, <1>9
<1>11. ASSUME NEW i \in 1..Len(s) + 1
       PROVE  t[i] = IF i < at THEN s[i] ELSE IF i = at THEN x ELSE s[i - 1]
  <2>1. CASE i <= at
    BY <1>1, <1>2, <1>4, <1>7, <1>8, <1>9, <2>1
  <2>2. CASE ~(i <= at)
    <3>1. i - at \in 1..Len(s) - at + 1 /\ at + (i - at) - 1 = i - 1
      BY <1>1, <1>2, <2>2
    <3>2. t[i] = b[i - at]
      BY <1>1, <1>2, <1>4, <1>7, <1>8, <1>9, <2>2
    <3> QED BY <1>2, <1>4, <2>2, <3>1, <3>2
  <2> QED BY <2>1, <2>2
<1>12. IsSequence(t) /\ DOMAIN t = 1..Len(s) + 1
  BY <1>10, SequenceOf, LenProperties
<1>13. ToSet(t) = ToSet(s) \cup {x}
  <2>1. ToSet(t) \subseteq S
    BY <1>10, <1>12, ElementOfSeq DEF ToSet
  <2>2. x \in ToSet(t)
    BY <1>1, <1>2, <1>11, <1>12 DEF ToSet
  <2>3. ASSUME NEW j \in 1..Len(s) PROVE s[j] \in ToSet(t)
    <3>1. CASE j < at
      BY <1>1, <1>2, <1>11, <1>12, <3>1 DEF ToSet
    <3>2. CASE ~(j < at)
      <4>1. j + 1 \in 1..Len(s) + 1 /\ ~(j + 1 < at) /\ j + 1 # at /\ (j + 1) - 1 = j
        BY <1>1, <1>2, <3>2
      <4>2. t[j + 1] = s[j]
        BY <1>11, <4>1
      <4> QED BY <1>12, <4>1, <4>2 DEF ToSet
    <3> QED BY <3>1, <3>2
  <2>4. ToSet(s) \subseteq ToSet(t)
    BY <1>1, <2>3 DEF ToSet
  <2> QED BY <2>1, <2>2, <2>4 DEF S
<1> QED BY <1>10, <1>11, <1>12, <1>13 DEF InsertAt, t, a, b


-----------------------------------------------------------------------------
(* What the passes make of a list.                                         *)

\* Up to a number, from one to the next.
LEMMA UpTo ==
    ASSUME NEW n \in Nat, NEW Good, 0 \in Good,
           \A k \in Nat : k + 1 <= n /\ k \in Good => k + 1 \in Good
    PROVE  n \in Good
<1> DEFINE S == {k \in Nat : k <= n => k \in Good}
<1>1. 0 \in S
  OBVIOUS
<1>2. \A k \in Nat : k \in S => k + 1 \in S
  OBVIOUS
<1> HIDE DEF S
<1>3. n \in S
  BY <1>1, <1>2, Counting
<1> QED BY <1>3 DEF S

\* The first k of a list, as a set.
FirstAsSet(list, k) == {list[i] : i \in 1..k}

LEMMA FirstAsSets ==
    ASSUME NEW list, IsSequence(list)
    PROVE  /\ FirstAsSet(list, 0) = {}
           /\ FirstAsSet(list, Len(list)) = ToSet(list)
           /\ \A k \in Nat : FirstAsSet(list, k + 1) = FirstAsSet(list, k) \cup {list[k + 1]}
<1>1. DOMAIN list = 1..Len(list)
  BY DEF IsSequence
<1>2. ASSUME NEW k \in Nat
      PROVE  FirstAsSet(list, k + 1) = FirstAsSet(list, k) \cup {list[k + 1]}
  <2>1. 1..k + 1 = (1..k) \cup {k + 1}
    OBVIOUS
  <2> QED BY <2>1 DEF FirstAsSet
<1> QED BY <1>1, <1>2 DEF FirstAsSet, ToSet

\* What is wanted of a list.
LEMMA AmongIs ==
    ASSUME NEW list, IsSequence(list), NEW wanted
    PROVE  /\ IsSequence(Among(list, wanted))
           /\ ToSet(Among(list, wanted)) = ToSet(list) \cap wanted
<1> DEFINE n == Len(list)
<1>1. n \in Nat /\ DOMAIN list = 1..n
  BY Members
<1>2. PICK sofar :
          /\ sofar[0] = <<>> /\ sofar[n] = Among(list, wanted)
          /\ \A k \in 1..n : sofar[k] = KeepWanted(sofar[k - 1], list[k], wanted)
  BY <1>1, WantedByStep
<1> DEFINE Good == {k \in Nat : /\ IsSequence(sofar[k])
                                /\ ToSet(sofar[k]) = FirstAsSet(list, k) \cap wanted}
<1>3. 0 \in Good
  <2>1. IsSequence(<<>>) /\ ToSet(<<>>) = {}
    BY DEF IsSequence, ToSet
  <2> QED BY <1>2, <2>1, FirstAsSets
<1>4. ASSUME NEW k \in Nat, k + 1 <= n, k \in Good PROVE k + 1 \in Good
  <2>1. k + 1 \in 1..n /\ (k + 1) - 1 = k
    BY <1>1, <1>4
  <2>2. sofar[k + 1] = KeepWanted(sofar[k], list[k + 1], wanted)
    BY <1>2, <2>1
  <2>3. FirstAsSet(list, k + 1) = FirstAsSet(list, k) \cup {list[k + 1]}
    BY FirstAsSets
  <2>4. IsSequence(sofar[k]) /\ ToSet(sofar[k]) = FirstAsSet(list, k) \cap wanted
    BY <1>4
  <2>5. CASE list[k + 1] \in wanted
    <3>1. sofar[k + 1] = Append(sofar[k], list[k + 1])
      BY <2>2, <2>5 DEF KeepWanted
    <3>2. IsSequence(sofar[k + 1]) /\ ToSet(sofar[k + 1]) = ToSet(sofar[k]) \cup {list[k + 1]}
      BY <2>4, <3>1, AtTheEnd
    <3> QED BY <2>3, <2>4, <2>5, <3>2
  <2>6. CASE list[k + 1] \notin wanted
    <3>1. sofar[k + 1] = sofar[k]
      BY <2>2, <2>6 DEF KeepWanted
    <3> QED BY <2>3, <2>4, <2>6, <3>1
  <2> QED BY <2>5, <2>6
<1> HIDE DEF Good
<1>5. n \in Good
  BY <1>1, <1>3, <1>4, UpTo
<1> USE DEF Good
<1> QED BY <1>2, <1>5, FirstAsSets

\* Pages, one after another.
LEMMA JoinedIs ==
    ASSUME NEW pages, IsSequence(pages), \A i \in DOMAIN pages : IsSequence(pages[i])
    PROVE  /\ IsSequence(Joined(pages))
           /\ ToSet(Joined(pages)) = UNION {ToSet(pages[i]) : i \in DOMAIN pages}
<1> DEFINE n == Len(pages)
           Upto(k) == UNION {ToSet(pages[i]) : i \in 1..k}
<1>1. n \in Nat /\ DOMAIN pages = 1..n
  BY Members
<1>2. PICK sofar :
          /\ sofar[0] = <<>> /\ sofar[n] = Joined(pages)
          /\ \A k \in 1..n : sofar[k] = sofar[k - 1] \o pages[k]
  BY <1>1, JoinedByStep
<1> DEFINE Good == {k \in Nat : IsSequence(sofar[k]) /\ ToSet(sofar[k]) = Upto(k)}
<1>3. 0 \in Good
  <2>1. IsSequence(<<>>) /\ ToSet(<<>>) = {} /\ Upto(0) = {}
    BY DEF IsSequence, ToSet
  <2> QED BY <1>2, <2>1
<1>4. ASSUME NEW k \in Nat, k + 1 <= n, k \in Good PROVE k + 1 \in Good
  <2>1. k + 1 \in 1..n /\ (k + 1) - 1 = k
    BY <1>1, <1>4
  <2>2. sofar[k + 1] = sofar[k] \o pages[k + 1]
    BY <1>2, <2>1
  <2>3. 1..k + 1 = (1..k) \cup {k + 1}
    OBVIOUS
  <2>4. Upto(k + 1) = Upto(k) \cup ToSet(pages[k + 1])
    BY <2>3
  <2>5. IsSequence(sofar[k]) /\ ToSet(sofar[k]) = Upto(k)
    BY <1>4
  <2>6. IsSequence(pages[k + 1])
    BY <1>1, <2>1
  <2>7. /\ IsSequence(sofar[k] \o pages[k + 1])
        /\ ToSet(sofar[k] \o pages[k + 1]) = ToSet(sofar[k]) \cup ToSet(pages[k + 1])
    BY <2>5, <2>6, OneAfterAnother
  <2>8. IsSequence(sofar[k + 1]) /\ ToSet(sofar[k + 1]) = Upto(k + 1)
    <3> HIDE DEF Upto
    <3> QED BY <2>2, <2>4, <2>5, <2>7
  <2> HIDE DEF Upto
  <2> QED BY <2>8
<1> HIDE DEF Good
<1>5. n \in Good
  BY <1>1, <1>3, <1>4, UpTo
<1> USE DEF Good
<1> QED BY <1>1, <1>2, <1>5

\* Of every entry a copy is left.
LEMMA DedupedIs ==
    ASSUME NEW entries, IsSequence(entries)
    PROVE  /\ IsSequence(Deduped(entries))
           /\ ToSet(Deduped(entries)) \subseteq ToSet(entries)
           /\ \A x \in ToSet(entries) : \E y \in ToSet(Deduped(entries)) : Occurrence(y) = Occurrence(x)
<1> DEFINE n == Len(entries)
<1>1. n \in Nat /\ DOMAIN entries = 1..n
  BY Members
<1>2. PICK sofar :
          /\ sofar[0] = <<>> /\ sofar[n] = Deduped(entries)
          /\ \A k \in 1..n : sofar[k] = AddOccurrence(sofar[k - 1], entries[k])
  BY <1>1, DedupedByStep
<1> DEFINE Good == {k \in Nat :
                       /\ IsSequence(sofar[k])
                       /\ ToSet(sofar[k]) \subseteq FirstAsSet(entries, k)
                       /\ \A x \in FirstAsSet(entries, k) : \E y \in ToSet(sofar[k]) :
                              Occurrence(y) = Occurrence(x)}
<1>3. 0 \in Good
  <2>1. IsSequence(<<>>) /\ ToSet(<<>>) = {}
    BY DEF IsSequence, ToSet
  <2> QED BY <1>2, <2>1, FirstAsSets
<1>4. ASSUME NEW k \in Nat, k + 1 <= n, k \in Good PROVE k + 1 \in Good
  <2>1. k + 1 \in 1..n /\ (k + 1) - 1 = k
    BY <1>1, <1>4
  <2>2. sofar[k + 1] = AddOccurrence(sofar[k], entries[k + 1])
    BY <1>2, <2>1
  <2>3. FirstAsSet(entries, k + 1) = FirstAsSet(entries, k) \cup {entries[k + 1]}
    BY FirstAsSets
  <2>4. /\ IsSequence(sofar[k])
        /\ ToSet(sofar[k]) \subseteq FirstAsSet(entries, k)
        /\ \A x \in FirstAsSet(entries, k) : \E y \in ToSet(sofar[k]) : Occurrence(y) = Occurrence(x)
    BY <1>4
  <2>5. CASE \E i \in DOMAIN sofar[k] : Occurrence(sofar[k][i]) = Occurrence(entries[k + 1])
    <3>1. sofar[k + 1] = sofar[k]
      BY <2>2, <2>5 DEF AddOccurrence
    <3>2. \E y \in ToSet(sofar[k]) : Occurrence(y) = Occurrence(entries[k + 1])
      BY <2>5 DEF ToSet
    <3> QED BY <2>3, <2>4, <3>1, <3>2
  <2>6. CASE ~(\E i \in DOMAIN sofar[k] : Occurrence(sofar[k][i]) = Occurrence(entries[k + 1]))
    <3>1. sofar[k + 1] = Append(sofar[k], entries[k + 1])
      BY <2>2, <2>6 DEF AddOccurrence
    <3>2. /\ IsSequence(sofar[k + 1])
          /\ ToSet(sofar[k + 1]) = ToSet(sofar[k]) \cup {entries[k + 1]}
      BY <2>4, <3>1, AtTheEnd
    <3> QED BY <2>3, <2>4, <3>2
  <2> QED BY <2>5, <2>6
<1> HIDE DEF Good
<1>5. n \in Good
  BY <1>1, <1>3, <1>4, UpTo
<1> USE DEF Good
<1> QED BY <1>2, <1>5, FirstAsSets

\* Nothing twice.
Distinct(s) == \A i, j \in DOMAIN s : i # j => s[i] # s[j]

\* In the order of their starts.
InOrder(s) == \A i, j \in 1..Len(s) : i <= j => s[i].event.start <= s[j].event.start

StartsAreInts(S) == \A x \in S : x.event.start \in Int

\* Some numbers have a least.
LEMMA LeastOf ==
    ASSUME NEW S, S \subseteq Nat, S # {}
    PROVE  Min(S) \in S /\ \A y \in S : Min(S) <= y
<1> DEFINE Good == {k \in Nat : (\E x \in S : x <= k) => \E m \in S : \A y \in S : m <= y}
<1>1. 0 \in Good
  <2> SUFFICES ASSUME NEW x \in S, x <= 0 PROVE \E m \in S : \A y \in S : m <= y
    OBVIOUS
  <2>1. x = 0
    OBVIOUS
  <2> QED BY <2>1
<1>2. ASSUME NEW k \in Nat, k \in Good PROVE k + 1 \in Good
  <2> SUFFICES ASSUME NEW x \in S, x <= k + 1 PROVE \E m \in S : \A y \in S : m <= y
    OBVIOUS
  <2>1. CASE \E z \in S : z <= k
    BY <1>2, <2>1
  <2>2. CASE ~(\E z \in S : z <= k)
    <3>1. \A y \in S : x <= y
      BY <2>2
    <3> QED BY <3>1
  <2> QED BY <2>1, <2>2
<1>3. PICK k \in S : TRUE
  OBVIOUS
<1>4. k \in Nat
  OBVIOUS
<1> HIDE DEF Good
<1>5. k \in Good
  BY <1>1, <1>2, <1>4, Counting
<1> USE DEF Good
<1>6. \E m \in S : \A y \in S : m <= y
  BY <1>4, <1>5
<1> QED BY <1>6 DEF Min

\* One more entry, where it belongs.
LEMMA InsertedInOrder ==
    ASSUME NEW list, IsSequence(list), InOrder(list), StartsAreInts(ToSet(list)),
           NEW entry, entry.event.start \in Int
    PROVE  LET t == InsertChronologically(list, entry)
           IN /\ IsSequence(t) /\ Len(t) = Len(list) + 1 /\ InOrder(t)
              /\ ToSet(t) = ToSet(list) \cup {entry}
              /\ Distinct(list) /\ entry \notin ToSet(list) => Distinct(t)
<1> DEFINE later == {i \in DOMAIN list : Before(entry, list[i])}
           at == IF later = {} THEN Len(list) + 1 ELSE Min(later)
           t == InsertAt(list, at, entry)
<1>1. /\ Len(list) \in Nat /\ DOMAIN list = 1..Len(list)
      /\ \A i \in 1..Len(list) : list[i] \in ToSet(list)
  BY Members
<1>2. later \subseteq 1..Len(list)
  BY <1>1
<1>3. \A i \in 1..Len(list) : i \notin later => list[i].event.start <= entry.event.start
  <2> SUFFICES ASSUME NEW i \in 1..Len(list), i \notin later
               PROVE  list[i].event.start <= entry.event.start
    OBVIOUS
  <2>1. ~(entry.event.start < list[i].event.start)
    BY <1>1 DEF Before
  <2>2. list[i].event.start \in Int
    BY <1>1 DEF StartsAreInts
  <2> QED BY <2>1, <2>2
<1>4. \A i \in later : entry.event.start <= list[i].event.start
  <2> SUFFICES ASSUME NEW i \in later PROVE entry.event.start <= list[i].event.start
    OBVIOUS
  <2>1. entry.event.start < list[i].event.start \/ entry.event.start = list[i].event.start
    BY DEF Before
  <2>2. list[i].event.start \in Int
    BY <1>1, <1>2 DEF StartsAreInts
  <2> QED BY <2>1, <2>2
<1> HIDE DEF later
<1>5. /\ at \in 1..Len(list) + 1
      /\ \A i \in 1..Len(list) : i < at => i \notin later
      /\ at <= Len(list) => at \in later
  <2>1. CASE later = {}
    BY <1>1, <2>1
  <2>2. CASE later # {}
    <3>1. later \subseteq Nat
      BY <1>1, <1>2
    <3>2. Min(later) \in later /\ \A y \in later : Min(later) <= y
      BY <2>2, <3>1, LeastOf
    <3>3. at = Min(later)
      BY <2>2
    <3> HIDE DEF at
    <3>4. at \in later /\ at \in 1..Len(list) /\ \A y \in later : at <= y
      BY <1>2, <3>2, <3>3
    <3> QED BY <1>1, <3>4
  <2> QED BY <2>1, <2>2
<1> HIDE DEF at
<1>6. /\ IsSequence(t) /\ Len(t) = Len(list) + 1
      /\ \A i \in 1..Len(list) + 1 :
             t[i] = IF i < at THEN list[i] ELSE IF i = at THEN entry ELSE list[i - 1]
      /\ ToSet(t) = ToSet(list) \cup {entry}
  BY <1>5, Inserted
<1> HIDE DEF t
<1> DEFINE start(i) == list[i].event.start
<1>7. /\ entry.event.start \in Int
      /\ \A i \in 1..Len(list) : start(i) \in Int
      /\ \A i, j \in 1..Len(list) : i <= j => start(i) <= start(j)
  BY <1>1 DEF StartsAreInts, InOrder
<1>8. \A i \in 1..Len(list) : i < at => start(i) <= entry.event.start
  BY <1>3, <1>5
<1>9. \A i \in 1..Len(list) : at <= i => entry.event.start <= start(i)
  <2> SUFFICES ASSUME NEW i \in 1..Len(list), at <= i PROVE entry.event.start <= start(i)
    OBVIOUS
  <2>1. at \in 1..Len(list) /\ at \in later
    BY <1>1, <1>5
  <2>2. entry.event.start <= start(at)
    BY <1>4, <2>1
  <2>3. start(at) <= start(i)
    BY <1>7, <2>1
  <2> HIDE DEF start
  <2> QED BY <1>7, <2>1, <2>2, <2>3
<1>10. \A i \in 1..Len(list) + 1 :
           t[i].event.start = IF i < at THEN start(i)
                              ELSE IF i = at THEN entry.event.start ELSE start(i - 1)
  BY <1>6
<1>11. InOrder(t)
  <2> SUFFICES ASSUME NEW i \in 1..Len(list) + 1, NEW j \in 1..Len(list) + 1, i <= j
               PROVE  t[i].event.start <= t[j].event.start
    BY <1>6 DEF InOrder
  <2> HIDE DEF start
  <2>1. CASE j < at
    BY <1>1, <1>5, <1>7, <1>10, <2>1
  <2>2. CASE j = at
    BY <1>1, <1>5, <1>7, <1>8, <1>10, <2>2
  <2>3. CASE j > at
    <3>1. j - 1 \in 1..Len(list) /\ at <= j - 1
      BY <1>1, <1>5, <2>3
    <3>2. t[j].event.start = start(j - 1)
      BY <1>5, <1>10, <2>3
    <3>3. CASE i < at
      <4>1. i \in 1..Len(list) /\ i <= j - 1
        BY <1>1, <1>5, <2>3, <3>1, <3>3
      <4> QED BY <1>7, <1>10, <3>1, <3>2, <3>3, <4>1
    <3>4. CASE i = at
      BY <1>5, <1>9, <1>10, <3>1, <3>2, <3>4
    <3>5. CASE i > at
      <4>1. i - 1 \in 1..Len(list) /\ i - 1 <= j - 1
        BY <1>1, <1>5, <3>5
      <4>2. t[i].event.start = start(i - 1)
        BY <1>5, <1>10, <3>5
      <4> QED BY <1>7, <3>1, <3>2, <4>1, <4>2
    <3> QED BY <1>5, <3>3, <3>4, <3>5
  <2> QED BY <1>5, <2>1, <2>2, <2>3
<1>12. ASSUME Distinct(list), entry \notin ToSet(list) PROVE Distinct(t)
  <2>1. DOMAIN t = 1..Len(list) + 1
    BY <1>6, Members
  <2> SUFFICES ASSUME NEW i \in 1..Len(list) + 1, NEW j \in 1..Len(list) + 1, i < j
               PROVE  t[i] # t[j]
    BY <1>1, <2>1 DEF Distinct
  <2>2. \A k \in 1..Len(list) : list[k] # entry
    BY <1>1, <1>12
  <2>3. \A k, m \in 1..Len(list) : k # m => list[k] # list[m]
    BY <1>1, <1>12 DEF Distinct
  <2>4. CASE j < at
    BY <1>1, <1>5, <1>6, <2>3, <2>4
  <2>5. CASE j = at
    BY <1>1, <1>5, <1>6, <2>2, <2>5
  <2>6. CASE j > at
    <3>1. j - 1 \in 1..Len(list) /\ t[j] = list[j - 1]
      BY <1>1, <1>5, <1>6, <2>6
    <3>2. CASE i < at
      <4>1. i \in 1..Len(list) /\ i # j - 1 /\ t[i] = list[i]
        BY <1>1, <1>5, <1>6, <2>6, <3>2
      <4> QED BY <2>3, <3>1, <4>1
    <3>3. CASE i = at
      BY <1>5, <1>6, <2>2, <3>1, <3>3
    <3>4. CASE i > at
      <4>1. i - 1 \in 1..Len(list) /\ i - 1 # j - 1 /\ t[i] = list[i - 1]
        BY <1>1, <1>5, <1>6, <3>4
      <4> QED BY <2>3, <3>1, <4>1
    <3> QED BY <1>5, <3>2, <3>3, <3>4
  <2> QED BY <1>5, <2>4, <2>5, <2>6
<1> QED BY <1>6, <1>11, <1>12 DEF InsertChronologically, t, at, later

\* Sorted, a list is what it was, in order.
LEMMA ChronologicalIs ==
    ASSUME NEW entries, IsSequence(entries), StartsAreInts(ToSet(entries))
    PROVE  LET sorted == Chronological(entries)
           IN /\ IsSequence(sorted) /\ Len(sorted) = Len(entries) /\ InOrder(sorted)
              /\ ToSet(sorted) = ToSet(entries)
              /\ Distinct(entries) => Distinct(sorted)
<1> DEFINE n == Len(entries)
<1>1. n \in Nat /\ DOMAIN entries = 1..n /\ \A i \in 1..n : entries[i] \in ToSet(entries)
  BY Members
<1>2. PICK sofar :
          /\ sofar[0] = <<>> /\ sofar[n] = Chronological(entries)
          /\ \A k \in 1..n : sofar[k] = InsertChronologically(sofar[k - 1], entries[k])
  BY <1>1, SortedByStep
<1> DEFINE Fine(k) == /\ IsSequence(sofar[k]) /\ Len(sofar[k]) = k /\ InOrder(sofar[k])
                      /\ ToSet(sofar[k]) = FirstAsSet(entries, k)
                      /\ Distinct(entries) => Distinct(sofar[k])
           Good == {k \in Nat : k <= n /\ Fine(k)}
<1>3. 0 \in Good
  <2>1. IsSequence(<<>>) /\ ToSet(<<>>) = {} /\ Len(<<>>) = 0 /\ DOMAIN <<>> = {}
    BY DEF IsSequence, ToSet
  <2>2. InOrder(<<>>) /\ Distinct(<<>>)
    BY <2>1 DEF InOrder, Distinct
  <2>3. FirstAsSet(entries, 0) = {}
    BY FirstAsSets
  <2>4. Fine(0)
    BY <1>2, <2>1, <2>2, <2>3
  <2> HIDE DEF Fine
  <2> QED BY <1>1, <2>4
<1>4. ASSUME NEW k \in Nat, k + 1 <= n, k \in Good PROVE k + 1 \in Good
  <2>1. k + 1 \in 1..n /\ (k + 1) - 1 = k
    BY <1>1, <1>4
  <2> DEFINE entry == entries[k + 1]
  <2>2. sofar[k + 1] = InsertChronologically(sofar[k], entry)
    BY <1>2, <2>1
  <2>3. FirstAsSet(entries, k + 1) = FirstAsSet(entries, k) \cup {entry}
    BY FirstAsSets
  <2>4. Fine(k)
    BY <1>4
  <2>5. entry.event.start \in Int /\ StartsAreInts(ToSet(sofar[k]))
    <3>1. FirstAsSet(entries, k) \subseteq ToSet(entries)
      BY <1>1, <1>4 DEF FirstAsSet
    <3> QED BY <1>1, <2>1, <2>4, <3>1 DEF StartsAreInts
  <2>6. Distinct(entries) => entry \notin FirstAsSet(entries, k)
    BY <1>1, <2>1 DEF Distinct, FirstAsSet
  <2> HIDE DEF entry
  <2>7. /\ IsSequence(sofar[k + 1]) /\ Len(sofar[k + 1]) = k + 1 /\ InOrder(sofar[k + 1])
        /\ ToSet(sofar[k + 1]) = ToSet(sofar[k]) \cup {entry}
        /\ Distinct(sofar[k]) /\ entry \notin ToSet(sofar[k]) => Distinct(sofar[k + 1])
    BY <2>2, <2>4, <2>5, InsertedInOrder
  <2>8. Fine(k + 1)
    BY <2>3, <2>4, <2>6, <2>7
  <2> HIDE DEF Fine
  <2> QED BY <1>4, <2>8
<1> HIDE DEF Good
<1>5. n \in Good
  BY <1>1, <1>3, <1>4, UpTo
<1> USE DEF Good
<1> QED BY <1>2, <1>5, FirstAsSets

-----------------------------------------------------------------------------
(* Sizes.                                                                  *)

AreNats(s) == \A i \in 1..Len(s) : s[i] \in Nat

\* The sums of the first so many.
Sums(s, sofar) ==
    /\ sofar[0] = 0 /\ sofar[Len(s)] = SumOf(s)
    /\ \A k \in 1..Len(s) : sofar[k] = sofar[k - 1] + s[k]

LEMMA SumsExist ==
    ASSUME NEW s, IsSequence(s), AreNats(s)
    PROVE  \E sofar : Sums(s, sofar) /\ \A k \in 0..Len(s) : sofar[k] \in Nat
<1> DEFINE n == Len(s)
<1>1. n \in Nat /\ DOMAIN s = 1..n
  BY Members
<1>2. PICK sofar : Sums(s, sofar)
  BY <1>1, SummedByStep DEF Sums
<1> DEFINE Good == {k \in Nat : k <= n => sofar[k] \in Nat}
<1>3. 0 \in Good
  BY <1>2 DEF Sums
<1>4. ASSUME NEW k \in Nat, k \in Good PROVE k + 1 \in Good
  <2> SUFFICES ASSUME k + 1 <= n PROVE sofar[k + 1] \in Nat
    OBVIOUS
  <2>1. k + 1 \in 1..n /\ (k + 1) - 1 = k /\ sofar[k] \in Nat
    BY <1>1, <1>4
  <2>2. sofar[k + 1] = sofar[k] + s[k + 1] /\ s[k + 1] \in Nat
    BY <1>2, <2>1 DEF Sums, AreNats
  <2> QED BY <2>1, <2>2
<1> HIDE DEF Good
<1>5. \A k \in Nat : k \in Good
  BY <1>3, <1>4, Counting
<1> USE DEF Good
<1>6. \A k \in 0..n : sofar[k] \in Nat
  BY <1>1, <1>5
<1> QED BY <1>2, <1>6

\* A sum of sizes is a size.
LEMMA SumTyped ==
    ASSUME NEW s, IsSequence(s), AreNats(s)
    PROVE  SumOf(s) \in Nat
<1>1. PICK sofar : Sums(s, sofar) /\ \A k \in 0..Len(s) : sofar[k] \in Nat
  BY SumsExist
<1>2. Len(s) \in 0..Len(s)
  BY Members
<1> QED BY <1>1, <1>2 DEF Sums

\* No sizes, and one.
LEMMA SmallSums == SumOf(<<>>) = 0 /\ \A x \in Nat : SumOf(<<x>>) = x
<1>1. SumOf(<<>>) = 0
  <2>1. DOMAIN <<>> = 1..0
    OBVIOUS
  <2>2. PICK sofar : sofar[0] = 0 /\ sofar[0] = SumOf(<<>>)
    BY <2>1, SummedByStep
  <2> QED BY <2>2
<1>2. ASSUME NEW x \in Nat PROVE SumOf(<<x>>) = x
  <2> DEFINE s == <<x>>
  <2>1. s \in Seq(Nat) /\ Len(s) = 1 /\ s[1] = x
    OBVIOUS
  <2> HIDE DEF s
  <2>2. IsSequence(s) /\ AreNats(s)
    BY <2>1, SequenceOf DEF AreNats
  <2>3. PICK sofar : Sums(s, sofar)
    BY <2>2, SumsExist
  <2>4. sofar[0] = 0 /\ sofar[1] = SumOf(s) /\ sofar[1] = sofar[1 - 1] + s[1]
    BY <2>1, <2>3 DEF Sums
  <2> QED BY <2>1, <2>4 DEF s
<1> QED BY <1>1, <1>2

\* The sum of one sequence after another.
LEMMA SumOfBoth ==
    ASSUME NEW s, IsSequence(s), AreNats(s), NEW t, IsSequence(t), AreNats(t),
           NEW u, IsSequence(u), Len(u) = Len(s) + Len(t),
           \A i \in 1..Len(s) : u[i] = s[i],
           \A i \in 1..Len(t) : u[Len(s) + i] = t[i]
    PROVE  SumOf(u) = SumOf(s) + SumOf(t)
<1> DEFINE m == Len(s)
           n == Len(t)
<1>1. m \in Nat /\ n \in Nat
  BY Members
<1>2. /\ IsSequence(u) /\ Len(u) = m + n
      /\ \A i \in 1..m : u[i] = s[i]
      /\ \A i \in 1..n : u[m + i] = t[i]
  OBVIOUS
<1>3. AreNats(u)
  <2> SUFFICES ASSUME NEW i \in 1..m + n PROVE u[i] \in Nat
    BY <1>2 DEF AreNats
  <2>1. CASE i <= m
    BY <1>1, <1>2, <2>1 DEF AreNats
  <2>2. CASE ~(i <= m)
    <3>1. i - m \in 1..n /\ m + (i - m) = i
      BY <1>1, <2>2
    <3> QED BY <1>2, <3>1 DEF AreNats
  <2> QED BY <2>1, <2>2
<1>4. PICK a : Sums(s, a) /\ \A k \in 0..m : a[k] \in Nat
  BY SumsExist
<1>5. PICK b : Sums(t, b) /\ \A k \in 0..n : b[k] \in Nat
  BY SumsExist
<1>6. PICK c : Sums(u, c) /\ \A k \in 0..m + n : c[k] \in Nat
  BY <1>2, <1>3, SumsExist
<1> DEFINE First == {k \in Nat : k <= m => c[k] = a[k]}
<1>7. m \in First
  <2>1. 0 \in First
    BY <1>4, <1>6 DEF Sums
  <2>2. ASSUME NEW k \in Nat, k + 1 <= m, k \in First PROVE k + 1 \in First
    <3>1. k + 1 \in 1..m /\ k + 1 \in 1..m + n /\ (k + 1) - 1 = k /\ c[k] = a[k]
      BY <1>1, <2>2
    <3>2. c[k + 1] = c[k] + u[k + 1] /\ a[k + 1] = a[k] + s[k + 1] /\ u[k + 1] = s[k + 1]
      BY <1>2, <1>4, <1>6, <3>1 DEF Sums
    <3> QED BY <3>1, <3>2
  <2> HIDE DEF First
  <2> QED BY <1>1, <2>1, <2>2, UpTo
<1>8. c[m] = SumOf(s)
  BY <1>1, <1>4, <1>7 DEF Sums
<1> DEFINE Rest == {k \in Nat : k <= n => c[m + k] = SumOf(s) + b[k]}
<1>9. n \in Rest
  <2>0. SumOf(s) \in Nat
    BY SumTyped
  <2>1. 0 \in Rest
    BY <1>1, <1>5, <1>8, <2>0 DEF Sums
  <2>2. ASSUME NEW k \in Nat, k + 1 <= n, k \in Rest PROVE k + 1 \in Rest
    <3>1. /\ k + 1 \in 1..n /\ m + (k + 1) \in 1..m + n /\ (k + 1) - 1 = k /\ (m + (k + 1)) - 1 = m + k
          /\ c[m + k] = SumOf(s) + b[k] /\ k \in 0..n
      BY <1>1, <2>2
    <3>2. /\ c[m + (k + 1)] = c[m + k] + u[m + (k + 1)]
          /\ b[k + 1] = b[k] + t[k + 1] /\ u[m + (k + 1)] = t[k + 1]
      BY <1>2, <1>5, <1>6, <3>1 DEF Sums
    <3>3. t[k + 1] \in Nat /\ b[k] \in Nat
      BY <1>5, <3>1 DEF AreNats
    <3>4. c[m + (k + 1)] = SumOf(s) + b[k + 1]
      BY <2>0, <3>1, <3>2, <3>3
    <3> QED BY <3>4
  <2> HIDE DEF Rest
  <2> QED BY <1>1, <2>1, <2>2, UpTo
<1>10. c[m + n] = SumOf(s) + b[n]
  BY <1>1, <1>9
<1> QED BY <1>2, <1>5, <1>6, <1>10 DEF Sums

-----------------------------------------------------------------------------
(* Lines.                                                                  *)

AreLines(lines) == IsSequence(lines) /\ \A i \in 1..Len(lines) : lines[i].size \in Nat

\* The sizes of lines.
LEMMA SizesOf ==
    ASSUME NEW lines, AreLines(lines)
    PROVE  /\ IsSequence(Sizes(lines)) /\ Len(Sizes(lines)) = Len(lines) /\ AreNats(Sizes(lines))
           /\ \A i \in 1..Len(lines) : Sizes(lines)[i] = lines[i].size
           /\ SumOf(Sizes(lines)) \in Nat /\ JoinedSize(lines) \in Nat /\ Len(lines) \in Nat
           /\ Len(lines) = 0 => SumOf(Sizes(lines)) = 0
           /\ JoinedSize(lines) = IF Len(lines) = 0 THEN 0
                                  ELSE SumOf(Sizes(lines)) + Len(lines) - 1
<1> DEFINE sizes == Sizes(lines)
<1>1. /\ DOMAIN lines = 1..Len(lines) /\ Len(lines) \in Nat
      /\ \A i \in 1..Len(lines) : lines[i].size \in Nat
      /\ lines \in Seq(ToSet(lines))
  BY Members DEF AreLines
<1>2. /\ DOMAIN sizes = 1..Len(lines) /\ sizes = [i \in DOMAIN sizes |-> sizes[i]]
      /\ \A i \in 1..Len(lines) : sizes[i] = lines[i].size
  BY <1>1 DEF Sizes
<1> HIDE DEF sizes
<1>3. IsSequence(sizes) /\ Len(sizes) = Len(lines)
  BY <1>1, <1>2, Numbered
<1>4. AreNats(sizes)
  BY <1>1, <1>2, <1>3 DEF AreNats
<1>5. SumOf(sizes) \in Nat
  BY <1>3, <1>4, SumTyped
<1>6. lines = <<>> <=> Len(lines) = 0
  BY <1>1
<1>7. JoinedSize(lines) = IF Len(lines) = 0 THEN 0 ELSE SumOf(sizes) + Len(lines) - 1
  BY <1>6 DEF JoinedSize, sizes
<1>8. JoinedSize(lines) \in Nat
  BY <1>1, <1>5, <1>7
<1>9. Len(lines) = 0 => SumOf(sizes) = 0
  <2>1. Len(lines) = 0 => sizes = <<>>
    BY <1>3 DEF IsSequence
  <2> QED BY <2>1, SmallSums
<1> QED BY <1>1, <1>2, <1>3, <1>4, <1>5, <1>7, <1>8, <1>9 DEF sizes

\* The texts of some lines and then others.
LEMMA LinesJoined ==
    ASSUME NEW a, AreLines(a), NEW b, AreLines(b)
    PROVE  /\ AreLines(a \o b) /\ Len(a \o b) = Len(a) + Len(b)
           /\ SumOf(Sizes(a \o b)) = SumOf(Sizes(a)) + SumOf(Sizes(b))
           /\ Shows(a \o b) = Shows(a) \cup Shows(b)
<1> DEFINE c == a \o b
<1>1. /\ IsSequence(c) /\ Len(c) = Len(a) + Len(b)
      /\ \A i \in 1..Len(a) : c[i] = a[i]
      /\ \A i \in 1..Len(b) : c[Len(a) + i] = b[i]
      /\ ToSet(c) = ToSet(a) \cup ToSet(b)
  BY OneAfterAnother DEF AreLines
<1> HIDE DEF c
<1>2. /\ Len(a) \in Nat /\ Len(b) \in Nat
      /\ \A i \in 1..Len(a) : a[i].size \in Nat
      /\ \A i \in 1..Len(b) : b[i].size \in Nat
  BY Members DEF AreLines
<1>3. AreLines(c)
  <2> SUFFICES ASSUME NEW i \in 1..Len(a) + Len(b) PROVE c[i].size \in Nat
    BY <1>1 DEF AreLines
  <2>1. CASE i <= Len(a)
    BY <1>1, <1>2, <2>1
  <2>2. CASE ~(i <= Len(a))
    <3>1. i - Len(a) \in 1..Len(b) /\ Len(a) + (i - Len(a)) = i
      BY <1>2, <2>2
    <3> QED BY <1>1, <1>2, <3>1
  <2> QED BY <2>1, <2>2
<1>4. SumOf(Sizes(c)) = SumOf(Sizes(a)) + SumOf(Sizes(b))
  <2>1. /\ IsSequence(Sizes(a)) /\ Len(Sizes(a)) = Len(a) /\ AreNats(Sizes(a))
        /\ \A i \in 1..Len(a) : Sizes(a)[i] = a[i].size
    BY SizesOf
  <2>2. /\ IsSequence(Sizes(b)) /\ Len(Sizes(b)) = Len(b) /\ AreNats(Sizes(b))
        /\ \A i \in 1..Len(b) : Sizes(b)[i] = b[i].size
    BY SizesOf
  <2>3. /\ IsSequence(Sizes(c)) /\ Len(Sizes(c)) = Len(a) + Len(b)
        /\ \A i \in 1..Len(a) + Len(b) : Sizes(c)[i] = c[i].size
    BY <1>1, <1>3, SizesOf
  <2>4. \A i \in 1..Len(a) : Sizes(c)[i] = Sizes(a)[i]
    BY <1>1, <1>2, <2>1, <2>3
  <2>5. \A i \in 1..Len(b) : Sizes(c)[Len(a) + i] = Sizes(b)[i]
    BY <1>1, <1>2, <2>2, <2>3
  <2> DEFINE sa == Sizes(a)
             sb == Sizes(b)
             sc == Sizes(c)
  <2> HIDE DEF sa, sb, sc
  <2>6. /\ IsSequence(sa) /\ AreNats(sa) /\ IsSequence(sb) /\ AreNats(sb)
        /\ IsSequence(sc) /\ Len(sc) = Len(sa) + Len(sb)
        /\ \A i \in 1..Len(sa) : sc[i] = sa[i]
        /\ \A i \in 1..Len(sb) : sc[Len(sa) + i] = sb[i]
    BY <2>1, <2>2, <2>3, <2>4, <2>5 DEF sa, sb, sc
  <2>7. SumOf(sc) = SumOf(sa) + SumOf(sb)
    BY <2>6, SumOfBoth
  <2> QED BY <2>7 DEF sa, sb, sc
<1>5. Shows(c) = Shows(a) \cup Shows(b)
  <2>1. \A lines : IsSequence(lines) => Shows(lines) = UNION {x.shows : x \in ToSet(lines)}
    BY DEF Shows, ToSet
  <2> QED BY <1>1, <2>1 DEF AreLines
<1> QED BY <1>1, <1>3, <1>4, <1>5 DEF c

\* No lines, and one.
LEMMA FewLines ==
    /\ AreLines(<<>>) /\ Len(<<>>) = 0 /\ Shows(<<>>) = {} /\ JoinedSize(<<>>) = 0
    /\ \A line : line.size \in Nat =>
           /\ AreLines(<<line>>) /\ Len(<<line>>) = 1 /\ Shows(<<line>>) = line.shows
           /\ SumOf(Sizes(<<line>>)) = line.size /\ JoinedSize(<<line>>) = line.size
<1>1. AreLines(<<>>) /\ Len(<<>>) = 0 /\ Shows(<<>>) = {} /\ JoinedSize(<<>>) = 0
  BY DEF AreLines, IsSequence, Shows, JoinedSize
<1>2. ASSUME NEW line, line.size \in Nat
      PROVE  /\ AreLines(<<line>>) /\ Len(<<line>>) = 1 /\ Shows(<<line>>) = line.shows
             /\ SumOf(Sizes(<<line>>)) = line.size /\ JoinedSize(<<line>>) = line.size
  <2> DEFINE s == <<line>>
  <2>1. s \in Seq({line}) /\ Len(s) = 1 /\ s[1] = line /\ DOMAIN s = {1}
    OBVIOUS
  <2> HIDE DEF s
  <2>2. AreLines(s)
    BY <1>2, <2>1, SequenceOf DEF AreLines
  <2>3. Shows(s) = line.shows
    BY <2>1 DEF Shows
  <2>4. Sizes(s) = <<line.size>>
    BY <2>1 DEF Sizes
  <2>5. SumOf(Sizes(s)) = line.size
    BY <1>2, <2>4, SmallSums
  <2>6. JoinedSize(s) = line.size
    BY <1>2, <2>1, <2>2, <2>5, SizesOf
  <2> QED BY <2>1, <2>2, <2>3, <2>5, <2>6 DEF s
<1> QED BY <1>1, <1>2

\* The line that shows some texts.
LEMMA LineIs ==
    ASSUME NEW texts, FieldsSound(texts)
    PROVE  /\ Line(texts).size \in Nat
           /\ Line(texts).shows = {texts[i] : i \in DOMAIN texts} \ {None}
<1>1. PICK n \in Nat : /\ DOMAIN texts = 1..n
                       /\ \A i \in 1..n : texts[i] = None \/ TextSound(texts[i])
  BY DEF FieldsSound
<1> DEFINE sizes == [i \in DOMAIN texts |-> IF texts[i] = None THEN 0 ELSE texts[i].size]
<1>2. DOMAIN sizes = 1..n /\ sizes = [i \in DOMAIN sizes |-> sizes[i]]
  BY <1>1
<1>3. \A i \in 1..n : sizes[i] \in Nat
  BY <1>1 DEF TextSound
<1>4. Line(texts).size = Wording + SumOf(sizes)
  BY DEF Line
<1> HIDE DEF sizes
<1>5. IsSequence(sizes) /\ Len(sizes) = n
  BY <1>2, Numbered
<1>6. SumOf(sizes) \in Nat
  BY <1>3, <1>5, SumTyped DEF AreNats
<1> QED BY <1>4, <1>6 DEF Line, Wording

\* A line of fixed wording.
LEMMA FixedLineIs == FixedLine.size = Wording /\ FixedLine.shows = {}
<1>1. [i \in DOMAIN <<>> |-> IF <<>>[i] = None THEN 0 ELSE <<>>[i].size] = <<>>
  OBVIOUS
<1>2. Line(<<>>).size = Wording + SumOf(<<>>)
  BY <1>1 DEF Line
<1>3. Line(<<>>).shows = {}
  BY DEF Line
<1> QED BY <1>2, <1>3, SmallSums DEF FixedLine, Wording

-----------------------------------------------------------------------------
(* The cap.                                                                *)

\* The first k lines.
LEMMA LinesBegin ==
    ASSUME NEW lines, AreLines(lines), NEW k \in 0..Len(lines)
    PROVE  LET kept == SubSeq(lines, 1, k)
           IN AreLines(kept) /\ Len(kept) = k /\ Shows(kept) \subseteq Shows(lines)
<1> DEFINE kept == SubSeq(lines, 1, k)
<1>1. /\ lines \in Seq(ToSet(lines)) /\ Len(lines) \in Nat /\ DOMAIN lines = 1..Len(lines)
      /\ \A i \in 1..Len(lines) : lines[i] \in ToSet(lines) /\ lines[i].size \in Nat
  BY Members DEF AreLines
<1>2. k \in Nat /\ k <= Len(lines) /\ \A i \in 1..k : lines[i] \in ToSet(lines)
  BY <1>1
<1>3. kept \in Seq(ToSet(lines)) /\ Len(kept) = k /\ \A i \in 1..k : kept[i] = lines[i]
  BY <1>2, SubSeqProperties
<1>4. IsSequence(kept) /\ DOMAIN kept = 1..k
  BY <1>3, SequenceOf, LenProperties
<1> HIDE DEF kept
<1>5. AreLines(kept)
  BY <1>1, <1>2, <1>3, <1>4 DEF AreLines
<1>6. Shows(kept) \subseteq Shows(lines)
  BY <1>1, <1>2, <1>3, <1>4 DEF Shows
<1> QED BY <1>3, <1>5, <1>6 DEF kept

\* There is a last item that still fits.
LEMMA LastThatFits ==
    ASSUME NEW n \in Nat, NEW Fit
    PROVE  \E k \in 0..n : (\A j \in 1..k : j \in Fit) /\ (k = n \/ k + 1 \notin Fit)
<1> DEFINE All(k) == \A j \in 1..k : j \in Fit
           Good == {k \in Nat : All(k) \/ \E m \in 0..k : All(m) /\ m < n /\ m + 1 \notin Fit}
<1>1. 0 \in Good
  OBVIOUS
<1>2. ASSUME NEW k \in Nat, k + 1 <= n, k \in Good PROVE k + 1 \in Good
  <2>1. CASE \E m \in 0..k : All(m) /\ m < n /\ m + 1 \notin Fit
    <3>1. PICK m \in 0..k : All(m) /\ m < n /\ m + 1 \notin Fit
      BY <2>1
    <3>2. m \in 0..k + 1
      OBVIOUS
    <3> QED BY <3>1, <3>2
  <2>2. CASE All(k) /\ k + 1 \in Fit
    <3>1. \A j \in 1..k + 1 : j \in 1..k \/ j = k + 1
      OBVIOUS
    <3>2. All(k + 1)
      BY <2>2, <3>1
    <3> QED BY <3>2
  <2>3. CASE All(k) /\ k + 1 \notin Fit
    <3>1. k \in 0..k + 1 /\ k < n
      BY <1>2
    <3> QED BY <2>3, <3>1
  <2> QED BY <1>2, <2>1, <2>2, <2>3
<1> HIDE DEF Good
<1>3. n \in Good
  BY <1>1, <1>2, UpTo
<1> USE DEF Good
<1>4. CASE All(n)
  <2>1. n \in 0..n
    OBVIOUS
  <2> QED BY <1>4, <2>1
<1>5. CASE \E m \in 0..n : All(m) /\ m < n /\ m + 1 \notin Fit
  BY <1>5
<1> QED BY <1>3, <1>4, <1>5

\* How many items are shown is the number of one that fits, or none.
LEMMA ShownItemsFit ==
    ASSUME NEW prose, AreLines(prose.items), NEW available
    PROVE  LET k == ShownItems(prose, available)
           IN /\ k \in 0..Len(prose.items)
              /\ k # 0 => JoinedSize(prose.head) + SumOf(Sizes(SubSeq(prose.items, 1, k))) + k
                              <= available - SuffixChars - TailSize(prose)
<1> DEFINE n == Len(prose.items)
           fits(j) == JoinedSize(prose.head) + SumOf(Sizes(SubSeq(prose.items, 1, j))) + j
                          <= available - SuffixChars - TailSize(prose)
           Fit == {j \in Nat : fits(j)}
           IsLast(k) == (\A j \in 1..k : fits(j)) /\ (k = n \/ ~fits(k + 1))
           k == ShownItems(prose, available)
<1>1. n \in Nat
  BY Members DEF AreLines
<1>2. k = CHOOSE m \in 0..n : IsLast(m)
  BY DEF ShownItems
<1>3. \A j \in Nat : j \in Fit <=> fits(j)
  OBVIOUS
<1> HIDE DEF Fit, fits, k
<1>4. PICK m \in 0..n : (\A j \in 1..m : j \in Fit) /\ (m = n \/ m + 1 \notin Fit)
  BY <1>1, LastThatFits
<1>5. IsLast(m)
  <2>1. \A j \in 1..m : j \in Nat
    BY <1>1
  <2>2. m + 1 \in Nat
    BY <1>1
  <2> QED BY <1>3, <1>4, <2>1, <2>2
<1> HIDE DEF IsLast
<1>6. k \in 0..n /\ IsLast(k)
  BY <1>2, <1>4, <1>5
<1>7. ASSUME k # 0 PROVE fits(k)
  <2>1. k \in 1..k
    BY <1>1, <1>6, <1>7
  <2> QED BY <1>6, <2>1 DEF IsLast
<1> QED BY <1>6, <1>7 DEF fits, k

\* A reply is no longer than its cap, and it shows what its lines show.
LEMMA BodyFits ==
    ASSUME NEW prose, NEW block, AreLines(prose.head), AreLines(prose.items),
           TailSize(prose) \in Nat, block.size \in Nat,
           FrameChars + block.size + SuffixChars <= ReplyMaxChars,
           prose.listed => FrameChars + block.size + JoinedSize(prose.head) + TailSize(prose)
                               + SuffixChars <= ReplyMaxChars
    PROVE  /\ Body(prose, block).size <= ReplyMaxChars
           /\ Body(prose, block).shows \subseteq Shows(prose.head) \cup Shows(prose.items)
<1> DEFINE frame == FrameChars + block.size
           full == JoinedSize(prose.head \o prose.items) + TailSize(prose)
           available == ReplyMaxChars - frame
           k == ShownItems(prose, available)
           kept == SubSeq(prose.items, 1, k)
           tail == TailSize(prose)
           head == JoinedSize(prose.head)
           body == Body(prose, block)
<1>1. frame \in Nat /\ tail \in Nat /\ ReplyMaxChars \in Nat /\ available \in Int /\ SuffixChars = 30
  BY ReplyHasRoom DEF FrameChars, SuffixChars
<1>2. /\ head \in Nat /\ Len(prose.head) \in Nat /\ SumOf(Sizes(prose.head)) \in Nat
      /\ head = IF Len(prose.head) = 0 THEN 0 ELSE SumOf(Sizes(prose.head)) + Len(prose.head) - 1
      /\ Len(prose.head) = 0 => SumOf(Sizes(prose.head)) = 0
  BY SizesOf
<1>3. CASE full + frame <= ReplyMaxChars
  <2>1. body.size = full + frame /\ body.shows = Shows(prose.head \o prose.items)
    BY <1>3 DEF Body
  <2> QED BY <1>3, <2>1, LinesJoined
<1>4. CASE ~(full + frame <= ReplyMaxChars) /\ prose.listed
  <2>1. /\ body.size = JoinedSize(prose.head \o kept) + tail + SuffixChars + frame
        /\ body.shows = Shows(prose.head \o kept)
    BY <1>4 DEF Body
  <2>2. /\ k \in 0..Len(prose.items)
        /\ k # 0 => head + SumOf(Sizes(kept)) + k <= available - SuffixChars - tail
    BY ShownItemsFit
  <2>3. AreLines(kept) /\ Len(kept) = k /\ Shows(kept) \subseteq Shows(prose.items)
    BY <2>2, LinesBegin
  <2> HIDE DEF kept, k
  <2>4. /\ AreLines(prose.head \o kept) /\ Len(prose.head \o kept) = Len(prose.head) + k
        /\ SumOf(Sizes(prose.head \o kept)) = SumOf(Sizes(prose.head)) + SumOf(Sizes(kept))
        /\ Shows(prose.head \o kept) = Shows(prose.head) \cup Shows(kept)
    BY <2>3, LinesJoined
  <2>5. /\ SumOf(Sizes(kept)) \in Nat
        /\ JoinedSize(prose.head \o kept) =
               IF Len(prose.head) + k = 0 THEN 0
               ELSE SumOf(Sizes(prose.head)) + SumOf(Sizes(kept)) + (Len(prose.head) + k) - 1
        /\ k \in Nat
    BY <2>3, <2>4, SizesOf
  <2> DEFINE joined == JoinedSize(prose.head \o kept)
             sum == SumOf(Sizes(kept))
             heads == SumOf(Sizes(prose.head))
             lines == Len(prose.head)
  <2>6. body.size <= ReplyMaxChars
    <3>1. CASE k = 0
      <4>1. Len(kept) = 0
        BY <2>3, <3>1
      <4>2. sum = 0
        BY <2>3, <4>1, SizesOf
      <4>3. joined = head
        <5> HIDE DEF joined, sum, heads, lines, head
        <5> QED BY <1>2, <2>5, <3>1, <4>2 DEF joined, sum, heads, lines, head
      <4>4. frame + head + tail + SuffixChars <= ReplyMaxChars
        BY <1>4
      <4> HIDE DEF head, tail, frame, joined
      <4> QED BY <1>1, <1>2, <2>1, <4>3, <4>4 DEF joined
    <3>2. CASE k # 0
      <4>1. joined <= head + sum + k
        <5> HIDE DEF joined, sum, heads, lines, head, kept
        <5>1. /\ head \in Nat /\ lines \in Nat /\ heads \in Nat /\ sum \in Nat /\ k \in Nat
              /\ head = IF lines = 0 THEN 0 ELSE heads + lines - 1
              /\ lines = 0 => heads = 0
              /\ joined = heads + sum + (lines + k) - 1
          BY <1>2, <2>5, <3>2 DEF joined, sum, heads, lines, head
        <5> QED BY <5>1
      <4>2. head + sum + k <= available - SuffixChars - tail /\ joined \in Nat
        BY <2>2, <2>4, <3>2, SizesOf
      <4>3. body.size = joined + tail + SuffixChars + frame
        BY <2>1
      <4>4. head \in Nat /\ sum \in Nat /\ k \in Nat
        BY <1>2, <2>5
      <4> HIDE DEF head, tail, frame, joined, sum, body
      <4> QED BY <1>1, <4>1, <4>2, <4>3, <4>4
    <3> QED BY <3>1, <3>2
  <2> QED BY <2>1, <2>3, <2>4, <2>6
<1>5. CASE ~(full + frame <= ReplyMaxChars) /\ ~prose.listed
  <2>1. /\ body.size = (IF available > SuffixChars THEN available ELSE SuffixChars) + frame
        /\ body.shows = Shows(prose.head)
    BY <1>5 DEF Body
  <2>2. frame + SuffixChars <= ReplyMaxChars
    OBVIOUS
  <2> HIDE DEF frame
  <2>3. body.size <= ReplyMaxChars
    BY <1>1, <2>1, <2>2
  <2> QED BY <2>1, <2>3
<1> QED BY <1>3, <1>4, <1>5

-----------------------------------------------------------------------------
(* What an outcome's lines say.                                            *)

\* A result is a list of items, each a tuple of texts.
ResultSound(result) ==
    /\ IsSequence(result.items)
    /\ \A k \in DOMAIN result.items : FieldsSound(result.items[k].fields)

OutcomeSound(outcome) ==
    /\ ResultSound(outcome.result)
    /\ outcome.status = "completed" => Cardinality(outcome.ignored) \in 0..IgnoredParamsMax

\* The texts of the items that are not withheld.
ShownOf(outcome) ==
    UNION {{outcome.result.items[k].fields[i] : i \in DOMAIN outcome.result.items[k].fields} \ {None}
           : k \in {j \in DOMAIN outcome.result.items : ~IsWithheld(outcome.output, j)}}

\* The lines of the items.
LEMMA ItemLines ==
    ASSUME NEW outcome, ResultSound(outcome.result)
    PROVE  LET items == outcome.result.items
               lines == [i \in DOMAIN items |-> ItemLine(items[i], IsWithheld(outcome.output, i))]
           IN /\ AreLines(lines) /\ Len(lines) = Len(items)
              /\ Shows(lines) \subseteq ShownOf(outcome)
<1> DEFINE items == outcome.result.items
           withheld(i) == IsWithheld(outcome.output, i)
           lines == [i \in DOMAIN items |-> ItemLine(items[i], withheld(i))]
<1>1. /\ Len(items) \in Nat /\ DOMAIN items = 1..Len(items)
      /\ \A i \in DOMAIN items : FieldsSound(items[i].fields)
  BY Members DEF ResultSound
<1>2. \A i \in DOMAIN items : /\ Line(items[i].fields).size \in Nat
                              /\ Line(items[i].fields).shows =
                                     {items[i].fields[j] : j \in DOMAIN items[i].fields} \ {None}
  BY <1>1, LineIs
<1>3. ASSUME NEW i \in DOMAIN items
      PROVE  /\ lines[i].size \in Nat
             /\ lines[i].shows \subseteq ShownOf(outcome)
  <2>1. CASE withheld(i)
    <3>1. lines[i] = FixedLine
      BY <2>1 DEF ItemLine
    <3> QED BY <3>1, FixedLineIs DEF Wording
  <2>2. CASE ~withheld(i)
    <3>1. lines[i] = Line(items[i].fields)
      BY <2>2 DEF ItemLine
    <3>2. {items[i].fields[j] : j \in DOMAIN items[i].fields} \ {None} \subseteq ShownOf(outcome)
      BY <2>2 DEF ShownOf
    <3> QED BY <1>2, <3>1, <3>2
  <2> QED BY <2>1, <2>2
<1>4. DOMAIN lines = 1..Len(items) /\ lines = [i \in DOMAIN lines |-> lines[i]]
  BY <1>1
<1> HIDE DEF lines
<1>5. IsSequence(lines) /\ Len(lines) = Len(items)
  BY <1>1, <1>4, Numbered
<1>6. AreLines(lines)
  BY <1>1, <1>3, <1>5 DEF AreLines
<1>7. Shows(lines) \subseteq ShownOf(outcome)
  BY <1>1, <1>3, <1>4 DEF Shows
<1> QED BY <1>5, <1>6, <1>7 DEF lines

\* What the names of ignored parameters may number.
LEMMA IgnoredCount ==
    ASSUME NEW outcome, OutcomeSound(outcome)
    PROVE  Cardinality(IgnoredOf(outcome)) \in 0..IgnoredParamsMax
<1>1. Cardinality({}) = 0
  BY FS_EmptySet
<1> QED BY <1>1, PolicyConstants DEF OutcomeSound, IgnoredOf

\* The lines of an outcome.
LEMMA ProseIs ==
    ASSUME NEW outcome, OutcomeSound(outcome)
    PROVE  LET prose == BuildProse(outcome)
           IN /\ AreLines(prose.head) /\ AreLines(prose.items) /\ AreLines(prose.tail)
              /\ Shows(prose.head) \cup Shows(prose.items) \cup Shows(prose.tail)
                     \subseteq ShownOf(outcome)
              /\ prose.listed => JoinedSize(prose.head) = Wording
              /\ TailSize(prose) \in Nat
              /\ TailSize(prose) <= 2 * Wording + 2
                                        + IgnoredNameChars * Cardinality(IgnoredOf(outcome))
<1> DEFINE items == outcome.result.items
           lines == [i \in DOMAIN items |-> ItemLine(items[i], IsWithheld(outcome.output, i))]
           prose == BuildProse(outcome)
           count == Cardinality(IgnoredOf(outcome))
           names == [size |-> Wording + IgnoredNameChars * Cardinality(outcome.ignored), shows |-> {}]
           degraded == Listed(outcome) /\ outcome.verb # "calendar.list_events"
                           /\ outcome.output.status = "degraded"
           ignored == outcome.status = "completed" /\ outcome.ignored # {}
           a == IF degraded THEN <<FixedLine>> ELSE <<>>
           b == IF ignored THEN <<names>> ELSE <<>>
<1>1. AreLines(lines) /\ Len(lines) = Len(items) /\ Shows(lines) \subseteq ShownOf(outcome)
  BY ItemLines DEF OutcomeSound
<1> HIDE DEF lines
<1>2. /\ prose.listed = Listed(outcome)
      /\ prose.head = IF outcome.status = "completed" /\ ~Listed(outcome) /\ items # <<>>
                      THEN lines ELSE <<FixedLine>>
      /\ prose.items = IF Listed(outcome) THEN lines ELSE <<>>
      /\ prose.tail = a \o b
  BY DEF BuildProse, lines
<1>3. count \in Nat /\ count <= IgnoredParamsMax /\ IgnoredParamsMax \in Nat
  BY IgnoredCount, PolicyConstants
<1>4. /\ AreLines(<<FixedLine>>) /\ Len(<<FixedLine>>) = 1 /\ Shows(<<FixedLine>>) = {}
      /\ SumOf(Sizes(<<FixedLine>>)) = Wording /\ JoinedSize(<<FixedLine>>) = Wording
  BY FixedLineIs, FewLines DEF Wording
<1>5. AreLines(<<>>) /\ Len(<<>>) = 0 /\ Shows(<<>>) = {} /\ SumOf(Sizes(<<>>)) = 0
  BY FewLines, SizesOf
<1>6. /\ AreLines(a) /\ Shows(a) = {} /\ Len(a) \in Nat /\ Len(a) <= 1
      /\ SumOf(Sizes(a)) \in Nat /\ SumOf(Sizes(a)) <= Wording
  <2>1. CASE degraded
    <3>1. a = <<FixedLine>>
      BY <2>1
    <3> HIDE DEF a
    <3> QED BY <1>4, <3>1 DEF Wording
  <2>2. CASE ~degraded
    <3>1. a = <<>>
      BY <2>2
    <3> HIDE DEF a
    <3> QED BY <1>5, <3>1 DEF Wording
  <2> QED BY <2>1, <2>2
<1>7. /\ AreLines(b) /\ Shows(b) = {} /\ Len(b) \in Nat /\ Len(b) <= 1
      /\ SumOf(Sizes(b)) \in Nat /\ SumOf(Sizes(b)) <= Wording + IgnoredNameChars * count
  <2>1. CASE ignored
    <3>1. names.size = Wording + IgnoredNameChars * count /\ names.shows = {}
      BY <2>1 DEF IgnoredOf
    <3>2. names.size \in Nat
      BY <1>3, <3>1 DEF Wording, IgnoredNameChars
    <3>3. b = <<names>>
      BY <2>1
    <3> HIDE DEF b, names
    <3>4. /\ AreLines(b) /\ Len(b) = 1 /\ Shows(b) = {} /\ SumOf(Sizes(b)) = names.size
      BY <3>1, <3>2, <3>3, FewLines
    <3> HIDE DEF count
    <3> QED BY <1>3, <3>1, <3>2, <3>4 DEF Wording, IgnoredNameChars
  <2>2. CASE ~ignored
    <3>1. b = <<>>
      BY <2>2
    <3> HIDE DEF b, count
    <3> QED BY <1>3, <1>5, <3>1 DEF Wording, IgnoredNameChars
  <2> QED BY <2>1, <2>2
<1> HIDE DEF a, b, prose, count
<1>8. /\ AreLines(prose.tail) /\ Len(prose.tail) = Len(a) + Len(b)
      /\ SumOf(Sizes(prose.tail)) = SumOf(Sizes(a)) + SumOf(Sizes(b))
      /\ Shows(prose.tail) = {}
  BY <1>2, <1>6, <1>7, LinesJoined
<1>9. /\ TailSize(prose) \in Nat
      /\ TailSize(prose) <= 2 * Wording + 2 + IgnoredNameChars * count
  <2> DEFINE tail == prose.tail
             sum == SumOf(Sizes(tail))
  <2>1. /\ JoinedSize(tail) = IF Len(tail) = 0 THEN 0 ELSE sum + Len(tail) - 1
        /\ JoinedSize(tail) \in Nat /\ sum \in Nat
    BY <1>8, SizesOf
  <2>2. TailSize(prose) = IF tail = <<>> THEN 0 ELSE JoinedSize(tail) + 1
    BY DEF TailSize
  <2>3. tail = <<>> => Len(tail) = 0
    BY <1>5
  <2>4. Len(tail) \in Nat /\ Len(tail) <= 2
    BY <1>6, <1>7, <1>8
  <2>5. sum <= 2 * Wording + IgnoredNameChars * count
    BY <1>3, <1>6, <1>7, <1>8 DEF Wording, IgnoredNameChars
  <2> HIDE DEF tail, sum
  <2>6. JoinedSize(tail) + 1 <= sum + 2
    BY <2>1, <2>4
  <2>7. IgnoredNameChars * count \in Nat
    BY <1>3 DEF IgnoredNameChars
  <2> QED BY <2>1, <2>2, <2>5, <2>6, <2>7 DEF Wording
<1>10. AreLines(prose.head) /\ Shows(prose.head) \subseteq ShownOf(outcome)
  BY <1>1, <1>2, <1>4
<1>11. AreLines(prose.items) /\ Shows(prose.items) \subseteq ShownOf(outcome)
  BY <1>1, <1>2, <1>5
<1>12. prose.listed => JoinedSize(prose.head) = Wording
  BY <1>2, <1>4
<1> QED BY <1>8, <1>9, <1>10, <1>11, <1>12 DEF prose, count

\* The reply to a single request.
LEMMA SingleFits ==
    ASSUME NEW outcome, OutcomeSound(outcome)
    PROVE  /\ RenderReply(outcome).size <= ReplyMaxChars
           /\ RenderReply(outcome).shows \subseteq ShownOf(outcome)
<1> DEFINE prose == BuildProse(outcome)
           block == StatusBlock(outcome.request_id, outcome.status, outcome.error, outcome.result.count,
                                outcome.retryable, outcome.output, IgnoredOf(outcome), <<>>)
           count == Cardinality(IgnoredOf(outcome))
<1>1. /\ AreLines(prose.head) /\ AreLines(prose.items)
      /\ Shows(prose.head) \cup Shows(prose.items) \subseteq ShownOf(outcome)
      /\ prose.listed => JoinedSize(prose.head) = Wording
      /\ TailSize(prose) \in Nat
      /\ TailSize(prose) <= 2 * Wording + 2 + IgnoredNameChars * count
  BY ProseIs
<1>2. block.size = BlockChars + IgnoredNameChars * count
  <2>1. block.size = BlockChars + IgnoredNameChars * count + BatchResultChars * Len(<<>>)
    BY DEF StatusBlock
  <2>2. Len(<<>>) = 0 /\ count \in Nat
    BY IgnoredCount, PolicyConstants
  <2> HIDE DEF block, count
  <2> QED BY <2>1, <2>2 DEF BlockChars, IgnoredNameChars, BatchResultChars
<1>3. RenderReply(outcome) = Body(prose, block)
  BY DEF RenderReply
<1>4. count \in Nat /\ count <= IgnoredParamsMax /\ IgnoredParamsMax \in Nat
  BY IgnoredCount, PolicyConstants
<1> HIDE DEF prose, block, count
<1>5. /\ block.size \in Nat
      /\ FrameChars + block.size + SuffixChars <= ReplyMaxChars
  BY <1>2, <1>4, ReplyHasRoom
     DEF BlockChars, IgnoredNameChars, FrameChars, SuffixChars, Wording
<1>6. prose.listed => FrameChars + block.size + JoinedSize(prose.head) + TailSize(prose) + SuffixChars
                          <= ReplyMaxChars
  BY <1>1, <1>2, <1>4, ReplyHasRoom
     DEF BlockChars, IgnoredNameChars, FrameChars, SuffixChars, Wording
<1>7. /\ Body(prose, block).size <= ReplyMaxChars
      /\ Body(prose, block).shows \subseteq Shows(prose.head) \cup Shows(prose.items)
  BY <1>1, <1>5, <1>6, BodyFits
<1> QED BY <1>1, <1>3, <1>7

\* The block of one item of a batch.
LEMMA ItemBlockIs ==
    ASSUME NEW outcome, OutcomeSound(outcome)
    PROVE  ItemBlock(outcome).size \in Nat /\ ItemBlock(outcome).shows \subseteq ShownOf(outcome)
<1> DEFINE prose == BuildProse(outcome)
           lines == (prose.head \o prose.items) \o prose.tail
<1>1. /\ AreLines(prose.head) /\ AreLines(prose.items) /\ AreLines(prose.tail)
      /\ Shows(prose.head) \cup Shows(prose.items) \cup Shows(prose.tail) \subseteq ShownOf(outcome)
  BY ProseIs
<1>2. /\ ItemBlock(outcome).size = Wording + SumOf(Sizes(lines)) + 3 * Len(lines)
      /\ ItemBlock(outcome).shows = Shows(lines)
  BY DEF ItemBlock
<1> HIDE DEF prose
<1>3. /\ AreLines(prose.head \o prose.items)
      /\ Shows(prose.head \o prose.items) = Shows(prose.head) \cup Shows(prose.items)
  BY <1>1, LinesJoined
<1>4. /\ AreLines(lines)
      /\ Shows(lines) = Shows(prose.head \o prose.items) \cup Shows(prose.tail)
  BY <1>1, <1>3, LinesJoined
<1> HIDE DEF lines
<1>5. SumOf(Sizes(lines)) \in Nat /\ Len(lines) \in Nat
  BY <1>4, SizesOf
<1> QED BY <1>1, <1>2, <1>3, <1>4, <1>5 DEF Wording

\* The reply to a batch.
LEMMA BatchFits ==
    ASSUME NEW outs, IsSequence(outs), Len(outs) <= BatchMaxItems,
           \A i \in DOMAIN outs : OutcomeSound(outs[i]), NEW id, NEW combined
    PROVE  /\ RenderBatchReply(id, outs, combined).size <= ReplyMaxChars
           /\ RenderBatchReply(id, outs, combined).shows
                  \subseteq UNION {ShownOf(outs[i]) : i \in DOMAIN outs}
<1> DEFINE blocks == [i \in DOMAIN outs |-> ItemBlock(outs[i])]
           entries == [i \in DOMAIN outs |-> BatchEntry(outs[i])]
           prose == [listed |-> TRUE, head |-> <<>>, tail |-> <<>>, items |-> blocks]
           block == StatusBlock(id, "completed", None,
                                SumOf([i \in DOMAIN outs |-> outs[i].result.count]),
                                FALSE, combined, {}, entries)
<1>1. /\ Len(outs) \in Nat /\ DOMAIN outs = 1..Len(outs)
      /\ BatchMaxItems \in Nat /\ ReplyMaxChars \in Nat
  BY Members, ReplyHasRoom
<1>2. RenderBatchReply(id, outs, combined) = Body(prose, block)
  BY DEF RenderBatchReply
<1>3. Len(entries) = Len(outs)
  <2>1. DOMAIN entries = 1..Len(outs) /\ entries = [i \in DOMAIN entries |-> entries[i]]
    BY <1>1
  <2> HIDE DEF entries
  <2> QED BY <1>1, <2>1, Numbered
<1>4. block.size = BlockChars + IgnoredNameChars * Cardinality({}) + BatchResultChars * Len(entries)
  BY DEF StatusBlock
<1>5. block.size = BlockChars + BatchResultChars * Len(outs)
  <2>1. Cardinality({}) = 0
    BY FS_EmptySet
  <2> HIDE DEF block, entries
  <2> QED BY <1>1, <1>3, <1>4, <2>1 DEF BlockChars, IgnoredNameChars, BatchResultChars
<1>6. AreLines(blocks) /\ Shows(blocks) \subseteq UNION {ShownOf(outs[i]) : i \in DOMAIN outs}
  <2>1. DOMAIN blocks = 1..Len(outs) /\ blocks = [i \in DOMAIN blocks |-> blocks[i]]
    BY <1>1
  <2>2. \A i \in DOMAIN outs : blocks[i].size \in Nat /\ blocks[i].shows \subseteq ShownOf(outs[i])
    BY ItemBlockIs
  <2> HIDE DEF blocks
  <2>3. IsSequence(blocks) /\ Len(blocks) = Len(outs)
    BY <1>1, <2>1, Numbered
  <2>4. AreLines(blocks)
    BY <1>1, <2>2, <2>3 DEF AreLines
  <2>5. Shows(blocks) \subseteq UNION {ShownOf(outs[i]) : i \in DOMAIN outs}
    BY <1>1, <2>1, <2>2 DEF Shows
  <2> QED BY <2>4, <2>5
<1>7. /\ prose.listed /\ prose.head = <<>> /\ prose.tail = <<>> /\ prose.items = blocks
  OBVIOUS
<1> HIDE DEF prose, block, blocks, entries
<1>8. /\ AreLines(prose.head) /\ JoinedSize(prose.head) = 0 /\ Shows(prose.head) = {}
      /\ TailSize(prose) = 0
  BY <1>7, FewLines DEF TailSize
<1>9. /\ block.size \in Nat
      /\ FrameChars + block.size + SuffixChars <= ReplyMaxChars
  BY <1>1, <1>5, ReplyHasRoom
     DEF BlockChars, BatchResultChars, FrameChars, SuffixChars
<1>10. FrameChars + block.size + JoinedSize(prose.head) + TailSize(prose) + SuffixChars <= ReplyMaxChars
  BY <1>8, <1>9 DEF FrameChars, SuffixChars
<1>11. /\ Body(prose, block).size <= ReplyMaxChars
       /\ Body(prose, block).shows \subseteq Shows(prose.head) \cup Shows(prose.items)
  BY <1>6, <1>7, <1>8, <1>9, <1>10, BodyFits
<1> QED BY <1>2, <1>6, <1>7, <1>8, <1>11

-----------------------------------------------------------------------------
(* What the output screen withholds.                                       *)

OutcomeFields ==
    {"request_id", "verb", "status", "error", "retryable", "ignored", "result", "output"}

\* Every request that has been answered has an outcome that can be shown.
AnswersSound ==
    /\ IsSequence(outcomes)
    /\ \A i \in DOMAIN outcomes : DOMAIN outcomes[i] = OutcomeFields /\ OutcomeSound(outcomes[i])

\* An outcome with its view of the screen's answer.
ScopedOutcome(output, i) == [outcomes[i] EXCEPT !.output = ScopedOutput(output, i)]

LEMMA ScopedIs ==
    ASSUME AnswersSound, NEW output, NEW i \in DOMAIN outcomes
    PROVE  LET scoped == ScopedOutcome(output, i)
           IN /\ OutcomeSound(scoped)
              /\ scoped.result = outcomes[i].result
              /\ scoped.output = ScopedOutput(output, i)
<1> DEFINE scoped == ScopedOutcome(output, i)
<1>1. /\ scoped.result = outcomes[i].result /\ scoped.status = outcomes[i].status
      /\ scoped.ignored = outcomes[i].ignored /\ scoped.output = ScopedOutput(output, i)
  BY DEF AnswersSound, OutcomeFields, ScopedOutcome
<1> HIDE DEF scoped
<1> QED BY <1>1 DEF AnswersSound, OutcomeSound, scoped

\* A text that is sensitive or steers is in no item that is shown.
LEMMA FlaggedIsWithheld ==
    ASSUME AnswersSound, setup.screening, FailClosed,
           NEW output \in ScreenResults(OutputItems), NEW i \in DOMAIN outcomes,
           NEW text \in ShownOf(ScopedOutcome(output, i))
    PROVE  ~Flagged(text, {"sensitive", "steering"})
<1> DEFINE items == outcomes[i].result.items
           scoped == ScopedOutput(output, i)
<1>1. /\ ResultSound(outcomes[i].result)
      /\ ScopedOutcome(output, i).result = outcomes[i].result
      /\ ScopedOutcome(output, i).output = scoped
  BY ScopedIs DEF AnswersSound, OutcomeSound
<1> HIDE DEF scoped
<1>2. PICK k \in DOMAIN items : /\ ~IsWithheld(scoped, k)
                                /\ \E j \in DOMAIN items[k].fields : text = items[k].fields[j]
                                /\ text # None
  BY <1>1 DEF ShownOf
<1> DEFINE fields == items[k].fields
           key == <<i, k>>
<1>3. PICK j \in DOMAIN fields : text = fields[j]
  BY <1>2
<1>4. FieldsSound(fields)
  BY <1>1, <1>2 DEF ResultSound
<1>5. key \in DOMAIN OutputItems /\ OutputItems[key] = fields
  BY <1>2 DEF OutputItems
<1> HIDE DEF fields
<1>6. OutputItems # <<>>
  BY <1>5
<1>7. /\ DOMAIN output.verdicts = DOMAIN OutputItems
      /\ \/ \E lost : output.verdicts[key] = ScreenItem(key, fields, lost)
         \/ output.verdicts[key].withheld
  <2>1. CASE output = AllWithheld(OutputItems)
    BY <1>5, <2>1 DEF AllWithheld, ItemVerdict
  <2>2. CASE \E lost : output = ScreenItems(OutputItems, lost)
    BY <1>5, <2>2 DEF ScreenItems
  <2> QED BY <1>6, <2>1, <2>2 DEF ScreenResults
<1>8. /\ k \in DOMAIN scoped.verdicts
      /\ scoped.verdicts[k] = output.verdicts[key]
  <2> DEFINE keys == {x \in DOMAIN output.verdicts : x[1] = i}
  <2>1. key \in keys /\ key[2] = k
    BY <1>5, <1>7
  <2>2. scoped.verdicts = [m \in {x[2] : x \in keys} |-> output.verdicts[<<i, m>>]]
    BY <2>1 DEF ScopedOutput, scoped
  <2> HIDE DEF keys
  <2>3. k \in {x[2] : x \in keys}
    BY <2>1
  <2> QED BY <2>2, <2>3
<1>9. ~output.verdicts[key].withheld
  BY <1>2, <1>8 DEF IsWithheld
<1>10. SUFFICES ASSUME Flagged(text, {"sensitive", "steering"}) PROVE FALSE
  OBVIOUS
<1>11. PICK kind \in {"sensitive", "steering"} : HasPhrase(text, kind)
  BY <1>10 DEF Flagged, HasPhrase
<1>12. \A lost : ScreenItem(key, fields, lost).withheld
  BY <1>2, <1>3, <1>4, <1>11, FlawedWithheld
<1> QED BY <1>7, <1>9, <1>12

-----------------------------------------------------------------------------
(* What the policy says of the parameters of what runs.                    *)

\* A listing's window is one, and it is asked for some events.
LEMMA ListingAllowed ==
    ASSUME NEW p, EvaluateKnownParams("calendar.list_events", p).status = "allowed"
    PROVE  /\ MaxResultsOf(p) \in Nat /\ MaxResultsOf(p) > 0
           /\ WindowOf(p).min \in Int /\ WindowOf(p).max \in Int
<1>1. EvaluateKnownParams("calendar.list_events", p) = EvaluateListEvents(p)
  BY DEF EvaluateKnownParams
<1>2. /\ FieldOr(p, "day_offset", 0) \in -365..13
      /\ FieldOr(p, "days", 1) \in 1..366
      /\ FieldOr(p, "max_results", 10) \in 1..25
  BY <1>1 DEF EvaluateListEvents, AllowedIf, Allowed, Denied, Decision
<1> DEFINE day == FieldOr(p, "day_offset", 0)
           days == FieldOr(p, "days", 1)
           max == FieldOr(p, "max_results", 10)
<1>3. WindowOf(p) = [min |-> day * Day, max |-> (day + days) * Day] /\ MaxResultsOf(p) = max
  BY DEF MaxResultsOf, WindowOf, ResolveWindow
<1>4. day \in Int /\ days \in Int /\ max \in 1..25
  BY <1>2
<1> HIDE DEF day, days, max
<1> QED BY <1>3, <1>4 DEF Day

\* A search is asked for some messages.
LEMMA SearchAllowed ==
    ASSUME NEW p, EvaluateKnownParams("gmail.search", p).status = "allowed"
    PROVE  FieldOr(p, "max_results", 5) \in Nat
<1>1. EvaluateKnownParams("gmail.search", p) = EvaluateGmailSearch(p)
  BY DEF EvaluateKnownParams
<1> QED BY <1>1 DEF EvaluateGmailSearch, AllowedIf, Allowed, Denied, Decision

\* A draft has an address and a subject.
LEMMA DraftAllowed ==
    ASSUME NEW p, AreParams(p), EvaluateKnownParams("gmail.create_draft", p).status = "allowed"
    PROVE  MayBeText(p.to) /\ MayBeText(p.subject)
<1>1. EvaluateKnownParams("gmail.create_draft", p) = EvaluateCreateDraft(p)
  BY DEF EvaluateKnownParams
<1>2. IsFilledLine(Field(p, "to"), 254) /\ IsFilledLine(Field(p, "subject"), 200)
  BY <1>1 DEF EvaluateCreateDraft, AllowedIf, Allowed, Denied, Decision
<1>3. Has(p, "to") /\ p.to # Junk /\ Has(p, "subject") /\ p.subject # Junk
  BY <1>2 DEF IsFilledLine, IsLine, IsText, Field
<1> QED BY <1>3 DEF AreParams, TextParams, Has

\* A new file has a name.
LEMMA FileAllowed ==
    ASSUME NEW p, AreParams(p), EvaluateKnownParams("drive.create_file", p).status = "allowed"
    PROVE  MayBeText(p.name)
<1>1. EvaluateKnownParams("drive.create_file", p) = EvaluateCreateFile(p)
  BY DEF EvaluateKnownParams
<1>2. IsFilledLine(Field(p, "name"), 200)
  BY <1>1 DEF EvaluateCreateFile, AllowedIf, Allowed, Denied, Decision
<1>3. Has(p, "name") /\ p.name # Junk
  BY <1>2 DEF IsFilledLine, IsLine, IsText, Field
<1> QED BY <1>3 DEF AreParams, TextParams, Has

-----------------------------------------------------------------------------
(* Results.                                                                *)

\* A tuple of texts.
LEMMA Tuples ==
    /\ \A a : MayBeText(a) => FieldsSound(<<a>>)
    /\ \A a, b : MayBeText(a) /\ MayBeText(b) => FieldsSound(<<a, b>>)
    /\ \A a, b, c : MayBeText(a) /\ MayBeText(b) /\ MayBeText(c) => FieldsSound(<<a, b, c>>)
<1>1. ASSUME NEW fields, NEW n \in Nat, DOMAIN fields = 1..n,
             \A i \in 1..n : MayBeText(fields[i])
      PROVE  FieldsSound(fields)
  BY <1>1 DEF FieldsSound, MayBeText
<1>2. ASSUME NEW a, MayBeText(a) PROVE FieldsSound(<<a>>)
  <2>1. DOMAIN <<a>> = 1..1 /\ \A i \in 1..1 : MayBeText(<<a>>[i])
    BY <1>2
  <2> QED BY <1>1, <2>1
<1>3. ASSUME NEW a, NEW b, MayBeText(a), MayBeText(b) PROVE FieldsSound(<<a, b>>)
  <2>1. DOMAIN <<a, b>> = 1..2 /\ \A i \in 1..2 : MayBeText(<<a, b>>[i])
    BY <1>3
  <2> QED BY <1>1, <2>1
<1>4. ASSUME NEW a, NEW b, NEW c, MayBeText(a), MayBeText(b), MayBeText(c)
      PROVE  FieldsSound(<<a, b, c>>)
  <2>1. DOMAIN <<a, b, c>> = 1..3 /\ \A i \in 1..3 : MayBeText(<<a, b, c>>[i])
    BY <1>4
  <2> QED BY <1>1, <2>1
<1> QED BY <1>2, <1>3, <1>4

\* The results with one item or none.
LEMMA SmallResults ==
    /\ ResultSound(NoResult) /\ ResultSound(NothingShown)
    /\ \A fields : FieldsSound(fields) => ResultSound(OneItem(fields))
<1>1. IsSequence(<<>>) /\ DOMAIN <<>> = {}
  BY DEF IsSequence
<1>2. ResultSound(NoResult) /\ ResultSound(NothingShown)
  BY <1>1 DEF ResultSound, NoResult, NothingShown
<1>3. ASSUME NEW fields, FieldsSound(fields) PROVE ResultSound(OneItem(fields))
  <2> DEFINE item == [fields |-> fields, of |-> None]
  <2>1. OneItem(fields).items = <<item>> /\ item.fields = fields
    BY DEF OneItem
  <2> HIDE DEF item
  <2>2. IsSequence(<<item>>) /\ DOMAIN <<item>> = {1} /\ <<item>>[1] = item
    BY DEF IsSequence
  <2> QED BY <1>3, <2>1, <2>2 DEF ResultSound
<1> QED BY <1>2, <1>3

\* A list of items.
LEMMA ListResult ==
    ASSUME NEW s, IsSequence(s), NEW items, DOMAIN items = DOMAIN s,
           items = [i \in DOMAIN items |-> items[i]],
           \A i \in DOMAIN s : FieldsSound(items[i].fields), NEW result, result.items = items
    PROVE  ResultSound(result)
<1>1. DOMAIN items = 1..Len(s) /\ Len(s) \in Nat
  BY Members
<1>2. IsSequence(items)
  BY <1>1, Numbered
<1> QED BY <1>2 DEF ResultSound

-----------------------------------------------------------------------------
(* Pages.                                                                  *)

\* An event as an entry of a list, and the entries there are.
EntryOf(e) == [id |-> e, event |-> events[e]]

Entries == {EntryOf(e) : e \in {x \in EventId : events[x] # None}}

\* A finite set as a sequence.
LEMMA SetAsSequence ==
    ASSUME NEW S, IsFiniteSet(S)
    PROVE  LET s == SetToSeq(S)
           IN IsSequence(s) /\ ToSet(s) = S /\ Distinct(s)
<1> DEFINE n == Cardinality(S)
           s == SetToSeq(S)
<1>1. n \in Nat /\ ExistsBijection(1..n, S)
  BY FS_CardinalityType
<1>2. \E f \in [1..n -> S] : IsInjective(f)
  BY <1>1 DEF ExistsBijection, Bijection, Injection
<1>3. s \in [1..n -> S] /\ IsInjective(s)
  BY <1>2 DEF SetToSeq
<1>4. IsFiniteSet(1..n) /\ Cardinality(1..n) = n
  BY <1>1, FS_Interval
<1> HIDE DEF s
<1>5. s \in Surjection(1..n, S)
  <2>1. s \in Injection(1..n, S)
    BY <1>3 DEF Injection
  <2> QED BY <1>4, <2>1, FS_Injection
<1>6. DOMAIN s = 1..n /\ s = [i \in DOMAIN s |-> s[i]]
  BY <1>3
<1>7. IsSequence(s)
  BY <1>1, <1>6, Numbered
<1>8. ToSet(s) = S
  <2>1. \A i \in 1..n : s[i] \in S
    BY <1>3
  <2>2. \A x \in S : \E i \in 1..n : s[i] = x
    BY <1>5 DEF Surjection
  <2> QED BY <1>6, <2>1, <2>2 DEF ToSet
<1>9. Distinct(s)
  BY <1>3 DEF IsInjective, Distinct
<1> QED BY <1>7, <1>8, <1>9 DEF s

\* What is cut off a list in order comes after all that is left of it.
LEMMA CutOff ==
    ASSUME NEW s, IsSequence(s), InOrder(s), StartsAreInts(ToSet(s)), NEW n \in Nat
    PROVE  LET t == FirstOf(s, n)
           IN /\ IsSequence(t) /\ Len(t) <= n /\ ToSet(t) \subseteq ToSet(s)
              /\ Distinct(s) => Distinct(t)
              /\ \A x \in ToSet(s) :
                     \/ x \in ToSet(t)
                     \/ Len(t) = n /\ \A i \in 1..Len(t) : t[i].event.start <= x.event.start
<1> DEFINE t == FirstOf(s, n)
<1>1. /\ IsSequence(t) /\ Len(t) = (IF n < Len(s) THEN n ELSE Len(s))
      /\ \A i \in 1..Len(t) : i \in 1..Len(s) /\ t[i] = s[i]
      /\ ToSet(t) \subseteq ToSet(s)
  BY TheFirst
<1> HIDE DEF t
<1>2. /\ Len(s) \in Nat /\ Len(t) \in Nat /\ DOMAIN s = 1..Len(s) /\ DOMAIN t = 1..Len(t)
      /\ \A x \in ToSet(s) : \E i \in 1..Len(s) : x = s[i]
      /\ \A i \in 1..Len(t) : t[i] \in ToSet(t)
  BY <1>1, Members
<1>3. Len(t) <= n
  BY <1>1, <1>2
<1>4. Distinct(s) => Distinct(t)
  BY <1>1, <1>2 DEF Distinct
<1>5. ASSUME NEW x \in ToSet(s)
      PROVE  \/ x \in ToSet(t)
             \/ Len(t) = n /\ \A i \in 1..Len(t) : t[i].event.start <= x.event.start
  <2>1. PICK j \in 1..Len(s) : x = s[j]
    BY <1>2
  <2>2. CASE j <= Len(t)
    <3>1. j \in 1..Len(t)
      BY <1>2, <2>2
    <3> QED BY <1>1, <1>2, <2>1, <3>1
  <2>3. CASE ~(j <= Len(t))
    <3>1. Len(t) = n
      <4>1. Len(t) = Len(s) => FALSE
        BY <2>3
      <4> QED BY <1>1, <4>1
    <3>2. \A i \in 1..Len(t) : i <= j
      BY <1>2, <2>3
    <3> QED BY <1>1, <2>1, <3>1, <3>2 DEF InOrder
  <2> QED BY <2>2, <2>3
<1> QED BY <1>1, <1>3, <1>4, <1>5 DEF t

\* The events there are, as entries.
LEMMA EntriesAre ==
    ASSUME EventsOK
    PROVE  /\ StartsAreInts(Entries)
           /\ \A x \in Entries : x.id \in EventId /\ x.event = events[x.id] /\ x.event # None
           /\ \A x, y \in Entries : x.id = y.id => x = y
<1>1. ASSUME NEW e \in EventId, events[e] # None PROVE events[e].start \in Int
  BY <1>1 DEF EventsOK, IsEvent, SpanOf, Span, SpanKept
<1>2. \A e : EntryOf(e).id = e /\ EntryOf(e).event = events[e]
  BY DEF EntryOf
<1>3. \A x \in Entries : \E e \in EventId : events[e] # None /\ x = EntryOf(e)
  BY DEF Entries
<1> QED BY <1>1, <1>2, <1>3 DEF StartsAreInts

\* A page: what there is on the calendar that matches, in order, as much as is
\* asked for; what is left out comes after a full page.
LEMMA PageIs ==
    ASSUME EventsOK, NEW cal, NEW p, MaxResultsOf(p) \in Nat
    PROVE  LET page == Page(cal, p)
           IN /\ IsSequence(page) /\ Distinct(page) /\ ToSet(page) \subseteq Entries
              /\ \A x \in ToSet(page) : x.event.cal = cal
              /\ \A e \in EventId :
                     /\ events[e] # None /\ events[e].cal = cal
                     /\ Matches(events[e], WindowOf(p), p)
                     => \/ EntryOf(e) \in ToSet(page)
                        \/ /\ Len(page) = MaxResultsOf(p)
                           /\ \A i \in 1..Len(page) : page[i].event.start <= events[e].start
<1> DEFINE found == {e \in EventId : /\ events[e] # None
                                     /\ events[e].cal = cal
                                     /\ Matches(events[e], WindowOf(p), p)}
           S == {EntryOf(e) : e \in found}
           s == SetToSeq(S)
           sorted == Chronological(s)
           page == Page(cal, p)
<1>1. page = FirstOf(sorted, MaxResultsOf(p))
  BY DEF Page, EntryOf
<1>2. IsFiniteSet(S)
  <2> DEFINE f == [e \in found |-> EntryOf(e)]
  <2>1. IsFiniteSet(found)
    BY EventsAreFinite, FS_Subset
  <2>2. f \in Surjection(found, S)
    BY DEF Surjection
  <2> HIDE DEF f, S, found
  <2> QED BY <2>1, <2>2, FS_Surjection
<1>3. /\ S \subseteq Entries
      /\ \A e \in EventId : events[e] # None /\ events[e].cal = cal
                            /\ Matches(events[e], WindowOf(p), p) => EntryOf(e) \in S
      /\ \A x \in S : x.event.cal = cal
  BY DEF Entries, EntryOf
<1> HIDE DEF S, page
<1>4. IsSequence(s) /\ ToSet(s) = S /\ Distinct(s)
  BY <1>2, SetAsSequence
<1> HIDE DEF s
<1>5. StartsAreInts(Entries) /\ \A e : EntryOf(e).event = events[e]
  BY EntriesAre DEF EntryOf
<1>6. StartsAreInts(S)
  BY <1>3, <1>5 DEF StartsAreInts
<1>7. IsSequence(sorted) /\ InOrder(sorted) /\ ToSet(sorted) = S /\ Distinct(sorted)
  BY <1>4, <1>6, ChronologicalIs
<1> HIDE DEF sorted
<1>8. /\ IsSequence(page) /\ ToSet(page) \subseteq S /\ Distinct(page)
      /\ \A x \in S :
             \/ x \in ToSet(page)
             \/ /\ Len(page) = MaxResultsOf(p)
                /\ \A i \in 1..Len(page) : page[i].event.start <= x.event.start
  BY <1>1, <1>6, <1>7, CutOff
<1> QED BY <1>3, <1>5, <1>8 DEF page

-----------------------------------------------------------------------------
(* Listings and searches.                                                  *)

\* All that the pages hold, once and in order, before it is cut.
InOneList(pages, p) == Chronological(InWindow(Deduped(Joined(pages)), p))

Held(pages) == UNION {ToSet(pages[i]) : i \in DOMAIN pages}

LEMMA InOneListIs ==
    ASSUME NEW pages, IsSequence(pages), \A i \in DOMAIN pages : IsSequence(pages[i]),
           StartsAreInts(Held(pages)), NEW p
    PROVE  LET list == InOneList(pages, p)
           IN /\ IsSequence(list) /\ InOrder(list) /\ ToSet(list) \subseteq Held(pages)
              /\ \A x \in Held(pages) :
                     (\A y \in Held(pages) : Occurrence(y) = Occurrence(x) =>
                          Overlaps(SpanOf(y.event), WindowOf(p)))
                     => \E y \in ToSet(list) : Occurrence(y) = Occurrence(x)
<1> DEFINE all == Joined(pages)
           once == Deduped(all)
           wanted == {x \in ToSet(once) : Overlaps(SpanOf(x.event), WindowOf(p))}
           inside == Among(once, wanted)
           list == Chronological(inside)
<1>1. IsSequence(all) /\ ToSet(all) = Held(pages)
  BY JoinedIs DEF Held
<1>2. list = InOneList(pages, p)
  BY DEF InOneList, InWindow
<1> HIDE DEF all
<1>3. /\ IsSequence(once) /\ ToSet(once) \subseteq Held(pages)
      /\ \A x \in Held(pages) : \E y \in ToSet(once) : Occurrence(y) = Occurrence(x)
  BY <1>1, DedupedIs
<1> HIDE DEF once
<1>4. IsSequence(inside) /\ ToSet(inside) = ToSet(once) \cap wanted
  BY <1>3, AmongIs
<1>5. StartsAreInts(ToSet(inside))
  BY <1>3, <1>4 DEF StartsAreInts
<1> HIDE DEF inside
<1>6. IsSequence(list) /\ InOrder(list) /\ ToSet(list) = ToSet(inside)
  BY <1>4, <1>5, ChronologicalIs
<1> HIDE DEF list
<1>7. ASSUME NEW x \in Held(pages),
             \A y \in Held(pages) : Occurrence(y) = Occurrence(x) =>
                 Overlaps(SpanOf(y.event), WindowOf(p))
      PROVE  \E y \in ToSet(list) : Occurrence(y) = Occurrence(x)
  <2>1. PICK y \in ToSet(once) : Occurrence(y) = Occurrence(x)
    BY <1>3
  <2>2. y \in wanted
    BY <1>3, <1>7, <2>1
  <2> QED BY <1>4, <1>6, <2>1, <2>2
<1>8. ToSet(list) \subseteq Held(pages)
  BY <1>3, <1>4, <1>6
<1> QED BY <1>2, <1>6, <1>7, <1>8

\* The listing is a beginning of that.
LEMMA ListingIs ==
    ASSUME NEW pages, IsSequence(pages), \A i \in DOMAIN pages : IsSequence(pages[i]),
           StartsAreInts(Held(pages)), NEW p, MaxResultsOf(p) \in Nat
    PROVE  LET listing == Listing(pages, p)
               list == InOneList(pages, p)
           IN /\ IsSequence(listing) /\ ToSet(listing) \subseteq Held(pages)
              /\ Len(listing) <= MaxResultsOf(p)
              /\ \A x \in ToSet(list) :
                     \/ x \in ToSet(listing)
                     \/ /\ Len(listing) = MaxResultsOf(p)
                        /\ \A i \in 1..Len(listing) : listing[i].event.start <= x.event.start
<1> DEFINE listing == Listing(pages, p)
           list == InOneList(pages, p)
<1>1. IsSequence(list) /\ InOrder(list) /\ ToSet(list) \subseteq Held(pages)
  BY InOneListIs
<1>2. listing = FirstOf(list, MaxResultsOf(p))
  BY DEF Listing, InOneList
<1> HIDE DEF list, listing
<1>3. StartsAreInts(ToSet(list))
  BY <1>1 DEF StartsAreInts
<1>4. /\ IsSequence(listing) /\ Len(listing) <= MaxResultsOf(p) /\ ToSet(listing) \subseteq ToSet(list)
      /\ \A x \in ToSet(list) :
             \/ x \in ToSet(listing)
             \/ /\ Len(listing) = MaxResultsOf(p)
                /\ \A i \in 1..Len(listing) : listing[i].event.start <= x.event.start
  BY <1>1, <1>2, <1>3, CutOff
<1> QED BY <1>1, <1>4 DEF list, listing

\* An account has a calendar to list, or the request may not name it.
LEMMA SomeCalendar ==
    ASSUME NEW p
    PROVE  /\ IsSequence(CalendarsToList(p)) /\ Len(CalendarsToList(p)) > 0
           /\ Len(CalendarsToList(p)) \in Nat
<1>1. CASE Has(p, "calendar_id")
  BY <1>1 DEF CalendarsToList, IsSequence
<1>2. CASE ~Has(p, "calendar_id")
  <2> DEFINE wanted == {c \in ToSet(CalendarList) : c.selected \/ c.primary}
             visible == Among(CalendarList, wanted)
             ids == VisibleCalendarIds
  <2>1. ids = [i \in DOMAIN visible |-> visible[i].id] /\ CalendarsToList(p) = ids
    BY <1>2 DEF VisibleCalendarIds, CalendarsToList
  <2>2. IsSequence(CalendarList)
    BY Workspaces
  <2>3. IsSequence(visible) /\ ToSet(visible) = ToSet(CalendarList) \cap wanted
    BY <2>2, AmongIs
  <2>4. PICK j \in DOMAIN CalendarList : CalendarList[j].primary
    BY PrimaryIsOwned DEF PrimaryIds
  <2>5. CalendarList[j] \in ToSet(CalendarList)
    BY <2>2, Members
  <2>6. CalendarList[j] \in ToSet(visible)
    BY <2>3, <2>4, <2>5
  <2> HIDE DEF visible, ids
  <2>7. /\ Len(visible) \in Nat /\ DOMAIN visible = 1..Len(visible)
        /\ \E i \in 1..Len(visible) : CalendarList[j] = visible[i]
    BY <2>3, <2>6, Members
  <2>8. DOMAIN ids = 1..Len(visible) /\ ids = [i \in DOMAIN ids |-> ids[i]]
    BY <2>1, <2>7
  <2>9. IsSequence(ids) /\ Len(ids) = Len(visible)
    BY <2>7, <2>8, Numbered
  <2> QED BY <2>1, <2>7, <2>9
<1> QED BY <1>1, <1>2

\* The mailbox holds messages.
MailSound ==
    /\ IsSequence(mailbox)
    /\ \A i \in DOMAIN mailbox : mailbox[i] # None => IsReadable(mailbox[i])

\* The ids of a page of messages.
LEMMA PageOfMessages ==
    ASSUME MailSound, NEW p, NEW max \in Nat
    PROVE  LET ids == NewestFirst(Found(p))
           IN IsSequence(SubSeq(ids, 1, IF Len(ids) < max THEN Len(ids) ELSE max))
<1> DEFINE ids == NewestFirst(Found(p))
           n == Cardinality(Found(p))
           last == IF Len(ids) < max THEN Len(ids) ELSE max
<1>1. n \in Nat
  <2>1. DOMAIN mailbox = 1..Len(mailbox) /\ Len(mailbox) \in Nat
    BY Members DEF MailSound
  <2>2. IsFiniteSet(1..Len(mailbox))
    BY <2>1, FS_Interval
  <2>3. Found(p) \subseteq 1..Len(mailbox)
    BY <2>1 DEF Found, Present
  <2> QED BY <2>2, <2>3, FS_Subset, FS_CardinalityType
<1>2. DOMAIN ids = 1..n /\ ids = [i \in DOMAIN ids |-> ids[i]]
  <2> DEFINE found == Found(p)
             nth(k) == CHOOSE i \in found : Cardinality({j \in found : j > i}) = k - 1
  <2>1. ids = [k \in 1..n |-> nth(k)]
    BY DEF NewestFirst
  <2> HIDE DEF nth, ids, n
  <2> QED BY <2>1
<1> HIDE DEF ids, n
<1>3. IsSequence(ids) /\ Len(ids) \in Nat
  BY <1>1, <1>2, Numbered
<1>4. last = IF max < Len(ids) THEN max ELSE Len(ids)
  BY <1>3
<1> HIDE DEF last
<1>5. IsSequence(SubSeq(ids, 1, last))
  BY <1>3, <1>4, TheFirst DEF FirstOf
<1> QED BY <1>5 DEF ids, last

-----------------------------------------------------------------------------
(* The invariant.                                                          *)

\* The names of the files are texts.
NamesSound == \A id \in FileId : files[id] # None => MayBeText(files[id].name)

\* What runs has passed the policy with the parameters it runs with.
PolicyPassed == call.at # "idle" => EvaluateKnownParams(call.verb, call.p).status = "allowed"

\* The pages that a listing has read so far, and those that there are.
PagesRead == IF call.seen = None THEN <<>> ELSE call.seen

AllPages(p) == [i \in DOMAIN CalendarsToList(p) |-> Page(CalendarsToList(p)[i], p)]

PageSound(page) ==
    /\ IsSequence(page)
    /\ \A i \in DOMAIN page : page[i].event.start \in Int /\ IsLegible(page[i].event)

\* A listing has read the pages of the first calendars, which are as they were
\* read unless the owner has changed something since.
ListingRead ==
    Calling("calendar.list_events", "start") =>
        /\ IsSequence(PagesRead) /\ Len(PagesRead) < Len(CalendarsToList(call.p))
        /\ \A i \in DOMAIN PagesRead :
               /\ PageSound(PagesRead[i])
               /\ Undisturbed => PagesRead[i] = Page(CalendarsToList(call.p)[i], call.p)

\* And in the end it has listed what all of them come to.
ItemsOf(listing) ==
    [i \in DOMAIN listing |-> [fields |-> Shown(listing[i].event), of |-> listing[i]]]

ListingAnswered ==
    /\ call.at = "done" /\ call.status = "completed"
    /\ call.verb = "calendar.list_events" /\ Undisturbed
    => call.result.items = ItemsOf(Listing(AllPages(call.p), call.p))

\* A search has found messages, and answers with all of them.
SearchRead == Calling("gmail.search", "metadata") => IsSequence(call.seen)

SearchAnswered ==
    call.at = "done" /\ call.status = "completed" /\ call.verb = "gmail.search" =>
        [i \in DOMAIN call.result.items |-> call.result.items[i].of] = call.seen

CallAnswers ==
    /\ ResultSound(call.result)
    /\ ListingRead /\ ListingAnswered
    /\ SearchRead /\ SearchAnswered

\* A batch has no more requests than it may have.
ItemsBounded == stage \in {"layer4", "done"} => (IsBatch => Len(Items) <= BatchMaxItems)

AnswerInv ==
    AnswersSound /\ NamesSound /\ MailSound /\ PolicyPassed /\ CallAnswers /\ ItemsBounded

-----------------------------------------------------------------------------
(* The steps of a call.                                                    *)

\* A step of the executors ends the call or goes on.
LEMMA ExecuteSteps ==
    ASSUME CallShape, TypeInv, Execute
    PROVE  CallStepTyped
<1>1. CASE Capabilities
  BY <1>1, EndsTyped DEF Capabilities, Calling, CallStepTyped, GoingOn
<1>2. CASE GoogleFails
  <2>1. call.at \in GoingOn
    BY <1>2 DEF GoogleFails, AsksGoogle, Running, TypeInv, CallTyped, GoingOn
  <2> QED BY <1>2, <2>1, EndsTyped DEF GoogleFails, CallStepTyped
<1> QED BY <1>1, <1>2, CalendarTyped, DriveTyped, GmailTyped DEF Execute, TypeInv

\* A refusal and a failure are no completion.
LEMMA NotCompleted ==
    ASSUME CallShape
    PROVE  /\ \A error : Deny(error) => call'.at = "done" /\ call'.status # "completed"
           /\ \A error : Fail(error) => call'.at = "done" /\ call'.status # "completed"
<1>1. ASSUME NEW status, NEW error, NEW retryable, NEW result,
             Finish(status, error, retryable, result)
      PROVE  call'.at = "done" /\ call'.status = status
  BY <1>1 DEF Finish, CallShape
<1>2. ASSUME NEW error, Deny(error) PROVE call'.at = "done" /\ call'.status # "completed"
  <2>1. Finish("denied", error, FALSE, NoResult)
    BY <1>2 DEF Deny
  <2>2. call'.at = "done" /\ call'.status = "denied"
    BY <1>1, <2>1
  <2> QED BY <2>2
<1>3. ASSUME NEW error, Fail(error) PROVE call'.at = "done" /\ call'.status # "completed"
  BY <1>1, <1>3 DEF Fail
<1> QED BY <1>2, <1>3

\* What completion makes of a call.
LEMMA Completed ==
    ASSUME CallShape, NEW result, Complete(result)
    PROVE  /\ call'.at = "done" /\ call'.status = "completed" /\ call'.result = result
           /\ call'.verb = call.verb /\ call'.p = call.p /\ call'.seen = call.seen
           /\ call'.since = call.since
BY DEF Complete, Finish, CallShape

\* The steps of a listing and of a search.
LEMMA ListingSteps ==
    ASSUME StepsOfVerbs, Execute
    PROVE  /\ call.verb = "calendar.list_events" => ListEvents \/ GoogleFails
           /\ call.verb = "gmail.search" => SearchIds \/ FetchMetadata \/ GoogleFails
<1> DEFINE other == call.verb \notin {"calendar.list_events", "gmail.search"}
<1>1. /\ ListCalendars => other
      /\ ListEvents => call.verb = "calendar.list_events"
      /\ StartCreate => other
      /\ GuardInvite => other
      /\ InsertEvent => other
      /\ GetOwnEvent => other
      /\ PatchEvent => other
      /\ DeleteEvent => other
  BY DEF ListCalendars, ListEvents, StartCreate, GuardInvite, InsertEvent, GetOwnEvent, PatchEvent,
         DeleteEvent, Calling, StepsOfVerbs
<1>2. /\ ResolveFolder => other
      /\ CreateFile => other
      /\ ResolveFileId => other
      /\ ReadFile => other
      /\ GuardEdit => other
      /\ WriteFile => other
  BY DEF ResolveFolder, CreateFile, ResolveFileId, ReadFile, GuardEdit, WriteFile, Calling, EditVerbs,
         StepsOfVerbs
<1>3. /\ SearchIds => call.verb = "gmail.search"
      /\ FetchMetadata => call.verb = "gmail.search"
      /\ ReplyHeaders => other
      /\ CreateDraft => other
      /\ Capabilities => other
  BY DEF SearchIds, FetchMetadata, ReplyHeaders, CreateDraft, Capabilities, Calling
<1> QED BY <1>1, <1>2, <1>3, Zenon DEF Execute, CalendarStep, DriveStep, GmailStep

-----------------------------------------------------------------------------
(* The answer of a listing.                                                *)

\* A page that is read now is sound.
LEMMA PageReadSound ==
    ASSUME EventsOK, EventsLegible, NEW cal, NEW p, MaxResultsOf(p) \in Nat
    PROVE  PageSound(Page(cal, p))
<1> DEFINE page == Page(cal, p)
<1>1. IsSequence(page) /\ ToSet(page) \subseteq Entries
  BY PageIs
<1> HIDE DEF page
<1>2. DOMAIN page = 1..Len(page) /\ \A i \in 1..Len(page) : page[i] \in ToSet(page)
  BY <1>1, Members
<1>3. \A x \in Entries : x.event.start \in Int /\ IsLegible(x.event)
  BY EntriesAre DEF StartsAreInts, EventsLegible
<1>4. PageSound(page)
  BY <1>1, <1>2, <1>3 DEF PageSound
<1> QED BY <1>4 DEF page

\* A listing of sound pages can be shown.
LEMMA ListingSound ==
    ASSUME NEW pages, IsSequence(pages), \A i \in DOMAIN pages : PageSound(pages[i]),
           NEW p, MaxResultsOf(p) \in Nat, NEW result, result.items = ItemsOf(Listing(pages, p))
    PROVE  ResultSound(result)
<1> DEFINE listing == Listing(pages, p)
           items == ItemsOf(listing)
<1>1. \A x \in Held(pages) : x.event.start \in Int /\ IsLegible(x.event)
  <2>1. ASSUME NEW i \in DOMAIN pages, NEW x \in ToSet(pages[i])
        PROVE  x.event.start \in Int /\ IsLegible(x.event)
    <3>1. IsSequence(pages[i])
      BY DEF PageSound
    <3>2. PICK j \in 1..Len(pages[i]) : x = pages[i][j]
      BY <3>1, Members
    <3>3. j \in DOMAIN pages[i]
      BY <3>1, Members
    <3> QED BY <3>2, <3>3 DEF PageSound
  <2> QED BY <2>1 DEF Held
<1>2. /\ \A i \in DOMAIN pages : IsSequence(pages[i])
      /\ StartsAreInts(Held(pages))
  BY <1>1 DEF PageSound, StartsAreInts
<1>3. IsSequence(listing) /\ ToSet(listing) \subseteq Held(pages)
  BY <1>2, ListingIs
<1> HIDE DEF listing
<1>4. DOMAIN listing = 1..Len(listing) /\ \A i \in 1..Len(listing) : listing[i] \in ToSet(listing)
  BY <1>3, Members
<1>5. /\ DOMAIN items = DOMAIN listing /\ items = [i \in DOMAIN items |-> items[i]]
      /\ \A i \in DOMAIN listing : items[i].fields = Shown(listing[i].event)
  BY DEF ItemsOf
<1> HIDE DEF items
<1>6. ASSUME NEW i \in DOMAIN listing PROVE FieldsSound(items[i].fields)
  <2>1. IsLegible(listing[i].event)
    BY <1>1, <1>3, <1>4
  <2>2. FieldsSound(Shown(listing[i].event))
    BY <2>1, Tuples DEF IsLegible, Shown
  <2> QED BY <1>5, <2>2
<1> QED BY <1>3, <1>5, <1>6, ListResult DEF items, listing

\* A page more, or the answer.
LEMMA ListEventsAnswers ==
    ASSUME CallShape, EventsOK, EventsLegible, PolicyPassed, CallAnswers, ListEvents
    PROVE  ResultSound(call'.result) /\ ListingRead' /\ ListingAnswered'
<1> DEFINE cals == CalendarsToList(call.p)
           pages == PagesRead
           page == Page(cals[Len(pages) + 1], call.p)
           read == Append(pages, page)
<1>1. /\ call.verb = "calendar.list_events" /\ call.at = "start"
      /\ UNCHANGED <<ownerSteps, events>>
  BY DEF ListEvents, Calling
<1>2. /\ IsSequence(cals) /\ Len(cals) > 0 /\ Len(cals) \in Nat /\ DOMAIN cals = 1..Len(cals)
  BY SomeCalendar, Members
<1>3. /\ IsSequence(pages) /\ Len(pages) < Len(cals)
      /\ \A i \in DOMAIN pages :
             PageSound(pages[i]) /\ (Undisturbed => pages[i] = Page(cals[i], call.p))
  BY <1>1 DEF CallAnswers, ListingRead, Calling
<1>4. MaxResultsOf(call.p) \in Nat
  BY <1>1, ListingAllowed DEF PolicyPassed
<1>5. PageSound(page)
  BY <1>4, PageReadSound
<1> HIDE DEF cals
<1>6. \/ Deny("invalid_params")
      \/ Len(read) < Len(cals) /\ call' = [call EXCEPT !.seen = read]
      \/ /\ ~(Len(read) < Len(cals))
         /\ \E result : Complete(result) /\ result.items = ItemsOf(Listing(read, call.p))
  BY DEF ListEvents, PagesRead, ItemsOf, cals
<1> HIDE DEF pages, page
<1>7. /\ IsSequence(read) /\ DOMAIN pages = 1..Len(pages) /\ Len(pages) \in Nat
      /\ DOMAIN read = 1..Len(pages) + 1
      /\ \A i \in DOMAIN pages : read[i] = pages[i]
      /\ read[Len(pages) + 1] = page
  BY <1>3, OneMore
<1> HIDE DEF read
<1>8. Len(read) = Len(pages) + 1
  BY <1>7, Members
<1>9. \A i \in DOMAIN read :
          PageSound(read[i]) /\ (Undisturbed => read[i] = Page(cals[i], call.p))
  BY <1>3, <1>5, <1>7, <1>8 DEF page
<1>10. CASE Deny("invalid_params")
  <2>1. call'.at = "done" /\ call'.status # "completed" /\ call'.result = NoResult
    BY <1>10 DEF Deny, Finish, CallShape
  <2> QED BY <2>1, SmallResults DEF ListingRead, ListingAnswered, Calling
<1>11. CASE Len(read) < Len(cals) /\ call' = [call EXCEPT !.seen = read]
  <2>1. /\ call'.seen = read /\ call'.p = call.p /\ call'.at = "start" /\ call'.since = call.since
        /\ call'.result = call.result
    BY <1>1, <1>11 DEF CallShape
  <2>2. Undisturbed' = Undisturbed /\ CalendarsToList(call.p)' = cals
    BY <1>1, <2>1 DEF Undisturbed, cals
  <2>3. PagesRead' \in {<<>>, read}
    BY <2>1 DEF PagesRead
  <2>4. IsSequence(<<>>) /\ Len(<<>>) = 0 /\ DOMAIN <<>> = {}
    BY DEF IsSequence
  <2>5. \A i : Page(cals[i], call.p)' = Page(cals[i], call.p)
    BY <1>1, <2>1 DEF Page, cals
  <2>6. ListingRead'
    <3>1. CASE PagesRead' = <<>>
      BY <1>2, <2>2, <2>4, <3>1 DEF ListingRead
    <3>2. CASE PagesRead' = read
      BY <1>7, <1>9, <1>11, <2>2, <2>5, <3>2 DEF ListingRead, cals
    <3> QED BY <2>3, <3>1, <3>2
  <2> QED BY <2>1, <2>6 DEF CallAnswers, ListingAnswered
<1>12. CASE /\ ~(Len(read) < Len(cals))
            /\ \E result : Complete(result) /\ result.items = ItemsOf(Listing(read, call.p))
  <2>1. PICK result : Complete(result) /\ result.items = ItemsOf(Listing(read, call.p))
    BY <1>12
  <2>2. /\ call'.at = "done" /\ call'.result = result /\ call'.p = call.p /\ call'.since = call.since
    BY <2>1, Completed
  <2>3. ResultSound(result)
    BY <1>4, <1>7, <1>9, <2>1, ListingSound
  <2>4. Undisturbed' = Undisturbed /\ CalendarsToList(call.p)' = cals
    BY <1>1, <2>2 DEF Undisturbed, cals
  <2>5. DOMAIN read = DOMAIN cals
    <3>1. /\ Len(pages) \in Nat /\ Len(cals) \in Nat
          /\ Len(pages) < Len(cals) /\ ~(Len(pages) + 1 < Len(cals))
      BY <1>2, <1>3, <1>7, <1>8, <1>12
    <3>2. Len(pages) + 1 = Len(cals)
      BY <3>1
    <3> QED BY <1>2, <1>7, <3>2
  <2>6. Undisturbed => AllPages(call.p)' = read
    <3>1. AllPages(call.p)' = [i \in DOMAIN cals |-> Page(cals[i], call.p)]
      BY <1>1, <2>2 DEF AllPages, Page, cals
    <3>2. read = [i \in DOMAIN read |-> read[i]]
      BY <1>7 DEF IsSequence
    <3> QED BY <1>9, <2>5, <3>1, <3>2
  <2>7. ListingAnswered'
    BY <2>1, <2>2, <2>4, <2>6 DEF ListingAnswered
  <2> QED BY <2>2, <2>3, <2>7 DEF ListingRead, Calling
<1> QED BY <1>6, <1>10, <1>11, <1>12

-----------------------------------------------------------------------------
(* The answer of a search, and of the rest.                                *)

\* A search ends with all that it has found.
LEMMA SearchAnswers ==
    ASSUME CallShape, MailSound, PolicyPassed, CallAnswers, SearchIds \/ FetchMetadata
    PROVE  ResultSound(call'.result) /\ SearchRead' /\ SearchAnswered'
<1>1. CASE SearchIds
  <2> DEFINE ids == NewestFirst(Found(call.p))
             max == FieldOr(call.p, "max_results", 5)
             page == SubSeq(ids, 1, IF Len(ids) < max THEN Len(ids) ELSE max)
  <2>1. max \in Nat
    BY <1>1, SearchAllowed DEF SearchIds, Calling, PolicyPassed
  <2> HIDE DEF max
  <2>2. IsSequence(page)
    BY <2>1, PageOfMessages
  <2>3. call' = [call EXCEPT !.at = "metadata", !.seen = page]
    BY <1>1 DEF SearchIds, max
  <2> HIDE DEF page
  <2>4. call'.at = "metadata" /\ call'.seen = page /\ call'.result = call.result
    BY <2>3 DEF CallShape
  <2> QED BY <2>2, <2>4 DEF CallAnswers, SearchRead, SearchAnswered
<1>2. CASE FetchMetadata
  <2>1. IsSequence(call.seen)
    BY <1>2 DEF FetchMetadata, CallAnswers, SearchRead
  <2>2. CASE Fail(HttpError(404))
    <3>1. call'.at = "done" /\ call'.status # "completed" /\ call'.result = NoResult
      BY <2>2, NotCompleted DEF Fail, Finish, CallShape
    <3> QED BY <3>1, SmallResults DEF SearchRead, SearchAnswered, Calling
  <2>3. CASE /\ \A i \in DOMAIN call.seen : call.seen[i] \in Present
             /\ Complete(ResultsOf(call.seen))
    <3> DEFINE ids == call.seen
               result == ResultsOf(ids)
               items == result.items
    <3>1. /\ DOMAIN items = DOMAIN ids /\ items = [i \in DOMAIN items |-> items[i]]
          /\ \A i \in DOMAIN ids :
                 /\ items[i].of = ids[i]
                 /\ items[i].fields = <<mailbox[ids[i]].sender, mailbox[ids[i]].subject,
                                        mailbox[ids[i]].snippet>>
      BY DEF ResultsOf
    <3>2. /\ call'.at = "done" /\ call'.result = result /\ call'.seen = ids
      BY <2>3, Completed
    <3> HIDE DEF result, ids
    <3>3. \A i \in DOMAIN ids : IsReadable(mailbox[ids[i]])
      BY <2>3 DEF Present, MailSound, ids
    <3>4. \A i \in DOMAIN ids : FieldsSound(items[i].fields)
      <4> SUFFICES ASSUME NEW i \in DOMAIN ids PROVE FieldsSound(items[i].fields)
        OBVIOUS
      <4> DEFINE m == mailbox[ids[i]]
      <4>1. MayBeText(m.sender) /\ MayBeText(m.subject) /\ MayBeText(m.snippet)
        BY <3>3 DEF IsReadable
      <4>2. FieldsSound(<<m.sender, m.subject, m.snippet>>)
        BY <4>1, Tuples
      <4> QED BY <3>1, <4>2
    <3>5. ResultSound(result)
      BY <2>1, <3>1, <3>4, ListResult DEF ids
    <3>6. [i \in DOMAIN items |-> items[i].of] = ids
      <4>1. ids = [i \in DOMAIN ids |-> ids[i]]
        BY <2>1 DEF IsSequence, ids
      <4> QED BY <3>1, <4>1
    <3> QED BY <3>2, <3>5, <3>6 DEF SearchRead, SearchAnswered, Calling
  <2> QED BY <1>2, <2>2, <2>3 DEF FetchMetadata
<1> QED BY <1>1, <1>2

\* The steps that complete a call.
LEMMA CompletingSteps ==
    ASSUME CallShape, Execute, call'.at = "done", call'.status = "completed"
    PROVE  \/ ListCalendars \/ ListEvents \/ InsertEvent \/ PatchEvent \/ DeleteEvent
           \/ CreateFile \/ WriteFile \/ SearchIds \/ FetchMetadata \/ CreateDraft \/ Capabilities
<1>1. ASSUME NEW at PROVE call' = [call EXCEPT !.at = at] => at = "done"
  BY DEF CallShape
<1>2. ASSUME NEW at, NEW target
      PROVE  call' = [call EXCEPT !.at = at, !.target = target] => at = "done"
  BY DEF CallShape
<1>3. ASSUME NEW at, NEW seen, NEW since
      PROVE  call' = [call EXCEPT !.at = at, !.seen = seen, !.since = since] => at = "done"
  BY DEF CallShape
<1>4. ASSUME NEW at, NEW target, NEW seen, NEW since
      PROVE  call' = [call EXCEPT !.at = at, !.target = target, !.seen = seen, !.since = since] =>
                 at = "done"
  BY DEF CallShape
<1>5. ~StartCreate
  BY <1>1 DEF StartCreate
<1>6. ~GuardInvite
  BY <1>1, NotCompleted DEF GuardInvite
<1>7. ~GetOwnEvent
  <2> SUFFICES ASSUME GetOwnEvent PROVE FALSE
    OBVIOUS
  <2> DEFINE cal == ResolveCalendar(Requested(call.p), WriteRoles)
             at == IF call.verb = "calendar.update_event" /\ NeedsInviteGuard(Existing(cal), call.p)
                   THEN "invite_guard" ELSE "write"
  <2>1. \/ Deny("invalid_params") \/ Fail(HttpError(404))
        \/ Deny("not_gatekeeper_event") \/ Deny("too_many_attendees")
        \/ call' = [call EXCEPT !.at = at, !.target = cal, !.seen = Existing(cal),
                                !.since = ownerSteps]
    BY DEF GetOwnEvent
  <2>2. at # "done"
    OBVIOUS
  <2> HIDE DEF cal, at
  <2>3. CASE call' = [call EXCEPT !.at = at, !.target = cal, !.seen = Existing(cal),
                                  !.since = ownerSteps]
    BY <1>4, <2>2, <2>3, Zenon
  <2> QED BY <2>1, <2>3, NotCompleted
<1>8. ~ResolveFolder
  BY <1>2 DEF ResolveFolder
<1>9. ~ResolveFileId
  BY <1>2, NotCompleted DEF ResolveFileId
<1>10. ~ReadFile
  <2>1. ASSUME NEW file,
               call' = [call EXCEPT !.at = "edit_guard", !.seen = file, !.since = ownerSteps]
        PROVE  FALSE
    <3>1. "edit_guard" # "done"
      OBVIOUS
    <3> QED BY <1>3, <2>1, <3>1, Zenon
  <2> QED BY <2>1, NotCompleted DEF ReadFile
<1>11. ~GuardEdit
  BY <1>1, NotCompleted DEF GuardEdit
<1>12. ~ReplyHeaders
  <2>1. ASSUME NEW seen, call' = [call EXCEPT !.at = "write", !.seen = seen, !.since = ownerSteps]
        PROVE  FALSE
    <3>1. "write" # "done"
      OBVIOUS
    <3> QED BY <1>3, <2>1, <3>1, Zenon
  <2> QED BY <2>1, NotCompleted DEF ReplyHeaders
<1>13. ~GoogleFails
  BY NotCompleted DEF GoogleFails
<1> QED BY <1>5, <1>6, <1>7, <1>8, <1>9, <1>10, <1>11, <1>12, <1>13, Zenon
        DEF Execute, CalendarStep, DriveStep, GmailStep

\* What the other verbs answer with can be shown.
LEMMA RestAnswers ==
    ASSUME Inv, InviteInv, NamesSound, PolicyPassed, Execute,
           call'.at = "done", call'.status = "completed",
           call.verb \notin {"calendar.list_events", "gmail.search"}
    PROVE  ResultSound(call'.result)
<1>1. /\ CallShape /\ EventsOK /\ FilesOK /\ ParamsKept /\ EventsLegible
  BY DEF Inv, Shape, InviteInv
<1>2. ASSUME NEW result, Complete(result), ResultSound(result) PROVE ResultSound(call'.result)
  BY <1>1, <1>2, Completed
<1>3. CASE ListCalendars
  <2> DEFINE writable == {c \in ToSet(CalendarList) : c.role \in WriteRoles}
             first == Among(CalendarList, {c \in writable : c.primary})
             rest == Among(CalendarList, {c \in writable : ~c.primary})
             sorted == first \o rest
             result == [count |-> Len(sorted),
                        items |-> [i \in DOMAIN sorted |->
                                      [fields |-> <<sorted[i].name>>, of |-> sorted[i].id]]]
             items == result.items
  <2>1. Complete(result)
    BY <1>3 DEF ListCalendars
  <2>2. /\ IsSequence(first) /\ ToSet(first) \subseteq ToSet(CalendarList)
        /\ IsSequence(rest) /\ ToSet(rest) \subseteq ToSet(CalendarList)
    BY Workspaces, AmongIs
  <2> HIDE DEF first, rest
  <2>3. IsSequence(sorted) /\ ToSet(sorted) \subseteq ToSet(CalendarList)
    BY <2>2, OneAfterAnother
  <2> HIDE DEF sorted
  <2>4. DOMAIN sorted = 1..Len(sorted) /\ \A i \in 1..Len(sorted) : sorted[i] \in ToSet(CalendarList)
    BY <2>3, Members
  <2>5. \A c \in ToSet(CalendarList) : MayBeText(c.name)
    <3>1. IsSequence(CalendarList)
      BY Workspaces
    <3>2. \A c \in ToSet(CalendarList) : \E i \in 1..Len(CalendarList) : c = CalendarList[i]
      BY <3>1, Members
    <3>3. DOMAIN CalendarList = 1..Len(CalendarList)
      BY <3>1, Members
    <3> QED BY <3>2, <3>3, Workspaces
  <2>6. /\ DOMAIN items = DOMAIN sorted /\ items = [i \in DOMAIN items |-> items[i]]
        /\ \A i \in DOMAIN sorted : items[i].fields = <<sorted[i].name>>
    OBVIOUS
  <2> HIDE DEF result
  <2>7. \A i \in DOMAIN sorted : FieldsSound(items[i].fields)
    BY <2>4, <2>5, <2>6, Tuples
  <2>8. ResultSound(result)
    BY <2>3, <2>6, <2>7, ListResult
  <2> QED BY <1>2, <2>1, <2>8
<1>4. ASSUME NEW event, IsLegible(event), Complete(OneItem(Shown(event)))
      PROVE  ResultSound(call'.result)
  <2>1. FieldsSound(Shown(event))
    BY <1>4, Tuples DEF IsLegible, Shown
  <2> QED BY <1>2, <1>4, <2>1, SmallResults
<1>5. CASE InsertEvent
  <2> DEFINE cal == ResolveCalendar(Requested(call.p), WriteRoles)
  <2>1. PICK e \in EventId : /\ events' = [events EXCEPT ![e] = NewEvent(call.p, cal, e)]
                             /\ Complete(OneItem(Shown(events'[e])))
    BY <1>1, <1>5, NotCompleted DEF InsertEvent
  <2> HIDE DEF cal
  <2>2. events'[e] = NewEvent(call.p, cal, e)
    BY <1>1, <2>1 DEF EventsOK
  <2>3. AreParams(call.p) /\ EvaluateCreateEvent(call.p).status = "allowed"
    BY <1>5 DEF InviteInv, ParamsKept, Inv, CheckedParams, Running, InsertEvent, Calling
  <2>4. IsLegible(NewEvent(call.p, cal, e))
    BY <2>3, NewLegible
  <2> QED BY <1>4, <2>1, <2>2, <2>4
<1>6. CASE PatchEvent
  <2> DEFINE event == Existing(call.target)
  <2>1. /\ event # None
        /\ events' = [events EXCEPT ![TargetId] = Patched(event, call.seen, call.p)]
        /\ Complete(OneItem(Shown(events'[TargetId])))
    BY <1>1, <1>6, NotCompleted DEF PatchEvent
  <2>2. TargetId \in EventId /\ event = events[TargetId]
    BY <2>1 DEF Existing
  <2> HIDE DEF event
  <2>3. events'[TargetId] = Patched(event, call.seen, call.p)
    BY <1>1, <2>1, <2>2 DEF EventsOK
  <2>4. AreParams(call.p) /\ EvaluateUpdateEvent(call.p).status = "allowed" /\ IsLegible(call.seen)
    BY <1>6 DEF InviteInv, ParamsKept, EventSeen, Inv, CheckedParams, Running, PatchEvent, Calling
  <2>5. IsEvent(event) /\ IsLegible(event)
    BY <1>1, <2>1, <2>2 DEF EventsOK, EventsLegible
  <2>6. IsLegible(Patched(event, call.seen, call.p))
    BY <2>4, <2>5, PatchLegible
  <2> QED BY <1>4, <2>1, <2>3, <2>6
<1>7. CASE DeleteEvent
  <2>1. Complete(NothingShown)
    BY <1>1, <1>7, NotCompleted DEF DeleteEvent
  <2> QED BY <1>2, <2>1, SmallResults
<1>8. CASE CreateFile
  <2>1. /\ Complete(OneItem(<<call.p.name>>)) /\ call.at = "write"
        /\ call.verb = "drive.create_file"
    BY <1>8 DEF CreateFile, Calling
  <2>2. AreParams(call.p) /\ EvaluateKnownParams("drive.create_file", call.p).status = "allowed"
    BY <1>1, <2>1 DEF ParamsKept, PolicyPassed
  <2>3. FieldsSound(<<call.p.name>>)
    BY <2>2, FileAllowed, Tuples
  <2> QED BY <1>2, <2>1, <2>3, SmallResults
<1>9. CASE WriteFile
  <2>1. File(call.target) # None /\ Complete(OneItem(<<files[call.target].name>>))
    BY <1>1, <1>9, NotCompleted DEF WriteFile
  <2>2. MayBeText(files[call.target].name)
    BY <2>1 DEF File, NamesSound
  <2> QED BY <1>2, <2>1, <2>2, SmallResults, Tuples
<1>10. CASE CreateDraft
  <2>1. /\ Complete(OneItem(<<call.p.to, call.p.subject>>)) /\ call.at = "write"
        /\ call.verb = "gmail.create_draft"
    BY <1>10 DEF CreateDraft, Calling
  <2>2. AreParams(call.p) /\ EvaluateKnownParams("gmail.create_draft", call.p).status = "allowed"
    BY <1>1, <2>1 DEF ParamsKept, PolicyPassed
  <2>3. FieldsSound(<<call.p.to, call.p.subject>>)
    BY <2>2, DraftAllowed, Tuples
  <2> QED BY <1>2, <2>1, <2>3, SmallResults
<1>11. CASE Capabilities
  BY <1>2, <1>11, SmallResults DEF Capabilities
<1>12. ~ListEvents /\ ~SearchIds /\ ~FetchMetadata
  BY DEF ListEvents, SearchIds, FetchMetadata, Calling
<1> QED BY <1>1, <1>3, <1>5, <1>6, <1>7, <1>8, <1>9, <1>10, <1>11, <1>12, CompletingSteps

\* A step of the executors keeps what is said of the answer.
LEMMA CallAnswersStep ==
    ASSUME Inv, GateInv, TypeInv, InviteInv, AnswerInv, Execute
    PROVE  CallAnswers'
<1>1. /\ CallShape /\ EventsOK /\ StepsOfVerbs /\ EventsLegible /\ MailSound /\ NamesSound
      /\ PolicyPassed /\ CallAnswers
  BY DEF Inv, Shape, InviteInv, AnswerInv
<1>2. CallStepTyped /\ call'.verb = call.verb
  BY <1>1, ExecuteSteps, ExecuteKeepsRequest DEF GateInv, CallOK, KeepsRequest
<1>3. call'.at # "done" => call'.result = NoResult
  BY <1>2 DEF CallStepTyped, CallEnds, CallGoesOn, NoOutcome
<1>4. call'.status # "completed" => call'.result = NoResult
  BY <1>2 DEF CallStepTyped, CallEnds, CallGoesOn, NoOutcome, HasOutcome
<1>5. CASE call.verb \notin {"calendar.list_events", "gmail.search"}
  <2>1. ResultSound(call'.result)
    BY <1>1, <1>3, <1>4, <1>5, RestAnswers, SmallResults
  <2> QED BY <1>2, <1>5, <2>1
          DEF CallAnswers, ListingRead, ListingAnswered, SearchRead, SearchAnswered, Calling
<1>6. CASE GoogleFails
  <2>1. call'.at = "done" /\ call'.status # "completed"
    BY <1>1, <1>6, NotCompleted DEF GoogleFails
  <2>2. ResultSound(call'.result)
    BY <1>4, <2>1, SmallResults
  <2> QED BY <2>1, <2>2
          DEF CallAnswers, ListingRead, ListingAnswered, SearchRead, SearchAnswered, Calling
<1>7. CASE ListEvents
  <2>1. ResultSound(call'.result) /\ ListingRead' /\ ListingAnswered'
    BY <1>1, <1>7, ListEventsAnswers
  <2> QED BY <1>2, <1>7, <2>1 DEF CallAnswers, SearchRead, SearchAnswered, ListEvents, Calling
<1>8. CASE SearchIds \/ FetchMetadata
  <2>1. ResultSound(call'.result) /\ SearchRead' /\ SearchAnswered'
    BY <1>1, <1>8, SearchAnswers
  <2> QED BY <1>2, <1>8, <2>1
          DEF CallAnswers, ListingRead, ListingAnswered, SearchIds, FetchMetadata, Calling
<1> QED BY <1>1, <1>5, <1>6, <1>7, <1>8, ListingSteps

-----------------------------------------------------------------------------
(* The steps of the rest.                                                  *)

\* The names of the files stay texts.
LEMMA NamesStep ==
    ASSUME Inv, InviteInv, NamesSound, PolicyPassed, [Next]_vars
    PROVE  NamesSound'
<1>1. FilesOK /\ ParamsKept
  BY DEF Inv, Shape, InviteInv
<1>2. CASE files' = files
  BY <1>2 DEF NamesSound
<1>3. CASE Owner /\ files' # files
  <2>1. PICK id \in FileId : \E edited \in OwnerEditsFile(files[id]) :
            files[id] # None /\ files' = [files EXCEPT ![id] = edited]
    BY <1>3 DEF Owner, OwnerChangesFile
  <2> PICK edited \in OwnerEditsFile(files[id]) :
            files[id] # None /\ files' = [files EXCEPT ![id] = edited]
    BY <2>1
  <2>2. edited # None => edited.name = files[id].name
    BY <1>1, <2>1 DEF FilesOK, IsFile, OwnerEditsFile
  <2> QED BY <1>1, <2>1, <2>2 DEF FilesOK, NamesSound
<1>4. CASE CreateFile
  <2>1. AreParams(call.p) /\ EvaluateKnownParams("drive.create_file", call.p).status = "allowed"
    BY <1>1, <1>4 DEF ParamsKept, PolicyPassed, CreateFile, Calling
  <2>2. MayBeText(call.p.name)
    BY <2>1, FileAllowed
  <2>3. PICK id \in FileId :
            files' = [files EXCEPT ![id] = [name |-> call.p.name, folder |-> call.target,
                                            plain |-> TRUE, content |-> Pieces(call.p.content)]]
    BY <1>4 DEF CreateFile
  <2> QED BY <1>1, <2>2, <2>3 DEF FilesOK, NamesSound
<1>5. CASE WriteFile /\ files' # files
  <2>1. PICK new : files' = [files EXCEPT ![call.target].content = new] /\ File(call.target) # None
    BY <1>5 DEF WriteFile
  <2>2. call.target \in FileId /\ files[call.target] # None
    BY <2>1 DEF File
  <2>3. files'[call.target].name = files[call.target].name
    BY <1>1, <2>1, <2>2 DEF FilesOK, IsFile
  <2> QED BY <1>1, <2>1, <2>2, <2>3 DEF FilesOK, NamesSound
<1>6. CASE files' # files /\ ~Owner
  <2>1. Execute
    BY <1>6 DEF Next, Receive, ScreenInbound, Parse, Begin, End, Reply, workspaceVars, vars
  <2>2. DriveStep
    BY <1>6, <2>1 DEF Execute, workspaceVars
  <2>3. CreateFile \/ WriteFile
    BY <1>6, <2>2 DEF DriveStep, ResolveFolder, ResolveFileId, ReadFile, GuardEdit
  <2> QED BY <1>4, <1>5, <1>6, <2>3
<1> QED BY <1>2, <1>3, <1>6

\* The mailbox stays one.
LEMMA MailStep ==
    ASSUME MailSound, [Next]_vars
    PROVE  MailSound'
<1>1. CASE mailbox' = mailbox
  BY <1>1 DEF MailSound
<1>2. CASE MailboxChanges
  <2>1. CASE \E i \in Present : mailbox' = [mailbox EXCEPT ![i] = None]
    <3>1. PICK i \in Present : mailbox' = [mailbox EXCEPT ![i] = None]
      BY <2>1
    <3>2. DOMAIN mailbox = 1..Len(mailbox) /\ Len(mailbox) \in Nat
      BY Members DEF MailSound
    <3>3. DOMAIN mailbox' = 1..Len(mailbox) /\ mailbox' = [j \in DOMAIN mailbox' |-> mailbox'[j]]
      BY <3>1, <3>2
    <3>4. IsSequence(mailbox')
      BY <3>2, <3>3, Numbered
    <3>5. \A j \in DOMAIN mailbox' : mailbox'[j] # None => IsReadable(mailbox'[j])
      BY <3>1, <3>2, <3>3 DEF MailSound
    <3> QED BY <3>4, <3>5 DEF MailSound
  <2>2. CASE \E m \in Arriving : mailbox' = Append(mailbox, m)
    <3>1. PICK m \in Arriving : mailbox' = Append(mailbox, m)
      BY <2>2
    <3>2. IsReadable(m)
      BY Workspaces
    <3>3. /\ IsSequence(mailbox') /\ DOMAIN mailbox = 1..Len(mailbox) /\ Len(mailbox) \in Nat
          /\ DOMAIN mailbox' = 1..Len(mailbox) + 1
          /\ \A j \in DOMAIN mailbox : mailbox'[j] = mailbox[j]
          /\ mailbox'[Len(mailbox) + 1] = m
      BY <3>1, OneMore DEF MailSound
    <3>4. \A j \in DOMAIN mailbox' : j \in DOMAIN mailbox \/ j = Len(mailbox) + 1
      BY <3>3
    <3> QED BY <3>2, <3>3, <3>4 DEF MailSound
  <2> QED BY <1>2, <2>1, <2>2 DEF MailboxChanges
<1>3. CASE Execute
  BY <1>1, <1>3 DEF Execute, workspaceVars, GmailStep, SearchIds, FetchMetadata, ReplyHeaders,
                    CreateDraft
<1>4. CASE Owner
  BY <1>1, <1>2, <1>4 DEF Owner
<1> QED BY <1>1, <1>3, <1>4
        DEF Next, Receive, ScreenInbound, Parse, Begin, End, Reply, workspaceVars, vars

\* What is decided to run has passed the policy with what is known of it.
LEMMA AllowedByPolicy ==
    ASSUME NEW item, DecisionOf(item).status = "allowed"
    PROVE  EvaluateKnownParams(item.verb, KnownParams(item.verb, item.params)).status = "allowed"
<1>1. Decide(item.verb, item.params, screen.score).status = "allowed"
  BY DEF DecisionOf, Denied, Decision
<1>2. EvaluatePolicy(item.verb, item.params).status = "allowed"
  BY <1>1 DEF Decide, ApplyExtraParamsGate, ApplyScreenGate, Denied, Decision
<1> QED BY <1>2 DEF EvaluatePolicy, Denied, Decision

\* A call is about its request until it is over.
LEMMA PolicyStep ==
    ASSUME Inv, GateInv, PolicyPassed, [Next]_vars
    PROVE  PolicyPassed'
<1>1. CASE Execute
  <2>1. KeepsRequest
    BY <1>1, ExecuteKeepsRequest DEF Inv, Shape, GateInv, CallOK
  <2> QED BY <2>1 DEF KeepsRequest, PolicyPassed
<1>2. CASE call' = call
  BY <1>2 DEF PolicyPassed
<1>3. CASE Begin /\ call' # call
  <2> DEFINE item == Items[Len(outcomes) + 1]
             p == KnownParams(item.verb, item.params)
  <2>1. DecisionOf(item).status = "allowed" /\ call' = Call("start", item.request_id, item.verb, p)
    BY <1>3 DEF Begin
  <2> HIDE DEF item
  <2>2. EvaluateKnownParams(item.verb, p).status = "allowed"
    BY <2>1, AllowedByPolicy
  <2> HIDE DEF p
  <2>3. call'.verb = item.verb /\ call'.p = p
    BY <2>1 DEF Call
  <2> QED BY <2>2, <2>3 DEF PolicyPassed
<1>4. CASE End
  BY <1>4 DEF End, NoCall, Call, PolicyPassed
<1>5. CASE Owner
  BY <1>2, <1>5 DEF Owner, OwnerChangesEvent, OwnerChangesFile, MailboxChanges, OwnerActs
<1> QED BY <1>1, <1>2, <1>3, <1>4, <1>5
        DEF Next, Receive, ScreenInbound, Parse, Reply, executorVars, vars

\* Of a call that begins nothing has been read.
LEMMA BegunAnswers ==
    ASSUME NEW id, NEW verb, NEW p, call' = Call("start", id, verb, p)
    PROVE  CallAnswers'
<1>1. call'.at = "start" /\ call'.result = NoResult /\ call'.seen = None
  BY DEF Call
<1>2. PagesRead' = <<>>
  BY <1>1 DEF PagesRead
<1>3. IsSequence(<<>>) /\ Len(<<>>) = 0 /\ DOMAIN <<>> = {}
  BY DEF IsSequence
<1>4. Len(CalendarsToList(call.p)') > 0
  BY SomeCalendar
<1>5. ListingRead'
  BY <1>2, <1>3, <1>4 DEF ListingRead
<1> QED BY <1>1, <1>5, SmallResults
        DEF CallAnswers, ListingAnswered, SearchRead, SearchAnswered, Calling

\* Whoever acts, what is said of the answer stays true of it.
LEMMA CallAnswersKept ==
    ASSUME Inv, CallAnswers, [Next]_vars, ~Execute
    PROVE  CallAnswers'
<1>1. CASE UNCHANGED <<call, ownerSteps, events>>
  <2>1. /\ Undisturbed' = Undisturbed /\ PagesRead' = PagesRead
        /\ CalendarsToList(call.p)' = CalendarsToList(call.p)
        /\ AllPages(call.p)' = AllPages(call.p)
    BY <1>1 DEF Undisturbed, PagesRead, AllPages, Page
  <2>2. \A i : Page(CalendarsToList(call.p)[i], call.p)' = Page(CalendarsToList(call.p)[i], call.p)
    BY <1>1 DEF Page
  <2>3. ListingRead'
    BY <1>1, <2>1, <2>2 DEF CallAnswers, ListingRead, Calling
  <2>4. ListingAnswered'
    BY <1>1, <2>1 DEF CallAnswers, ListingAnswered
  <2> QED BY <1>1, <2>3, <2>4 DEF CallAnswers, SearchRead, SearchAnswered, Calling
<1>2. CASE Owner
  <2>1. UNCHANGED call /\ ~Undisturbed'
    BY <1>2 DEF Owner, OwnerChangesEvent, OwnerChangesFile, MailboxChanges, OwnerActs, Undisturbed,
                Inv, Shape, CountersOK
  <2>2. PagesRead' = PagesRead /\ CalendarsToList(call.p)' = CalendarsToList(call.p)
    BY <2>1 DEF PagesRead
  <2>3. ListingRead' /\ ListingAnswered'
    BY <2>1, <2>2 DEF CallAnswers, ListingRead, ListingAnswered, Calling
  <2> QED BY <2>1, <2>3 DEF CallAnswers, SearchRead, SearchAnswered, Calling
<1>3. CASE End
  <2>1. call'.at = "idle" /\ call'.result = NoResult
    BY <1>3 DEF End, NoCall, Call
  <2> QED BY <2>1, SmallResults
          DEF CallAnswers, ListingRead, ListingAnswered, SearchRead, SearchAnswered, Calling
<1>4. CASE Begin /\ call' # call
  <2>1. \E id, verb, p : call' = Call("start", id, verb, p)
    BY <1>4 DEF Begin
  <2> QED BY <2>1, BegunAnswers
<1>5. CASE Begin /\ call' = call
  BY <1>1, <1>5 DEF Begin, workspaceVars
<1> QED BY <1>1, <1>2, <1>3, <1>4, <1>5
        DEF Next, Receive, ScreenInbound, Parse, Reply, executorVars, workspaceVars, vars

\* One more answer that can be shown.
LEMMA AnsweredSound ==
    ASSUME AnswersSound, NEW outcome, Answered(outcome), DOMAIN outcome = OutcomeFields,
           OutcomeSound(outcome)
    PROVE  AnswersSound'
<1>1. /\ IsSequence(outcomes') /\ DOMAIN outcomes = 1..Len(outcomes) /\ Len(outcomes) \in Nat
      /\ DOMAIN outcomes' = 1..Len(outcomes) + 1
      /\ \A i \in DOMAIN outcomes : outcomes'[i] = outcomes[i]
      /\ outcomes'[Len(outcomes) + 1] = outcome
  BY OneMore DEF AnswersSound, Answered
<1>2. \A i \in DOMAIN outcomes' : i \in DOMAIN outcomes \/ i = Len(outcomes) + 1
  BY <1>1
<1> QED BY <1>1, <1>2 DEF AnswersSound

\* The answers can be shown.
LEMMA AnswersStep ==
    ASSUME Inv, GateInv, UsedInv, AnswerInv, [Next]_vars
    PROVE  AnswersSound'
<1>1. CASE outcomes' = outcomes
  BY <1>1 DEF AnswerInv, AnswersSound
<1>2. ASSUME NEW item, NEW status, NEW error, NEW retryable
      PROVE  LET made == Outcome(item, status, error, retryable)
             IN /\ DOMAIN made = OutcomeFields /\ made.status = status
                /\ made.ignored = {} /\ made.result = NoResult
  BY DEF Outcome, OutcomeFields
<1>3. CASE Begin /\ outcomes' # outcomes
  <2>1. PICK item, status, error : Answered(Outcome(item, status, error, FALSE))
    BY <1>3 DEF Begin
  <2> DEFINE outcome == Outcome(item, status, error, FALSE)
  <2>2. /\ Answered(outcome) /\ DOMAIN outcome = OutcomeFields
        /\ outcome.ignored = {} /\ outcome.result = NoResult
    BY <2>1 DEF Outcome, OutcomeFields
  <2> HIDE DEF outcome
  <2>3. Cardinality({}) \in 0..IgnoredParamsMax
    BY FS_EmptySet, PolicyConstants
  <2>4. OutcomeSound(outcome)
    BY <2>2, <2>3, SmallResults DEF OutcomeSound
  <2> QED BY <2>2, <2>4, AnsweredSound DEF AnswerInv
<1>4. CASE End
  <2> DEFINE item == Items[Len(outcomes) + 1]
             made == Outcome(item, call.status, call.error, call.retryable)
             ignored == DecisionOf(item).ignored
             result == call.result
             outcome == [made EXCEPT !.ignored = ignored, !.result = result]
  <2>1. Answered(outcome)
    BY <1>4 DEF End
  <2>2. IsFiniteSet(DOMAIN item.params) /\ DecisionOf(item).status = "allowed"
    BY <1>4 DEF End, GateInv, CallOK, UsedInv, AreParams
  <2>3. Cardinality(ignored) \in 0..IgnoredParamsMax
    BY <2>2, DecisionNames DEF Named
  <2>4. ResultSound(result)
    BY DEF AnswerInv, CallAnswers
  <2>5. DOMAIN made = OutcomeFields
    BY <1>2
  <2> HIDE DEF item, made, ignored, result
  <2>6. DOMAIN outcome = OutcomeFields /\ outcome.ignored = ignored /\ outcome.result = result
    BY <2>5 DEF OutcomeFields
  <2> HIDE DEF outcome
  <2>7. OutcomeSound(outcome)
    BY <2>3, <2>4, <2>6 DEF OutcomeSound
  <2> QED BY <2>1, <2>6, <2>7, AnsweredSound DEF AnswerInv
<1> QED BY <1>1, <1>3, <1>4
        DEF Next, Receive, ScreenInbound, Parse, Reply, gatewayVars, vars

\* A batch that is not refused has no more requests than it may have.
LEMMA BatchBounded ==
    ASSUME Mailed, NEW score, NEW extraction, NEW fallback
    PROVE  LET request == ParseRequest(Parts, score, extraction, fallback)
           IN request.verb = "batch" /\ request.parse_error = None =>
                  Len(request.batch_items) <= BatchMaxItems
<1> DEFINE request == ParseRequest(Parts, score, extraction, fallback)
           few == Len(request.batch_items) <= BatchMaxItems
<1> SUFFICES few
  OBVIOUS
<1>1. ASSUME request.batch_items = <<>> PROVE few
  <2>1. Len(<<>>) = 0
    OBVIOUS
  <2> QED BY <1>1, <2>1, ReplyHasRoom
<1>2. ASSUME NEW id, NEW verb, NEW params, NEW source, NEW error,
             request = Parsed(id, verb, params, source, error, <<>>)
      PROVE  few
  BY <1>1, <1>2 DEF Parsed
<1>3. CASE HasBlock(Parts)
  <2> DEFINE data == Parts.blocks[1].data
             shape == ValidateRequestShape(data)
             parsedItems == [i \in DOMAIN data.requests |->
                                ParseItem(data.requests, i, data.request_id, Parts.payloads)]
             full == Parsed(data.request_id, "batch", <<>>, "block", None, parsedItems)
  <2>1. \/ \E id, verb, error : request = BlockError(id, verb, error)
        \/ \E id, verb, params : request = BlockRequest(id, verb, params)
        \/ /\ ~(Len(Parts.blocks) > 1) /\ Parts.blocks # <<>> /\ shape.ok
           /\ data.requests \notin {None, Junk} /\ ~(Len(data.requests) > BatchMaxItems)
           /\ request = full
    <3>1. \/ \E id, verb, error : request = BlockError(id, verb, error)
          \/ /\ ~(Len(Parts.blocks) > 1) /\ Parts.blocks # <<>> /\ shape.ok
             /\ request = ParseBatch(data, Parts.payloads) \/ request = ParseSingle(data, Parts.payloads)
      BY <1>3 DEF ParseRequest, ParseBlock
    <3> HIDE DEF request, data, shape
    <3> QED BY <3>1 DEF ParseBatch, ParseSingle
  <2>2. CASE /\ ~(Len(Parts.blocks) > 1) /\ Parts.blocks # <<>> /\ shape.ok
             /\ data.requests \notin {None, Junk} /\ ~(Len(data.requests) > BatchMaxItems)
             /\ request = full
    <3>1. PICK i \in DOMAIN Scenarios : mail = Scenarios[i].mail
      BY DEF Mailed
    <3>2. IsSequence(Parts.blocks)
      BY <3>1, Mails DEF Parts
    <3>3. 1 \in DOMAIN Parts.blocks
      <4>1. ASSUME NEW s, IsSequence(s), ~(Len(s) > 1), s # <<>> PROVE 1 \in DOMAIN s
        BY <4>1 DEF IsSequence
      <4> QED BY <2>2, <3>2, <4>1
    <3>4. data # Junk
      <4>1. shape.ok => data # Junk
        BY DEF ValidateRequestShape
      <4> QED BY <2>2, <4>1
    <3>5. IsSequence(data.requests)
      BY <2>2, <3>1, <3>3, <3>4, Mails DEF Parts
    <3> HIDE DEF data, request
    <3>6. request.batch_items = parsedItems
      BY <2>2 DEF Parsed
    <3>7. /\ Len(data.requests) \in Nat /\ DOMAIN data.requests = 1..Len(data.requests)
      BY <3>5, Members
    <3>8. DOMAIN parsedItems = 1..Len(data.requests)
          /\ parsedItems = [k \in DOMAIN parsedItems |-> parsedItems[k]]
      BY <3>7
    <3> HIDE DEF parsedItems
    <3>9. Len(parsedItems) = Len(data.requests)
      BY <3>7, <3>8, Numbered
    <3>10. Len(data.requests) <= BatchMaxItems
      BY <2>2, <3>7, ReplyHasRoom
    <3>11. Len(request.batch_items) = Len(data.requests)
      BY <3>6, <3>9
    <3> QED BY <3>10, <3>11
  <2>3. CASE \E id, verb, error : request = BlockError(id, verb, error)
    <3>1. PICK id, verb, error : request = BlockError(id, verb, error)
      BY <2>3
    <3>2. request = Parsed(id, verb, <<>>, "block", error, <<>>)
      BY <3>1 DEF BlockError
    <3> QED BY <1>2, <3>2
  <2>4. CASE \E id, verb, params : request = BlockRequest(id, verb, params)
    <3>1. PICK id, verb, params : request = BlockRequest(id, verb, params)
      BY <2>4
    <3>2. request = Parsed(id, verb, params, "block", None, <<>>)
      BY <3>1 DEF BlockRequest
    <3> QED BY <1>2, <3>2
  <2>5. few
    BY <2>1, <2>2, <2>3, <2>4
  <2> QED BY <2>5
<1>4. CASE ~HasBlock(Parts)
  <2>1. \E id, verb, params, source, error : request = Parsed(id, verb, params, source, error, <<>>)
    BY <1>4 DEF ParseRequest, ParseViaLLM
  <2>2. PICK id, verb, params, source, error : request = Parsed(id, verb, params, source, error, <<>>)
    BY <2>1
  <2>3. few
    BY <1>2, <2>2
  <2> QED BY <2>3
<1> QED BY <1>3, <1>4

\* No batch has more requests than it may have.
LEMMA BoundedStep ==
    ASSUME GateInv, ItemsBounded, [Next]_vars
    PROVE  ItemsBounded'
<1>1. CASE parsed' = parsed /\ (stage' \in {"layer4", "done"} => stage \in {"layer4", "done"})
  <2>1. IsBatch' = IsBatch /\ Items' = Items
    BY <1>1 DEF IsBatch, Items
  <2> QED BY <1>1, <2>1 DEF ItemsBounded
<1>2. CASE Parse
  <2>1. PICK extraction : parsed' = ParseRequest(Parts, screen.score, extraction, FallbackId)
    BY <1>2 DEF Parse
  <2> DEFINE request == ParseRequest(Parts, screen.score, extraction, FallbackId)
  <2>2. request.verb = "batch" /\ request.parse_error = None =>
            Len(request.batch_items) <= BatchMaxItems
    BY BatchBounded DEF GateInv
  <2>3. parsed' = request
    BY <2>1
  <2> HIDE DEF request
  <2>4. IsBatch' => Len(Items') <= BatchMaxItems
    BY <2>2, <2>3 DEF IsBatch, Items
  <2> QED BY <2>4 DEF ItemsBounded
<1>3. CASE Receive \/ ScreenInbound
  BY <1>3 DEF Receive, ScreenInbound, ItemsBounded
<1>4. CASE Begin \/ End \/ Reply
  BY <1>1, <1>4 DEF Begin, End, Reply
<1> QED BY <1>1, <1>2, <1>3, <1>4 DEF Next, gatewayVars, vars

\* The first state.
LEMMA AnswerInit == Init => AnswerInv
<1> SUFFICES ASSUME Init PROVE AnswerInv
  OBVIOUS
<1>1. IsSequence(<<>>) /\ DOMAIN <<>> = {}
  BY DEF IsSequence
<1>2. AnswersSound
  BY <1>1 DEF Init, AnswersSound
<1>3. PICK i \in DOMAIN Scenarios :
          files = Scenarios[i].files /\ mailbox = Scenarios[i].mailbox
  BY DEF Init
<1>4. NamesSound
  BY <1>3, Workspaces DEF NamesSound
<1>5. MailSound
  <2>1. IsSequence(mailbox) /\ \A m \in ToSet(mailbox) : m # None => IsReadable(m)
    BY <1>3, Workspaces
  <2>2. \A k \in DOMAIN mailbox : mailbox[k] \in ToSet(mailbox)
    BY <2>1, Members
  <2> QED BY <2>1, <2>2 DEF MailSound
<1>6. call.at = "idle" /\ call.result = NoResult
  BY DEF Init, NoCall, Call
<1>7. CallAnswers
  BY <1>6, SmallResults
     DEF CallAnswers, ListingRead, ListingAnswered, SearchRead, SearchAnswered, Calling
<1> QED BY <1>2, <1>4, <1>5, <1>6, <1>7 DEF Init, AnswerInv, PolicyPassed, ItemsBounded

\* Every step keeps it.
LEMMA AnswerStep ==
    ASSUME Inv, GateInv, UsedInv, TypeInv, InviteInv, AnswerInv, [Next]_vars
    PROVE  AnswerInv'
<1>1. CallAnswers'
  BY CallAnswersStep, CallAnswersKept DEF AnswerInv
<1>2. AnswersSound'
  BY AnswersStep
<1>3. NamesSound' /\ MailSound' /\ PolicyPassed' /\ ItemsBounded'
  BY NamesStep, MailStep, PolicyStep, BoundedStep DEF AnswerInv
<1> QED BY <1>1, <1>2, <1>3 DEF AnswerInv

-----------------------------------------------------------------------------
(* The reply.                                                              *)

\* A reply within its cap, that shows nothing that was to be withheld.
ReplySound ==
    stage = "done" =>
        /\ reply.size <= ReplyMaxChars
        /\ setup.screening /\ FailClosed =>
               \A text \in reply.shows : ~Flagged(text, {"sensitive", "steering"})

\* The reply that is made is one.
LEMMA ReplyMade ==
    ASSUME GateInv, AnswerInv, Reply
    PROVE  ReplySound'
<1>1. PICK output \in ScreenResults(OutputItems) : reply' = Render(output)
  BY DEF Reply
<1> DEFINE scoped == [i \in DOMAIN outcomes |-> ScopedOutcome(output, i)]
<1>2. Render(output) = IF IsBatch THEN RenderBatchReply(parsed.request_id, scoped, output)
                       ELSE RenderReply(scoped[1])
  BY DEF Render, ScopedOutcome
<1>3. /\ Len(outcomes) \in Nat /\ DOMAIN outcomes = 1..Len(outcomes)
      /\ Len(outcomes) = Len(Items) /\ stage = "layer4" /\ AnswersSound
  BY Members DEF AnswerInv, AnswersSound, Reply
<1>4. \A i \in DOMAIN outcomes : OutcomeSound(ScopedOutcome(output, i))
  BY <1>3, ScopedIs
<1>5. setup.screening /\ FailClosed =>
          \A i \in DOMAIN outcomes : \A text \in ShownOf(ScopedOutcome(output, i)) :
              ~Flagged(text, {"sensitive", "steering"})
  BY <1>3, FlaggedIsWithheld
<1>6. DOMAIN scoped = 1..Len(outcomes) /\ scoped = [i \in DOMAIN scoped |-> scoped[i]]
      /\ \A i \in DOMAIN outcomes : scoped[i] = ScopedOutcome(output, i)
  BY <1>3
<1> HIDE DEF scoped
<1>7. IsSequence(scoped) /\ Len(scoped) = Len(outcomes)
  BY <1>3, <1>6, Numbered
<1>8. /\ Render(output).size <= ReplyMaxChars
      /\ \A text \in Render(output).shows : \E i \in DOMAIN outcomes :
             text \in ShownOf(ScopedOutcome(output, i))
  <2>1. CASE IsBatch
    <3>1. Len(scoped) <= BatchMaxItems
      BY <1>3, <1>7, <2>1 DEF AnswerInv, ItemsBounded
    <3>2. \A i \in DOMAIN scoped : OutcomeSound(scoped[i])
      BY <1>3, <1>4, <1>6
    <3>3. /\ Render(output).size <= ReplyMaxChars
          /\ Render(output).shows \subseteq UNION {ShownOf(scoped[i]) : i \in DOMAIN scoped}
      BY <1>2, <1>7, <2>1, <3>1, <3>2, BatchFits
    <3> QED BY <1>3, <1>6, <3>3
  <2>2. CASE ~IsBatch
    <3>1. Len(Items) = 1
      BY <2>2 DEF Items
    <3>2. 1 \in DOMAIN outcomes
      BY <1>3, <3>1
    <3>3. scoped[1] = ScopedOutcome(output, 1) /\ OutcomeSound(scoped[1])
      BY <1>4, <1>6, <3>2
    <3>4. /\ Render(output).size <= ReplyMaxChars
          /\ Render(output).shows \subseteq ShownOf(scoped[1])
      BY <1>2, <2>2, <3>3, SingleFits
    <3> QED BY <3>2, <3>3, <3>4
  <2> QED BY <2>1, <2>2
<1>9. setup' = setup
  BY DEF Reply, executorVars
<1> QED BY <1>1, <1>5, <1>8, <1>9 DEF ReplySound, Flagged

\* Nothing is done to it after that.
LEMMA ReplyStep ==
    ASSUME Inv, GateInv, AnswerInv, ReplySound, [Next]_vars
    PROVE  ReplySound'
<1>1. CASE stage' = stage /\ reply' = reply /\ setup' = setup
  BY <1>1 DEF ReplySound, Flagged
<1>2. setup' = setup
  BY ExecuteByService
     DEF Next, Receive, ScreenInbound, Parse, Begin, End, Reply, Owner, OwnerChangesEvent,
         OwnerChangesFile, MailboxChanges, OwnerActs, executorVars, vars
<1>3. CASE Receive \/ ScreenInbound \/ Parse
  BY <1>3 DEF Receive, ScreenInbound, Parse, ReplySound
<1>4. CASE Begin \/ End
  BY <1>1, <1>2, <1>4 DEF Begin, End
<1>5. CASE UNCHANGED gatewayVars
  BY <1>1, <1>2, <1>5 DEF gatewayVars
<1> QED BY <1>3, <1>4, <1>5, ReplyMade DEF Next, gatewayVars, vars

\* The reply to a request is sound, whatever is done meanwhile.
LEMMA ReplyHolds == Spec => []ReplySound
<1>1. Init => ReplySound
  BY DEF Init, ReplySound
<1> QED BY <1>1, ReplyStep, AnswerInit, AnswerStep, GateInit, GateStep, UsedInit, UsedStep, TypeInit,
           TypeStep, InviteInit, InviteStep, InvHolds, PTL DEF Spec

\* No reply is longer than its cap, whatever it lists, and what is shown of a
\* listing leaves room for the lines that follow it.
THEOREM ReplyIsShort == Spec => []ReplyFits
<1>1. ReplySound => ReplyFits
  BY DEF ReplySound, ReplyFits
<1> QED BY <1>1, ReplyHolds, PTL

\* With the output screen configured and failing closed, no reply shows a text
\* that is sensitive or steers its reader, however long the text, wherever in
\* it the phrase is and whichever calls to the classifier fail.
THEOREM NothingSlipsOut == Spec => []WithheldStaysWithheld
<1>1. ReplySound => WithheldStaysWithheld
  BY DEF ReplySound, WithheldStaysWithheld
<1> QED BY <1>1, ReplyHolds, PTL

-----------------------------------------------------------------------------
(* Nothing is hidden.                                                      *)

\* As many different numbers as there are up to m are all of them.
LEMMA AllAreHit ==
    ASSUME NEW n \in Nat, NEW m \in Nat, m <= n, NEW f \in [1..n -> 1..m], Distinct(f)
    PROVE  m = n /\ \A k \in 1..m : \E i \in 1..n : f[i] = k
<1>0. \A i, j \in 1..n : i # j => f[i] # f[j]
  BY DEF Distinct
<1>1. /\ IsFiniteSet(1..n) /\ Cardinality(1..n) = n
      /\ IsFiniteSet(1..m) /\ Cardinality(1..m) = m
  <2>1. n \in Int /\ m \in Int /\ 1 \in Int
    OBVIOUS
  <2>2. (1 > n => n = 0) /\ (1 > m => m = 0) /\ n - 1 + 1 = n /\ m - 1 + 1 = m
    OBVIOUS
  <2> QED BY <2>1, <2>2, FS_Interval
<1>2. ~(m < n)
  <2>1. m < n => \E i, j \in 1..n : i # j /\ f[i] = f[j]
    BY <1>1, FS_PigeonHole
  <2> QED BY <1>0, <2>1
<1>3. ASSUME NEW k \in 1..m PROVE \E i \in 1..n : f[i] = k
  <2> SUFFICES ASSUME \A i \in 1..n : f[i] # k PROVE FALSE
    OBVIOUS
  <2> DEFINE rest == (1..m) \ {k}
  <2>1. f \in [1..n -> rest]
    OBVIOUS
  <2>2. IsFiniteSet(rest) /\ Cardinality(rest) = m - 1
    BY <1>1, FS_RemoveElement
  <2>3. m - 1 < n
    OBVIOUS
  <2> HIDE DEF rest
  <2>4. \E i, j \in 1..n : i # j /\ f[i] = f[j]
    BY <1>1, <2>1, <2>2, <2>3, FS_PigeonHole
  <2> QED BY <1>0, <2>4
<1>4. m = n
  BY <1>2
<1> QED BY <1>3, <1>4

\* The pages of a listing.
LEMMA PagesAre ==
    ASSUME EventsOK, NEW p, MaxResultsOf(p) \in Nat
    PROVE  LET pages == AllPages(p)
           IN /\ IsSequence(pages) /\ DOMAIN pages = DOMAIN CalendarsToList(p)
              /\ \A i \in DOMAIN pages :
                     pages[i] = Page(CalendarsToList(p)[i], p) /\ IsSequence(pages[i])
              /\ Held(pages) \subseteq Entries
              /\ StartsAreInts(Held(pages))
<1> DEFINE cals == CalendarsToList(p)
           pages == AllPages(p)
<1>1. IsSequence(cals) /\ DOMAIN cals = 1..Len(cals) /\ Len(cals) \in Nat
  BY SomeCalendar, Members
<1>2. /\ DOMAIN pages = DOMAIN cals /\ pages = [i \in DOMAIN pages |-> pages[i]]
      /\ \A i \in DOMAIN cals : pages[i] = Page(cals[i], p)
  BY DEF AllPages
<1> HIDE DEF cals, pages
<1>3. IsSequence(pages)
  BY <1>1, <1>2, Numbered
<1>4. \A i \in DOMAIN cals : IsSequence(pages[i]) /\ ToSet(pages[i]) \subseteq Entries
  BY <1>2, PageIs
<1>5. Held(pages) \subseteq Entries
  BY <1>2, <1>4 DEF Held
<1>6. StartsAreInts(Held(pages))
  BY <1>5, EntriesAre DEF StartsAreInts
<1> QED BY <1>2, <1>3, <1>4, <1>5, <1>6 DEF cals, pages

\* Entries of one occurrence are alike, and on one calendar they are the same.
LEMMA OnceEach ==
    ASSUME EventsOK, OneOccurrence, NEW x \in Entries, NEW y \in Entries,
           Occurrence(x) = Occurrence(y)
    PROVE  /\ x.event.uid = y.event.uid /\ x.event.start = y.event.start
           /\ SpanOf(x.event) = SpanOf(y.event)
           /\ x.event.cal = y.event.cal => x = y
<1>1. PICK d \in EventId : events[d] # None /\ x = EntryOf(d)
  BY DEF Entries
<1>2. PICK e \in EventId : events[e] # None /\ y = EntryOf(e)
  BY DEF Entries
<1>3. x.event = events[d] /\ y.event = events[e]
  BY <1>1, <1>2 DEF EntryOf
<1>4. SpanOf(events[d]) = SpanOf(events[e]) /\ (events[d].cal = events[e].cal => d = e)
  BY <1>1, <1>2 DEF OneOccurrence, EntryOf
<1>5. x.event.uid = y.event.uid /\ x.event.start = y.event.start
  BY DEF Occurrence
<1> QED BY <1>1, <1>2, <1>3, <1>4, <1>5

\* A list whose entries are as many as are asked for, if one of them or a copy
\* of it is in it for each of a full page.
LEMMA FullPage ==
    ASSUME EventsOK, OneOccurrence, NEW page, IsSequence(page), Distinct(page),
           ToSet(page) \subseteq Entries, NEW cal, \A x \in ToSet(page) : x.event.cal = cal,
           NEW list, IsSequence(list), ToSet(list) \subseteq Entries, Len(list) <= Len(page),
           \A j \in 1..Len(page) : \E y \in ToSet(list) : Occurrence(y) = Occurrence(page[j]),
           NEW start \in Int, \A j \in 1..Len(page) : page[j].event.start <= start
    PROVE  Len(list) = Len(page) /\ \A i \in 1..Len(list) : list[i].event.start <= start
<1> DEFINE n == Len(page)
           m == Len(list)
           at(j) == CHOOSE i \in 1..m : Occurrence(list[i]) = Occurrence(page[j])
           f == [j \in 1..n |-> at(j)]
<1>1. /\ n \in Nat /\ m \in Nat /\ m <= n /\ DOMAIN page = 1..n
      /\ \A j \in 1..n : page[j] \in ToSet(page) /\ page[j] \in Entries
      /\ \A i \in 1..m : list[i] \in Entries
      /\ \A y \in ToSet(list) : \E i \in 1..m : y = list[i]
  BY Members
<1>2. ASSUME NEW j \in 1..n
      PROVE  at(j) \in 1..m /\ Occurrence(list[at(j)]) = Occurrence(page[j])
  <2>1. PICK y \in ToSet(list) : Occurrence(y) = Occurrence(page[j])
    OBVIOUS
  <2>2. \E i \in 1..m : Occurrence(list[i]) = Occurrence(page[j])
    BY <1>1, <2>1
  <2> QED BY <2>2
<1> HIDE DEF at
<1>3. f \in [1..n -> 1..m] /\ \A j \in 1..n : f[j] = at(j)
  BY <1>2
<1> HIDE DEF f
<1>4. ASSUME NEW i \in 1..n, NEW j \in 1..n, i # j PROVE f[i] # f[j]
  <2>1. page[i] # page[j]
    BY <1>1, <1>4 DEF Distinct
  <2>2. page[i] \in Entries /\ page[j] \in Entries /\ page[i].event.cal = page[j].event.cal
    BY <1>1
  <2>3. Occurrence(page[i]) # Occurrence(page[j])
    BY <2>1, <2>2, OnceEach
  <2> QED BY <1>2, <1>3, <2>3
<1> HIDE DEF n, m
<1>5. m = n /\ \A k \in 1..m : \E i \in 1..n : f[i] = k
  <2>1. n \in Nat /\ m \in Nat /\ m <= n /\ f \in [1..n -> 1..m]
    BY <1>1, <1>3
  <2>2. Distinct(f)
    BY <1>3, <1>4 DEF Distinct
  <2> QED BY <2>1, <2>2, AllAreHit
<1>6. ASSUME NEW k \in 1..m PROVE list[k].event.start <= start
  <2>1. PICK j \in 1..n : at(j) = k
    BY <1>3, <1>5
  <2>2. Occurrence(list[k]) = Occurrence(page[j])
    BY <1>2, <2>1
  <2>3. list[k].event.start = page[j].event.start
    BY <1>1, <2>2, OnceEach
  <2>4. page[j].event.start <= start
    BY DEF n
  <2> QED BY <2>3, <2>4
<1> QED BY <1>5, <1>6 DEF n, m

\* What is on a page that is inside the window is listed, or a copy of it is,
\* or comes after as many as are asked for.
LEMMA HeldIsListed ==
    ASSUME EventsOK, OneOccurrence, NEW p, MaxResultsOf(p) \in Nat,
           NEW x \in Held(AllPages(p)), Overlaps(SpanOf(x.event), WindowOf(p))
    PROVE  LET listing == Listing(AllPages(p), p)
           IN \/ \E y \in ToSet(listing) : Occurrence(y) = Occurrence(x)
              \/ /\ Len(listing) = MaxResultsOf(p)
                 /\ \A i \in 1..Len(listing) : listing[i].event.start <= x.event.start
<1> DEFINE pages == AllPages(p)
           list == InOneList(pages, p)
           listing == Listing(pages, p)
<1>1. /\ IsSequence(pages) /\ \A i \in DOMAIN pages : IsSequence(pages[i])
      /\ Held(pages) \subseteq Entries /\ StartsAreInts(Held(pages))
  BY PagesAre
<1>2. x \in Held(pages)
  OBVIOUS
<1> HIDE DEF pages
<1>3. \A y \in Held(pages) : Occurrence(y) = Occurrence(x) => Overlaps(SpanOf(y.event), WindowOf(p))
  <2> SUFFICES ASSUME NEW y \in Held(pages), Occurrence(y) = Occurrence(x)
               PROVE  Overlaps(SpanOf(y.event), WindowOf(p))
    OBVIOUS
  <2>1. SpanOf(y.event) = SpanOf(x.event)
    BY <1>1, <1>2, OnceEach
  <2> QED BY <2>1
<1>4. ToSet(list) \subseteq Held(pages) /\ \E y \in ToSet(list) : Occurrence(y) = Occurrence(x)
  BY <1>1, <1>2, <1>3, InOneListIs
<1>5. \A y \in ToSet(list) :
          \/ y \in ToSet(listing)
          \/ /\ Len(listing) = MaxResultsOf(p)
             /\ \A i \in 1..Len(listing) : listing[i].event.start <= y.event.start
  BY <1>1, ListingIs
<1> HIDE DEF list, listing
<1>6. PICK y \in ToSet(list) : Occurrence(y) = Occurrence(x)
  BY <1>4
<1>7. y.event.start = x.event.start
  BY <1>1, <1>2, <1>4, <1>6, OnceEach
<1>8. \/ \E z \in ToSet(listing) : Occurrence(z) = Occurrence(x)
      \/ /\ Len(listing) = MaxResultsOf(p)
         /\ \A i \in 1..Len(listing) : listing[i].event.start <= x.event.start
  BY <1>5, <1>6, <1>7
<1> QED BY <1>8 DEF listing, pages

\* So is every event of these calendars that is found in the window.
LEMMA NothingLeftOut ==
    ASSUME EventsOK, OneOccurrence, NEW p, MaxResultsOf(p) \in Nat, ~StalePage(p),
           NEW e \in EventId, events[e] # None, events[e].cal \in ToSet(CalendarsToList(p)),
           Overlaps(SpanOf(events[e]), WindowOf(p)), Matches(events[e], WindowOf(p), p)
    PROVE  LET listing == Listing(AllPages(p), p)
           IN \/ \E i \in 1..Len(listing) : /\ listing[i].event.uid = events[e].uid
                                            /\ listing[i].event.start = events[e].start
              \/ /\ Len(listing) = MaxResultsOf(p)
                 /\ \A i \in 1..Len(listing) : listing[i].event.start <= events[e].start
<1> DEFINE cals == CalendarsToList(p)
           pages == AllPages(p)
           listing == Listing(pages, p)
           max == MaxResultsOf(p)
           x == EntryOf(e)
<1>1. PICK c \in DOMAIN cals : cals[c] = events[e].cal
  BY DEF ToSet
<1> DEFINE page == Page(cals[c], p)
<1>2. x.event = events[e] /\ x \in Entries
  BY DEF EntryOf, Entries
<1>3. /\ IsSequence(pages) /\ c \in DOMAIN pages /\ pages[c] = page
      /\ \A i \in DOMAIN pages : IsSequence(pages[i])
      /\ Held(pages) \subseteq Entries /\ StartsAreInts(Held(pages))
  BY PagesAre
<1>4. /\ IsSequence(page) /\ Distinct(page) /\ ToSet(page) \subseteq Entries
      /\ \A y \in ToSet(page) : y.event.cal = cals[c]
      /\ \/ x \in ToSet(page)
         \/ Len(page) = max /\ \A i \in 1..Len(page) : page[i].event.start <= events[e].start
  BY <1>1, PageIs
<1>5. Len(page) = max => \A j \in DOMAIN page : Overlaps(SpanOf(page[j].event), WindowOf(p))
  BY DEF StalePage
<1>6. /\ IsSequence(listing) /\ ToSet(listing) \subseteq Held(pages) /\ Len(listing) <= max
  BY <1>3, ListingIs
<1>7. \A y \in Held(pages) : Overlaps(SpanOf(y.event), WindowOf(p)) =>
          \/ \E z \in ToSet(listing) : Occurrence(z) = Occurrence(y)
          \/ /\ Len(listing) = max
             /\ \A i \in 1..Len(listing) : listing[i].event.start <= y.event.start
  BY HeldIsListed
<1>8. /\ DOMAIN listing = 1..Len(listing) /\ Len(listing) \in Nat
      /\ \A z \in ToSet(listing) : \E i \in 1..Len(listing) : z = listing[i]
      /\ \A i \in 1..Len(listing) : listing[i] \in ToSet(listing)
  BY <1>6, Members
<1>9. /\ DOMAIN page = 1..Len(page) /\ Len(page) \in Nat
      /\ \A j \in 1..Len(page) : page[j] \in ToSet(page)
  BY <1>4, Members
<1>10. ToSet(page) \subseteq Held(pages)
  BY <1>3 DEF Held
<1>11. events[e].start \in Int /\ max \in Nat
       /\ \A i \in 1..Len(listing) : listing[i].event.start \in Int
  <2>1. \A y \in Entries : y.event.start \in Int
    BY EntriesAre DEF StartsAreInts
  <2>2. \A i \in 1..Len(listing) : listing[i] \in Entries
    BY <1>3, <1>6, <1>8
  <2> QED BY <1>2, <2>1, <2>2
<1> DEFINE Told == \E i \in 1..Len(listing) : /\ listing[i].event.uid = events[e].uid
                                              /\ listing[i].event.start = events[e].start
           Full == /\ Len(listing) = max
                   /\ \A i \in 1..Len(listing) : listing[i].event.start <= events[e].start
<1> HIDE DEF cals, pages, page, max, x, listing
<1>12. CASE x \in ToSet(page)
  <2>1. Overlaps(SpanOf(x.event), WindowOf(p)) /\ x \in Held(pages)
    BY <1>2, <1>10, <1>12
  <2>2. CASE \E z \in ToSet(listing) : Occurrence(z) = Occurrence(x)
    <3>1. PICK i \in 1..Len(listing) : Occurrence(listing[i]) = Occurrence(x)
      BY <1>8, <2>2
    <3>2. listing[i].event.uid = x.event.uid /\ listing[i].event.start = x.event.start
      BY <3>1 DEF Occurrence
    <3> QED BY <1>2, <3>2 DEF listing, pages
  <2>3. CASE Full
    BY <2>3 DEF listing, pages, max
  <2> QED BY <1>2, <1>7, <2>1, <2>2, <2>3
<1>13. CASE x \notin ToSet(page)
  <2>1. Len(page) = max /\ \A j \in 1..Len(page) : page[j].event.start <= events[e].start
    BY <1>4, <1>13
  <2>2. \A j \in 1..Len(page) : page[j] \in Held(pages) /\ Overlaps(SpanOf(page[j].event), WindowOf(p))
    BY <1>5, <1>9, <1>10, <2>1
  <2>3. CASE \A j \in 1..Len(page) : \E z \in ToSet(listing) : Occurrence(z) = Occurrence(page[j])
    <3>1. ToSet(listing) \subseteq Entries /\ Len(listing) <= Len(page)
      BY <1>3, <1>6, <2>1
    <3>2. Len(listing) = Len(page)
          /\ \A i \in 1..Len(listing) : listing[i].event.start <= events[e].start
      BY <1>4, <1>6, <1>11, <2>1, <2>3, <3>1, FullPage
    <3>3. Full
      BY <2>1, <3>2
    <3> QED BY <3>3 DEF listing, pages, max
  <2>4. CASE \E j \in 1..Len(page) : ~\E z \in ToSet(listing) : Occurrence(z) = Occurrence(page[j])
    <3>1. PICK j \in 1..Len(page) : ~\E z \in ToSet(listing) : Occurrence(z) = Occurrence(page[j])
      BY <2>4
    <3>2. /\ Len(listing) = max
          /\ \A i \in 1..Len(listing) : listing[i].event.start <= page[j].event.start
      BY <1>7, <2>2, <3>1
    <3>3. page[j].event.start \in Int /\ page[j].event.start <= events[e].start
      <4>1. page[j] \in Entries
        BY <1>3, <2>2
      <4> QED BY <2>1, <4>1, EntriesAre DEF StartsAreInts
    <3>4. \A i \in 1..Len(listing) : listing[i].event.start <= events[e].start
      BY <1>11, <3>2, <3>3
    <3>5. Full
      BY <3>2, <3>4
    <3> QED BY <3>5 DEF listing, pages, max
  <2> QED BY <2>3, <2>4
<1> QED BY <1>12, <1>13

\* An answer hides nothing, as long as the calendars are what list_events
\* takes them for.  If the owner did nothing between the first page of a listing
\* and its answer, an event in the window is listed, or a copy of it is, or comes
\* after as many as were asked for, unless a stale event took its place on its
\* own calendar's page; and a search answers with every message it found.
THEOREM NothingIsHidden == Spec => [](OneOccurrence => NothingHidden)
<1>1. ASSUME Inv, AnswerInv, OneOccurrence PROVE NothingHidden
  <2> DEFINE p == call.p
             listing == Listing(AllPages(p), p)
             items == call.result.items
             listed == [i \in DOMAIN items |-> items[i].of.event]
  <2>1. ASSUME call.at = "done", call.status = "completed", call.verb = "calendar.list_events",
               Undisturbed, ~StalePage(p),
               NEW e \in EventId, events[e] # None, events[e].cal \in ToSet(CalendarsToList(p)),
               Overlaps(SpanOf(events[e]), WindowOf(p)), Matches(events[e], WindowOf(p), p)
        PROVE  \/ \E i \in DOMAIN listed : /\ listed[i].uid = events[e].uid
                                           /\ listed[i].start = events[e].start
               \/ /\ Len(listed) = MaxResultsOf(p)
                  /\ \A i \in DOMAIN listed : listed[i].start <= events[e].start
    <3>1. EventsOK /\ MaxResultsOf(p) \in Nat
      <4>1. EvaluateKnownParams("calendar.list_events", p).status = "allowed"
        BY <1>1, <2>1 DEF AnswerInv, PolicyPassed
      <4> QED BY <1>1, <4>1, ListingAllowed DEF Inv, Shape
    <3>2. items = ItemsOf(listing)
      BY <1>1, <2>1 DEF AnswerInv, CallAnswers, ListingAnswered
    <3>3. \/ \E i \in 1..Len(listing) : /\ listing[i].event.uid = events[e].uid
                                        /\ listing[i].event.start = events[e].start
          \/ /\ Len(listing) = MaxResultsOf(p)
             /\ \A i \in 1..Len(listing) : listing[i].event.start <= events[e].start
      BY <1>1, <2>1, <3>1, NothingLeftOut
    <3>4. IsSequence(listing)
      BY <3>1, PagesAre, ListingIs
    <3> HIDE DEF listing, items
    <3>5. DOMAIN listing = 1..Len(listing) /\ Len(listing) \in Nat
      BY <3>4, Members
    <3>6. /\ DOMAIN listed = 1..Len(listing) /\ listed = [i \in DOMAIN listed |-> listed[i]]
          /\ \A i \in 1..Len(listing) : listed[i] = listing[i].event
      BY <3>2, <3>5 DEF ItemsOf
    <3> HIDE DEF listed
    <3>7. Len(listed) = Len(listing)
      BY <3>5, <3>6, Numbered
    <3> QED BY <3>3, <3>6, <3>7
  <2>2. ASSUME call.at = "done", call.status = "completed", call.verb = "gmail.search"
        PROVE  [i \in DOMAIN items |-> items[i].of] = call.seen
    BY <1>1, <2>2 DEF AnswerInv, CallAnswers, SearchAnswered
  <2> QED BY <2>1, <2>2 DEF NothingHidden
<1> QED BY <1>1, AnswerInit, AnswerStep, GateInit, GateStep, UsedInit, UsedStep, TypeInit, TypeStep,
           InviteInit, InviteStep, InvHolds, PTL DEF Spec
=============================================================================
