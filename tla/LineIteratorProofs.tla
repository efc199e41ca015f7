------------------------- MODULE LineIteratorProofs -------------------------
(***************************************************************************)
(* Proofs about LineIterator, for texts of any length over any characters  *)
(* and all ways to cut them.  First the reference definition of the lines  *)
(* of a text, then the iterator.                                           *)
(***************************************************************************)
EXTENDS LineIterator, FiniteSetTheorems, SequenceTheorems, TLAPS

UpTo(ends, e) == {i \in ends : i <= e}

LEMMA TextDef ==
  /\ \A t \in Text : t \in Seq(Char) /\ Len(t) <= MaxLength
  /\ \A t \in Seq(Char) : Len(t) <= MaxLength => t \in Text
<1>1. ASSUME NEW t \in Text PROVE t \in Seq(Char) /\ Len(t) <= MaxLength
  <2>1. PICK n \in 0..MaxLength : t \in [1..n -> Char]
    BY DEF Text
  <2> QED BY <2>1, LineAssumption
<1>2. ASSUME NEW t \in Seq(Char), Len(t) <= MaxLength PROVE t \in Text
  BY <1>2, LenProperties, LineAssumption DEF Text
<1> QED BY <1>1, <1>2

LEMMA Substrings ==
  ASSUME NEW s \in Seq(Char), NEW a \in Nat, NEW b \in Nat, a <= b, b <= Len(s)
  PROVE  /\ Substring(s, a, b) \in Seq(Char)
         /\ Len(Substring(s, a, b)) = b - a
         /\ Substring(s, a, b) = [i \in 1..(b - a) |-> s[a + i]]
<1>1. \A i \in (a + 1)..b : s[i] \in Char
  BY ElementOfSeq, LenProperties
<1>2. /\ Substring(s, a, b) \in Seq(Char)
      /\ Len(Substring(s, a, b)) = b - a
      /\ \A i \in 1..(b - a) : Substring(s, a, b)[i] = s[a + i]
  <2>1. /\ SubSeq(s, a + 1, b) \in Seq(Char)
        /\ Len(SubSeq(s, a + 1, b)) = IF a + 1 <= b THEN b - (a + 1) + 1 ELSE 0
        /\ \A i \in 1..(b - (a + 1) + 1) : SubSeq(s, a + 1, b)[i] = s[a + 1 + i - 1]
    BY <1>1, SubSeqProperties
  <2>2. \A i \in 1..(b - a) : SubSeq(s, a + 1, b)[i] = s[a + i]
    <3> TAKE i \in 1..(b - a)
    <3>1. SubSeq(s, a + 1, b)[i] = s[a + 1 + i - 1] /\ a + 1 + i - 1 = a + i
      BY <2>1
    <3> QED BY <3>1
  <2> QED BY <2>1, <2>2 DEF Substring
<1>3. DOMAIN Substring(s, a, b) = 1..(b - a) /\ Substring(s, a, b) \in [1..(b - a) -> Char]
  BY <1>2, LenProperties
<1> QED BY <1>2, <1>3

(* A prefix is the substring from 0.                                       *)
LEMMA TextPrefix ==
  ASSUME NEW s \in Seq(Char), NEW p \in 0..Len(s)
  PROVE  /\ SubSeq(s, 1, p) \in Seq(Char)
         /\ Len(SubSeq(s, 1, p)) = p
         /\ SubSeq(s, 1, p) = [i \in 1..p |-> s[i]]
<1>1. SubSeq(s, 1, p) = Substring(s, 0, p)
  BY DEF Substring
<1>2. p \in Nat /\ 0 \in Nat /\ 0 <= p /\ p <= Len(s)
  BY LenProperties
<1>3. /\ Substring(s, 0, p) \in Seq(Char)
      /\ Len(Substring(s, 0, p)) = p - 0
      /\ Substring(s, 0, p) = [i \in 1..(p - 0) |-> s[0 + i]]
  BY <1>2, Substrings, Zenon
<1>4. p - 0 = p /\ \A i \in 1..p : s[0 + i] = s[i]
  BY <1>2
<1> QED BY <1>1, <1>3, <1>4

-----------------------------------------------------------------------------
(* How many ends there are up to one of them identifies it.                *)
LEMMA Ranks ==
  ASSUME NEW n \in Nat, NEW ends \in SUBSET (1..n)
  PROVE  /\ IsFiniteSet(ends) /\ Cardinality(ends) \in Nat
         /\ \A e \in Nat : Number(ends, e) \in 0..Cardinality(ends)
         /\ \A e \in ends : Number(ends, e) \in 1..Cardinality(ends)
         /\ \A d, e \in ends : d < e => Number(ends, d) < Number(ends, e)
         /\ \A k \in 1..Cardinality(ends) : \E e \in ends : Number(ends, e) = k
<1>1. IsFiniteSet(1..n)
  BY FS_Interval
<1>2. /\ IsFiniteSet(ends) /\ Cardinality(ends) \in Nat
      /\ \A T \in SUBSET ends :
           /\ IsFiniteSet(T) /\ Cardinality(T) \in Nat
           /\ Cardinality(T) <= Cardinality(ends)
           /\ T = {} <=> Cardinality(T) = 0
  <2>1. IsFiniteSet(ends)
    BY <1>1, FS_Subset
  <2> QED BY <2>1, FS_Subset, FS_CardinalityType, FS_EmptySet
<1>3. \A e \in Nat : Number(ends, e) \in 0..Cardinality(ends)
  BY <1>2 DEF Number
<1>4. \A e \in ends : Number(ends, e) \in 1..Cardinality(ends)
  <2> TAKE e \in ends
  <2>1. e \in {i \in ends : i <= e} /\ e \in Nat
    OBVIOUS
  <2> QED BY <1>2, <2>1 DEF Number
<1>5. \A d, e \in ends : d < e => Number(ends, d) < Number(ends, e)
  <2> SUFFICES ASSUME NEW d \in ends, NEW e \in ends, d < e
               PROVE  Number(ends, d) < Number(ends, e)
    OBVIOUS
  <2>1. {i \in ends : i <= d} \in SUBSET {i \in ends : i <= e}
    <3>1. \A i \in ends : i \in Nat
      OBVIOUS
    <3>2. \A i \in ends : i <= d => i <= e
      BY <3>1
    <3> QED BY <3>2
  <2>2. e \in {i \in ends : i <= e} /\ e \notin {i \in ends : i <= d}
    OBVIOUS
  <2>3. {i \in ends : i <= d} # {i \in ends : i <= e}
    BY <2>2
  <2> QED BY <1>2, <2>1, <2>3, FS_Subset DEF Number
<1>6. \A k \in 1..Cardinality(ends) : \E e \in ends : Number(ends, e) = k
  <2> SUFFICES ASSUME NEW k \in 1..Cardinality(ends),
                      \A e \in ends : Number(ends, e) # k
               PROVE  FALSE
    OBVIOUS
  <2> DEFINE T == (1..Cardinality(ends)) \ {k}
             f == [e \in ends |-> Number(ends, e)]
  <2>1. IsFiniteSet(1..Cardinality(ends)) /\ Cardinality(1..Cardinality(ends)) = Cardinality(ends)
    BY <1>2, FS_Interval
  <2>2. IsFiniteSet(T) /\ Cardinality(T) = Cardinality(ends) - 1
    BY <2>1, FS_RemoveElement
  <2>3. f \in [ends -> T]
    BY <1>4
  <2>4. \A d, e \in ends : f[d] = f[e] => d = e
    BY <1>4, <1>5
  <2>5. Cardinality(T) < Cardinality(ends)
    BY <1>2, <2>2
  <2> HIDE DEF T, f
  <2>6. \E d, e \in ends : d # e /\ f[d] = f[e]
    <3>1. IsFiniteSet(ends) /\ IsFiniteSet(T)
      BY <1>2, <2>2
    <3> QED BY <3>1, <2>3, <2>5, FS_PigeonHole, Zenon
  <2> QED BY <2>4, <2>6
<1> QED BY <1>2, <1>3, <1>4, <1>5, <1>6

LEMMA RanksDiffer ==
  ASSUME NEW n \in Nat, NEW ends \in SUBSET (1..n), NEW d \in ends, NEW e \in ends,
         Number(ends, d) = Number(ends, e)
  PROVE  d = e
<1>1. d \in Nat /\ e \in Nat
  OBVIOUS
<1>2. ~ d < e /\ ~ e < d
  <2>1. \A i \in ends : Number(ends, i) \in 1..Cardinality(ends)
    BY Ranks, Zenon
  <2>2. \A i, j \in ends : i < j => Number(ends, i) < Number(ends, j)
    BY Ranks, Zenon
  <2>3. Cardinality(ends) \in Nat
    BY Ranks, Zenon
  <2> QED BY <2>1, <2>2, <2>3
<1> QED BY <1>1, <1>2

(* The next end after p has the next number.                               *)
LEMMA NextRank ==
  ASSUME NEW n \in Nat, NEW ends \in SUBSET (1..n), NEW p \in Nat, NEW e \in ends,
         p < e, \A i \in ends : p < i => e <= i
  PROVE  Number(ends, e) = Number(ends, p) + 1
<1>1. UpTo(ends, e) = UpTo(ends, p) \cup {e} /\ e \notin UpTo(ends, p)
  <2>1. e \in Nat /\ \A i \in ends : i \in Nat
    OBVIOUS
  <2>2. \A i \in ends : i <= e <=> i <= p \/ i = e
    BY <2>1
  <2>3. ~ e <= p
    BY <2>1
  <2> QED BY <2>2, <2>3 DEF UpTo
<1>2. IsFiniteSet(UpTo(ends, p))
  BY Ranks, FS_Subset DEF UpTo
<1> QED BY <1>1, <1>2, FS_AddElement DEF Number, UpTo

LEMMA EndBefore ==
  ASSUME NEW n \in Nat, NEW ends \in SUBSET (1..n), NEW p \in ends \cup {0}, NEW e \in Nat,
         p < e, \A i \in ends : i < e => i <= p
  PROVE  Before(ends, e) = p
<1>1. \A i \in ends \cup {0} : (i < e /\ \A j \in ends : j < e => j <= i) => i = p
  OBVIOUS
<1> QED BY <1>1 DEF Before

(* An end and 0 have an end, or 0, before them.                            *)
LEMMA BeforeExists ==
  ASSUME NEW n \in Nat, NEW ends \in SUBSET (1..n), NEW e \in Nat \ {0}
  PROVE  /\ Before(ends, e) \in ends \cup {0}
         /\ Before(ends, e) < e
         /\ \A j \in ends : j < e => j <= Before(ends, e)
<1> DEFINE S == {i \in ends : i < e}
<1>1. S \in SUBSET (1..n) /\ \A i \in S : i \in Nat
  <2>1. \A i \in ends : i \in 1..n /\ i \in Nat
    OBVIOUS
  <2> QED BY <2>1
<1>2. \E i \in ends \cup {0} : i < e /\ \A j \in ends : j < e => j <= i
  <2>1. CASE S = {}
    <3>1. 0 \in ends \cup {0} /\ 0 < e /\ \A j \in ends : j < e => j <= 0
      BY <2>1
    <3> QED BY <3>1
  <2>2. CASE S # {}
    <3> HIDE DEF S
    <3>1. Cardinality(S) \in Nat /\ IsFiniteSet(S)
      BY <1>1, Ranks, Zenon
    <3>2. Cardinality(S) # 0
      BY <2>2, <3>1, FS_EmptySet
    <3>3. PICK i \in S : Number(S, i) = Cardinality(S)
      <4>1. Cardinality(S) \in 1..Cardinality(S)
        BY <3>1, <3>2
      <4>2. \A k \in 1..Cardinality(S) : \E i \in S : Number(S, i) = k
        BY <1>1, Ranks, Zenon
      <4> QED BY <4>1, <4>2
    <3>4. ASSUME NEW j \in S, i < j PROVE FALSE
      <4>1. Number(S, i) < Number(S, j)
        BY <1>1, <3>4, Ranks, Zenon
      <4>2. Number(S, j) \in 1..Cardinality(S)
        BY <1>1, Ranks, Zenon
      <4> QED BY <3>1, <3>3, <4>1, <4>2
    <3>5. \A j \in S : j <= i
      BY <1>1, <3>4
    <3>6. i \in ends /\ i < e
      BY DEF S
    <3> QED BY <3>5, <3>6 DEF S
  <2> QED BY <2>1, <2>2
<1> QED BY <1>2 DEF Before

LEMMA LeastExists ==
  ASSUME NEW n \in Nat, NEW S \in SUBSET (0..n), S # {}
  PROVE  \E i \in S : \A j \in S : i <= j
<1> DEFINE R == {n + 1 - i : i \in S}
<1>1. R \in SUBSET (1..(n + 1)) /\ n + 2 \in Nat \ {0} /\ n + 1 \in Nat
  OBVIOUS
<1>2. \A j \in S : n + 1 - j \in R
  OBVIOUS
<1>3. \A r \in R : \E i \in S : r = n + 1 - i
  OBVIOUS
<1> HIDE DEF R
<1>4. /\ Before(R, n + 2) \in R \cup {0}
      /\ \A j \in R : j < n + 2 => j <= Before(R, n + 2)
  BY <1>1, BeforeExists, Zenon
<1>5. PICK k \in S : TRUE
  OBVIOUS
<1>6. Before(R, n + 2) # 0
  <2>1. n + 1 - k \in R /\ n + 1 - k < n + 2 /\ n + 1 - k >= 1
    BY <1>2
  <2>2. n + 1 - k <= Before(R, n + 2)
    BY <1>4, <2>1
  <2> QED BY <2>1, <2>2
<1>7. PICK i \in S : Before(R, n + 2) = n + 1 - i
  BY <1>3, <1>4, <1>6
<1>8. ASSUME NEW j \in S PROVE i <= j
  <2>1. n + 1 - j \in R /\ n + 1 - j < n + 2
    BY <1>2
  <2>2. n + 1 - j <= n + 1 - i
    BY <1>4, <1>7, <2>1
  <2> QED BY <2>2
<1> QED BY <1>8

-----------------------------------------------------------------------------
(* The lines of a text.                                                    *)
LEMMA EndsType ==
  ASSUME NEW t \in Seq(Char), NEW cut
  PROVE  Len(t) \in Nat /\ EndsAt(t, cut) \in SUBSET (1..Len(t))
BY LenProperties DEF EndsAt

(* That the reference is right: a line holds no line end, and any other    *)
(* character is in one line, or follows the last line end.                 *)
THEOREM LinesCover ==
  ASSUME NEW t \in Seq(Char), NEW cut
  PROVE  LET ends == EndsAt(t, cut)
             In(i, e) == Before(ends, e) < i /\ i <= e - Width(t, ends, e)
         IN  /\ \A e \in ends : \A i \in 1..Len(t) : In(i, e) => t[i] \notin {CR, LF}
             /\ \A i \in 1..Len(t) : t[i] \notin {CR, LF} =>
                  \/ \A e \in ends : e < i
                  \/ \E e \in ends : In(i, e) /\ \A d \in ends : In(i, d) => d = e
<1> DEFINE ends == EndsAt(t, cut)
           In(i, e) == Before(ends, e) < i /\ i <= e - Width(t, ends, e)
<1>1. Len(t) \in Nat /\ ends \in SUBSET (1..Len(t))
  BY EndsType
<1>2. \A e \in ends : t[e] \in {CR, LF}
  BY DEF EndsAt
<1> DEFINE B(e) == Before(ends, e)
<1>3. ASSUME NEW e \in ends
      PROVE  /\ e \in 1..Len(t) /\ B(e) \in ends \cup {0} /\ B(e) \in Nat /\ B(e) < e
             /\ \A j \in ends : j < e => j <= B(e)
             /\ Width(t, ends, e) \in {1, 2}
             /\ Width(t, ends, e) = 2 <=> t[e] = LF /\ e > 1 /\ e - 1 \notin ends /\ t[e - 1] = CR
  <2>1. e \in Nat \ {0} /\ e \in 1..Len(t)
    BY <1>1, <1>3
  <2>2. B(e) \in ends \cup {0} /\ B(e) < e /\ \A j \in ends : j < e => j <= B(e)
    BY <1>1, <2>1, BeforeExists, Zenon
  <2>3. B(e) \in Nat
    BY <1>1, <2>2
  <2> QED BY <2>1, <2>2, <2>3 DEF Width
<1>4. ASSUME NEW e \in ends, NEW i \in 1..Len(t), In(i, e), t[i] \in {CR, LF}
      PROVE  FALSE
  <2> HIDE DEF ends, B
  <2>1. B(e) < i /\ i < e /\ e \in Nat
    BY <1>1, <1>3, <1>4 DEF B
  <2>2. i \notin ends
    BY <1>3, <2>1
  <2>3. t[i] = CR /\ i + 1 \in 1..Len(t) /\ t[i + 1] = LF
    BY <1>1, <1>4, <2>2 DEF EndsAt, ends
  <2>4. i + 1 \in ends
    BY <2>3 DEF EndsAt, ends
  <2>5. i + 1 = e
    BY <1>3, <2>1, <2>4
  <2>6. Width(t, ends, e) = 2
    BY <1>3, <2>2, <2>3, <2>5
  <2> QED BY <1>4, <2>5, <2>6
<1>5. ASSUME NEW i \in 1..Len(t), t[i] \notin {CR, LF}, ~ \A e \in ends : e < i
      PROVE  \E e \in ends : In(i, e) /\ \A d \in ends : In(i, d) => d = e
  <2> DEFINE S == {e \in ends : i <= e}
  <2>1. S # {} /\ S \in SUBSET (0..Len(t))
    BY <1>1, <1>5
  <2>2. PICK e \in S : \A j \in S : e <= j
    BY <1>1, <2>1, LeastExists
  <2> HIDE DEF ends, B
  <2>3. e \in ends /\ i < e
    BY <1>1, <1>2, <1>5, <2>2
  <2>4. B(e) < i
    <3>1. ASSUME B(e) \in ends, i <= B(e) PROVE FALSE
      BY <1>3, <2>2, <2>3, <3>1
    <3> QED BY <1>3, <2>3, <3>1
  <2>5. i <= e - Width(t, ends, e)
    BY <1>3, <1>5, <2>3
  <2>6. ASSUME NEW d \in ends, In(i, d) PROVE d = e
    <3>1. B(d) < i /\ i < d /\ d \in Nat /\ e \in Nat
      BY <1>1, <1>3, <2>3, <2>6 DEF B
    <3>2. ~ d < e
      BY <1>3, <2>2, <3>1
    <3>3. ~ e < d
      BY <1>3, <2>3, <3>1
    <3> QED BY <3>1, <3>2, <3>3
  <2> QED BY <2>3, <2>4, <2>5, <2>6 DEF B
<1> QED BY <1>4, <1>5

LEMMA LinesAt ==
  ASSUME NEW t \in Seq(Char), NEW cut, NEW e \in EndsAt(t, cut)
  PROVE  LinesOf(t, cut)[Number(EndsAt(t, cut), e)] = LineTo(t, EndsAt(t, cut), e)
<1> DEFINE ends == EndsAt(t, cut)
           k == Number(ends, e)
<1>1. Len(t) \in Nat /\ ends \in SUBSET (1..Len(t))
  BY EndsType
<1>2. k \in 1..Cardinality(ends)
  BY <1>1, Ranks, Zenon
<1>3. (CHOOSE d \in ends : Number(ends, d) = k) = e
  <2>1. \A d \in ends : Number(ends, d) = k => d = e
    BY <1>1, RanksDiffer, Zenon
  <2> QED BY <2>1
<1> QED BY <1>2, <1>3 DEF LinesOf, LinesEnding

(* A text cut after one of its line ends has the ends up to there.         *)
LEMMA EndsOfPrefix ==
  ASSUME NEW t \in Seq(Char), NEW cut, NEW p \in EndsAt(t, cut) \cup {0}
  PROVE  /\ p \in 0..Len(t)
         /\ EndsAt(SubSeq(t, 1, p), cut) = UpTo(EndsAt(t, cut), p)
<1>1. Len(t) \in Nat /\ p \in 0..Len(t)
  BY EndsType
<1>2. /\ Len(SubSeq(t, 1, p)) = p
      /\ \A i \in 1..p : SubSeq(t, 1, p)[i] = t[i]
  <2>1. /\ Len(SubSeq(t, 1, p)) = p
        /\ SubSeq(t, 1, p) = [i \in 1..p |-> t[i]]
    BY <1>1, TextPrefix, Zenon
  <2> QED BY <2>1
<1>3. ASSUME NEW i \in 1..p
      PROVE  i \in EndsAt(SubSeq(t, 1, p), cut) <=> i \in EndsAt(t, cut)
  <2>1. i \in 1..Len(t)
    BY <1>1
  <2>2. CASE i = p
    BY <1>1, <1>2, <2>1, <2>2 DEF EndsAt
  <2>3. CASE i < p
    <3>1. i + 1 \in 1..p /\ i + 1 \in 1..Len(t) /\ i # Len(t)
      BY <1>1, <2>3
    <3> QED BY <1>2, <2>1, <2>3, <3>1 DEF EndsAt
  <2> QED BY <1>1, <2>2, <2>3
<1>4. EndsAt(SubSeq(t, 1, p), cut) \subseteq 1..p
  BY <1>2 DEF EndsAt
<1>5. \A i \in EndsAt(t, cut) : i <= p <=> i \in 1..p
  BY <1>1, EndsType
<1> QED BY <1>1, <1>3, <1>4, <1>5 DEF UpTo

LEMMA LineOfPrefix ==
  ASSUME NEW t \in Seq(Char), NEW cut, NEW p \in EndsAt(t, cut) \cup {0},
         NEW e \in UpTo(EndsAt(t, cut), p)
  PROVE  LineTo(SubSeq(t, 1, p), UpTo(EndsAt(t, cut), p), e) = LineTo(t, EndsAt(t, cut), e)
<1> DEFINE ends == EndsAt(t, cut)
           s == SubSeq(t, 1, p)
           b == Before(ends, e)
<1>1. /\ Len(t) \in Nat /\ ends \in SUBSET (1..Len(t)) /\ p \in 0..Len(t)
      /\ e \in ends /\ e \in 1..p /\ e \in Nat \ {0}
  BY EndsType DEF UpTo
<1>2. s \in Seq(Char) /\ Len(s) = p /\ \A i \in 1..p : s[i] = t[i]
  <2>1. s \in Seq(Char) /\ Len(s) = p /\ s = [i \in 1..p |-> t[i]]
    BY <1>1, TextPrefix, Zenon
  <2> QED BY <2>1
<1>3. /\ b \in ends \cup {0} /\ b < e /\ \A j \in ends : j < e => j <= b
  BY <1>1, BeforeExists, Zenon
<1> HIDE DEF ends, s, b
<1>4. Before(UpTo(ends, p), e) = b
  <2>1. b \in UpTo(ends, p) \cup {0} /\ \A i \in UpTo(ends, p) : i < e => i <= b
    BY <1>1, <1>3 DEF UpTo
  <2>2. UpTo(ends, p) \in SUBSET (1..Len(t))
    BY <1>1 DEF UpTo
  <2> QED BY <1>1, <1>3, <2>1, <2>2, EndBefore, Zenon
<1>5. Width(s, UpTo(ends, p), e) = Width(t, ends, e)
  <2>1. e - 1 \in UpTo(ends, p) <=> e - 1 \in ends
    BY <1>1 DEF UpTo
  <2>2. e > 1 => e - 1 \in 1..p
    BY <1>1
  <2> QED BY <1>1, <1>2, <2>1, <2>2 DEF Width
<1>6. Width(t, ends, e) \in {1, 2} /\ e - Width(t, ends, e) <= p
  BY <1>1 DEF Width
<1>7. Substring(s, b, e - Width(t, ends, e)) = Substring(t, b, e - Width(t, ends, e))
  <2> DEFINE q == e - Width(t, ends, e)
  <2>1. b \in Nat /\ q \in Int /\ q <= p
    BY <1>1, <1>3, <1>6
  <2>2. CASE q < b + 1
    BY <2>1, <2>2, SubSeqEmpty DEF Substring
  <2>3. CASE b <= q
    <3> HIDE DEF q
    <3>2. q \in Nat /\ q <= Len(t) /\ q <= Len(s)
      BY <1>1, <1>2, <2>1, <2>3
    <3>3. \A i \in 1..(q - b) : s[b + i] = t[b + i]
      BY <1>2, <2>1, <2>3
    <3>4. Substring(s, b, q) = [i \in 1..(q - b) |-> s[b + i]]
      BY <1>2, <2>1, <2>3, <3>2, Substrings, Zenon
    <3>5. Substring(t, b, q) = [i \in 1..(q - b) |-> t[b + i]]
      BY <2>1, <2>3, <3>2, Substrings, Zenon
    <3>6. Substring(s, b, q) = Substring(t, b, q)
      BY <3>3, <3>4, <3>5
    <3> QED BY <3>6 DEF q
  <2> QED BY <2>1, <2>2, <2>3
<1> QED BY <1>4, <1>5, <1>7 DEF LineTo, ends, s, b

(* Its lines are the first lines of the text.                              *)
LEMMA LinesOfPrefix ==
  ASSUME NEW t \in Seq(Char), NEW cut, NEW p \in EndsAt(t, cut) \cup {0}
  PROVE  /\ Number(EndsAt(t, cut), p) \in 0..Cardinality(EndsAt(t, cut))
         /\ Cardinality(EndsAt(t, cut)) \in Nat
         /\ LinesOf(SubSeq(t, 1, p), cut)
              = [k \in 1..Number(EndsAt(t, cut), p) |-> LinesOf(t, cut)[k]]
<1> DEFINE ends == EndsAt(t, cut)
           s == SubSeq(t, 1, p)
<1>1. Len(t) \in Nat /\ ends \in SUBSET (1..Len(t)) /\ p \in 0..Len(t) /\ p \in Nat
  BY EndsType
<1>2. s \in Seq(Char) /\ EndsAt(s, cut) = UpTo(ends, p)
  BY <1>1, EndsOfPrefix, TextPrefix, Zenon
<1>3. UpTo(ends, p) \in SUBSET (1..Len(t)) /\ Number(ends, p) = Cardinality(UpTo(ends, p))
  BY <1>1 DEF UpTo, Number
<1>4. Number(ends, p) \in 0..Cardinality(ends) /\ Cardinality(ends) \in Nat
  BY <1>1, Ranks, Zenon
<1>5. ASSUME NEW k \in 1..Number(ends, p)
      PROVE  LinesOf(s, cut)[k] = LinesOf(t, cut)[k]
  <2>1. PICK e \in UpTo(ends, p) : Number(UpTo(ends, p), e) = k
    BY <1>1, <1>3, Ranks, Zenon
  <2>2. Number(UpTo(ends, p), e) = Number(ends, e)
    <3>1. {i \in UpTo(ends, p) : i <= e} = {i \in ends : i <= e}
      BY <1>1 DEF UpTo
    <3> QED BY <3>1 DEF Number
  <2>3. LinesOf(s, cut)[k] = LineTo(s, UpTo(ends, p), e)
    BY <1>2, <2>1, LinesAt, Zenon
  <2>4. LineTo(s, UpTo(ends, p), e) = LineTo(t, ends, e)
    BY LineOfPrefix, Zenon
  <2>5. e \in ends
    BY DEF UpTo
  <2>6. LinesOf(t, cut)[k] = LineTo(t, ends, e)
    BY <2>1, <2>2, <2>5, LinesAt, Zenon
  <2> QED BY <2>3, <2>4, <2>6
<1>6. LinesOf(s, cut) = [k \in 1..Number(ends, p) |-> LinesOf(s, cut)[k]]
  BY <1>2, <1>3 DEF LinesOf, LinesEnding
<1> QED BY <1>4, <1>5, <1>6

LEMMA AppendTable ==
  ASSUME NEW L, NEW n \in Nat
  PROVE  Append([k \in 1..n |-> L[k]], L[n + 1]) = [k \in 1..(n + 1) |-> L[k]]
<1> DEFINE S == {L[k] : k \in 1..(n + 1)}
           s == [k \in 1..n |-> L[k]]
<1>1. s \in Seq(S) /\ Len(s) = n /\ L[n + 1] \in S
  <2>1. \A k \in 1..(n + 1) : L[k] \in S
    OBVIOUS
  <2> HIDE DEF S
  <2>2. s \in [1..n -> S] /\ n + 1 \in 1..(n + 1)
    BY <2>1
  <2> QED BY <2>1, <2>2, SeqDef
<1> HIDE DEF S, s
<1>2. /\ Append(s, L[n + 1]) \in Seq(S)
      /\ Len(Append(s, L[n + 1])) = n + 1
      /\ \A k \in 1..n : Append(s, L[n + 1])[k] = s[k]
      /\ Append(s, L[n + 1])[n + 1] = L[n + 1]
  BY <1>1, AppendProperties
<1>3. Append(s, L[n + 1]) = [k \in 1..(n + 1) |-> Append(s, L[n + 1])[k]]
  BY <1>2, LenProperties
<1>4. \A k \in 1..(n + 1) : Append(s, L[n + 1])[k] = L[k]
  <2>1. \A k \in 1..n : s[k] = L[k]
    BY DEF s
  <2> QED BY <1>2, <2>1
<1> QED BY <1>3, <1>4 DEF s

-----------------------------------------------------------------------------
(* Type correctness, for any size of groups.  The chunk is the end of what *)
(* was delivered, so no longer than the text.                              *)
TypeInv ==
  /\ TypeOK
  /\ Len(chunk) <= delivered
  /\ chunk = Substring(text, delivered - Len(chunk), delivered)
  /\ readerDone => Done
  /\ finished => readerDone

LEMMA InitTypeInv == Init => TypeInv
<1> SUFFICES ASSUME Init PROVE TypeInv
  OBVIOUS
<1>1. text \in Seq(Char) /\ Len(text) <= MaxLength /\ Len(text) \in Nat
  BY TextDef, LenProperties DEF Init
<1>2. /\ Substring(text, 0, delivered) \in Seq(Char)
      /\ Len(Substring(text, 0, delivered)) = delivered - 0
  <2>1. 0 \in Nat /\ delivered \in Nat /\ 0 <= delivered /\ delivered <= Len(text)
    BY <1>1 DEF Init
  <2> QED BY <1>1, <2>1, Substrings, Zenon
<1>3. chunk \in Seq(Char) /\ Len(chunk) = delivered /\ delivered \in 0..Len(text)
  BY <1>1, <1>2 DEF Init
<1>4. chunk \in Text
  BY <1>1, <1>3, TextDef, LineAssumption
<1>5. delivered - Len(chunk) = 0 /\ 0 \in 0..(lineGroupSize - 1)
  BY <1>1, <1>3, LineAssumption
<1>6. <<>> \in Seq(Text)
  BY EmptySeq
<1>7. readerDone \in BOOLEAN /\ (readerDone => text = <<>>)
  <2>1. readerDone = FALSE \/ readerDone = (text = <<>>)
    BY DEF Init
  <2> QED BY <2>1, Zenon
<1>8. readerDone => Done
  <2>1. text = <<>> => Len(text) = 0
    BY EmptySeq
  <2> QED BY <1>1, <1>3, <1>7, <2>1 DEF Done
<1>9. /\ text \in Text /\ cuts = {} /\ chunk = Substring(text, 0, delivered)
      /\ startIndex = 0 /\ lastIndex = 0 /\ linesRead = 0 /\ yielded = <<>> /\ finished = FALSE
  BY DEF Init
<1>10. TypeOK
  <2>1. delivered \in 0..Len(text) /\ cuts \in SUBSET (0..delivered)
    BY <1>3, <1>9
  <2>2. startIndex \in 0..Len(chunk) /\ lastIndex \in startIndex..Len(chunk)
    BY <1>1, <1>3, <1>9
  <2>3. readerDone \in BOOLEAN /\ finished \in BOOLEAN
    BY <1>7, <1>9
  <2> QED BY <1>4, <1>5, <1>6, <1>9, <2>1, <2>2, <2>3 DEF TypeOK
<1>11. Len(chunk) <= delivered
  BY <1>1, <1>3
<1> QED BY <1>5, <1>8, <1>9, <1>10, <1>11 DEF TypeInv

(* The line end that is found, and what is yielded there.                  *)
LEMMA IndexType ==
  ASSUME TypeInv, LineEnds # {}
  PROVE  /\ Index \in LineEnds
         /\ \A j \in LineEnds : Index <= j
         /\ Index \in startIndex..(Len(chunk) - 1)
         /\ Stop(Index) \in (Index + 1)..Len(chunk)
<1>1. chunk \in Seq(Char) /\ Len(chunk) \in Nat
  BY TextDef, LenProperties DEF TypeInv, TypeOK
<1>2. LineEnds \in SUBSET Nat /\ startIndex \in Nat /\ lastIndex \in Nat /\ startIndex <= lastIndex
  BY <1>1 DEF LineEnds, TypeInv, TypeOK
<1>3. \E i \in LineEnds : \A j \in LineEnds : i <= j
  <2>1. LineEnds \in SUBSET (0..Len(chunk))
    BY <1>1, <1>2 DEF LineEnds
  <2> QED BY <1>1, <2>1, LeastExists
<1>4. Index \in LineEnds /\ \A j \in LineEnds : Index <= j
  BY <1>3 DEF Index
<1> QED BY <1>1, <1>2, <1>4 DEF LineEnds, Stop

LEMMA LineEndTypeInv == ASSUME TypeInv, LineEnd PROVE TypeInv'
<1>1. chunk \in Seq(Char) /\ Len(chunk) \in Nat /\ Len(chunk) <= MaxLength
  BY TextDef, LenProperties DEF TypeInv, TypeOK
<1>2. /\ Index \in startIndex..(Len(chunk) - 1)
      /\ Stop(Index) \in (Index + 1)..Len(chunk)
      /\ startIndex \in Nat
  BY <1>1, IndexType DEF LineEnd, TypeInv, TypeOK
<1>3. Substring(chunk, startIndex, Index) \in Text
  <2>1. Index \in Nat /\ startIndex <= Index /\ Index <= Len(chunk)
    BY <1>1, <1>2
  <2>2. /\ Substring(chunk, startIndex, Index) \in Seq(Char)
        /\ Len(Substring(chunk, startIndex, Index)) = Index - startIndex
    BY <1>1, <1>2, <2>1, Substrings, Zenon
  <2>3. Len(Substring(chunk, startIndex, Index)) <= MaxLength
    BY <1>1, <1>2, <2>1, <2>2, LineAssumption
  <2> QED BY <2>2, <2>3, TextDef
<1>4. /\ startIndex' \in 0..Len(chunk)
      /\ lastIndex' \in startIndex'..Len(chunk)
      /\ linesRead' \in 0..(lineGroupSize - 1)
      /\ yielded' \in Seq(Text)
  <2>1. CASE GroupComplete
    <3>1. yielded \in Seq(Text)
      BY DEF TypeInv, TypeOK
    <3>2. Append(yielded, Substring(chunk, startIndex, Index)) \in Seq(Text)
      BY <1>3, <3>1, AppendProperties
    <3>3. /\ lastIndex' = Stop(Index) /\ startIndex' = lastIndex' /\ linesRead' = 0
          /\ yielded' = Append(yielded, Substring(chunk, startIndex, Index))
      BY <2>1 DEF LineEnd
    <3>4. Stop(Index) \in 0..Len(chunk) /\ Stop(Index) \in Stop(Index)..Len(chunk)
      BY <1>1, <1>2
    <3> QED BY <3>2, <3>3, <3>4, LineAssumption
  <2>2. CASE ~GroupComplete
    BY <1>1, <1>2, <2>2, LineAssumption DEF LineEnd, TypeInv, TypeOK, GroupComplete
  <2> QED BY <2>1, <2>2
<1> QED BY <1>4 DEF LineEnd, TypeInv, TypeOK, Done

(* Where a text was cut in three, the last two parts are a substring too.  *)
LEMMA Joined ==
  ASSUME NEW s \in Seq(Char), NEW a \in Nat, NEW b \in Nat, NEW c \in Nat,
         a <= b, b <= c, c <= Len(s)
  PROVE  Substring(s, a, b) \o Substring(s, b, c) = Substring(s, a, c)
<1> DEFINE u == Substring(s, a, b)
           v == Substring(s, b, c)
<1>1. Len(s) \in Nat /\ b <= Len(s) /\ a <= c
  BY LenProperties
<1>2. u \in Seq(Char) /\ Len(u) = b - a /\ u = [i \in 1..(b - a) |-> s[a + i]]
  BY <1>1, Substrings, Zenon
<1>3. v \in Seq(Char) /\ Len(v) = c - b /\ v = [i \in 1..(c - b) |-> s[b + i]]
  BY <1>1, Substrings, Zenon
<1>4. Substring(s, a, c) = [i \in 1..(c - a) |-> s[a + i]]
  BY <1>1, Substrings, Zenon
<1> HIDE DEF u, v
<1>5. /\ u \o v \in Seq(Char)
      /\ Len(u \o v) = c - a
      /\ \A i \in 1..(c - a) : (u \o v)[i] = IF i <= b - a THEN u[i] ELSE v[i - (b - a)]
  <2>1. /\ u \o v \in Seq(Char)
        /\ Len(u \o v) = Len(u) + Len(v)
        /\ \A i \in 1..(Len(u) + Len(v)) : (u \o v)[i] = IF i <= Len(u) THEN u[i] ELSE v[i - Len(u)]
    <3>1. u \in Seq(Char) /\ v \in Seq(Char)
      BY <1>2, <1>3
    <3> QED BY <3>1, ConcatProperties
  <2>2. (b - a) + (c - b) = c - a
    OBVIOUS
  <2> QED BY <1>2, <1>3, <2>1, <2>2
<1>6. \A i \in 1..(c - a) : (u \o v)[i] = s[a + i]
  <2> TAKE i \in 1..(c - a)
  <2>1. CASE i <= b - a
    BY <1>2, <1>5, <2>1
  <2>2. CASE ~ i <= b - a
    <3>1. i - (b - a) \in 1..(c - b) /\ b + (i - (b - a)) = a + i
      BY <2>2
    <3>2. v[i - (b - a)] = s[b + (i - (b - a))]
      BY <1>3, <3>1
    <3> QED BY <1>5, <2>2, <3>1, <3>2
  <2> QED BY <2>1, <2>2
<1>7. u \o v = [i \in 1..(c - a) |-> (u \o v)[i]]
  BY <1>5, LenProperties
<1> QED BY <1>4, <1>6, <1>7 DEF u, v

(* What is kept of a chunk is what is not consumed yet of the text.        *)
LEMMA RemainderIs ==
  ASSUME TypeInv
  PROVE  /\ text \in Seq(Char) /\ Len(text) \in Nat /\ delivered \in 0..Len(text)
         /\ Len(chunk) \in 0..delivered /\ startIndex \in 0..Len(chunk)
         /\ Consumed \in 0..delivered
         /\ Consumed = (delivered - Len(chunk)) + startIndex
         /\ Remainder = Substring(text, Consumed, delivered)
         /\ \A i \in 1..Len(chunk) : chunk[i] = text[(delivered - Len(chunk)) + i]
<1> DEFINE base == delivered - Len(chunk)
<1>1. /\ text \in Seq(Char) /\ Len(text) \in Nat /\ delivered \in 0..Len(text)
      /\ chunk \in Seq(Char) /\ Len(chunk) \in 0..delivered /\ startIndex \in 0..Len(chunk)
  BY TextDef, LenProperties DEF TypeInv, TypeOK
<1>2. Consumed \in 0..delivered /\ Consumed = base + startIndex
  BY <1>1 DEF Consumed
<1>3. base \in Nat /\ delivered \in Nat /\ base <= delivered /\ delivered <= Len(text)
  BY <1>1
<1>4. chunk = [i \in 1..(delivered - base) |-> text[base + i]]
  <2>1. chunk = Substring(text, base, delivered)
    BY DEF TypeInv
  <2> HIDE DEF base
  <2> QED BY <1>1, <1>3, <2>1, Substrings, Zenon
<1>5. \A i \in 1..Len(chunk) : chunk[i] = text[base + i]
  BY <1>1, <1>4
<1>6. Remainder = Substring(text, Consumed, delivered)
  <2> DEFINE m == Len(chunk) - startIndex
  <2>1. Remainder = [i \in 1..m |-> chunk[startIndex + i]]
    <3>1. startIndex \in Nat /\ Len(chunk) \in Nat /\ startIndex <= Len(chunk) /\ Len(chunk) <= Len(chunk)
      BY <1>1
    <3> QED BY <1>1, <3>1, Substrings, Zenon DEF Remainder
  <2>2. Substring(text, Consumed, delivered) = [i \in 1..(delivered - Consumed) |-> text[Consumed + i]]
    <3>1. Consumed \in Nat /\ Consumed <= delivered
      BY <1>1, <1>2
    <3> QED BY <1>1, <1>3, <3>1, Substrings, Zenon
  <2>3. delivered - Consumed = m
    BY <1>1, <1>2
  <2>4. \A i \in 1..m : chunk[startIndex + i] = text[Consumed + i]
    <3> TAKE i \in 1..m
    <3>1. startIndex + i \in 1..Len(chunk) /\ base + (startIndex + i) = Consumed + i
      BY <1>1, <1>2
    <3>2. chunk[startIndex + i] = text[base + (startIndex + i)]
      BY <1>5, <3>1
    <3> QED BY <3>1, <3>2
  <2> QED BY <2>1, <2>2, <2>3, <2>4
<1> QED BY <1>1, <1>2, <1>5, <1>6

LEMMA NextChunkTypeInv ==
  ASSUME TypeInv, NextChunk
  PROVE  TypeInv' /\ Consumed' = Consumed /\ delivered' \in delivered..Len(text)
<1>1. PICK to \in delivered..Len(text) :
        /\ chunk' = Remainder \o Substring(text, delivered, to)
        /\ delivered' = to
  BY DEF NextChunk
<1>2. /\ text \in Seq(Char) /\ Len(text) \in Nat /\ delivered \in 0..Len(text)
      /\ Consumed \in 0..delivered
      /\ Remainder = Substring(text, Consumed, delivered)
  BY RemainderIs
<1>3. /\ Consumed \in Nat /\ delivered \in Nat /\ to \in Nat /\ Consumed <= to
      /\ Consumed <= delivered /\ delivered <= to /\ to <= Len(text)
  BY <1>2
<1>4. chunk' = Substring(text, Consumed, to)
  BY <1>1, <1>2, <1>3, Joined, Zenon
<1>5. chunk' \in Seq(Char) /\ Len(chunk') = to - Consumed
  BY <1>2, <1>3, <1>4, Substrings, Zenon
<1>6. delivered' - Len(chunk') = Consumed /\ Len(chunk') <= delivered' /\ Len(chunk') \in Nat
  BY <1>1, <1>3, <1>5
<1>7. Consumed' = Consumed
  <2>1. startIndex' = 0
    BY DEF NextChunk
  <2> QED BY <1>1, <1>3, <1>5, <2>1 DEF Consumed
<1>8. chunk' \in Text
  <2>1. Len(chunk') <= MaxLength
    BY <1>2, <1>3, <1>5, TextDef, LineAssumption DEF TypeInv, TypeOK
  <2> QED BY <1>5, <2>1, TextDef
<1>9. cuts' \in SUBSET (0..delivered') /\ delivered' \in 0..Len(text)
  BY <1>1, <1>2 DEF NextChunk, TypeInv, TypeOK
<1>10. readerDone' \in BOOLEAN /\ (readerDone' => Done')
  <2>1. readerDone' => delivered = Len(text)
    BY DEF NextChunk, Done
  <2>2. delivered = Len(text) => delivered' = Len(text)
    BY <1>1, <1>3
  <2>3. text' = text
    BY DEF NextChunk
  <2> QED BY <2>1, <2>2, <2>3 DEF NextChunk, Done
<1>11. text' = text /\ startIndex' = 0 /\ lastIndex' = 0 /\ UNCHANGED <<linesRead, yielded, finished>>
  BY DEF NextChunk
<1>12. TypeOK'
  BY <1>6, <1>8, <1>9, <1>10, <1>11 DEF TypeInv, TypeOK
<1>13. chunk' = Substring(text', delivered' - Len(chunk'), delivered')
  BY <1>1, <1>4, <1>6, <1>11
<1>14. ~finished'
  BY DEF NextChunk
<1> QED BY <1>1, <1>6, <1>7, <1>10, <1>12, <1>13, <1>14 DEF TypeInv

LEMMA FinishTypeInv == ASSUME TypeInv, Finish PROVE TypeInv'
<1>1. Remainder \in Text
  <2>1. chunk \in Seq(Char) /\ Len(chunk) \in Nat /\ Len(chunk) <= MaxLength
    BY TextDef, LenProperties DEF TypeInv, TypeOK
  <2>2. startIndex \in Nat /\ startIndex <= Len(chunk) /\ Len(chunk) <= Len(chunk)
    BY <2>1 DEF TypeInv, TypeOK
  <2>3. Remainder \in Seq(Char) /\ Len(Remainder) = Len(chunk) - startIndex
    BY <2>1, <2>2, Substrings, Zenon DEF Remainder
  <2>4. Len(Remainder) <= MaxLength
    BY <2>1, <2>2, <2>3, LineAssumption
  <2> QED BY <2>3, <2>4, TextDef
<1>2. yielded' \in Seq(Text)
  BY <1>1, AppendProperties DEF Finish, TypeInv, TypeOK
<1> QED BY <1>2 DEF Finish, TypeInv, TypeOK, Done

LEMMA SpecTypeInv == Spec => []TypeInv
<1>1. TypeInv /\ [Next]_vars => TypeInv'
  <2> SUFFICES ASSUME TypeInv, [Next]_vars PROVE TypeInv'
    OBVIOUS
  <2>1. CASE LineEnd
    BY <2>1, LineEndTypeInv
  <2>2. CASE NextChunk
    BY <2>2, NextChunkTypeInv
  <2>3. CASE Finish
    BY <2>3, FinishTypeInv
  <2>4. CASE UNCHANGED vars
    BY <2>4 DEF vars, TypeInv, TypeOK, Done
  <2> QED BY <2>1, <2>2, <2>3, <2>4 DEF Next
<1> QED BY <1>1, InitTypeInv, PTL DEF Spec

(* Every variable keeps its type, whatever the size of the groups.         *)
THEOREM TypeCorrect == Spec => []TypeOK
<1>1. TypeInv => TypeOK
  BY DEF TypeInv
<1> QED BY <1>1, SpecTypeInv, PTL

-----------------------------------------------------------------------------
(* Groups of one line.  The text is consumed up to one of its line ends,   *)
(* what was yielded are the lines up to there, and a chunk that ended      *)
(* within what is kept did not end in a line end: it would be consumed.    *)
AtEnd == Consumed \in EndsAt(Received, cuts) \cup {0}

CutsKept == \A i \in cuts : Consumed < i => text[i] \notin {CR, LF}

LinesInv ==
  /\ startIndex = lastIndex
  /\ AtEnd
  /\ CutsKept
  /\ NothingLost

IInv == TypeInv /\ (lineGroupSize = 1 => LinesInv)

LEMMA ReceivedIs ==
  ASSUME TypeInv
  PROVE  /\ Received \in Seq(Char) /\ Len(Received) = delivered
         /\ \A i \in 1..delivered : Received[i] = text[i]
         /\ \A p \in 0..delivered : SubSeq(Received, 1, p) = SubSeq(text, 1, p)
<1>1. text \in Seq(Char) /\ Len(text) \in Nat /\ delivered \in 0..Len(text)
  BY RemainderIs
<1>2. /\ Received \in Seq(Char) /\ Len(Received) = delivered
      /\ Received = [i \in 1..delivered |-> text[i]]
  BY <1>1, TextPrefix, Zenon DEF Received
<1>3. \A i \in 1..delivered : Received[i] = text[i]
  BY <1>2
<1>4. ASSUME NEW p \in 0..delivered
      PROVE  SubSeq(Received, 1, p) = SubSeq(text, 1, p)
  <2>1. p \in 0..Len(text) /\ p \in 0..Len(Received)
    BY <1>1, <1>2
  <2>2. SubSeq(Received, 1, p) = [i \in 1..p |-> Received[i]]
    BY <1>2, <2>1, TextPrefix, Zenon
  <2>3. SubSeq(text, 1, p) = [i \in 1..p |-> text[i]]
    BY <1>1, <2>1, TextPrefix, Zenon
  <2>4. \A i \in 1..p : Received[i] = text[i]
    BY <1>1, <1>3
  <2> QED BY <2>2, <2>3, <2>4
<1> QED BY <1>2, <1>3, <1>4

(* Nothing after what was consumed ends a line, where the iterator finds   *)
(* no line end in its chunk.                                               *)
LEMMA NoneKept ==
  ASSUME TypeInv, startIndex = lastIndex, LineEnds = {}
  PROVE  \A i \in 1..delivered : Consumed < i => text[i] \notin {CR, LF}
<1> SUFFICES ASSUME NEW i \in 1..delivered, Consumed < i, text[i] \in {CR, LF}
             PROVE  FALSE
  OBVIOUS
<1> DEFINE base == delivered - Len(chunk)
           j == i - base - 1
<1>1. /\ Len(text) \in Nat /\ delivered \in 0..Len(text)
      /\ Len(chunk) \in 0..delivered /\ startIndex \in 0..Len(chunk)
      /\ Consumed = base + startIndex
      /\ \A k \in 1..Len(chunk) : chunk[k] = text[base + k]
  BY RemainderIs
<1>2. j \in startIndex..(Len(chunk) - 1) /\ j + 1 \in 1..Len(chunk) /\ base + (j + 1) = i
  BY <1>1
<1>3. chunk[j + 1] = text[i]
  BY <1>1, <1>2
<1> HIDE DEF j
<1>4. j \in LineEnds
  BY <1>2, <1>3 DEF LineEnds
<1> QED BY <1>4

(* The line end that is found is the next of the text received, and the    *)
(* width of it is what the iterator takes.                                 *)
NextEnd == (delivered - Len(chunk)) + Stop(Index)

LEMMA NextEndFound ==
  ASSUME TypeInv, startIndex = lastIndex, AtEnd, CutsKept, LineEnds # {}
  PROVE  LET ends == EndsAt(Received, cuts)
         IN  /\ NextEnd \in ends
             /\ Consumed < NextEnd
             /\ \A i \in ends : Consumed < i => NextEnd <= i
             /\ NextEnd - Width(Received, ends, NextEnd) = (delivered - Len(chunk)) + Index
<1> DEFINE base == delivered - Len(chunk)
           ends == EndsAt(Received, cuts)
           e == NextEnd
           x == base + Index + 1
<1>1. /\ Len(text) \in Nat /\ delivered \in 0..Len(text)
      /\ Len(chunk) \in 0..delivered /\ startIndex \in 0..Len(chunk)
      /\ Consumed = base + startIndex
      /\ \A k \in 1..Len(chunk) : chunk[k] = text[base + k]
  BY RemainderIs
<1>2. /\ Index \in LineEnds /\ \A j \in LineEnds : Index <= j
      /\ Index \in startIndex..(Len(chunk) - 1)
  BY IndexType
<1>3. /\ Len(Received) = delivered
      /\ \A i \in 1..delivered : Received[i] = text[i]
  BY ReceivedIs
<1>4. /\ x \in 1..delivered /\ Consumed < x /\ Index + 1 \in 1..Len(chunk)
      /\ base + (Index + 1) = x
  BY <1>1, <1>2
<1>5. chunk[Index + 1] = Received[x] /\ Received[x] \in {CR, LF}
  <2>1. chunk[Index + 1] \in {CR, LF}
    BY <1>2 DEF LineEnds
  <2>2. chunk[Index + 1] = text[x] /\ text[x] = Received[x]
    BY <1>1, <1>3, <1>4
  <2> QED BY <2>1, <2>2
(* No character between is a line end.                                     *)
<1>6. ASSUME NEW i \in 1..delivered, Consumed < i, i < x
      PROVE  Received[i] \notin {CR, LF}
  <2> SUFFICES ASSUME Received[i] \in {CR, LF} PROVE FALSE
    OBVIOUS
  <2> DEFINE j == i - base - 1
  <2>1. /\ j \in startIndex..(Len(chunk) - 1) /\ j + 1 \in 1..Len(chunk)
        /\ base + (j + 1) = i /\ j < Index
    BY <1>1, <1>2, <1>4, <1>6
  <2>2. chunk[j + 1] = Received[i]
    BY <1>1, <1>3, <2>1
  <2> HIDE DEF j
  <2>3. j \in LineEnds
    BY <2>1, <2>2 DEF LineEnds
  <2> QED BY <1>1, <1>2, <2>1, <2>3
<1>7. Index + 1 < Len(chunk) =>
        x + 1 \in 1..delivered /\ chunk[Index + 2] = Received[x + 1]
  <2> SUFFICES ASSUME Index + 1 < Len(chunk)
               PROVE  x + 1 \in 1..delivered /\ chunk[Index + 2] = Received[x + 1]
    OBVIOUS
  <2>1. Index + 2 \in 1..Len(chunk) /\ base + (Index + 2) = x + 1 /\ x + 1 \in 1..delivered
    BY <1>1, <1>2
  <2>2. chunk[Index + 2] = text[x + 1] /\ text[x + 1] = Received[x + 1]
    BY <1>1, <1>3, <2>1
  <2> QED BY <2>1, <2>2
<1>8. Index + 1 < Len(chunk) <=> x < delivered
  BY <1>1, <1>2
<1>9. \A i \in ends : i \in 1..delivered /\ Received[i] \in {CR, LF}
  BY <1>3 DEF EndsAt
<1>10. \A i \in ends : Consumed < i => x <= i
  <2> SUFFICES ASSUME NEW i \in ends, Consumed < i PROVE x <= i
    OBVIOUS
  <2>1. i \in 1..delivered /\ Received[i] \in {CR, LF}
    BY <1>9
  <2>2. ~ i < x
    BY <1>6, <2>1
  <2> QED BY <1>1, <1>4, <2>1, <2>2
<1> HIDE DEF x, base
<1>11. x \in Nat /\ delivered \in Nat /\ Consumed \in Nat /\ Index \in Nat
  <2>1. Consumed \in 0..delivered
    BY RemainderIs
  <2> QED BY <1>1, <1>2, <1>4, <2>1
(* A pair in the chunk.                                                    *)
<1>12. CASE Received[x] = CR /\ x < delivered /\ Received[x + 1] = LF
  <2>1. Stop(Index) = Index + 2
    BY <1>5, <1>7, <1>8, <1>12 DEF Stop
  <2>2. e = x + 1 /\ e - 2 = base + Index
    BY <1>1, <1>11, <2>1 DEF NextEnd, x, base
  <2>3. e \in ends
    BY <1>3, <1>11, <1>12, <2>2 DEF EndsAt
  <2>4. x \notin cuts
    <3>1. text[x] = Received[x]
      BY <1>3, <1>4
    <3> QED BY <1>4, <1>12, <3>1 DEF CutsKept
  <2>5. x \notin ends
    BY <1>3, <1>11, <1>12, <2>4, LineAssumption DEF EndsAt
  <2>6. \A i \in ends : Consumed < i => e <= i
    <3> SUFFICES ASSUME NEW i \in ends, Consumed < i PROVE e <= i
      OBVIOUS
    <3>1. x <= i /\ i # x /\ i \in Nat
      BY <1>9, <1>10, <2>5
    <3> QED BY <1>11, <2>2, <3>1
  <2>7. Width(Received, ends, e) = 2
    <3>1. e - 1 = x /\ e > 1
      BY <1>4, <1>11, <2>2
    <3> QED BY <1>12, <2>2, <2>5, <3>1 DEF Width
  <2>8. Consumed < e
    BY <1>4, <1>11, <2>2
  <2> QED BY <2>2, <2>3, <2>6, <2>7, <2>8 DEF base
(* One character.                                                          *)
<1>13. CASE ~ (Received[x] = CR /\ x < delivered /\ Received[x + 1] = LF)
  <2>1. Stop(Index) = Index + 1
    BY <1>5, <1>7, <1>8, <1>13 DEF Stop
  <2>2. e = x /\ e - 1 = base + Index
    <3>1. base \in Int
      BY <1>1, <1>11 DEF base
    <3>2. e = base + (Index + 1) /\ x = base + Index + 1
      BY <2>1 DEF NextEnd, x, base
    <3> QED BY <1>11, <3>1, <3>2
  <2>3. x \in ends
    <3>1. CASE Received[x] = LF
      BY <1>3, <1>4, <3>1 DEF EndsAt
    <3>2. CASE Received[x] = CR
      <4>1. x = delivered \/ Received[x + 1] # LF
        BY <1>4, <1>11, <1>13, <3>2
      <4> QED BY <1>3, <1>4, <3>2, <4>1 DEF EndsAt
    <3> QED BY <1>5, <3>1, <3>2
  <2>4. Width(Received, ends, x) = 1
    <3> SUFFICES ASSUME Received[x] = LF, x > 1, x - 1 \notin ends, Received[x - 1] = CR
                 PROVE  FALSE
      BY DEF Width
    <3>1. x - 1 \in 1..delivered /\ x - 1 < x
      BY <1>4, <1>11
    <3>2. ~ Consumed < x - 1
      BY <1>6, <3>1
    <3>3. Consumed = x - 1
      BY <1>4, <1>11, <3>2
    <3> QED BY <1>11, <3>1, <3>3 DEF AtEnd
  <2>5. \A i \in ends : Consumed < i => e <= i
    BY <1>10, <2>2
  <2> QED BY <1>4, <2>2, <2>3, <2>4, <2>5 DEF base
<1> QED BY <1>12, <1>13

(* What is yielded at a line end is the next line.                         *)
LEMMA LineFound ==
  ASSUME TypeInv, startIndex = lastIndex, AtEnd, CutsKept, LineEnds # {}
  PROVE  LinesOf(SubSeq(text, 1, NextEnd), cuts)
           = Append(LinesOf(SubSeq(text, 1, Consumed), cuts), Substring(chunk, startIndex, Index))
<1> DEFINE base == delivered - Len(chunk)
           ends == EndsAt(Received, cuts)
           e == NextEnd
           n == Number(ends, Consumed)
           L == LinesOf(Received, cuts)
<1>1. /\ Len(text) \in Nat /\ delivered \in 0..Len(text) /\ text \in Seq(Char)
      /\ Len(chunk) \in 0..delivered /\ startIndex \in 0..Len(chunk)
      /\ Consumed \in 0..delivered /\ Consumed = base + startIndex
      /\ \A k \in 1..Len(chunk) : chunk[k] = text[base + k]
  BY RemainderIs
<1>2. /\ Received \in Seq(Char) /\ Len(Received) = delivered
      /\ \A i \in 1..delivered : Received[i] = text[i]
      /\ \A p \in 0..delivered : SubSeq(Received, 1, p) = SubSeq(text, 1, p)
  BY ReceivedIs
<1>3. /\ e \in ends /\ Consumed < e /\ \A i \in ends : Consumed < i => e <= i
      /\ e - Width(Received, ends, e) = base + Index
  BY NextEndFound
<1>4. Index \in startIndex..(Len(chunk) - 1)
  BY IndexType
<1>5. delivered \in Nat /\ ends \in SUBSET (1..delivered) /\ Consumed \in ends \cup {0}
  BY <1>1, <1>2, EndsType DEF AtEnd
<1> HIDE DEF ends, e, L, n
<1>6. Number(ends, e) = n + 1
  <2>1. Consumed \in Nat
    BY <1>1
  <2> QED BY <1>3, <1>5, <2>1, NextRank, Zenon DEF n
<1>7. n \in Nat
  <2>1. n \in 0..Cardinality(ends) /\ Cardinality(ends) \in Nat
    BY <1>2, <1>5, LinesOfPrefix, Zenon DEF ends, n
  <2> QED BY <2>1
<1>8. LinesOf(SubSeq(text, 1, Consumed), cuts) = [k \in 1..n |-> L[k]]
  <2>1. LinesOf(SubSeq(Received, 1, Consumed), cuts) = [k \in 1..n |-> L[k]]
    BY <1>2, <1>5, LinesOfPrefix, Zenon DEF ends, n, L
  <2> QED BY <1>1, <1>2, <2>1
<1>9. LinesOf(SubSeq(text, 1, e), cuts) = [k \in 1..(n + 1) |-> L[k]]
  <2>1. e \in ends \cup {0} /\ e \in 0..delivered
    BY <1>3, <1>5
  <2>2. LinesOf(SubSeq(Received, 1, e), cuts) = [k \in 1..Number(ends, e) |-> L[k]]
    BY <1>2, <2>1, LinesOfPrefix, Zenon DEF ends, L
  <2> QED BY <1>2, <1>6, <2>1, <2>2
<1>10. L[n + 1] = LineTo(Received, ends, e)
  <2>1. L[Number(ends, e)] = LineTo(Received, ends, e)
    BY <1>2, <1>3, LinesAt, Zenon DEF ends, L
  <2> QED BY <1>6, <2>1
<1>11. Before(ends, e) = Consumed
  <2>1. e \in Nat /\ Consumed \in Nat /\ ends \subseteq Nat
    BY <1>3, <1>5
  <2>2. \A i \in ends : i < e => i <= Consumed
    <3> TAKE i \in ends
    <3> HAVE i < e
    <3>1. i \in Nat
      BY <2>1, Zenon
    <3>2. Consumed < i => e <= i
      BY <1>3, Zenon
    <3> QED BY <2>1, <3>1, <3>2
  <2> QED BY <1>3, <1>5, <2>1, <2>2, EndBefore, Zenon
<1>12. LineTo(Received, ends, e) = Substring(Received, Consumed, base + Index)
  BY <1>3, <1>11 DEF LineTo
<1>13. Substring(Received, Consumed, base + Index) = Substring(chunk, startIndex, Index)
  <2> DEFINE m == Index - startIndex
             q == base + Index
  <2>1. /\ Consumed \in Nat /\ q \in Nat /\ Consumed <= q /\ q <= Len(Received)
        /\ startIndex \in Nat /\ Index \in Nat /\ startIndex <= Index /\ Index <= Len(chunk)
        /\ q - Consumed = m
    BY <1>1, <1>2, <1>4
  <2> HIDE DEF q, m
  <2>2. Substring(Received, Consumed, q) = [i \in 1..(q - Consumed) |-> Received[Consumed + i]]
    BY <1>2, <2>1, Substrings, Zenon
  <2>3. chunk \in Seq(Char)
    BY TextDef DEF TypeInv, TypeOK
  <2>4. Substring(chunk, startIndex, Index) = [i \in 1..(Index - startIndex) |-> chunk[startIndex + i]]
    BY <2>1, <2>3, Substrings, Zenon
  <2>5. \A i \in 1..m : Received[Consumed + i] = chunk[startIndex + i]
    <3> TAKE i \in 1..m
    <3>1. /\ startIndex + i \in 1..Len(chunk) /\ base + (startIndex + i) = Consumed + i
          /\ Consumed + i \in 1..delivered
      BY <1>1, <1>2, <1>4, <2>1 DEF m
    <3>2. chunk[startIndex + i] = text[base + (startIndex + i)]
      BY <1>1, <3>1
    <3>3. Received[Consumed + i] = text[Consumed + i]
      BY <1>2, <3>1
    <3> QED BY <3>1, <3>2, <3>3
  <2> QED BY <2>1, <2>2, <2>4, <2>5 DEF m, q
<1>14. Append([k \in 1..n |-> L[k]], L[n + 1]) = [k \in 1..(n + 1) |-> L[k]]
  BY <1>7, AppendTable
<1> QED BY <1>8, <1>9, <1>10, <1>12, <1>13, <1>14 DEF e

LEMMA InitLines == ASSUME Init PROVE LinesInv
<1>1. TypeInv
  BY InitTypeInv
<1>2. startIndex = 0 /\ lastIndex = 0 /\ cuts = {} /\ yielded = <<>> /\ ~finished
  BY DEF Init
<1>3. /\ text \in Seq(Char) /\ Len(text) \in Nat /\ delivered \in 0..Len(text)
      /\ Consumed = (delivered - Len(chunk)) + startIndex
  BY <1>1, RemainderIs
<1>4. Consumed = 0
  <2>1. Len(chunk) = delivered
    <3>1. chunk = Substring(text, 0, delivered)
      BY DEF Init
    <3>2. 0 \in Nat /\ delivered \in Nat /\ 0 <= delivered /\ delivered <= Len(text)
      BY <1>3
    <3>3. Len(Substring(text, 0, delivered)) = delivered - 0
      BY <1>3, <3>2, Substrings, Zenon
    <3> QED BY <3>1, <3>2, <3>3
  <2> QED BY <1>2, <1>3, <2>1
<1>5. LinesOf(SubSeq(text, 1, 0), cuts) = <<>>
  <2>1. 0 \in 0..Len(text)
    BY <1>3
  <2>2. Len(SubSeq(text, 1, 0)) = 0
    BY <1>3, <2>1, TextPrefix, Zenon
  <2>3. EndsAt(SubSeq(text, 1, 0), cuts) = {}
    BY <2>2 DEF EndsAt
  <2>4. Cardinality(EndsAt(SubSeq(text, 1, 0), cuts)) = 0
    BY <2>3, FS_EmptySet
  <2> QED BY <2>4 DEF LinesOf, LinesEnding
<1> QED BY <1>2, <1>4, <1>5 DEF LinesInv, AtEnd, CutsKept, NothingLost

LEMMA LineEndLines ==
  ASSUME TypeInv, lineGroupSize = 1, LinesInv, LineEnd
  PROVE  LinesInv'
<1>1. /\ LineEnds # {} /\ ~finished /\ UNCHANGED <<text, delivered, cuts, chunk, finished>>
      /\ lastIndex' = Stop(Index)
  BY DEF LineEnd
<1>2. /\ yielded' = Append(yielded, Substring(chunk, startIndex, Index))
      /\ startIndex' = lastIndex'
  <2>1. linesRead = 0
    BY DEF TypeInv, TypeOK
  <2>2. GroupComplete
    BY <2>1 DEF GroupComplete
  <2> QED BY <2>2 DEF LineEnd
<1>3. startIndex = lastIndex /\ AtEnd /\ CutsKept
  BY DEF LinesInv
<1>4. yielded = LinesOf(SubSeq(text, 1, Consumed), cuts)
  BY <1>1 DEF LinesInv, NothingLost
<1>5. Consumed' = NextEnd
  <2>1. /\ Len(text) \in Nat /\ delivered \in 0..Len(text) /\ Len(chunk) \in 0..delivered
    BY RemainderIs
  <2>2. Stop(Index) \in (Index + 1)..Len(chunk) /\ Index \in startIndex..(Len(chunk) - 1)
    BY <1>1, IndexType
  <2>3. startIndex \in Nat
    BY <2>1 DEF TypeInv, TypeOK
  <2> QED BY <1>1, <1>2, <2>1, <2>2, <2>3 DEF Consumed, NextEnd
<1>6. NextEnd \in EndsAt(Received, cuts) /\ Consumed < NextEnd
  BY <1>1, <1>3, NextEndFound
<1>7. AtEnd'
  BY <1>1, <1>5, <1>6 DEF AtEnd, Received
<1>8. CutsKept'
  <2>1. Consumed \in Nat /\ NextEnd \in Nat /\ \A i \in cuts : i \in Nat
    <3>1. Received \in Seq(Char)
      BY ReceivedIs
    <3>2. NextEnd \in Nat
      BY <1>6, <3>1, EndsType
    <3>3. Consumed \in Nat
      BY RemainderIs
    <3>4. \A i \in cuts : i \in Nat
      BY RemainderIs DEF TypeInv, TypeOK
    <3> QED BY <3>2, <3>3, <3>4
  <2> QED BY <1>1, <1>3, <1>5, <1>6, <2>1 DEF CutsKept
<1>9. NothingLost'
  <2>1. LinesOf(SubSeq(text, 1, NextEnd), cuts)
          = Append(LinesOf(SubSeq(text, 1, Consumed), cuts), Substring(chunk, startIndex, Index))
    BY <1>1, <1>3, LineFound
  <2> QED BY <1>1, <1>2, <1>4, <1>5, <2>1 DEF NothingLost
<1> QED BY <1>2, <1>7, <1>8, <1>9 DEF LinesInv

(* A cut that is not before the end of a text makes no difference.         *)
LEMMA CutAfter ==
  ASSUME NEW t \in Seq(Char), NEW cut, NEW d \in Nat, Len(t) <= d
  PROVE  LinesOf(t, cut \cup {d}) = LinesOf(t, cut)
<1>1. Len(t) \in Nat
  BY LenProperties
<1>2. EndsAt(t, cut \cup {d}) = EndsAt(t, cut)
  <2>1. ASSUME NEW i \in 1..Len(t), i # Len(t)
        PROVE  i \in cut \cup {d} <=> i \in cut
    <3>1. i # d
      BY <1>1, <2>1
    <3> QED BY <3>1
  <2> QED BY <2>1 DEF EndsAt
<1> QED BY <1>2 DEF LinesOf

LEMMA NextChunkLines ==
  ASSUME TypeInv, lineGroupSize = 1, LinesInv, NextChunk
  PROVE  LinesInv'
<1>1. TypeInv' /\ Consumed' = Consumed /\ delivered' \in delivered..Len(text)
  BY NextChunkTypeInv
<1>2. /\ ~finished /\ LineEnds = {} /\ cuts' = cuts \cup {delivered}
      /\ startIndex' = 0 /\ lastIndex' = 0 /\ UNCHANGED <<text, yielded, finished>>
  BY DEF NextChunk
<1>3. /\ text \in Seq(Char) /\ Len(text) \in Nat /\ delivered \in 0..Len(text)
      /\ Consumed \in 0..delivered
  BY RemainderIs
<1>4. \A i \in 1..delivered : Consumed < i => text[i] \notin {CR, LF}
  BY <1>2, NoneKept DEF LinesInv
<1>5. CutsKept'
  <2>1. Consumed < delivered => text[delivered] \notin {CR, LF}
    BY <1>3, <1>4
  <2> QED BY <1>1, <1>2, <2>1 DEF LinesInv, CutsKept
<1>6. AtEnd'
  <2>1. CASE Consumed = 0
    BY <1>1, <2>1 DEF AtEnd
  <2>2. CASE Consumed # 0
    <3>1. /\ Consumed \in EndsAt(Received, cuts) /\ Consumed \in 1..delivered
          /\ Consumed \in 1..delivered'
      BY <1>1, <1>3, <2>2 DEF LinesInv, AtEnd
    <3>2. /\ Len(Received) = delivered /\ \A i \in 1..delivered : Received[i] = text[i]
      BY ReceivedIs
    <3>3. /\ Len(Received') = delivered' /\ \A i \in 1..delivered' : Received'[i] = text[i]
      <4>1. /\ (Len(Received) = delivered)'
            /\ (\A i \in 1..delivered : Received[i] = text[i])'
        BY <1>1, ReceivedIs, PTL
      <4> QED BY <1>2, <4>1
    <3>4. CASE Consumed = delivered
      <4>1. Received'[Consumed] \in {CR, LF}
        BY <3>1, <3>2, <3>3 DEF EndsAt
      <4> QED BY <1>1, <1>2, <3>1, <3>3, <3>4, <4>1 DEF AtEnd, EndsAt
    <3>5. CASE Consumed # delivered
      <4>1. Consumed + 1 \in 1..delivered /\ Consumed + 1 \in 1..delivered'
        BY <1>1, <1>3, <3>1, <3>5
      <4> QED BY <1>1, <1>2, <3>1, <3>2, <3>3, <3>5, <4>1 DEF AtEnd, EndsAt
    <3> QED BY <3>4, <3>5
  <2> QED BY <2>1, <2>2
<1>7. NothingLost'
  <2>1. yielded = LinesOf(SubSeq(text, 1, Consumed), cuts)
    BY <1>2 DEF LinesInv, NothingLost
  <2>2. SubSeq(text, 1, Consumed) \in Seq(Char) /\ Len(SubSeq(text, 1, Consumed)) = Consumed
    <3>1. Consumed \in 0..Len(text)
      BY <1>3
    <3> QED BY <1>3, <3>1, TextPrefix, Zenon
  <2>3. LinesOf(SubSeq(text, 1, Consumed), cuts \cup {delivered})
          = LinesOf(SubSeq(text, 1, Consumed), cuts)
    <3>1. delivered \in Nat /\ Len(SubSeq(text, 1, Consumed)) <= delivered
      BY <1>3, <2>2
    <3> QED BY <2>2, <3>1, CutAfter, Zenon
  <2> QED BY <1>1, <1>2, <2>1, <2>3 DEF NothingLost
<1> QED BY <1>2, <1>5, <1>6, <1>7 DEF LinesInv

(* Where no line end is left, all lines of the text received are yielded.  *)
LEMMA NoneLeft ==
  ASSUME TypeInv, startIndex = lastIndex, AtEnd, LineEnds = {}
  PROVE  /\ LinesOf(SubSeq(text, 1, Consumed), cuts) = LinesOf(Received, cuts)
         /\ \A i \in EndsAt(Received, cuts) : i <= Consumed
<1> DEFINE ends == EndsAt(Received, cuts)
<1>1. /\ Received \in Seq(Char) /\ Len(Received) = delivered
      /\ \A i \in 1..delivered : Received[i] = text[i]
      /\ \A p \in 0..delivered : SubSeq(Received, 1, p) = SubSeq(text, 1, p)
  BY ReceivedIs
<1>2. Consumed \in 0..delivered /\ delivered \in Nat
  BY RemainderIs
<1>3. \A i \in ends : i <= Consumed
  <2> SUFFICES ASSUME NEW i \in ends, Consumed < i PROVE FALSE
    BY <1>1, <1>2 DEF EndsAt
  <2>1. i \in 1..delivered /\ text[i] \in {CR, LF}
    BY <1>1 DEF EndsAt
  <2>2. text[i] \notin {CR, LF}
    BY <2>1, NoneKept
  <2> QED BY <2>1, <2>2
<1>4. Number(ends, Consumed) = Cardinality(ends)
  <2>1. {i \in ends : i <= Consumed} = ends
    BY <1>3
  <2> QED BY <2>1 DEF Number
<1>5. LinesOf(SubSeq(Received, 1, Consumed), cuts)
        = [k \in 1..Number(ends, Consumed) |-> LinesOf(Received, cuts)[k]]
  BY <1>1, LinesOfPrefix, Zenon DEF AtEnd
<1>6. LinesOf(Received, cuts) = [k \in 1..Cardinality(ends) |-> LinesOf(Received, cuts)[k]]
  BY DEF LinesOf, LinesEnding
<1> QED BY <1>1, <1>2, <1>3, <1>4, <1>5, <1>6

LEMMA FinishLines ==
  ASSUME TypeInv, lineGroupSize = 1, LinesInv, Finish
  PROVE  LinesInv'
<1>1. /\ ~finished /\ LineEnds = {} /\ readerDone /\ finished'
      /\ UNCHANGED <<text, delivered, cuts, chunk, startIndex, lastIndex>>
      /\ yielded' = IF startIndex < Len(chunk) THEN Append(yielded, Remainder) ELSE yielded
  BY DEF Finish
<1>2. startIndex = lastIndex /\ AtEnd
  BY DEF LinesInv
<1>3. /\ text \in Seq(Char) /\ Len(text) \in Nat /\ delivered = Len(text)
      /\ Len(chunk) \in 0..delivered /\ startIndex \in 0..Len(chunk)
      /\ Consumed \in 0..delivered
      /\ Consumed = (delivered - Len(chunk)) + startIndex
      /\ Remainder = Substring(text, Consumed, delivered)
  BY <1>1, RemainderIs DEF TypeInv, Done
<1>4. Received = text
  <2>1. Len(text) \in 0..Len(text)
    BY <1>3
  <2>2. SubSeq(text, 1, Len(text)) = [i \in 1..Len(text) |-> text[i]]
    BY <1>3, <2>1, TextPrefix, Zenon
  <2>3. text = [i \in 1..Len(text) |-> text[i]]
    BY <1>3, LenProperties
  <2> QED BY <1>3, <2>2, <2>3 DEF Received
<1>5. yielded = LinesOf(text, cuts) /\ \A i \in EndsAt(text, cuts) : i <= Consumed
  BY <1>1, <1>2, <1>4, NoneLeft DEF LinesInv, NothingLost
<1>6. Unterminated(text, cuts) = Remainder
  <2>1. Consumed \in EndsAt(text, cuts) \cup {0}
    BY <1>2, <1>4 DEF AtEnd
  <2>2. EndsAt(text, cuts) \in SUBSET (1..Len(text))
    BY <1>3, EndsType
  <2>3. Len(text) + 1 \in Nat /\ Consumed < Len(text) + 1
    BY <1>3
  <2>4. Before(EndsAt(text, cuts), Len(text) + 1) = Consumed
    BY <1>3, <1>5, <2>1, <2>2, <2>3, EndBefore
  <2> QED BY <1>3, <2>4 DEF Unterminated
<1>7. Remainder = <<>> <=> ~ startIndex < Len(chunk)
  <2>1. Remainder \in Seq(Char) /\ Len(Remainder) = delivered - Consumed
    <3>1. Consumed \in Nat /\ delivered \in Nat /\ Consumed <= delivered /\ delivered <= Len(text)
      BY <1>3
    <3> QED BY <1>3, <3>1, Substrings, Zenon
  <2>2. Remainder = <<>> <=> Len(Remainder) = 0
    BY <2>1, EmptySeq
  <2> QED BY <1>3, <2>1, <2>2
<1>8. NothingLost'
  BY <1>1, <1>5, <1>6, <1>7 DEF NothingLost, AllLines
<1>9. AtEnd' /\ CutsKept' /\ startIndex' = lastIndex'
  BY <1>1 DEF LinesInv, AtEnd, CutsKept, Consumed, Received
<1> QED BY <1>8, <1>9 DEF LinesInv

LEMMA SpecIInv == Spec => []IInv
<1>1. Init => IInv
  BY InitTypeInv, InitLines DEF IInv
<1>2. IInv /\ [Next]_vars => IInv'
  <2> SUFFICES ASSUME IInv, [Next]_vars PROVE IInv'
    OBVIOUS
  <2>1. CASE LineEnd
    BY <2>1, LineEndTypeInv, LineEndLines DEF IInv
  <2>2. CASE NextChunk
    BY <2>2, NextChunkTypeInv, NextChunkLines DEF IInv
  <2>3. CASE Finish
    BY <2>3, FinishTypeInv, FinishLines DEF IInv
  <2>4. CASE UNCHANGED vars
    <3>1. TypeInv'
      BY <2>4 DEF IInv, TypeInv, TypeOK, Done, vars
    <3>2. LinesInv => LinesInv'
      BY <2>4 DEF LinesInv, AtEnd, CutsKept, NothingLost, Consumed, Received, vars
    <3> QED BY <3>1, <3>2 DEF IInv
  <2> QED BY <2>1, <2>2, <2>3, <2>4 DEF Next
<1> QED BY <1>1, <1>2, PTL DEF Spec

-----------------------------------------------------------------------------
(* For groups of one line nothing of the text is lost, doubled or moved,   *)
(* wherever the chunks end, in the middle of a CR LF as well.              *)
THEOREM Kept == Spec => []NothingLost
<1>1. IInv => NothingLost
  BY DEF IInv, LinesInv, NothingLost
<1> QED BY <1>1, SpecIInv, PTL

(* Cuts that divide no pair make no difference.                            *)
LEMMA NoPairCut ==
  ASSUME TypeInv, ~PairCut
  PROVE  EndsAt(Received, cuts) = EndsAt(Received, {})
<1>1. /\ Received \in Seq(Char) /\ Len(Received) = delivered
      /\ \A i \in 1..delivered : Received[i] = text[i]
  BY ReceivedIs
<1>2. delivered \in Nat
  BY RemainderIs
<1>3. ASSUME NEW i \in 1..delivered, Received[i] = CR, i \in cuts
      PROVE  i = delivered \/ Received[i + 1] # LF
  <2> SUFFICES ASSUME i # delivered PROVE Received[i + 1] # LF
    OBVIOUS
  <2>1. i + 1 \in 1..delivered /\ 0 < i /\ i < delivered
    BY <1>2
  <2>2. text[i] = CR /\ text[i + 1] = Received[i + 1]
    BY <1>1, <1>3, <2>1
  <2> QED BY <1>3, <2>1, <2>2 DEF PairCut
<1> QED BY <1>1, <1>3 DEF EndsAt

LEMMA Beginning ==
  ASSUME NEW S, NEW L \in Seq(S), NEW n \in Int, n <= Len(L)
  PROVE  /\ SubSeq(L, 1, n) \in Seq(S)
         /\ SubSeq(L, 1, n) = [k \in 1..n |-> L[k]]
         /\ Len(SubSeq(L, 1, n)) = IF 1 <= n THEN n ELSE 0
<1>1. Len(L) \in Nat /\ \A i \in 1..n : L[i] \in S
  BY ElementOfSeq, LenProperties
<1>2. /\ SubSeq(L, 1, n) \in Seq(S)
      /\ Len(SubSeq(L, 1, n)) = IF 1 <= n THEN n - 1 + 1 ELSE 0
      /\ \A i \in 1..(n - 1 + 1) : SubSeq(L, 1, n)[i] = L[1 + i - 1]
  BY <1>1, SubSeqProperties
<1>3. \A i \in 1..n : SubSeq(L, 1, n)[i] = L[i]
  <2> TAKE i \in 1..n
  <2>1. i \in 1..(n - 1 + 1) /\ 1 + i - 1 = i
    OBVIOUS
  <2>2. SubSeq(L, 1, n)[i] = L[1 + i - 1]
    BY <1>2, <2>1
  <2> QED BY <2>1, <2>2
<1>4. Len(SubSeq(L, 1, n)) = IF 1 <= n THEN n ELSE 0
  BY <1>2
<1>5. SubSeq(L, 1, n) = [k \in 1..n |-> SubSeq(L, 1, n)[k]]
  <2>1. DOMAIN SubSeq(L, 1, n) = 1..Len(SubSeq(L, 1, n))
    BY <1>2, LenProperties
  <2>2. 1..Len(SubSeq(L, 1, n)) = 1..n
    BY <1>4
  <2>3. SubSeq(L, 1, n) \in [1..Len(SubSeq(L, 1, n)) -> S]
    BY <1>2, LenProperties
  <2> QED BY <2>2, <2>3
<1> QED BY <1>2, <1>3, <1>4, <1>5

(* The beginnings of a table are prefixes of it.                           *)
LEMMA BeginningIsPrefix ==
  ASSUME NEW S, NEW L \in Seq(S), NEW n \in Int, n <= Len(L)
  PROVE  IsPrefix(SubSeq(L, 1, n), L)
<1> DEFINE s == SubSeq(L, 1, n)
<1>1. Len(L) \in Nat /\ s \in Seq(S) /\ Len(s) = (IF 1 <= n THEN n ELSE 0) /\ s = [k \in 1..n |-> L[k]]
  BY Beginning, LenProperties
<1> HIDE DEF s
<1>2. Len(s) \in Int /\ Len(s) <= Len(L) /\ Len(s) <= Len(s)
  BY <1>1
<1>3. SubSeq(s, 1, Len(s)) = [k \in 1..Len(s) |-> s[k]]
  BY <1>1, <1>2, Beginning
<1>4. SubSeq(L, 1, Len(s)) = [k \in 1..Len(s) |-> L[k]]
  BY <1>2, Beginning
<1>5. \A k \in 1..Len(s) : s[k] = L[k]
  BY <1>1
<1> QED BY <1>2, <1>3, <1>4, <1>5 DEF IsPrefix, s

LEMMA LinesType ==
  ASSUME NEW t \in Seq(Char), NEW cut
  PROVE  /\ LinesOf(t, cut) \in Seq({LinesOf(t, cut)[k] : k \in 1..Cardinality(EndsAt(t, cut))})
         /\ Len(LinesOf(t, cut)) = Cardinality(EndsAt(t, cut))
         /\ Cardinality(EndsAt(t, cut)) \in Nat
<1> DEFINE n == Cardinality(EndsAt(t, cut))
           L == LinesOf(t, cut)
           S == {L[k] : k \in 1..n}
<1>1. n \in Nat
  <2>1. Len(t) \in Nat /\ EndsAt(t, cut) \in SUBSET (1..Len(t))
    BY EndsType
  <2> QED BY <2>1, Ranks, Zenon
<1>2. L = [k \in 1..n |-> L[k]]
  BY DEF LinesOf, LinesEnding
<1>3. \A k \in 1..n : L[k] \in S
  OBVIOUS
<1> HIDE DEF S, L, n
<1>4. L \in [1..n -> S]
  BY <1>2, <1>3
<1>5. L \in Seq(S) /\ Len(L) = n
  BY <1>1, <1>4, SeqDef
<1> QED BY <1>1, <1>5 DEF S, L, n

(* A table, the same with one entry more, and what is a prefix of it.      *)
LEMMA LessOne ==
  ASSUME NEW S, NEW L \in Seq(S), NEW n \in 0..Len(L)
  PROVE  /\ IsPrefix(SubSeq(L, 1, n), L)
         /\ IsPrefix(WithoutLastLine(SubSeq(L, 1, n)), L)
<1>1. Len(L) \in Nat /\ n \in Int /\ n <= Len(L) /\ n - 1 \in Int /\ n - 1 <= Len(L)
  BY LenProperties
<1>2. SubSeq(L, 1, n) \in Seq(S) /\ Len(SubSeq(L, 1, n)) = n
  <2>1. Len(SubSeq(L, 1, n)) = IF 1 <= n THEN n ELSE 0
    BY <1>1, Beginning
  <2> QED BY <1>1, <2>1, Beginning
<1>3. WithoutLastLine(SubSeq(L, 1, n)) = SubSeq(L, 1, n - 1)
  <2> DEFINE s == SubSeq(L, 1, n)
  <2>1. SubSeq(s, 1, n - 1) = [k \in 1..(n - 1) |-> s[k]]
    BY <1>1, <1>2, Beginning
  <2>2. s = [k \in 1..n |-> L[k]]
    BY <1>1, Beginning
  <2>3. SubSeq(L, 1, n - 1) = [k \in 1..(n - 1) |-> L[k]]
    BY <1>1, Beginning
  <2>4. \A k \in 1..(n - 1) : s[k] = L[k]
    <3> HIDE DEF s
    <3>1. \A k \in 1..(n - 1) : k \in 1..n
      BY <1>1
    <3> QED BY <2>2, <3>1
  <2> HIDE DEF s
  <2>5. SubSeq(s, 1, n - 1) = SubSeq(L, 1, n - 1)
    BY <2>1, <2>3, <2>4
  <2> QED BY <1>2, <2>5 DEF WithoutLastLine, s
<1> QED BY <1>1, <1>3, BeginningIsPrefix

LEMMA WithoutAppended ==
  ASSUME NEW S, NEW L \in Seq(S), NEW u
  PROVE  WithoutLastLine(Append(L, u)) = L
<1> DEFINE a == Append(L, u)
<1>1. L \in Seq(S \cup {u}) /\ u \in S \cup {u}
  BY SeqMonotonic
<1>2. /\ a \in Seq(S \cup {u}) /\ Len(a) = Len(L) + 1 /\ Len(L) \in Nat
      /\ \A i \in 1..Len(L) : a[i] = L[i]
  BY <1>1, AppendProperties, LenProperties
<1> HIDE DEF a
<1>3. Len(L) \in Int /\ Len(L) <= Len(a) /\ Len(a) - 1 = Len(L)
  BY <1>2
<1>4. SubSeq(a, 1, Len(L)) = [k \in 1..Len(L) |-> a[k]]
  BY <1>2, <1>3, Beginning
<1>5. L = [k \in 1..Len(L) |-> L[k]]
  BY LenProperties
<1>6. WithoutLastLine(a) = L
  BY <1>2, <1>3, <1>4, <1>5 DEF WithoutLastLine
<1> QED BY <1>6 DEF a

LEMMA AllReceived ==
  ASSUME TypeInv, finished
  PROVE  Received = text
<1>1. text \in Seq(Char) /\ Len(text) \in Nat /\ delivered = Len(text)
  BY RemainderIs DEF TypeInv, Done
<1>2. Len(text) \in 0..Len(text)
  BY <1>1
<1>3. SubSeq(text, 1, Len(text)) = [i \in 1..Len(text) |-> text[i]]
  BY <1>1, <1>2, TextPrefix, Zenon
<1>4. text = [i \in 1..Len(text) |-> text[i]]
  BY <1>1, LenProperties
<1> QED BY <1>1, <1>3, <1>4 DEF Received

(* Where the chunks end makes no difference to the lines that are yielded, *)
(* and none is held back when the iterator waits, unless a chunk ends in   *)
(* the middle of a CR LF.                                                  *)
THEOREM WholeLines == Spec => []LinesYielded
<1>1. IInv => LinesYielded
  <2> SUFFICES ASSUME IInv, lineGroupSize = 1, ~PairCut
               PROVE  /\ IsPrefix(WithoutLastLine(yielded), LinesOf(Received, {}))
                      /\ ~finished => IsPrefix(yielded, LinesOf(Received, {}))
                      /\ ~finished /\ LineEnds = {} => yielded = LinesOf(Received, {})
    BY DEF LinesYielded
  <2> DEFINE ends == EndsAt(Received, cuts)
             L == LinesOf(Received, cuts)
             S == {L[k] : k \in 1..Cardinality(ends)}
  <2>1. TypeInv /\ startIndex = lastIndex /\ AtEnd /\ NothingLost
    BY DEF IInv, LinesInv
  <2>2. LinesOf(Received, {}) = L
    BY <2>1, NoPairCut DEF LinesOf
  <2>3. /\ Received \in Seq(Char)
        /\ \A p \in 0..delivered : SubSeq(Received, 1, p) = SubSeq(text, 1, p)
    BY <2>1, ReceivedIs
  <2>4. L \in Seq(S) /\ Len(L) = Cardinality(ends) /\ Cardinality(ends) \in Nat
    BY <2>3, LinesType, Zenon
  <2> HIDE DEF L, S, ends
  <2>5. CASE ~finished
    <3> DEFINE n == Number(ends, Consumed)
    <3>1. yielded = LinesOf(SubSeq(text, 1, Consumed), cuts)
      BY <2>1, <2>5 DEF NothingLost
    <3>2. LinesOf(SubSeq(Received, 1, Consumed), cuts) = [k \in 1..n |-> L[k]]
      BY <2>1, <2>3, LinesOfPrefix, Zenon DEF AtEnd, ends, L
    <3>3. n \in 0..Cardinality(ends)
      BY <2>1, <2>3, LinesOfPrefix, Zenon DEF AtEnd, ends
    <3>4. Consumed \in 0..delivered
      BY <2>1, RemainderIs
    <3> HIDE DEF n
    <3>5. n \in 0..Len(L) /\ n \in Int /\ n <= Len(L)
      BY <2>4, <3>3
    <3>6. yielded = SubSeq(L, 1, n)
      <4>1. L \in Seq(S) /\ n \in Int /\ n <= Len(L)
        BY <2>4, <3>5, Zenon
      <4>2. SubSeq(L, 1, n) = [k \in 1..n |-> L[k]]
        BY <4>1, Beginning, SMTT(30)
      <4> QED BY <2>3, <3>1, <3>2, <3>4, <4>2
    <3>7. IsPrefix(yielded, L) /\ IsPrefix(WithoutLastLine(yielded), L)
      BY <2>4, <3>5, <3>6, LessOne
    <3>8. LineEnds = {} => yielded = L
      BY <2>1, <3>1, NoneLeft DEF L
    <3> QED BY <2>2, <2>5, <3>7, <3>8
  <2>6. CASE finished
    <3>1. Received = text
      BY <2>1, <2>6, AllReceived
    <3>2. yielded = L \/ \E u : yielded = Append(L, u)
      BY <2>1, <2>6, <3>1 DEF NothingLost, AllLines, L
    <3>3. IsPrefix(L, L) /\ IsPrefix(WithoutLastLine(L), L)
      <4>1. Len(L) \in 0..Len(L) /\ Len(L) \in Int /\ Len(L) <= Len(L)
        BY <2>4
      <4>2. SubSeq(L, 1, Len(L)) = L
        <5>1. SubSeq(L, 1, Len(L)) = [k \in 1..Len(L) |-> L[k]]
          BY <2>4, <4>1, Beginning
        <5>2. L = [k \in 1..Len(L) |-> L[k]]
          BY <2>4, LenProperties
        <5> QED BY <5>1, <5>2
      <4>3. /\ IsPrefix(SubSeq(L, 1, Len(L)), L)
            /\ IsPrefix(WithoutLastLine(SubSeq(L, 1, Len(L))), L)
        BY <2>4, <4>1, LessOne, Zenon
      <4> QED BY <4>2, <4>3
    <3>4. IsPrefix(WithoutLastLine(yielded), L)
      <4>1. CASE yielded = L
        BY <3>3, <4>1
      <4>2. CASE \E u : yielded = Append(L, u)
        <5>1. PICK u : yielded = Append(L, u)
          BY <4>2
        <5>2. WithoutLastLine(yielded) = L
          BY <2>4, <5>1, WithoutAppended
        <5> QED BY <3>3, <5>2
      <4> QED BY <3>2, <4>1, <4>2
    <3> QED BY <2>2, <2>6, <3>4
  <2> QED BY <2>5, <2>6
<1> QED BY <1>1, SpecIInv, PTL

(* When the iterator ends, the reader has delivered all of the text, and   *)
(* the consumer was given all of its lines, the unfinished last one too.   *)
THEOREM AllLinesYielded == Spec => []AllYielded
<1>1. IInv => AllYielded
  <2> SUFFICES ASSUME IInv, lineGroupSize = 1, ~PairCut, finished
               PROVE  yielded = AllLines(text, {})
    BY DEF AllYielded
  <2>1. TypeInv /\ NothingLost
    BY DEF IInv, LinesInv
  <2>2. EndsAt(text, cuts) = EndsAt(text, {})
    BY <2>1, AllReceived, NoPairCut
  <2>3. yielded = AllLines(text, cuts)
    BY <2>1 DEF NothingLost
  <2>4. LinesOf(text, cuts) = LinesOf(text, {}) /\ Unterminated(text, cuts) = Unterminated(text, {})
    BY <2>2 DEF LinesOf, Unterminated
  <2> QED BY <2>3, <2>4 DEF AllLines
<1> QED BY <1>1, SpecIInv, PTL

-----------------------------------------------------------------------------
(* What is left to do: of the text, of the group, of the reading, of the   *)
(* chunk, of the end.                                                      *)
Left(b) == IF b THEN 1 ELSE 0

Closing == Left(~readerDone) + Left(~finished) + Left(delivered \notin cuts)

Work ==
  <<Len(text) - Consumed, lineGroupSize - linesRead, Len(text) - delivered,
    Len(chunk) + lastIndex, Closing>>

(* The order of a dictionary, in which no list of five natural numbers     *)
(* descends forever.                                                       *)
Less(v, w) ==
  /\ v \in [1..5 -> Nat]
  /\ \E k \in 1..5 : v[k] < w[k] /\ \A j \in 1..(k - 1) : v[j] = w[j]

LEMMA WorkType == ASSUME TypeInv PROVE Work \in [1..5 -> Nat]
<1>1. /\ Len(text) \in Nat /\ delivered \in 0..Len(text)
      /\ Len(chunk) \in 0..delivered /\ Consumed \in 0..delivered
  BY RemainderIs
<1>2. lastIndex \in Nat /\ lineGroupSize - linesRead \in Nat
  BY <1>1, LineAssumption DEF TypeInv, TypeOK
<1>3. Closing \in Nat
  BY DEF Closing, Left
<1> DEFINE a == Len(text) - Consumed
           b == lineGroupSize - linesRead
           c == Len(text) - delivered
           d == Len(chunk) + lastIndex
<1>4. a \in Nat /\ b \in Nat /\ c \in Nat /\ d \in Nat
  BY <1>1, <1>2
<1> HIDE DEF a, b, c, d
<1>5. <<a, b, c, d, Closing>> \in [1..5 -> Nat]
  BY <1>3, <1>4
<1> QED BY <1>5 DEF Work, a, b, c, d

LEMMA LineEndWorks == ASSUME TypeInv, LineEnd PROVE Less(Work', Work)
<1>1. (Work \in [1..5 -> Nat])'
  <2>1. TypeInv'
    BY LineEndTypeInv
  <2> QED BY <2>1, WorkType, PTL
<1>2. /\ Len(text) \in Nat /\ delivered \in 0..Len(text)
      /\ Len(chunk) \in 0..delivered /\ startIndex \in 0..Len(chunk)
  BY RemainderIs
<1>3. /\ LineEnds # {} /\ UNCHANGED <<text, delivered, chunk>> /\ lastIndex' = Stop(Index)
      /\ IF GroupComplete THEN startIndex' = lastIndex'
                          ELSE linesRead' = linesRead + 1 /\ startIndex' = startIndex
  BY DEF LineEnd
<1>4. Index \in startIndex..(Len(chunk) - 1) /\ Stop(Index) \in (Index + 1)..Len(chunk)
  BY <1>3, IndexType
<1>5. linesRead \in Nat /\ lineGroupSize \in Nat
  BY LineAssumption DEF TypeInv, TypeOK
<1>6. CASE GroupComplete
  <2>1. Len(text') - Consumed' < Len(text) - Consumed
    BY <1>2, <1>3, <1>4, <1>6 DEF Consumed
  <2>2. Work'[1] < Work[1] /\ \A j \in 1..(1 - 1) : Work'[j] = Work[j]
    BY <2>1 DEF Work
  <2> QED BY <1>1, <2>2 DEF Less
<1>7. CASE ~GroupComplete
  <2>1. Len(text') - Consumed' = Len(text) - Consumed
    BY <1>3, <1>7 DEF Consumed
  <2>2. lineGroupSize - linesRead' < lineGroupSize - linesRead
    BY <1>3, <1>5, <1>7
  <2>3. Work'[2] < Work[2] /\ \A j \in 1..(2 - 1) : Work'[j] = Work[j]
    BY <2>1, <2>2 DEF Work
  <2> QED BY <1>1, <2>3 DEF Less
<1> QED BY <1>6, <1>7

LEMMA NextChunkWorks ==
  ASSUME TypeInv, NextChunk, vars' # vars
  PROVE  Less(Work', Work)
<1>1. TypeInv' /\ Consumed' = Consumed /\ delivered' \in delivered..Len(text)
  BY NextChunkTypeInv
<1>2. (Work \in [1..5 -> Nat])'
  BY <1>1, WorkType, PTL
<1>3. /\ Len(text) \in Nat /\ delivered \in 0..Len(text)
      /\ Len(chunk) \in 0..delivered /\ startIndex \in 0..Len(chunk)
      /\ Consumed = (delivered - Len(chunk)) + startIndex
  BY RemainderIs
<1>4. /\ ~finished /\ ~readerDone /\ cuts' = cuts \cup {delivered}
      /\ startIndex' = 0 /\ lastIndex' = 0 /\ UNCHANGED <<text, linesRead, yielded, finished>>
  BY DEF NextChunk
<1>5. lastIndex \in Nat /\ startIndex <= lastIndex
  BY <1>3 DEF TypeInv, TypeOK
<1>6. Work'[1] = Work[1] /\ Work'[2] = Work[2]
  BY <1>1, <1>4 DEF Work
<1>7. CASE delivered < delivered'
  <2>1. Len(text') - delivered' < Len(text) - delivered
    BY <1>1, <1>3, <1>4, <1>7
  <2>2. Work'[3] < Work[3] /\ \A j \in 1..(3 - 1) : Work'[j] = Work[j]
    BY <1>6, <2>1 DEF Work
  <2> QED BY <1>2, <2>2 DEF Less
<1>8. CASE delivered' = delivered
  <2>1. Work'[3] = Work[3]
    BY <1>4, <1>8 DEF Work
  <2>2. Len(chunk') = Len(chunk) - startIndex
    <3>1. (Consumed = (delivered - Len(chunk)) + startIndex /\ Len(chunk) \in 0..delivered)'
      BY <1>1, RemainderIs, PTL
    <3> QED BY <1>1, <1>3, <1>4, <1>8, <3>1
  <2>3. CASE lastIndex # 0
    <3>1. Len(chunk') + lastIndex' < Len(chunk) + lastIndex
      BY <1>3, <1>4, <1>5, <2>2, <2>3
    <3>2. Work'[4] < Work[4] /\ \A j \in 1..(4 - 1) : Work'[j] = Work[j]
      BY <1>6, <2>1, <3>1 DEF Work
    <3> QED BY <1>2, <3>2 DEF Less
  <2>4. CASE lastIndex = 0
    <3>1. startIndex = 0 /\ Len(chunk') = Len(chunk)
      BY <1>3, <1>5, <2>2, <2>4
    <3>2. Work'[4] = Work[4]
      BY <1>4, <2>4, <3>1 DEF Work
    <3>3. chunk' = chunk
      <4>1. chunk = Substring(text, delivered - Len(chunk), delivered)
        BY DEF TypeInv
      <4>2. chunk' = Substring(text', delivered' - Len(chunk'), delivered')
        BY <1>1 DEF TypeInv
      <4> QED BY <1>4, <1>8, <3>1, <4>1, <4>2
    <3>4. readerDone' \/ delivered \notin cuts
      <4> SUFFICES ASSUME ~readerDone', delivered \in cuts PROVE vars' = vars
        OBVIOUS
      <4>1. readerDone \in BOOLEAN /\ readerDone' \in BOOLEAN
        BY <1>1 DEF TypeInv, TypeOK
      <4>2. readerDone' = readerDone /\ cuts' = cuts
        BY <1>4, <4>1
      <4> QED BY <1>4, <1>8, <2>4, <3>1, <3>3, <4>2 DEF vars
    <3>5. /\ Left(~readerDone) = 1 /\ Left(delivered' \notin cuts') = 0
          /\ Left(~finished') = Left(~finished) /\ Left(~finished) \in Nat
          /\ Left(~readerDone') <= 1 /\ Left(~readerDone') \in Nat
          /\ Left(delivered \notin cuts) >= 0 /\ Left(delivered \notin cuts) \in Nat
          /\ Left(~readerDone') = 0 \/ Left(delivered \notin cuts) = 1
      BY <1>4, <1>8, <3>4 DEF Left
    <3>6. Closing' < Closing
      BY <3>5 DEF Closing
    <3>7. Work'[5] < Work[5] /\ \A j \in 1..(5 - 1) : Work'[j] = Work[j]
      BY <1>6, <2>1, <3>2, <3>6 DEF Work
    <3> QED BY <1>2, <3>7 DEF Less
  <2> QED BY <2>3, <2>4
<1> QED BY <1>1, <1>3, <1>7, <1>8

LEMMA FinishWorks == ASSUME TypeInv, Finish PROVE Less(Work', Work)
<1>1. (Work \in [1..5 -> Nat])'
  <2>1. TypeInv'
    BY FinishTypeInv
  <2> QED BY <2>1, WorkType, PTL
<1>2. /\ ~finished /\ finished'
      /\ UNCHANGED <<text, delivered, cuts, chunk, readerDone, startIndex, lastIndex, linesRead>>
  BY DEF Finish
<1>3. /\ Left(~finished) = 1 /\ Left(~finished') = 0
      /\ Left(~readerDone') = Left(~readerDone) /\ Left(~readerDone) \in Nat
      /\ Left(delivered' \notin cuts') = Left(delivered \notin cuts)
      /\ Left(delivered \notin cuts) \in Nat
  BY <1>2 DEF Left
<1>4. Closing' < Closing
  BY <1>3 DEF Closing
<1>5. Work'[5] < Work[5] /\ \A j \in 1..(5 - 1) : Work'[j] = Work[j]
  BY <1>2, <1>4 DEF Work, Consumed
<1> QED BY <1>1, <1>5 DEF Less

(* No turn of the loop is in vain, whatever the size of the groups: each   *)
(* leaves less to do, in an order in which nothing descends forever.  With *)
(* a turn always possible until the end, this is why the iterator ends.    *)
THEOREM EveryTurnCounts == Spec => [][Less(Work', Work)]_vars
<1>1. TypeInv /\ [Next]_vars => [Less(Work', Work)]_vars
  <2> SUFFICES ASSUME TypeInv, Next, vars' # vars PROVE Less(Work', Work)
    OBVIOUS
  <2>1. CASE LineEnd
    BY <2>1, LineEndWorks
  <2>2. CASE NextChunk
    BY <2>2, NextChunkWorks
  <2>3. CASE Finish
    BY <2>3, FinishWorks
  <2> QED BY <2>1, <2>2, <2>3 DEF Next
<1> QED BY <1>1, SpecTypeInv, PTL DEF Spec
-----------------------------------------------------------------------------
(* What the bot relies on: the oracle writes LF alone, so that no cut      *)
(* matters.  All the results received have been yielded whenever the bot   *)
(* waits for more, and in the end those of the whole output.               *)
THEOREM ResultsYielded ==
  ASSUME lineGroupSize = 1
  PROVE  Spec => []((\A i \in 1..Len(text) : text[i] # CR) =>
                       /\ ~finished /\ LineEnds = {} => yielded = LinesOf(Received, {})
                       /\ finished => yielded = AllLines(text, {}))
<1>1. TypeInv /\ LinesYielded /\ AllYielded =>
        ((\A i \in 1..Len(text) : text[i] # CR) =>
            /\ ~finished /\ LineEnds = {} => yielded = LinesOf(Received, {})
            /\ finished => yielded = AllLines(text, {}))
  <2> SUFFICES ASSUME TypeInv, LinesYielded, AllYielded,
                      \A i \in 1..Len(text) : text[i] # CR
               PROVE  /\ ~finished /\ LineEnds = {} => yielded = LinesOf(Received, {})
                      /\ finished => yielded = AllLines(text, {})
    OBVIOUS
  <2>1. ~PairCut
    <3>1. /\ delivered \in 0..Len(text) /\ Len(text) \in Nat
          /\ cuts \in SUBSET (0..delivered)
      BY TextDef DEF TypeInv, TypeOK
    <3>2. \A i \in cuts : 0 < i /\ i < delivered => i \in 1..Len(text)
      BY <3>1
    <3> QED
      BY <3>2 DEF PairCut
  <2> QED
    BY <2>1 DEF LinesYielded, AllYielded
<1> QED
  BY <1>1, SpecTypeInv, WholeLines, AllLinesYielded, PTL
=============================================================================
