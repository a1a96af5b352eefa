--------------------------- MODULE MeasureProofs ---------------------------
(***************************************************************************)
(* Proofs about what is computed: the draft of a profile (ProfileDraft),   *)
(* the views of the measurements (Ranking), evaluations and their history  *)
(* (EvalRun), and the prompts and the marks of an evaluation (EvalText).   *)
(*                                                                         *)
(* Much of this is what a recursive function, a fold or a sort computes.   *)
(* An induction over the data is done by the least counterexample: of a    *)
(* non-empty set of natural numbers there is a least (LeastExists), and of *)
(* the places where a claim fails the least one is not the first, and the  *)
(* claim goes on from the place before.  A fold is for that a function of  *)
(* the part that is folded (FoldExists, FoldGoesOn, TotalSums), and        *)
(* MapThenFoldSet, which takes its elements by a choice, is one for every  *)
(* choice.                                                                 *)
(*                                                                         *)
(* EvalInv says where an evaluation is, and which of its rows are on the   *)
(* shelf.  TextInv says how a prompt grows: it begins with a piece of      *)
(* filler into which the next needle falls, and what was put in before is  *)
(* behind that piece (ShapeInv); each insertion moves the places of the    *)
(* needles behind it by as much as it makes the text longer.               *)
(***************************************************************************)
EXTENDS EvalRun, EvalText, Ranking, ProfileDraft,
        FiniteSetTheorems, SequenceTheorems, TLAPS

-----------------------------------------------------------------------------
(* The least counterexample, and sets in an order. *)

\* Of natural numbers there is a least.
LEMMA LeastExists ==
  ASSUME NEW S \in SUBSET Nat, S # {}
  PROVE  \E x \in S : \A y \in S : x <= y
<1>1. PICK x \in S : \A y \in S : ~ (<<y, x>> \in OpToRel(<, Nat))
  BY NatLessThanWellFounded, WFMin
<1>2. \A y \in S : y < x => <<y, x>> \in OpToRel(<, Nat)
  BY DEF OpToRel
<1>3. \A y \in S : ~(y < x)
  BY <1>1, <1>2
<1>4. x \in Nat /\ \A y \in S : y \in Nat
  OBVIOUS
<1> QED
  BY <1>3, <1>4

\* Of finite sets there is a smallest.
LEMMA SmallestSet ==
  ASSUME NEW S, IsFiniteSet(S), NEW T \in SUBSET (SUBSET S), T # {}
  PROVE  \E x \in T : \A y \in T : y \subseteq x => y = x
<1>1. T \subseteq FiniteSubsetsOf(S)
  BY FS_Subset DEF FiniteSubsetsOf
<1>2. PICK x \in T : \A y \in T : ~ (<<y, x>> \in StrictSubsetOrdering(S))
  BY <1>1, FS_StrictSubsetOrderingWellFounded, WFMin
<1>3. ASSUME NEW y \in T, y \subseteq x, y # x PROVE FALSE
  <2>1. <<y, x>> \in (SUBSET S) \X (SUBSET S)
    OBVIOUS
  <2>2. <<y, x>> \in StrictSubsetOrdering(S)
    BY <2>1, <1>3 DEF StrictSubsetOrdering
  <2> QED
    BY <2>2, <1>2
<1> QED
  BY <1>3

-----------------------------------------------------------------------------
(* Orders.  R is a set of pairs, <<x, y>> of which says that x is before y. *)

\* R puts the elements of S into a row.
IsOrder(R, S) ==
  /\ \A x \in S : <<x, x>> \notin R
  /\ \A x, y, z \in S : <<x, y>> \in R /\ <<y, z>> \in R => <<x, z>> \in R
  /\ \A x, y \in S : x # y => <<x, y>> \in R \/ <<y, x>> \in R

\* Some of a finite set are not before anything else: there is a first.
LEMMA FirstExists ==
  ASSUME NEW S, IsFiniteSet(S), NEW R, IsOrder(R, S), NEW T \in SUBSET S, T # {}
  PROVE  \E x \in T : \A y \in T : y # x => <<x, y>> \in R
<1> DEFINE HasFirst(u) == \E x \in u : \A y \in u : y # x => <<x, y>> \in R
           Bad == {u \in SUBSET S : u # {} /\ ~HasFirst(u)}
<1> SUFFICES ASSUME Bad # {} PROVE FALSE
  OBVIOUS
<1>1. PICK u \in Bad : \A y \in Bad : y \subseteq u => y = u
  <2>1. Bad \in SUBSET (SUBSET S)
    OBVIOUS
  <2> HIDE DEF Bad
  <2> QED
    BY <2>1, SmallestSet
<1>2. PICK a \in u : TRUE
  OBVIOUS
<1>3. CASE u \ {a} = {}
  <2>1. HasFirst(u)
    BY <1>2, <1>3
  <2> QED
    BY <2>1
<1>4. CASE u \ {a} # {}
  <2>1. u \ {a} \notin Bad
    BY <1>1, <1>2
  <2>2. PICK m \in u \ {a} : \A y \in u \ {a} : y # m => <<m, y>> \in R
    BY <2>1, <1>4
  <2>3. a \in S /\ m \in S /\ a # m
    BY <1>2, <2>2
  <2>4. CASE <<a, m>> \in R
    <3>1. ASSUME NEW y \in u, y # a PROVE <<a, y>> \in R
      <4>1. y \in S /\ (y = m \/ <<m, y>> \in R)
        BY <3>1, <2>2
      <4> QED
        BY <4>1, <2>3, <2>4 DEF IsOrder
    <3> QED
      BY <3>1, <1>2
  <2>5. CASE <<m, a>> \in R
    BY <2>2, <2>5
  <2> QED
    BY <2>3, <2>4, <2>5 DEF IsOrder
<1> QED
  BY <1>3, <1>4

\* In an order one element is before all others.
LEMMA FirstOfAll ==
  ASSUME NEW S, IsFiniteSet(S), NEW R, IsOrder(R, S), S # {}
  PROVE  \E x \in S : \A y \in S : y # x => <<x, y>> \in R
BY FirstExists

\* The elements of S before x.
Before2(R, S, x) == {y \in S : <<y, x>> \in R}
Rank(R, S, x) == Cardinality(Before2(R, S, x))

\* What comes later has more before it.
LEMMA RankRises ==
  ASSUME NEW S, IsFiniteSet(S), NEW R, IsOrder(R, S), NEW x \in S, NEW y \in S, <<x, y>> \in R
  PROVE  Rank(R, S, x) < Rank(R, S, y)
<1> DEFINE A == Before2(R, S, x)
           B == Before2(R, S, y)
<1>1. A \subseteq B /\ x \in B /\ x \notin A /\ B \subseteq S
  BY DEF Before2, IsOrder
<1> HIDE DEF A, B
<1>2. IsFiniteSet(B)
  BY <1>1, FS_Subset
<1>3. IsFiniteSet(A) /\ Cardinality(A) <= Cardinality(B) /\ (Cardinality(A) = Cardinality(B) => A = B)
  BY <1>1, <1>2, FS_Subset
<1>4. Cardinality(A) \in Nat /\ Cardinality(B) \in Nat
  BY <1>2, <1>3, FS_CardinalityType
<1>5. Cardinality(A) < Cardinality(B)
  BY <1>1, <1>3, <1>4
<1> QED
  BY <1>5 DEF Rank, A, B

\* The rank of an element is less than the number of elements.
LEMMA RankIsRank ==
  ASSUME NEW S, IsFiniteSet(S), NEW R, IsOrder(R, S), NEW x \in S
  PROVE  Rank(R, S, x) \in Nat /\ Rank(R, S, x) < Cardinality(S)
<1> DEFINE A == Before2(R, S, x)
<1>1. A \subseteq S /\ x \notin A
  BY DEF Before2, IsOrder
<1> HIDE DEF A
<1>2. IsFiniteSet(A) /\ Cardinality(A) <= Cardinality(S) /\ (Cardinality(A) = Cardinality(S) => A = S)
  BY <1>1, FS_Subset
<1>3. Cardinality(A) \in Nat /\ Cardinality(S) \in Nat
  BY <1>2, FS_CardinalityType
<1>4. Cardinality(A) < Cardinality(S)
  BY <1>1, <1>2, <1>3
<1> QED
  BY <1>3, <1>4 DEF Rank, A

\* Every rank below the number of elements is the rank of one.
LEMMA RankExists ==
  ASSUME NEW S, IsFiniteSet(S), NEW R, IsOrder(R, S), NEW n \in Nat, n < Cardinality(S)
  PROVE  \E x \in S : Rank(R, S, x) = n
<1>0. Cardinality(S) \in Nat
  BY FS_CardinalityType
<1> DEFINE Bad == {k \in Nat : k < Cardinality(S) /\ ~ \E x \in S : Rank(R, S, x) = k}
<1> SUFFICES ASSUME Bad # {} PROVE FALSE
  OBVIOUS
<1>1. PICK k \in Bad : \A j \in Bad : k <= j
  <2>1. Bad \in SUBSET Nat
    OBVIOUS
  <2> HIDE DEF Bad
  <2> QED
    BY <2>1, LeastExists
<1>2. CASE k = 0
  <2>1. S # {}
    BY <1>0, <1>2, FS_EmptySet
  <2>2. PICK x \in S : \A y \in S : y # x => <<x, y>> \in R
    BY <2>1, FirstExists
  <2>3. Before2(R, S, x) = {}
    BY <2>2 DEF Before2, IsOrder
  <2>4. Rank(R, S, x) = 0
    BY <2>3, FS_EmptySet DEF Rank
  <2> QED
    BY <2>4, <1>2
<1>3. CASE k # 0
  <2>1. k - 1 \in Nat /\ k - 1 < Cardinality(S) /\ k - 1 \notin Bad
    BY <1>0, <1>1, <1>3
  <2>2. PICK x \in S : Rank(R, S, x) = k - 1
    BY <2>1
  <2> DEFINE A == Before2(R, S, x)
             T == S \ (A \cup {x})
  <2>3. A \subseteq S /\ x \notin A
    BY DEF Before2, IsOrder
  <2>4. Cardinality(A) = k - 1
    BY <2>2 DEF Rank
  <2> HIDE DEF A
  <2>5. IsFiniteSet(A)
    BY <2>3, FS_Subset
  <2>6. Cardinality(A \cup {x}) = k
    <3>1. Cardinality(A \cup {x}) = Cardinality(A) + 1
      BY <2>3, <2>5, FS_AddElement
    <3> QED
      BY <3>1, <2>4, <2>1
  <2>7. T # {}
    <3>1. k \in Nat /\ k < Cardinality(S)
      OBVIOUS
    <3> HIDE DEF Bad, T
    <3>2. S # A \cup {x}
      BY <2>6, <3>1, <1>0, <2>1
    <3> QED
      BY <3>2, <2>3 DEF T
  <2>8. PICK z \in T : \A y \in T : y # z => <<z, y>> \in R
    <3>1. T \in SUBSET S
      OBVIOUS
    <3> HIDE DEF T, Bad
    <3> QED
      BY <2>7, <3>1, FirstExists
  <2>9. <<x, z>> \in R
    BY <2>8 DEF IsOrder, A, Before2
  <2>10. Before2(R, S, z) = A \cup {x}
    <3>1. ASSUME NEW y \in A PROVE <<y, z>> \in R /\ y \in S
      <4>1. y \in S /\ <<y, x>> \in R
        BY DEF A, Before2
      <4>2. z \in S
        BY <2>8
      <4> QED
        BY <4>1, <4>2, <2>9 DEF IsOrder
    <3>2. ASSUME NEW y \in S, <<y, z>> \in R PROVE y \in A \cup {x}
      <4>1. SUFFICES ASSUME y \in T PROVE FALSE
        OBVIOUS
      <4>2. z \in S /\ (y = z \/ <<z, y>> \in R)
        BY <4>1, <2>8
      <4> QED
        BY <4>2, <3>2 DEF IsOrder
    <3> QED
      BY <3>1, <3>2, <2>9 DEF Before2
  <2>11. z \in S /\ Rank(R, S, z) = k
    BY <2>8, <2>10, <2>6 DEF Rank
  <2> QED
    BY <2>11
<1> QED
  BY <1>2, <1>3

\* s lists the elements of S in the order R, each once.
Lists(s, R, S) ==
  /\ s \in Seq(S)
  /\ Len(s) = Cardinality(S)
  /\ \A x \in S : \E i \in 1..Len(s) : s[i] = x
  /\ \A i, j \in 1..Len(s) : i < j => <<s[i], s[j]>> \in R

\* A function of the first numbers is a sequence.
LEMMA FunctionIsSeq ==
  ASSUME NEW S, NEW n \in Nat, NEW s \in [1..n -> S]
  PROVE  s \in Seq(S) /\ Len(s) = n
OBVIOUS

\* The sequence whose element of a place is the one with as many before it lists the set.
LEMMA RanksList ==
  ASSUME NEW S, IsFiniteSet(S), NEW R, IsOrder(R, S),
         NEW s, s = [i \in 1..Cardinality(S) |-> s[i]],
         \A i \in 1..Cardinality(S) : \A x \in S :
            Rank(R, S, x) = i - 1 => s[i] \in S /\ Rank(R, S, s[i]) = i - 1
  PROVE  Lists(s, R, S)
<1>0. Cardinality(S) \in Nat
  BY FS_CardinalityType
<1>1. \A i \in 1..Cardinality(S) : s[i] \in S /\ Rank(R, S, s[i]) = i - 1
  <2> TAKE i \in 1..Cardinality(S)
  <2>1. i - 1 \in Nat /\ i - 1 < Cardinality(S)
    BY <1>0
  <2>2. \E x \in S : Rank(R, S, x) = i - 1
    BY <2>1, RankExists
  <2> QED
    BY <2>2
<1>2. s \in [1..Cardinality(S) -> S]
  BY <1>1
<1>3. s \in Seq(S) /\ Len(s) = Cardinality(S)
  BY <1>0, <1>2, FunctionIsSeq
<1>4. ASSUME NEW x \in S PROVE \E i \in 1..Len(s) : s[i] = x
  <2> DEFINE i == Rank(R, S, x) + 1
  <2>1. i \in 1..Cardinality(S) /\ Rank(R, S, x) = i - 1
    BY RankIsRank, <1>0
  <2>2. s[i] \in S /\ Rank(R, S, s[i]) = Rank(R, S, x)
    BY <2>1, <1>1
  <2> HIDE DEF i
  <2>3. s[i] = x
    <3>1. Rank(R, S, x) \in Nat
      BY RankIsRank
    <3>2. ~(<<x, s[i]>> \in R) /\ ~(<<s[i], x>> \in R)
      <4>1. <<x, s[i]>> \in R => Rank(R, S, x) < Rank(R, S, s[i])
        BY <2>2, RankRises
      <4>2. <<s[i], x>> \in R => Rank(R, S, s[i]) < Rank(R, S, x)
        BY <2>2, RankRises
      <4> QED
        BY <4>1, <4>2, <3>1, <2>2
    <3> QED
      BY <3>2, <2>2 DEF IsOrder
  <2> QED
    BY <2>1, <2>3, <1>3
<1>5. ASSUME NEW i \in 1..Len(s), NEW j \in 1..Len(s), i < j PROVE <<s[i], s[j]>> \in R
  <2>1. s[i] \in S /\ s[j] \in S /\ Rank(R, S, s[i]) = i - 1 /\ Rank(R, S, s[j]) = j - 1
    BY <1>1, <1>3
  <2>2. s[i] # s[j]
    BY <2>1, <1>5
  <2>3. ~(<<s[j], s[i]>> \in R)
    <3>1. <<s[j], s[i]>> \in R => Rank(R, S, s[j]) < Rank(R, S, s[i])
      BY <2>1, RankRises
    <3> QED
      BY <3>1, <2>1, <1>5
  <2> QED
    BY <2>1, <2>2, <2>3 DEF IsOrder
<1> QED
  BY <1>3, <1>4, <1>5 DEF Lists

-----------------------------------------------------------------------------
(* Numbers. *)

\* Of a finite set of whole numbers there is a greatest and a least.
LEMMA GreatestExists ==
  ASSUME NEW S \in SUBSET Int, IsFiniteSet(S), S # {}
  PROVE  Max(S) \in S /\ \A y \in S : Max(S) >= y
<1>0. \A x \in S : x \in Int
  OBVIOUS
<1>1. PICK R : \A x, y \in S : <<x, y>> \in R <=> x > y
  <2> DEFINE R == {p \in S \X S : p[1] > p[2]}
  <2>1. \A x, y \in S : <<x, y>> \in R <=> x > y
    OBVIOUS
  <2> QED
    BY <2>1
<1>2. IsOrder(R, S)
  BY <1>0, <1>1 DEF IsOrder
<1>3. PICK x \in S : \A y \in S : y # x => <<x, y>> \in R
  BY <1>2, FirstOfAll
<1>4. \A y \in S : x >= y
  <2>1. \A y \in S : y # x => x > y
    BY <1>1, <1>3
  <2> QED
    BY <2>1, <1>0
<1> QED
  BY <1>4 DEF Max
\* Of a finite set of whole numbers there is a least.
LEMMA LowestExists ==
  ASSUME NEW S \in SUBSET Int, IsFiniteSet(S), S # {}
  PROVE  Min(S) \in S /\ \A y \in S : Min(S) <= y
<1>0. \A x \in S : x \in Int
  OBVIOUS
<1>1. PICK R : \A x, y \in S : <<x, y>> \in R <=> x < y
  <2> DEFINE R == {p \in S \X S : p[1] < p[2]}
  <2>1. \A x, y \in S : <<x, y>> \in R <=> x < y
    OBVIOUS
  <2> QED
    BY <2>1
<1>2. IsOrder(R, S)
  BY <1>0, <1>1 DEF IsOrder
<1>3. PICK x \in S : \A y \in S : y # x => <<x, y>> \in R
  BY <1>2, FirstOfAll
<1>4. \A y \in S : x <= y
  <2>1. \A y \in S : y # x => x < y
    BY <1>1, <1>3
  <2> QED
    BY <2>1, <1>0
<1> QED
  BY <1>4 DEF Min

\* The elements of a sequence are finitely many.
LEMMA ElementsAreFinite ==
  ASSUME NEW S, NEW s \in Seq(S)
  PROVE  IsFiniteSet(ToSet(s)) /\ ToSet(s) \subseteq S
<1> DEFINE T == ToSet(s)
<1>1. DOMAIN s = 1..Len(s) /\ Len(s) \in Nat
  OBVIOUS
<1>2. IsFiniteSet(1..Len(s))
  BY <1>1, FS_Interval
<1>3. s \in Surjection(1..Len(s), T)
  BY <1>1 DEF Surjection, ToSet
<1>4. IsFiniteSet(T)
  <2> HIDE DEF T
  <2> QED
    BY <1>2, <1>3, FS_Surjection
<1> QED
  BY <1>4 DEF ToSet

\* Sorted numbers are a function of the ranks.
LEMMA AscendingIsFunction ==
  ASSUME NEW S PROVE Ascending(S) = [i \in 1..Cardinality(S) |-> Ascending(S)[i]]
<1> DEFINE e(i) == CHOOSE x \in S : Cardinality({y \in S : y < x}) = i - 1
           a == Ascending(S)
<1>1. a = [i \in 1..Cardinality(S) |-> e(i)]
  BY DEF Ascending
<1> HIDE DEF e, a
<1>2. a = [i \in 1..Cardinality(S) |-> a[i]]
  BY <1>1
<1> QED
  BY <1>2 DEF a

\* Ascending lists a set of numbers.
LEMMA AscendingLists ==
  ASSUME NEW S \in SUBSET Int, IsFiniteSet(S)
  PROVE  /\ Ascending(S) \in Seq(S)
         /\ Len(Ascending(S)) = Cardinality(S) /\ Cardinality(S) \in Nat
         /\ ToSet(Ascending(S)) = S
         /\ \A i, j \in 1..Len(Ascending(S)) : i < j => Ascending(S)[i] < Ascending(S)[j]
<1> DEFINE a == Ascending(S)
<1>0. \A x \in S : x \in Int
  OBVIOUS
<1>1. PICK R : \A x, y \in S : <<x, y>> \in R <=> x < y
  <2> DEFINE R == {p \in S \X S : p[1] < p[2]}
  <2>1. \A x, y \in S : <<x, y>> \in R <=> x < y
    OBVIOUS
  <2> QED
    BY <2>1
<1>2. IsOrder(R, S)
  BY <1>0, <1>1 DEF IsOrder
<1>3. \A x \in S : {y \in S : y < x} = Before2(R, S, x)
  BY <1>1 DEF Before2
<1>4. \A x \in S : Cardinality({y \in S : y < x}) = Rank(R, S, x)
  BY <1>3 DEF Rank
<1>5. /\ a = [i \in 1..Cardinality(S) |-> a[i]]
      /\ \A i \in 1..Cardinality(S) : \A x \in S :
            Rank(R, S, x) = i - 1 => a[i] \in S /\ Rank(R, S, a[i]) = i - 1
  <2>1. a = [i \in 1..Cardinality(S) |-> a[i]]
    BY AscendingIsFunction DEF Ascending
  <2>2. ASSUME NEW i \in 1..Cardinality(S), NEW x \in S, Rank(R, S, x) = i - 1
        PROVE  a[i] \in S /\ Rank(R, S, a[i]) = i - 1
    <3>1. Cardinality({y \in S : y < x}) = i - 1
      BY <1>4, <2>2
    <3>2. a[i] = CHOOSE u \in S : Cardinality({y \in S : y < u}) = i - 1
      BY DEF Ascending
    <3> HIDE DEF a
    <3>3. a[i] \in S /\ Cardinality({y \in S : y < a[i]}) = i - 1
      BY <3>1, <3>2
    <3> QED
      BY <1>4, <3>3
  <2> QED
    BY <2>1, <2>2
<1> HIDE DEF a
<1>6. Lists(a, R, S)
  BY <1>2, <1>5, RanksList
<1>7. Cardinality(S) \in Nat
  BY FS_CardinalityType
<1>8. ToSet(a) = S
  <2>1. a \in Seq(S) /\ \A x \in S : \E i \in 1..Len(a) : a[i] = x
    BY <1>6 DEF Lists
  <2>2. DOMAIN a = 1..Len(a) /\ \A i \in 1..Len(a) : a[i] \in S
    BY <2>1
  <2> QED
    BY <2>1, <2>2 DEF ToSet
<1>9. \A i, j \in 1..Len(a) : i < j => a[i] < a[j]
  <2>1. \A i \in 1..Len(a) : a[i] \in S
    BY <1>6 DEF Lists
  <2> QED
    BY <1>1, <1>6, <2>1 DEF Lists
<1> QED
  BY <1>6, <1>7, <1>8, <1>9 DEF Lists, a

-----------------------------------------------------------------------------
(* The steps of a sweep. *)

\* What GenerateSweepSteps does at a step, given what it does at larger ones.
StepsFrom(g, s, max) ==
  CASE s > max  -> <<>>
    [] s = max  -> <<s>>
    [] OTHER    -> <<s>> \o (IF 2 * s > max THEN <<max>> ELSE g[2 * s])

\* g doubles from every step of which less than n is left to the widest.
Doubles(g, max, n) == g = [s \in {s \in 1..Widest : Widest - s < n} |-> StepsFrom(g, s, max)]

\* What a sweep does at a step depends on what it does at twice that.
LEMMA StepsFromSame ==
  ASSUME NEW g, NEW h, NEW s, NEW max, s \in Nat, max \in Nat, 2 * s <= max => g[2 * s] = h[2 * s]
  PROVE  StepsFrom(g, s, max) = StepsFrom(h, s, max)
<1>1. CASE 2 * s <= max
  BY <1>1 DEF StepsFrom
<1>2. CASE 2 * s > max
  BY <1>2 DEF StepsFrom
<1> QED
  BY <1>1, <1>2

\* Doubling is defined: the larger steps are doubled first.
LEMMA DoublingExists ==
  ASSUME NEW max \in 1..Widest, NEW n \in Nat
  PROVE  \E g : Doubles(g, max, n)
<1>0. Widest \in Nat /\ max \in Nat /\ max <= Widest
  BY DraftAssumption
<1> DEFINE Bad == {k \in Nat : ~ \E g : Doubles(g, max, k)}
<1> SUFFICES ASSUME Bad # {} PROVE FALSE
  OBVIOUS
<1>1. PICK k \in Bad : \A j \in Bad : k <= j
  <2>1. Bad \in SUBSET Nat
    OBVIOUS
  <2> HIDE DEF Bad
  <2> QED
    BY <2>1, LeastExists
<1> DEFINE dom(m) == {s \in 1..Widest : Widest - s < m}
<1>2. CASE k = 0
  <2> DEFINE g == [s \in {} |-> 0]
  <2>1. {s \in 1..Widest : Widest - s < k} = {}
    BY <1>0, <1>2
  <2>2. \A f : [s \in {} |-> StepsFrom(f, s, max)] = g
    OBVIOUS
  <2>3. Doubles(g, max, k)
    BY <2>1, <2>2 DEF Doubles
  <2> QED
    BY <2>3
<1>3. CASE k # 0
  <2>1. k - 1 \in Nat /\ k - 1 \notin Bad
    BY <1>1, <1>3
  <2>2. PICK g : Doubles(g, max, k - 1)
    BY <2>1
  <2> DEFINE h == [s \in dom(k) |-> IF s \in dom(k - 1) THEN g[s] ELSE StepsFrom(g, s, max)]
  <2>3. \A s \in dom(k - 1) : g[s] = StepsFrom(g, s, max)
    BY <2>2 DEF Doubles
  <2>4. \A s \in dom(k) : h[s] = StepsFrom(g, s, max)
    BY <2>3
  <2>5. ASSUME NEW s \in dom(k), 2 * s <= max PROVE g[2 * s] = h[2 * s]
    <3>1. 2 * s \in dom(k - 1) /\ 2 * s \in dom(k)
      BY <1>0, <2>5
    <3> QED
      BY <3>1
  <2> HIDE DEF h
  <2>6. ASSUME NEW s \in dom(k) PROVE h[s] = StepsFrom(h, s, max)
    <3>1. s \in Nat
      OBVIOUS
    <3>2. StepsFrom(g, s, max) = StepsFrom(h, s, max)
      BY <3>1, <1>0, <2>5, StepsFromSame
    <3> QED
      BY <3>2, <2>4
  <2>7. h = [s \in dom(k) |-> h[s]]
    BY DEF h
  <2>8. h = [s \in dom(k) |-> StepsFrom(h, s, max)]
    BY <2>6, <2>7
  <2>9. Doubles(h, max, k)
    BY <2>8 DEF Doubles
  <2> QED
    BY <2>9
<1> QED
  BY <1>2, <1>3

\* GenerateSweepSteps is one of them at the first step.
LEMMA SweepIsDoubled ==
  ASSUME NEW max \in 1..Widest
  PROVE  \E g : /\ \A s \in 1..Widest : g[s] = StepsFrom(g, s, max)
                /\ GenerateSweepSteps(max) = g[FirstStep]
<1>0. Widest \in Nat
  BY DraftAssumption
<1>1. {s \in 1..Widest : Widest - s < Widest} = 1..Widest
  BY <1>0
<1> DEFINE D(g) == g = [s \in 1..Widest |-> StepsFrom(g, s, max)]
           g == CHOOSE g : D(g)
<1>2. \E f : D(f)
  <2>1. PICK f : Doubles(f, max, Widest)
    BY <1>0, DoublingExists
  <2> QED
    BY <2>1, <1>1 DEF Doubles
<1>3. D(g)
  BY <1>2
<1>4. GenerateSweepSteps(max) = g[FirstStep]
  BY DEF GenerateSweepSteps, StepsFrom
<1> HIDE DEF g
<1> QED
  BY <1>3, <1>4

\* q goes up from s to max.
IsSweep(q, s, max) ==
  /\ q \in Seq(Nat) /\ Len(q) > 0 /\ q[1] = s /\ q[Len(q)] = max
  /\ \A i \in 1..Len(q) : q[i] >= s
  /\ \A i \in 2..Len(q) : q[i - 1] < q[i]

\* A sweep with a smaller step before it is a sweep.
LEMMA SweepIsLonger ==
  ASSUME NEW s \in Nat, NEW t \in Nat, NEW max \in Nat, s < t, NEW q, IsSweep(q, t, max)
  PROVE  IsSweep(<<s>> \o q, s, max)
<1> DEFINE p == <<s>> \o q
<1>1. q \in Seq(Nat) /\ Len(q) \in Nat /\ Len(q) > 0
  BY DEF IsSweep
<1>2. p \in Seq(Nat) /\ Len(p) = Len(q) + 1 /\ p[1] = s
  BY <1>1
<1>3. \A i \in 2..Len(p) : p[i] = q[i - 1]
  BY <1>1, <1>2
<1> HIDE DEF p
<1> DEFINE n == Len(q)
<1>9. n \in Nat /\ n > 0 /\ Len(p) = n + 1 /\ p[1] = s /\ \A i \in 2..(n + 1) : p[i] = q[i - 1]
  BY <1>1, <1>2, <1>3
<1>5. /\ \A i \in 1..n : q[i] \in Nat /\ q[i] >= t
      /\ q[n] = max /\ \A i \in 2..n : q[i - 1] < q[i]
  BY <1>1 DEF IsSweep
<1> HIDE DEF n
<1>4. p[n + 1] = max
  <2>1. n + 1 \in 2..(n + 1) /\ n + 1 - 1 = n
    BY <1>9
  <2> QED
    BY <2>1, <1>5, <1>9
<1>6. ASSUME NEW i \in 1..(n + 1) PROVE p[i] >= s
  <2>1. CASE i = 1
    BY <2>1, <1>9
  <2>2. CASE i # 1
    <3>1. i \in 2..(n + 1) /\ i - 1 \in 1..n
      BY <2>2, <1>9
    <3>2. p[i] = q[i - 1] /\ q[i - 1] \in Nat /\ q[i - 1] >= t
      BY <3>1, <1>5, <1>9
    <3> QED
      BY <3>2
  <2> QED
    BY <2>1, <2>2
<1>7. ASSUME NEW i \in 2..(n + 1) PROVE p[i - 1] < p[i]
  <2>1. CASE i = 2
    <3>1. p[2] = q[1] /\ q[1] >= t /\ q[1] \in Nat /\ i - 1 = 1
      <4>1. 2 \in 2..(n + 1) /\ 1 \in 1..n /\ 2 - 1 = 1
        BY <1>9
      <4> QED
        BY <4>1, <2>1, <1>5, <1>9
    <3> QED
      BY <3>1, <2>1, <1>9
  <2>2. CASE i # 2
    <3> DEFINE j == i - 1
    <3>1. j \in 2..n /\ j \in 2..(n + 1) /\ i - 1 = j
      BY <2>2, <1>9
    <3> HIDE DEF j
    <3>2. p[i] = q[j] /\ p[j] = q[j - 1] /\ q[j - 1] < q[j]
      BY <3>1, <1>5, <1>9
    <3> QED
      BY <3>1, <3>2
  <2> QED
    BY <2>1, <2>2
<1>8. IsSweep(p, s, max)
  <2>1. p \in Seq(Nat) /\ Len(p) > 0 /\ p[1] = s /\ p[Len(p)] = max
    BY <1>2, <1>4, <1>9
  <2>2. \A i \in 1..Len(p) : p[i] >= s
    BY <1>6, <1>9
  <2>3. \A i \in 2..Len(p) : p[i - 1] < p[i]
    BY <1>7, <1>9
  <2> QED
    BY <2>1, <2>2, <2>3 DEF IsSweep
<1> QED
  BY <1>8 DEF p

\* The sweep that is generated goes up from the first step to the end of the context.
LEMMA SweepIsGenerated ==
  ASSUME NEW max \in 1..Widest
  PROVE  /\ GenerateSweepSteps(max) \in Seq(Nat)
         /\ FirstStep > max => GenerateSweepSteps(max) = <<>>
         /\ FirstStep <= max => IsSweep(GenerateSweepSteps(max), FirstStep, max)
<1>0. Widest \in Nat /\ max \in Nat /\ max <= Widest /\ FirstStep \in 1..Widest /\ FirstStep \in Nat
  BY DraftAssumption
<1>1. PICK g : /\ \A s \in 1..Widest : g[s] = StepsFrom(g, s, max)
               /\ GenerateSweepSteps(max) = g[FirstStep]
  BY SweepIsDoubled
<1>2. ASSUME NEW s \in 1..max, \A t \in 1..max : t > s => IsSweep(g[t], t, max)
      PROVE  IsSweep(g[s], s, max)
  <2>0. s \in Nat /\ s <= max /\ s > 0 /\ s \in 1..Widest
    BY <1>0
  <2>1. g[s] = StepsFrom(g, s, max)
    BY <2>0, <1>1
  <2>2. IsSweep(<<max>>, max, max)
    BY <1>0 DEF IsSweep
  <2>3. CASE s = max
    <3>1. g[s] = <<max>>
      BY <2>1, <2>3, <1>0 DEF StepsFrom
    <3> QED
      BY <3>1, <2>2, <2>3
  <2>4. CASE s < max /\ 2 * s > max
    <3>1. g[s] = <<s>> \o <<max>>
      BY <2>1, <2>4, <1>0, <2>0 DEF StepsFrom
    <3> QED
      BY <3>1, <2>2, <2>4, <2>0, <1>0, SweepIsLonger
  <2>5. CASE s < max /\ 2 * s <= max
    <3>1. g[s] = <<s>> \o g[2 * s]
      BY <2>1, <2>5, <1>0, <2>0 DEF StepsFrom
    <3>2. 2 * s \in 1..max /\ 2 * s > s /\ 2 * s \in Nat
      BY <2>5, <2>0
    <3>3. IsSweep(g[2 * s], 2 * s, max)
      BY <3>2, <1>2
    <3> DEFINE t == 2 * s
    <3>4. t \in Nat /\ s < t /\ IsSweep(g[t], t, max) /\ g[s] = <<s>> \o g[t]
      BY <3>1, <3>2, <3>3
    <3> HIDE DEF t
    <3> QED
      BY <3>4, <2>0, <1>0, SweepIsLonger
  <2> QED
    BY <2>0, <1>0, <2>3, <2>4, <2>5
<1>3. \A s \in 1..max : IsSweep(g[s], s, max)
  <2> DEFINE Bad == {k \in Nat : k < max /\ ~IsSweep(g[max - k], max - k, max)}
  <2>1. Bad = {}
    <3> SUFFICES ASSUME Bad # {} PROVE FALSE
      OBVIOUS
    <3>1. PICK k \in Bad : \A j \in Bad : k <= j
      <4>1. Bad \in SUBSET Nat
        OBVIOUS
      <4> HIDE DEF Bad
      <4> QED
        BY <4>1, LeastExists
    <3> DEFINE s == max - k
    <3>2. s \in 1..max /\ k \in Nat /\ ~IsSweep(g[s], s, max)
      BY <1>0
    <3>3. ASSUME NEW t \in 1..max, t > s PROVE IsSweep(g[t], t, max)
      <4>1. max - t \in Nat /\ max - t < k /\ max - t < max /\ max - (max - t) = t
        BY <3>2, <3>3, <1>0
      <4>2. max - t \notin Bad
        BY <4>1, <3>1
      <4>3. IsSweep(g[max - (max - t)], max - (max - t), max)
        BY <4>1, <4>2
      <4> QED
        BY <4>1, <4>3
    <3> HIDE DEF s, Bad
    <3> QED
      BY <3>2, <3>3, <1>2
  <2>2. ASSUME NEW s \in 1..max PROVE IsSweep(g[s], s, max)
    <3>1. max - s \in Nat /\ max - s < max /\ max - (max - s) = s
      BY <1>0
    <3>2. max - s \notin Bad
      BY <2>1
    <3>3. IsSweep(g[max - (max - s)], max - (max - s), max)
      BY <3>1, <3>2
    <3> QED
      BY <3>1, <3>3
  <2> QED
    BY <2>2
<1>4. CASE FirstStep > max
  <2>1. g[FirstStep] = <<>>
    <3>1. StepsFrom(g, FirstStep, max) = <<>>
      BY <1>4 DEF StepsFrom
    <3> QED
      BY <3>1, <1>0, <1>1
  <2>2. <<>> \in Seq(Nat)
    OBVIOUS
  <2> QED
    BY <2>1, <2>2, <1>1, <1>4, <1>0
<1>5. CASE FirstStep <= max
  <2>1. FirstStep \in 1..max
    BY <1>0, <1>5
  <2>2. IsSweep(GenerateSweepSteps(max), FirstStep, max)
    BY <2>1, <1>1, <1>3
  <2> QED
    BY <2>2, <1>0, <1>5 DEF IsSweep
<1> QED
  BY <1>0, <1>4, <1>5

\* What a sweep is after it was loaded.
IsLoaded(steps, loaded, max) ==
  /\ loaded \in Seq(Nat)
  /\ ToSet(steps) \subseteq ToSet(loaded)
  /\ Rises(steps) => Rises(loaded)
  /\ max >= FirstStep => loaded # <<>> /\ Last(loaded) >= max
  /\ ExtendSweepSteps(loaded, max) = loaded

\* Steps that end below the maximum are put in order, with those of the sweep.
LEMMA SweepIsExtended ==
  ASSUME NEW max \in 1..Widest, NEW steps \in Seq(Nat)
  PROVE  IsLoaded(steps, ExtendSweepSteps(steps, max), max)
<1>0. max \in Nat /\ FirstStep \in Nat
  BY DraftAssumption
<1>1. CASE steps # <<>> /\ Last(steps) >= max
  <2>1. ExtendSweepSteps(steps, max) = steps
    BY <1>1 DEF ExtendSweepSteps
  <2> QED
    BY <2>1, <1>1 DEF IsLoaded
<1>2. CASE ~(steps # <<>> /\ Last(steps) >= max)
  <2> DEFINE gen == GenerateSweepSteps(max)
             U == ToSet(steps) \cup ToSet(gen)
             loaded == Ascending(U)
  <2>1. gen \in Seq(Nat)
    BY SweepIsGenerated
  <2>2. U \in SUBSET Nat /\ IsFiniteSet(U)
    <3>1. IsFiniteSet(ToSet(steps)) /\ ToSet(steps) \subseteq Nat
      BY ElementsAreFinite
    <3>2. IsFiniteSet(ToSet(gen)) /\ ToSet(gen) \subseteq Nat
      BY <2>1, ElementsAreFinite
    <3> HIDE DEF gen
    <3> QED
      BY <3>1, <3>2, FS_Union
  <2>3. ExtendSweepSteps(steps, max) = loaded
    BY <1>2 DEF ExtendSweepSteps
  <2> HIDE DEF U
  <2>4. /\ loaded \in Seq(U) /\ Len(loaded) = Cardinality(U) /\ Cardinality(U) \in Nat
        /\ ToSet(loaded) = U
        /\ \A i, j \in 1..Len(loaded) : i < j => loaded[i] < loaded[j]
    <3>1. U \in SUBSET Int
      BY <2>2
    <3> QED
      BY <2>2, <3>1, AscendingLists
  <2> HIDE DEF loaded
  <2>5. loaded \in Seq(Nat)
    <3>1. loaded \in [1..Len(loaded) -> U] /\ Len(loaded) \in Nat
      BY <2>4
    <3>2. loaded \in [1..Len(loaded) -> Nat]
      BY <3>1, <2>2
    <3> QED
      BY <3>1, <3>2, FunctionIsSeq
  <2>6. Rises(loaded)
    <3>1. ASSUME NEW i \in 2..Len(loaded) PROVE loaded[i - 1] < loaded[i]
      <4>1. i - 1 \in 1..Len(loaded) /\ i \in 1..Len(loaded) /\ i - 1 < i
        BY <2>4
      <4> QED
        BY <4>1, <2>4
    <3> QED
      BY <3>1 DEF Rises
  <2>7. ASSUME NEW x \in U PROVE loaded # <<>> /\ Last(loaded) >= x
    <3>1. PICK i \in 1..Len(loaded) : loaded[i] = x
      <4>1. DOMAIN loaded = 1..Len(loaded)
        BY <2>5
      <4> QED
        BY <4>1, <2>4 DEF ToSet
    <3>2. Len(loaded) \in 1..Len(loaded) /\ Len(loaded) \in Nat /\ Len(loaded) > 0
      BY <2>5
    <3>3. loaded[Len(loaded)] \in Nat /\ x \in Nat
      BY <2>2, <2>5, <3>2
    <3>4. CASE i = Len(loaded)
      BY <3>1, <3>2, <3>3, <3>4 DEF Last
    <3>5. CASE i # Len(loaded)
      <4>1. i < Len(loaded)
        BY <3>2, <3>5
      <4>2. loaded[i] < loaded[Len(loaded)]
        BY <4>1, <3>2, <2>4
      <4> QED
        BY <4>2, <3>1, <3>2, <3>3 DEF Last
    <3> QED
      BY <3>4, <3>5
  <2>8. ASSUME max >= FirstStep PROVE loaded # <<>> /\ Last(loaded) >= max
    <3>1. IsSweep(gen, FirstStep, max)
      BY <2>8, <1>0, SweepIsGenerated
    <3>2. gen[Len(gen)] = max /\ Len(gen) \in DOMAIN gen
      BY <3>1, <2>1 DEF IsSweep
    <3> HIDE DEF gen
    <3>3. max \in U
      BY <3>2 DEF U, ToSet
    <3> QED
      BY <3>3, <2>7
  <2>9. ExtendSweepSteps(loaded, max) = loaded
    <3>1. CASE loaded # <<>> /\ Last(loaded) >= max
      BY <3>1 DEF ExtendSweepSteps
    <3>2. CASE ~(loaded # <<>> /\ Last(loaded) >= max)
      <4>1. FirstStep > max
        BY <3>2, <2>8, <1>0
      <4>2. gen = <<>>
        BY <4>1, SweepIsGenerated
      <4>3. ToSet(gen) = {}
        <5>1. DOMAIN gen = {}
          BY <4>2
        <5> QED
          BY <5>1 DEF ToSet
      <4>4. ToSet(loaded) \cup ToSet(gen) = U
        BY <4>3, <2>4
      <4>5. ExtendSweepSteps(loaded, max) = Ascending(ToSet(loaded) \cup ToSet(gen))
        BY <3>2 DEF ExtendSweepSteps
      <4> QED
        BY <4>4, <4>5 DEF loaded
    <3> QED
      BY <3>1, <3>2
  <2>10. ToSet(steps) \subseteq ToSet(loaded)
    BY <2>4 DEF U
  <2> QED
    BY <2>3, <2>5, <2>6, <2>8, <2>9, <2>10 DEF IsLoaded
<1> QED
  BY <1>1, <1>2

-----------------------------------------------------------------------------
(* What is inferred from a configuration. *)

Backend == {"mlx_whisper", "mlx_audio", "mflux", "mlx_vlm", "llama_cpp", "vllm_mlx", "transformers"}
Io == {DraftIo(task) : task \in AllTasks \cup {"drafter"}}

\* What is inferred is a task, and never a video's.
LEMMA TaskIsInferred ==
  ASSUME NEW c
  PROVE  InferModelType(c) \in AllTasks \ {"video_gen"}
<1> DEFINE spoken == {c.type, c.repo} \cup (IF c.vision THEN {"multimodal"} ELSE {})
           hinted == {i \in DOMAIN Hints : Hints[i] \in spoken}
<1>1. DOMAIN Hints = 1..4 /\ Hints[1] = "asr" /\ Hints[2] = "tts" /\ Hints[3] = "image_gen" /\ Hints[4] = "multimodal"
  BY DEF Hints
<1>2. \A i \in DOMAIN Hints : Hints[i] \in AllTasks \ {"video_gen"}
  BY <1>1 DEF AllTasks, ToSet
<1>3. "llm" \in AllTasks \ {"video_gen"}
  BY DEF AllTasks
<1> HIDE DEF spoken
<1>4. CASE hinted # {}
  <2>1. hinted \in SUBSET Nat /\ hinted \subseteq DOMAIN Hints
    BY <1>1
  <2> HIDE DEF hinted
  <2>2. PICK x \in hinted : \A y \in hinted : x <= y
    BY <2>1, <1>4, LeastExists
  <2>3. Min(hinted) \in hinted
    BY <2>2 DEF Min
  <2>4. Hints[Min(hinted)] \in AllTasks \ {"video_gen"}
    BY <2>1, <2>3, <1>2
  <2>5. InferModelType(c) = Hints[Min(hinted)]
    BY <1>4 DEF InferModelType, hinted, spoken
  <2> QED
    BY <2>4, <2>5
<1>5. CASE hinted = {}
  <2>1. InferModelType(c) = "llm"
    BY <1>5 DEF InferModelType, spoken
  <2> QED
    BY <2>1, <1>3
<1> QED
  BY <1>4, <1>5

\* The smaller and the larger of two numbers.
LEMMA LeastOfTwo ==
  ASSUME NEW a \in Int, NEW b \in Int
  PROVE  /\ Min({a, b}) \in {a, b} /\ Min({a, b}) <= a /\ Min({a, b}) <= b
         /\ Max({a, b}) \in {a, b} /\ Max({a, b}) >= a /\ Max({a, b}) >= b
<1>1. \E x \in {a, b} : \A y \in {a, b} : x <= y
  OBVIOUS
<1>2. \E x \in {a, b} : \A y \in {a, b} : x >= y
  OBVIOUS
<1> QED
  BY <1>1, <1>2 DEF Min, Max

\* A length that is stretched by a factor over 1 does not get shorter.
LEMMA TenthsGrow ==
  ASSUME NEW l \in Nat, NEW f \in Nat, f > 10
  PROVE  (l * f) \div 10 >= l /\ (l * f) \div 10 \in Nat
<1>1. l * f >= l * 10 /\ l * f \in Nat
  OBVIOUS
<1> DEFINE p == l * f
<1>2. p \in Nat /\ p >= l * 10
  BY <1>1
<1> HIDE DEF p
<1>3. p \div 10 >= l /\ p \div 10 \in Nat
  BY <1>2
<1> QED
  BY <1>3 DEF p

\* What a configuration says of the context.
ContextFields(c) ==
  /\ c.length \in 1..Widest /\ c.original \in Nat /\ c.factor \in Nat

\* A context is a number of 32 bits, no shorter than the configuration's length, and
\* extending it again changes nothing.
LEMMA ContextIsExtended ==
  ASSUME NEW c, ContextFields(c)
  PROVE  /\ ContextMax(c) \in 1..Widest
         /\ ContextMax(c) >= c.length
         /\ ContextMax(c) > c.length => (c.original # 0 => c.length = c.original)
<1>0. c.length \in Nat /\ c.length > 0 /\ c.length <= Widest /\ Widest \in Nat /\ c.factor \in Nat /\ c.original \in Nat
  BY DraftAssumption DEF ContextFields
<1> DEFINE plain == \/ c.rope = "none"
                    \/ c.original # 0 /\ c.length > c.original
                    \/ c.factor <= 10
                    \/ c.rope = "unknown"
                    \/ c.original # 0 /\ c.length # c.original
           p == (c.length * c.factor) \div 10
<1>1. CASE plain
  <2>1. ContextMax(c) = c.length
    BY <1>1 DEF ContextMax
  <2> QED
    BY <2>1, <1>0
<1>2. CASE ~plain
  <2>1. ContextMax(c) = Min({p, Widest})
    BY <1>2 DEF ContextMax
  <2>2. p \in Nat /\ p >= c.length
    BY <1>0, <1>2, TenthsGrow
  <2>3. c.original # 0 => c.length = c.original
    BY <1>2
  <2> HIDE DEF p, plain
  <2>4. ContextMax(c) \in {p, Widest} /\ ContextMax(c) <= Widest
    BY <2>1, <2>2, <1>0, LeastOfTwo
  <2> QED
    BY <2>4, <2>2, <2>3, <1>0
<1> QED
  BY <1>1, <1>2

-----------------------------------------------------------------------------
(* The profile. *)

Task == AllTasks \cup {"drafter"}
DraftRecord ==
  [task : Task, backend : Backend, io : Io, max : 1..Widest, default : Int, steps : Seq(Nat)]

\* The backend forgets only that a plain checkpoint is one.
PlainIsPlain == draft.backend = "transformers" => ~config.gguf /\ ~config.mlx

DraftInv ==
  /\ handled \in BOOLEAN
  /\ draft # NoDraft =>
        /\ config \in ConfigOf
        /\ draft \in DraftRecord
        /\ draft.max = ContextMax(config)
        /\ draft.default = DefaultOf(draft.max)
        /\ PlainIsPlain
  /\ IoIsOfTask
  /\ BackendServesTask
  /\ BackendComesBack

\* The fields of a configuration.
LEMMA ConfigFields ==
  ASSUME NEW c \in ConfigOf
  PROVE  ContextFields(c) /\ c.gguf \in BOOLEAN /\ c.mlx \in BOOLEAN /\ c.drafter \in BOOLEAN
<1>1. Widest \in Nat /\ DefaultContext \in 1..Widest /\ Length \subseteq 1..Widest /\ Factor \subseteq Nat
  BY DraftAssumption
<1>2. 10 \in Nat /\ 0 \in Nat
  OBVIOUS
<1>3. c.length \in {DefaultContext} \cup Length /\ c.original \in Length \cup {0} /\ c.factor \in {10} \cup Factor
  BY DEF ConfigOf
<1>4. c.gguf \in BOOLEAN /\ c.mlx \in BOOLEAN /\ c.drafter \in BOOLEAN
  BY DEF ConfigOf
<1>5. c.length \in 1..Widest /\ c.original \in Nat /\ c.factor \in Nat
  <2>1. Length \subseteq Nat
    BY <1>1
  <2> QED
    BY <1>1, <1>2, <1>3, <2>1
<1> QED
  BY <1>4, <1>5 DEF ContextFields

\* The tasks by name.
LEMMA TasksAreDifferent ==
  AllTasks = {"asr", "tts", "image_gen", "multimodal", "llm", "video_gen"}
<1>1. DOMAIN Hints = 1..4 /\ Hints[1] = "asr" /\ Hints[2] = "tts" /\ Hints[3] = "image_gen" /\ Hints[4] = "multimodal"
  BY DEF Hints
<1>2. 1..4 = {1, 2, 3, 4}
  OBVIOUS
<1>3. ToSet(Hints) = {"asr", "tts", "image_gen", "multimodal"}
  BY <1>1, <1>2 DEF ToSet
<1> QED
  BY <1>3 DEF AllTasks

\* The backend that is inferred is one of those that serve the task.
LEMMA BackendIsInferred ==
  ASSUME NEW task \in AllTasks, NEW gguf \in BOOLEAN, NEW mlx \in BOOLEAN
  PROVE  LET b == InferBackend(task, gguf, mlx) IN
         /\ b \in Backend
         /\ b = "transformers" => ~gguf /\ ~mlx
         /\ task = "asr" => b = "mlx_whisper"
         /\ task = "tts" => b = "mlx_audio"
         /\ task = "image_gen" => b = "mflux"
         /\ task = "multimodal" => b = "mlx_vlm"
         /\ task \in {"llm", "video_gen"} => b = IF gguf THEN "llama_cpp" ELSE IF mlx THEN "vllm_mlx" ELSE "transformers"
BY DEF InferBackend, Backend

\* What goes into a task and comes out of it; only a draft for a video differs.
LEMMA IoIsKnown ==
  ASSUME NEW task \in AllTasks
  PROVE  /\ IoForTask(task) \in Io /\ DraftIo(task) \in Io
         /\ IoForTask(task) = IF task = "video_gen" THEN <<{"text"}, "image">> ELSE DraftIo(task)
<1>1. task = "video_gen" => IoForTask(task) = DraftIo("image_gen") /\ DraftIo("image_gen") = <<{"text"}, "image">>
  BY DEF IoForTask, DraftIo
<1>2. task # "video_gen" => IoForTask(task) = DraftIo(task)
  BY DEF IoForTask, DraftIo
<1>3. "image_gen" \in AllTasks
  BY TasksAreDifferent
<1> HIDE DEF DraftIo
<1>4. DraftIo(task) \in Io /\ DraftIo("image_gen") \in Io
  BY <1>3 DEF Io
<1> QED
  BY <1>1, <1>2, <1>4

\* The default is a number, in the context where there is room for one.
LEMMA DefaultIsKept ==
  ASSUME NEW max \in 1..Widest
  PROVE  DefaultOf(max) \in Int /\ (max >= MinContext => DefaultOf(max) \in MinContext..max)
<1>0. max \in Int /\ DefaultContext \in Int /\ MinContext \in Int
  BY DraftAssumption
<1> DEFINE m == Min({max, DefaultContext})
<1>1. m \in Int /\ m <= max
  BY <1>0, LeastOfTwo
<1> HIDE DEF m
<1>2. Max({m, MinContext}) \in {m, MinContext} /\ Max({m, MinContext}) >= m /\ Max({m, MinContext}) >= MinContext
  BY <1>0, <1>1, LeastOfTwo
<1>3. DefaultOf(max) = Max({m, MinContext})
  BY DEF DefaultOf, m
<1> QED
  BY <1>0, <1>1, <1>2, <1>3

\* A new draft fits.
LEMMA DraftKeepsDraft ==
  ASSUME NEW c \in ConfigOf, DraftInv, Drafts(c)
  PROVE  DraftInv'
<1> DEFINE task == InferModelType(c)
           max  == ContextMax(c)
           said == IF c.drafter THEN "drafter" ELSE task
           b    == InferBackend(task, c.gguf, c.mlx)
           r    == [task |-> said, backend |-> b, io |-> DraftIo(said),
                    max |-> max, default |-> DefaultOf(max), steps |-> GenerateSweepSteps(max)]
<1>1. task \in AllTasks \ {"video_gen"} /\ "drafter" \notin AllTasks
  BY TaskIsInferred, TasksAreDifferent
<1>2. c.gguf \in BOOLEAN /\ c.mlx \in BOOLEAN /\ c.drafter \in BOOLEAN /\ max \in 1..Widest
  BY ConfigFields, ContextIsExtended
<1>3. /\ b \in Backend
      /\ b = "transformers" => ~c.gguf /\ ~c.mlx
      /\ task = "asr" => b = "mlx_whisper"
      /\ task = "tts" => b = "mlx_audio"
      /\ task = "image_gen" => b = "mflux"
      /\ task = "multimodal" => b = "mlx_vlm"
      /\ task \in {"llm", "video_gen"} => b \in {"llama_cpp", "vllm_mlx", "transformers"}
  <2> HIDE DEF task
  <2> QED
    BY <1>1, <1>2, BackendIsInferred
<1>4. GenerateSweepSteps(max) \in Seq(Nat) /\ DefaultOf(max) \in Int
  BY <1>2, SweepIsGenerated, DefaultIsKept
<1>5. said \in Task /\ DraftIo(said) \in Io /\ said # "video_gen"
  BY <1>1 DEF Task, Io
<1>6. draft' = r /\ config' = c /\ handled' = handled /\ handled \in BOOLEAN
  BY DEF Drafts, DraftInv
<1>7. InferModelType(c) = task
  OBVIOUS
<1> HIDE DEF task, max, b, said
<1>8. /\ draft'.task = said /\ draft'.backend = b /\ draft'.io = DraftIo(said)
      /\ draft'.max = max /\ draft'.default = DefaultOf(max)
  BY <1>6
<1>9. draft' \in DraftRecord
  BY <1>2, <1>3, <1>4, <1>5, <1>6 DEF DraftRecord
<1>10. IoIsOfTask'
  BY <1>5, <1>8 DEF IoIsOfTask
<1>11. PlainIsPlain'
  BY <1>3, <1>6, <1>8 DEF PlainIsPlain
<1>12. BackendServesTask'
  <2>1. CASE c.drafter
    <3>1. said = "drafter"
      BY <2>1 DEF said
    <3> QED
      BY <3>1, <1>8 DEF BackendServesTask
  <2>2. CASE ~c.drafter
    <3>1. said = task
      BY <2>2 DEF said
    <3>2. task \in {"asr", "tts", "image_gen", "multimodal", "llm"}
      BY <1>1, TasksAreDifferent
    <3> QED
      BY <3>1, <3>2, <1>8, <1>3 DEF BackendServesTask
  <2> QED
    BY <2>1, <2>2
<1>13. BackendComesBack'
  <2>1. ASSUME draft'.task = InferModelType(config') PROVE draft'.backend = InferBackend(draft'.task, config'.gguf, config'.mlx)
    <3>1. said = task
      BY <2>1, <1>6, <1>7, <1>8
    <3> QED
      BY <3>1, <1>6, <1>8 DEF b
  <2> QED
    BY <2>1 DEF BackendComesBack
<1>14. draft'.max = ContextMax(config') /\ draft'.default = DefaultOf(draft'.max)
  BY <1>6, <1>8 DEF max
<1> QED
  BY <1>6, <1>9, <1>10, <1>11, <1>12, <1>13, <1>14 DEF DraftInv

\* A draft whose task is changed fits still.
LEMMA TaskKeepsDraft ==
  ASSUME NEW task \in AllTasks, NEW adjust \in BOOLEAN, DraftInv, SetProfileTask(task, adjust)
  PROVE  DraftInv'
<1> DEFINE said == draft.backend # "transformers"
           b == InferBackend(task, config.gguf, said)
           nb == IF adjust THEN b ELSE draft.backend
<1>1. /\ draft # NoDraft /\ config' = config /\ config \in ConfigOf /\ draft \in DraftRecord
      /\ draft.max = ContextMax(config) /\ draft.default = DefaultOf(draft.max) /\ PlainIsPlain
      /\ handled \in BOOLEAN
  BY DEF SetProfileTask, DraftInv
<1>2. config.gguf \in BOOLEAN /\ config.mlx \in BOOLEAN /\ (draft.backend # "transformers") \in BOOLEAN
  BY <1>1, ConfigFields
<1>3. /\ b \in Backend
      /\ b = "transformers" => ~config.gguf /\ draft.backend = "transformers"
      /\ task = "asr" => b = "mlx_whisper"
      /\ task = "tts" => b = "mlx_audio"
      /\ task = "image_gen" => b = "mflux"
      /\ task = "multimodal" => b = "mlx_vlm"
      /\ task \in {"llm", "video_gen"} =>
            b = IF config.gguf THEN "llama_cpp" ELSE IF draft.backend # "transformers" THEN "vllm_mlx" ELSE "transformers"
  <2>1. said \in BOOLEAN /\ config.gguf \in BOOLEAN
    BY <1>2
  <2> HIDE DEF said
  <2>2. /\ b \in Backend
        /\ b = "transformers" => ~config.gguf /\ ~said
        /\ task = "asr" => b = "mlx_whisper"
        /\ task = "tts" => b = "mlx_audio"
        /\ task = "image_gen" => b = "mflux"
        /\ task = "multimodal" => b = "mlx_vlm"
        /\ task \in {"llm", "video_gen"} =>
              b = IF config.gguf THEN "llama_cpp" ELSE IF said THEN "vllm_mlx" ELSE "transformers"
    BY <2>1, BackendIsInferred
  <2> QED
    BY <2>2 DEF said
<1>4. draft' = [draft EXCEPT !.task = task, !.io = IoForTask(task), !.backend = nb]
  BY DEF SetProfileTask
<1>5. handled' = (handled \/ ~adjust)
  BY DEF SetProfileTask
<1>6. nb \in Backend
  BY <1>1, <1>3 DEF DraftRecord
<1>7. IoForTask(task) \in Io /\ IoForTask(task) = IF task = "video_gen" THEN <<{"text"}, "image">> ELSE DraftIo(task)
  BY IoIsKnown
<1>8. task \in Task /\ task # "drafter"
  BY TasksAreDifferent DEF Task
<1>9. nb = "transformers" => ~config.gguf /\ ~config.mlx
  <2>1. b = "transformers" => ~config.gguf /\ ~config.mlx
    BY <1>1, <1>3 DEF PlainIsPlain
  <2> QED
    BY <1>1, <2>1 DEF PlainIsPlain
<1>10. adjust => nb = b
  OBVIOUS
<1> HIDE DEF nb
<1>11. /\ draft'.task = task /\ draft'.backend = nb /\ draft'.io = IoForTask(task)
       /\ draft'.max = draft.max /\ draft'.default = draft.default /\ draft' \in DraftRecord
  BY <1>1, <1>4, <1>6, <1>7, <1>8 DEF DraftRecord
<1>12. IoIsOfTask'
  BY <1>7, <1>11 DEF IoIsOfTask
<1>13. PlainIsPlain'
  BY <1>1, <1>9, <1>11 DEF PlainIsPlain
<1>14. ~handled' => adjust /\ nb = b
  BY <1>5, <1>10
<1> HIDE DEF b
<1>15. BackendServesTask'
  <2>1. ASSUME ~handled'
        PROVE  CASE task = "asr"        -> nb = "mlx_whisper"
                 [] task = "tts"        -> nb = "mlx_audio"
                 [] task = "image_gen"  -> nb = "mflux"
                 [] task = "multimodal" -> nb = "mlx_vlm"
                 [] task = "drafter"    -> TRUE
                 [] OTHER -> nb \in {"llama_cpp", "vllm_mlx", "transformers"}
    <3>1. nb = b
      BY <1>14, <2>1
    <3> QED
      BY <3>1, <1>3, <1>8, TasksAreDifferent
  <2> QED
    BY <2>1, <1>11 DEF BackendServesTask
<1>16. BackendComesBack'
  <2>1. ASSUME ~handled', task = InferModelType(config)
        PROVE  nb = InferBackend(task, config.gguf, config.mlx) \/ (~config.mlx /\ nb = "vllm_mlx")
    <3>1. nb = b
      BY <1>14, <2>1
    <3>2. task # "video_gen"
      BY <2>1, TaskIsInferred
    <3> DEFINE a == InferBackend(task, config.gguf, config.mlx)
    <3>3. /\ task = "asr" => a = "mlx_whisper"
          /\ task = "tts" => a = "mlx_audio"
          /\ task = "image_gen" => a = "mflux"
          /\ task = "multimodal" => a = "mlx_vlm"
          /\ task \in {"llm", "video_gen"} =>
                a = IF config.gguf THEN "llama_cpp" ELSE IF config.mlx THEN "vllm_mlx" ELSE "transformers"
      BY <1>2, BackendIsInferred
    <3> HIDE DEF a
    <3>4. task \in {"asr", "tts", "image_gen", "multimodal", "llm"}
      BY <3>2, TasksAreDifferent
    <3>5. draft.backend = "transformers" => ~config.mlx
      BY <1>1 DEF PlainIsPlain
    <3>6. nb = a \/ (~config.mlx /\ nb = "vllm_mlx")
      BY <3>1, <3>3, <3>4, <3>5, <1>2, <1>3
    <3> QED
      BY <3>6 DEF a
  <2> QED
    BY <2>1, <1>1, <1>11 DEF BackendComesBack
<1>17. handled' \in BOOLEAN /\ config' \in ConfigOf /\ draft'.max = ContextMax(config') /\ draft'.default = DefaultOf(draft'.max)
  BY <1>1, <1>5, <1>11
<1> QED
  BY <1>11, <1>12, <1>13, <1>15, <1>16, <1>17 DEF DraftInv

\* Writing and loading steps leaves the rest alone.
LEMMA StepsKeepDraft ==
  ASSUME NEW steps \in Seq(Nat), DraftInv, draft # NoDraft,
         draft' = [draft EXCEPT !.steps = steps], UNCHANGED <<config, handled>>
  PROVE  DraftInv'
<1>1. draft \in DraftRecord
  BY DEF DraftInv
<1>2. /\ draft' \in DraftRecord /\ draft'.task = draft.task /\ draft'.backend = draft.backend
      /\ draft'.io = draft.io /\ draft'.max = draft.max /\ draft'.default = draft.default
      /\ config' = config /\ handled' = handled
  BY <1>1 DEF DraftRecord
<1>3. IoIsOfTask' /\ BackendServesTask' /\ BackendComesBack' /\ PlainIsPlain'
  BY <1>2 DEF DraftInv, IoIsOfTask, BackendServesTask, BackendComesBack, PlainIsPlain
<1> QED
  BY <1>2, <1>3 DEF DraftInv

\* Every step keeps the draft fitting.
LEMMA DraftKept == DraftInv /\ [DraftNext]_draftVars => DraftInv'
<1> SUFFICES ASSUME DraftInv, [DraftNext]_draftVars PROVE DraftInv'
  OBVIOUS
<1>1. ASSUME NEW c \in ConfigOf, Drafts(c) PROVE DraftInv'
  BY <1>1, DraftKeepsDraft
<1>2. ASSUME NEW task \in AllTasks, NEW adjust \in BOOLEAN, SetProfileTask(task, adjust) PROVE DraftInv'
  BY <1>2, TaskKeepsDraft
<1>3. ASSUME NEW steps \in UserSteps, EditsSteps(steps) PROVE DraftInv'
  BY <1>3, DraftAssumption, StepsKeepDraft DEF EditsSteps
<1>4. CASE LoadsSteps
  <2>1. draft # NoDraft /\ draft \in DraftRecord
    BY <1>4 DEF LoadsSteps, DraftInv
  <2>2. draft.max \in 1..Widest /\ draft.steps \in Seq(Nat)
    BY <2>1 DEF DraftRecord
  <2>3. ExtendSweepSteps(draft.steps, draft.max) \in Seq(Nat)
    BY <2>2, SweepIsExtended DEF IsLoaded
  <2> QED
    BY <2>1, <2>3, <1>4, StepsKeepDraft DEF LoadsSteps
<1>5. CASE UNCHANGED draftVars
  BY <1>5 DEF DraftInv, draftVars, IoIsOfTask, BackendServesTask, BackendComesBack, PlainIsPlain
<1> QED
  BY <1>1, <1>2, <1>3, <1>4, <1>5 DEF DraftNext

\* There is no draft at first.
LEMMA InitDraft == DraftInit => DraftInv
BY DEF DraftInit, DraftInv, IoIsOfTask, BackendServesTask, BackendComesBack

\* What the invariant says of the lengths and of the sweep.
LEMMA DraftFits == DraftInv => DraftIsConsistent
<1> SUFFICES ASSUME DraftInv PROVE DraftIsConsistent
  OBVIOUS
<1>1. IoIsOfTask /\ BackendServesTask /\ BackendComesBack
  BY DEF DraftInv
<1>2. ASSUME draft # NoDraft
      PROVE  /\ draft.task \in Task /\ draft.max \in 1..Widest /\ draft.steps \in Seq(Nat)
             /\ draft.max = ContextMax(config) /\ draft.default = DefaultOf(draft.max)
             /\ config \in ConfigOf /\ ContextFields(config)
  BY <1>2, ConfigFields DEF DraftInv, DraftRecord
<1>3. DraftTypeOK
  <2>1. ASSUME draft # NoDraft PROVE ToSet(draft.steps) \subseteq Nat
    BY <1>2, <2>1, ElementsAreFinite
  <2> QED
    BY <1>2, <2>1 DEF DraftTypeOK, DraftInv, Task
<1>4. ContextIsExtendedOnce
  <2>1. SUFFICES ASSUME draft # NoDraft
                 PROVE  /\ draft.max >= config.length
                        /\ config.original # 0 /\ draft.max > config.length =>
                              ContextMax([config EXCEPT !.length = draft.max]) = draft.max
    BY DEF ContextIsExtendedOnce
  <2>2. draft.max >= config.length
    BY <1>2, <2>1, ContextIsExtended
  <2>3. ASSUME config.original # 0, draft.max > config.length
        PROVE  ContextMax([config EXCEPT !.length = draft.max]) = draft.max
    <3> DEFINE max == draft.max
               c == [config EXCEPT !.length = max]
    <3>1. config.length = config.original
      BY <1>2, <2>1, <2>3, ContextIsExtended
    <3>2. c.length = max /\ c.original = config.original
      BY <1>2, <2>1 DEF ConfigOf
    <3> HIDE DEF c
    <3>3. ContextMax(c) = max
      BY <2>3, <3>1, <3>2 DEF ContextMax
    <3> QED
      BY <3>3 DEF c
  <2> QED
    BY <2>2, <2>3
<1>5. DefaultIsInContext
  BY <1>2, DefaultIsKept DEF DefaultIsInContext
<1>6. SweepReachesTheEnd
  <2>1. ASSUME draft # NoDraft PROVE IsLoaded(draft.steps, ExtendSweepSteps(draft.steps, draft.max), draft.max)
    BY <1>2, <2>1, SweepIsExtended
  <2> QED
    BY <2>1 DEF SweepReachesTheEnd, IsLoaded
<1> QED
  BY <1>1, <1>3, <1>4, <1>5, <1>6 DEF DraftIsConsistent

\* A profile fits together, whatever is done to it: DraftIsConsistent of the model's
\* configuration, for contexts of any length and steps of any number.
THEOREM DraftsFit == DraftSpec => []DraftIsConsistent
<1>1. DraftSpec => []DraftInv
  BY InitDraft, DraftKept, PTL DEF DraftSpec
<1> QED
  BY <1>1, DraftFits, PTL

-----------------------------------------------------------------------------
(* Folds.  A fold over a finite set takes an element by ch, and makes of it  *)
(* and of the fold of the others, by st, its own value, which is in V.       *)

FoldsTo(g, S, ch, st, base) ==
  \A s \in SUBSET S : g[s] = IF s = {} THEN base ELSE st[<<ch[s], g[s \ {ch[s]}]>>]

Chooses(ch, S) == \A s \in SUBSET S : s # {} => ch[s] \in s

\* A fold is defined: the smaller sets are folded first.
LEMMA FoldExists ==
  ASSUME NEW S, IsFiniteSet(S), NEW V, NEW base \in V, NEW st \in [S \X V -> V],
         NEW ch, Chooses(ch, S)
  PROVE  \E g \in [SUBSET S -> V] : FoldsTo(g, S, ch, st, base)
<1> DEFINE dom(n) == {s \in SUBSET S : Cardinality(s) < n}
           Step(g, s) == IF s = {} THEN base ELSE st[<<ch[s], g[s \ {ch[s]}]>>]
           Good(g, n) == g \in [dom(n) -> V] /\ \A s \in dom(n) : g[s] = Step(g, s)
           Bad == {n \in Nat : ~ \E g : Good(g, n)}
<1>0. /\ \A s \in SUBSET S : IsFiniteSet(s) /\ Cardinality(s) \in Nat /\ Cardinality(s) <= Cardinality(S)
      /\ Cardinality(S) \in Nat
  BY FS_Subset, FS_CardinalityType
<1>1. \A s \in SUBSET S : s # {} =>
         /\ ch[s] \in S /\ s \ {ch[s]} \in SUBSET S
         /\ Cardinality(s \ {ch[s]}) < Cardinality(s)
  <2> SUFFICES ASSUME NEW s \in SUBSET S, s # {}
               PROVE  /\ ch[s] \in S /\ s \ {ch[s]} \in SUBSET S
                      /\ Cardinality(s \ {ch[s]}) < Cardinality(s)
    OBVIOUS
  <2>1. ch[s] \in s
    BY DEF Chooses
  <2> DEFINE x == ch[s]
  <2> HIDE DEF x
  <2>2. x \in s /\ IsFiniteSet(s)
    BY <2>1, <1>0 DEF x
  <2>3. Cardinality(s \ {x}) = Cardinality(s) - 1
    BY <2>2, FS_RemoveElement
  <2>4. Cardinality(s) \in Nat
    BY <1>0
  <2> QED
    BY <2>1, <2>3, <2>4 DEF x
<1>2. Bad = {}
  <2> SUFFICES ASSUME Bad # {} PROVE FALSE
    OBVIOUS
  <2>1. PICK k \in Bad : \A j \in Bad : k <= j
    <3>1. Bad \in SUBSET Nat
      OBVIOUS
    <3> HIDE DEF Bad
    <3> QED
      BY <3>1, LeastExists
  <2>2. CASE k = 0
    <3> DEFINE g == [s \in {} |-> base]
    <3>1. dom(k) = {}
      BY <1>0, <2>2
    <3> HIDE DEF dom
    <3>2. Good(g, k)
      BY <3>1
    <3> QED
      BY <3>2
  <2>3. CASE k # 0
    <3>1. k - 1 \in Nat /\ k \in Nat /\ k - 1 \notin Bad
      <4> HIDE DEF Good
      <4>1. k \in Nat /\ Bad \in SUBSET Nat
        OBVIOUS
      <4> HIDE DEF Bad
      <4>2. k - 1 \in Nat /\ k - 1 < k
        BY <4>1, <2>3
      <4> QED
        BY <4>1, <4>2, <2>1
    <3>2. PICK g : Good(g, k - 1)
      BY <3>1
    <3> DEFINE h == [s \in dom(k) |-> Step(g, s)]
    <3>3. ASSUME NEW s \in dom(k), s # {} PROVE s \ {ch[s]} \in dom(k - 1) /\ ch[s] \in S
      <4>1. Cardinality(s \ {ch[s]}) < Cardinality(s) /\ Cardinality(s) < k /\ s \ {ch[s]} \in SUBSET S
        BY <3>3, <1>1
      <4>2. Cardinality(s) \in Nat /\ Cardinality(s \ {ch[s]}) \in Nat
        BY <4>1, <1>0
      <4> QED
        BY <4>1, <4>2, <3>1, <3>3, <1>1
    <3>4. \A s \in dom(k - 1) : s \in dom(k) /\ g[s] \in V
      BY <3>1, <3>2, <1>0
    <3>5. \A s \in dom(k - 1) : g[s] = Step(g, s)
      BY <3>2
    <3>6. \A s \in dom(k) : Step(g, s) \in V
      <4> SUFFICES ASSUME NEW s \in dom(k) PROVE Step(g, s) \in V
        OBVIOUS
      <4>1. CASE s = {}
        BY <4>1
      <4>2. CASE s # {}
        <5> DEFINE x == ch[s]
                   r == s \ {x}
        <5>1. x \in S /\ g[r] \in V
          BY <4>2, <3>3, <3>4
        <5>2. Step(g, s) = st[<<x, g[r]>>]
          BY <4>2
        <5> HIDE DEF x, r, Step
        <5> QED
          BY <5>1, <5>2
      <4> QED
        BY <4>1, <4>2
    <3> HIDE DEF dom, Bad
    <3>7. \A s \in dom(k) : h[s] = Step(g, s)
      OBVIOUS
    <3>8. h \in [dom(k) -> V]
      BY <3>6
    <3> HIDE DEF h
    <3>9. \A s \in dom(k - 1) : h[s] = g[s]
      BY <3>4, <3>5, <3>7
    <3>10. \A s \in dom(k) : h[s] = Step(h, s)
      <4> SUFFICES ASSUME NEW s \in dom(k) PROVE h[s] = Step(h, s)
        OBVIOUS
      <4>1. s # {} => h[s \ {ch[s]}] = g[s \ {ch[s]}]
        BY <3>3, <3>9
      <4> QED
        BY <4>1, <3>7
    <3>11. Good(h, k)
      BY <3>8, <3>10
    <3> QED
      BY <3>11 DEF Bad
  <2> QED
    BY <2>2, <2>3
<1> DEFINE n == Cardinality(S) + 1
<1>3. dom(n) = SUBSET S /\ n \in Nat
  BY <1>0
<1>4. PICK g : Good(g, n)
  BY <1>2, <1>3
<1> HIDE DEF n, dom
<1>5. g \in [SUBSET S -> V] /\ \A s \in SUBSET S : g[s] = Step(g, s)
  BY <1>3, <1>4
<1> QED
  BY <1>5 DEF FoldsTo

-----------------------------------------------------------------------------
(* What is shown of the measurements. *)

Readings == [decode : Reading, total : Reading, ttft : Reading]
RunRecord ==
  [model : 1..Models, context : Context, status : {"running", "completed", "failed"},
   result : Readings, ended : Reading]

RankInv ==
  /\ board \in Seq(RunRecord)
  /\ minute \in Nat
  /\ diffusion \subseteq 1..Models
  /\ \A r \in DOMAIN board : /\ board[r].ended <= minute
                             /\ board[r].status = "running" <=> board[r].ended = Null

\* What is measured is a number, or Null.
LEMMA ReadingIsNumber == Reading \subseteq Int /\ Null \in Reading /\ \A x \in Reading : x # Null => x >= 0
BY DEF Reading, Null

\* There are no measurements at first.
LEMMA InitRank == RankInit => RankInv
<1> SUFFICES ASSUME RankInit PROVE RankInv
  OBVIOUS
<1>1. <<>> \in Seq(RunRecord) /\ DOMAIN <<>> = {}
  OBVIOUS
<1> QED
  BY <1>1 DEF RankInit, RankInv

\* A measurement that begins is on the board, and running.
LEMMA BeginKeepsRank ==
  ASSUME RankInv, NEW model \in 1..Models, NEW context \in Context, BeginsMeasure(model, context)
  PROVE  RankInv'
<1> DEFINE run == [model |-> model, context |-> context, status |-> "running",
                   result |-> Nothing, ended |-> Null]
<1>1. run \in RunRecord /\ run.ended = Null /\ run.status = "running"
  BY DEF RunRecord, Readings, Nothing, Reading
<1>2. board' = Append(board, run) /\ diffusion' = diffusion /\ minute' = minute
  BY DEF BeginsMeasure
<1>3. board \in Seq(RunRecord) /\ DOMAIN board = 1..Len(board) /\ Len(board) \in Nat
  BY DEF RankInv
<1> HIDE DEF run
<1>4. /\ board' \in Seq(RunRecord) /\ DOMAIN board' = 1..(Len(board) + 1)
      /\ board'[Len(board) + 1] = run /\ \A r \in DOMAIN board : board'[r] = board[r]
  BY <1>1, <1>2, <1>3
<1>5. Null \in Int /\ minute \in Nat /\ Null <= minute
  BY DEF Null, RankInv
<1>6. ASSUME NEW r \in DOMAIN board'
      PROVE  board'[r].ended <= minute' /\ (board'[r].status = "running" <=> board'[r].ended = Null)
  <2>1. CASE r \in DOMAIN board
    BY <2>1, <1>2, <1>4 DEF RankInv
  <2>2. CASE r \notin DOMAIN board
    <3>1. r = Len(board) + 1
      BY <2>2, <1>3, <1>4
    <3> QED
      BY <3>1, <1>1, <1>2, <1>4, <1>5
  <2> QED
    BY <2>1, <2>2
<1> QED
  BY <1>2, <1>4, <1>6 DEF RankInv

\* A measurement that ends is the last to end.
LEMMA EndKeepsRank ==
  ASSUME RankInv, NEW r \in DOMAIN board, NEW status \in {"completed", "failed"}, NEW result \in Result,
         NEW later \in 0..1, EndsMeasure(r, status, result, later)
  PROVE  /\ RankInv'
         /\ DOMAIN board' = DOMAIN board
         /\ \A q \in DOMAIN board : q # r => board'[q] = board[q]
         /\ board'[r].ended = minute' /\ board'[r].context = board[r].context /\ board'[r].model = board[r].model
<1>1. board \in Seq(RunRecord) /\ DOMAIN board = 1..Len(board) /\ Len(board) \in Nat /\ board[r] \in RunRecord
  BY DEF RankInv
<1>2. result \in Readings /\ minute \in Nat /\ minute + later \in Nat /\ minute + later >= minute
  BY RankingAssumption DEF RankInv, Readings
<1> DEFINE run == [board[r] EXCEPT !.status = status, !.ended = minute + later, !.result = result]
<1>3. run \in RunRecord /\ run.ended = minute + later /\ run.status = status
      /\ run.context = board[r].context /\ run.model = board[r].model
  BY <1>1, <1>2 DEF RunRecord, Reading
<1>4. board' = [board EXCEPT ![r] = run] /\ minute' = minute + later /\ diffusion' = diffusion
  BY DEF EndsMeasure
<1> HIDE DEF run
<1>5. /\ board' \in Seq(RunRecord) /\ DOMAIN board' = DOMAIN board
      /\ board'[r] = run /\ \A q \in DOMAIN board : q # r => board'[q] = board[q]
  BY <1>1, <1>3, <1>4
<1>6. \A q \in DOMAIN board : board[q].ended \in Int
  <2>1. \A q \in DOMAIN board : board[q] \in RunRecord
    BY <1>1
  <2> QED
    BY <2>1, ReadingIsNumber DEF RunRecord
<1>7. ASSUME NEW q \in DOMAIN board'
      PROVE  board'[q].ended <= minute' /\ (board'[q].status = "running" <=> board'[q].ended = Null)
  <2>1. CASE q # r
    <3>1. board'[q] = board[q] /\ board[q].ended <= minute /\ (board[q].status = "running" <=> board[q].ended = Null)
      BY <2>1, <1>5 DEF RankInv
    <3> QED
      BY <3>1, <1>2, <1>4, <1>5, <1>6
  <2>2. CASE q = r
    <3>1. minute + later # Null
      BY <1>2 DEF Null
    <3> QED
      BY <2>2, <3>1, <1>2, <1>3, <1>4, <1>5
  <2> QED
    BY <2>1, <2>2
<1> QED
  BY <1>2, <1>3, <1>4, <1>5, <1>7 DEF RankInv

\* Every step keeps what is known of the board.
LEMMA RankKept == RankInv /\ [RankNext]_rankVars => RankInv'
<1> SUFFICES ASSUME RankInv, [RankNext]_rankVars PROVE RankInv'
  OBVIOUS
<1>1. ASSUME NEW model \in 1..Models, NEW context \in Context, BeginsMeasure(model, context) PROVE RankInv'
  BY <1>1, BeginKeepsRank
<1>2. ASSUME NEW r \in DOMAIN board, NEW status \in {"completed", "failed"}, NEW result \in Result,
             NEW later \in 0..1, EndsMeasure(r, status, result, later)
      PROVE RankInv'
  BY <1>2, EndKeepsRank
<1>3. ASSUME NEW model \in 1..Models, ChangesKind(model) PROVE RankInv'
  BY <1>3 DEF ChangesKind, RankInv
<1>4. CASE UNCHANGED rankVars
  BY <1>4 DEF rankVars, RankInv
<1> QED
  BY <1>1, <1>2, <1>3, <1>4 DEF RankNext

-----------------------------------------------------------------------------
(* The run that stands for a model. *)

\* A set of runs is finite, and so are the times at which they ended.
LEMMA RunsAreFinite ==
  ASSUME RankInv, NEW rs, rs \subseteq DOMAIN board
  PROVE  /\ IsFiniteSet(rs) /\ rs \in SUBSET Int
         /\ \A r \in rs : board[r] \in RunRecord /\ board[r].ended \in Int /\ board[r].context \in Nat
<1>1. DOMAIN board = 1..Len(board) /\ Len(board) \in Nat /\ \A r \in DOMAIN board : board[r] \in RunRecord
  BY DEF RankInv
<1>2. IsFiniteSet(DOMAIN board)
  BY <1>1, FS_Interval
<1>3. IsFiniteSet(rs)
  BY <1>2, FS_Subset
<1>4. \A r \in DOMAIN board : board[r].ended \in Int /\ board[r].context \in Nat
  <2>1. \A r \in DOMAIN board : board[r].ended \in Reading /\ board[r].context \in Context
    BY <1>1 DEF RunRecord
  <2>2. Context \subseteq Nat
    BY RankingAssumption
  <2> QED
    BY <2>1, <2>2, ReadingIsNumber
<1> QED
  BY <1>1, <1>3, <1>4

\* The latest of some runs ended last.
LEMMA LatestIsLatest ==
  ASSUME RankInv, NEW rs, rs \subseteq DOMAIN board, rs # {}
  PROVE  Latest(rs) \in rs /\ \A q \in rs : board[q].ended <= board[Latest(rs)].ended
<1>1. IsFiniteSet(rs) /\ rs \in SUBSET Int /\ \A r \in rs : board[r].ended \in Int /\ r \in Int
  BY RunsAreFinite
<1>2. PICK R : \A x, y \in rs : <<x, y>> \in R <=> board[x].ended > board[y].ended \/ (board[x].ended = board[y].ended /\ x > y)
  <2> DEFINE R == {p \in rs \X rs : board[p[1]].ended > board[p[2]].ended \/ (board[p[1]].ended = board[p[2]].ended /\ p[1] > p[2])}
  <2>1. \A x, y \in rs : <<x, y>> \in R <=> board[x].ended > board[y].ended \/ (board[x].ended = board[y].ended /\ x > y)
    OBVIOUS
  <2> QED
    BY <2>1
<1>3. IsOrder(R, rs)
  BY <1>1, <1>2 DEF IsOrder
<1>4. PICK x \in rs : \A y \in rs : y # x => <<x, y>> \in R
  BY <1>1, <1>3, FirstOfAll
<1> DEFINE last == {r \in rs : \A q \in rs : board[q].ended <= board[r].ended}
<1>5. x \in last
  <2>1. ASSUME NEW y \in rs, y # x PROVE board[y].ended <= board[x].ended
    <3>1. <<x, y>> \in R
      BY <2>1, <1>4
    <3>2. board[x].ended > board[y].ended \/ board[x].ended = board[y].ended
      BY <3>1, <1>2
    <3> QED
      BY <3>2, <1>1
  <2>2. board[x].ended <= board[x].ended
    BY <1>1
  <2> QED
    BY <2>1, <2>2
<1>6. last \subseteq rs
  OBVIOUS
<1> HIDE DEF last
<1>7. IsFiniteSet(last) /\ last \in SUBSET Int
  BY <1>1, <1>6, FS_Subset
<1>8. Max(last) \in last
  BY <1>5, <1>7, GreatestExists
<1>9. Latest(rs) = Max(last)
  BY DEF Latest, last
<1> QED
  BY <1>8, <1>9 DEF last

\* Nothing of the contexts is nearer, and nothing smaller as near.
IsNearest(n, target, contexts) ==
  /\ n \in contexts
  /\ \A d \in contexts : \/ Distance(n, target) < Distance(d, target)
                         \/ Distance(n, target) = Distance(d, target) /\ n <= d

\* The nearest context is one of the contexts, and none is nearer.
LEMMA NearestIsNearest ==
  ASSUME NEW target \in Nat, NEW contexts \in SUBSET Nat, IsFiniteSet(contexts), contexts # {}
  PROVE  IsNearest(Nearest(target, contexts), target, contexts)
<1>1. \A d \in contexts : d \in Nat /\ Distance(d, target) \in Nat
  BY DEF Distance
<1>2. PICK R : \A x, y \in contexts : <<x, y>> \in R <=>
                  Distance(x, target) < Distance(y, target) \/ (Distance(x, target) = Distance(y, target) /\ x < y)
  <2> DEFINE R == {p \in contexts \X contexts : Distance(p[1], target) < Distance(p[2], target)
                                                   \/ (Distance(p[1], target) = Distance(p[2], target) /\ p[1] < p[2])}
  <2>1. \A x, y \in contexts : <<x, y>> \in R <=>
           Distance(x, target) < Distance(y, target) \/ (Distance(x, target) = Distance(y, target) /\ x < y)
    OBVIOUS
  <2> QED
    BY <2>1
<1>3. IsOrder(R, contexts)
  BY <1>1, <1>2 DEF IsOrder
<1>4. PICK x \in contexts : \A y \in contexts : y # x => <<x, y>> \in R
  BY <1>3, FirstOfAll
<1> DEFINE near == {c \in contexts : \A d \in contexts : Distance(c, target) <= Distance(d, target)}
<1>5. x \in near
  <2>1. ASSUME NEW y \in contexts, y # x PROVE Distance(x, target) <= Distance(y, target)
    <3>1. <<x, y>> \in R
      BY <2>1, <1>4
    <3>2. Distance(x, target) < Distance(y, target) \/ Distance(x, target) = Distance(y, target)
      BY <3>1, <1>2
    <3> QED
      BY <3>2, <1>1
  <2>2. Distance(x, target) <= Distance(x, target)
    BY <1>1
  <2> QED
    BY <2>1, <2>2
<1>6. near \subseteq contexts
  OBVIOUS
<1>7. \A c \in near : \A d \in contexts : Distance(c, target) <= Distance(d, target)
  OBVIOUS
<1>8. \A d \in contexts : (\A e \in contexts : Distance(d, target) <= Distance(e, target)) => d \in near
  OBVIOUS
<1> HIDE DEF near
<1>9. IsFiniteSet(near) /\ near \in SUBSET Int
  <2>1. \A c \in near : c \in Int
    BY <1>1, <1>6
  <2> QED
    BY <1>6, <2>1, FS_Subset
<1>10. Min(near) \in near /\ \A y \in near : Min(near) <= y
  BY <1>5, <1>9, LowestExists
<1>11. Nearest(target, contexts) = Min(near)
  BY DEF Nearest, near
<1> DEFINE n == Min(near)
<1> HIDE DEF n
<1>12. n \in near /\ n \in contexts /\ \A y \in near : n <= y
  BY <1>6, <1>10 DEF n
<1>13. ASSUME NEW d \in contexts
       PROVE  \/ Distance(n, target) < Distance(d, target)
              \/ Distance(n, target) = Distance(d, target) /\ n <= d
  <2>1. Distance(n, target) <= Distance(d, target)
    BY <1>7, <1>12
  <2>2. ASSUME Distance(n, target) = Distance(d, target) PROVE n <= d
    <3>1. \A e \in contexts : Distance(d, target) <= Distance(e, target)
      BY <2>2, <1>7, <1>12
    <3> QED
      BY <3>1, <1>8, <1>12
  <2>3. Distance(n, target) \in Nat /\ Distance(d, target) \in Nat
    BY <1>1, <1>12
  <2> QED
    BY <2>1, <2>2, <2>3
<1>14. IsNearest(n, target, contexts)
  BY <1>12, <1>13 DEF IsNearest
<1> QED
  BY <1>11, <1>14 DEF n

\* r is one of some runs whose context is the nearest, and the last of that context.
IsRepresentative(r, of, target) ==
  /\ r \in of
  /\ IsNearest(board[r].context, target, {board[q].context : q \in of})
  /\ \A q \in of : board[q].context = board[r].context => board[q].ended <= board[r].ended

\* The run that stands for a model is the latest at the nearest context.
LEMMA RepresentativeIs ==
  ASSUME RankInv, NEW of, of \subseteq DOMAIN board, of # {}, NEW target \in Nat
  PROVE  IsRepresentative(Representative(of, target), of, target)
<1> DEFINE contexts == {board[q].context : q \in of}
           n == Nearest(target, contexts)
           rs == {r \in of : board[r].context = n}
<1>1. IsFiniteSet(of) /\ \A r \in of : board[r].context \in Nat
  BY RunsAreFinite
<1>2. contexts \in SUBSET Nat /\ contexts # {}
  BY <1>1
<1>3. IsFiniteSet(contexts)
  <2> DEFINE f == [q \in of |-> board[q].context]
  <2>1. f \in Surjection(of, contexts)
    BY DEF Surjection
  <2> HIDE DEF f, contexts
  <2> QED
    BY <1>1, <2>1, FS_Surjection
<1> HIDE DEF contexts
<1>4. IsNearest(n, target, contexts)
  BY <1>2, <1>3, NearestIsNearest
<1> HIDE DEF n
<1>5. n \in contexts
  BY <1>4 DEF IsNearest
<1>6. rs # {} /\ rs \subseteq DOMAIN board
  BY <1>5 DEF contexts
<1>7. Representative(of, target) = Latest(rs)
  BY DEF Representative, n, contexts
<1> DEFINE r == Latest(rs)
<1>8. r \in rs /\ \A q \in rs : board[q].ended <= board[r].ended
  <2> HIDE DEF rs
  <2> QED
    BY <1>6, LatestIsLatest
<1> HIDE DEF r
<1>9. r \in of /\ board[r].context = n /\ \A q \in of : board[q].context = board[r].context => board[q].ended <= board[r].ended
  BY <1>8
<1>10. IsRepresentative(r, of, target)
  BY <1>4, <1>9 DEF IsRepresentative, contexts
<1> QED
  BY <1>7, <1>10 DEF r

-----------------------------------------------------------------------------
(* The rows of the overview. *)

MeasuredModels == {m \in 1..Models : MeasuredRuns(m) # {}}
RowOf(m, target) == ShownRow(m, MeasuredRuns(m), target)
Rows(target) == {RowOf(m, target) : m \in MeasuredModels}

\* The row of a model is about its representative run.
IsRow(x, m, target) ==
  /\ x.model = m /\ x.run \in MeasuredRuns(m)
  /\ IsRepresentative(x.run, MeasuredRuns(m), target)
  /\ x.speed = Effective(m, board[x.run].result) /\ x.speed \in Reading
  /\ x.time = board[x.run].result.ttft /\ x.time \in Reading
  /\ x.substituted = (board[x.run].context # target)

\* The row of a model that has been measured is about its representative run.
LEMMA RowIsRow ==
  ASSUME RankInv, NEW target \in Nat, NEW m \in MeasuredModels
  PROVE  IsRow(RowOf(m, target), m, target) /\ m \in Nat
<1> DEFINE of == MeasuredRuns(m)
           r == Representative(of, target)
           x == RowOf(m, target)
<1>1. of \subseteq DOMAIN board /\ of # {} /\ m \in Nat
  BY RankingAssumption DEF MeasuredModels, MeasuredRuns
<1>2. IsRepresentative(r, of, target)
  <2> HIDE DEF of
  <2> QED
    BY <1>1, RepresentativeIs
<1>3. r \in of
  BY <1>2 DEF IsRepresentative
<1>4. board[r] \in RunRecord
  BY <1>1, <1>3, RunsAreFinite
<1>5. x = [model |-> m, run |-> r, speed |-> Effective(m, board[r].result), time |-> board[r].result.ttft,
           substituted |-> board[r].context # target]
  BY DEF RowOf, ShownRow
<1> HIDE DEF r, x
<1>6. /\ x.model = m /\ x.run = r /\ x.speed = Effective(m, board[r].result) /\ x.time = board[r].result.ttft
      /\ x.substituted = (board[r].context # target)
  BY <1>5
<1>7. board[r].result \in Readings
  BY <1>4 DEF RunRecord
<1>8. board[r].result.ttft \in Reading /\ Effective(m, board[r].result) \in Reading
  BY <1>7, ReadingIsNumber DEF Readings, Effective
<1> QED
  BY <1>1, <1>2, <1>3, <1>6, <1>8 DEF IsRow, x

\* There is one row for each model, and its readings are numbers.
LEMMA RowsAreRows ==
  ASSUME RankInv, NEW target \in Nat
  PROVE  /\ IsFiniteSet(Rows(target))
         /\ \A x \in Rows(target) : x.model \in MeasuredModels /\ IsRow(x, x.model, target) /\ x = RowOf(x.model, target)
                                    /\ x.model \in Nat /\ x.speed \in Int /\ x.time \in Int
         /\ \A x, y \in Rows(target) : x.model = y.model => x = y
<1>1. IsFiniteSet(MeasuredModels)
  <2>1. IsFiniteSet(1..Models)
    BY RankingAssumption, FS_Interval
  <2>2. MeasuredModels \in SUBSET (1..Models)
    BY DEF MeasuredModels
  <2> QED
    BY <2>1, <2>2, FS_Subset
<1>2. IsFiniteSet(Rows(target))
  <2> DEFINE f == [m \in MeasuredModels |-> RowOf(m, target)]
             T == Rows(target)
  <2>1. f \in Surjection(MeasuredModels, T)
    BY DEF Surjection, Rows
  <2> HIDE DEF f, T
  <2>2. IsFiniteSet(T)
    BY <1>1, <2>1, FS_Surjection
  <2> QED
    BY <2>2 DEF T
<1>3. ASSUME NEW x \in Rows(target)
      PROVE  /\ x.model \in MeasuredModels /\ IsRow(x, x.model, target) /\ x = RowOf(x.model, target)
             /\ x.model \in Nat /\ x.speed \in Int /\ x.time \in Int
  <2>1. PICK m \in MeasuredModels : x = RowOf(m, target)
    BY DEF Rows
  <2>2. IsRow(x, m, target) /\ m \in Nat
    BY <2>1, RowIsRow
  <2>3. x.model = m /\ x.speed \in Int /\ x.time \in Int
    BY <2>2, ReadingIsNumber DEF IsRow
  <2> QED
    BY <2>1, <2>2, <2>3
<1> QED
  BY <1>2, <1>3

\* The order of the rows with a speed, and of those without.
LEMMA SpeedIsOrder ==
  ASSUME RankInv, NEW target \in Nat, NEW S \in SUBSET Rows(target)
  PROVE  /\ InOrder(S, BeforeInSpeed) \in Seq(S)
         /\ ToSet(InOrder(S, BeforeInSpeed)) = S
         /\ \A i, j \in 1..Len(InOrder(S, BeforeInSpeed)) : i < j =>
               BeforeInSpeed(InOrder(S, BeforeInSpeed)[i], InOrder(S, BeforeInSpeed)[j])
<1> DEFINE a == InOrder(S, BeforeInSpeed)
<1>0. IsFiniteSet(S) /\ \A x, y \in S : x.model = y.model => x = y
  BY RowsAreRows, FS_Subset
<1>1. \A x \in S : x.model \in Int /\ x.speed \in Int
  BY RowsAreRows
<1>2. PICK R : \A x, y \in S : <<x, y>> \in R <=> BeforeInSpeed(x, y)
  <2> DEFINE R == {p \in S \X S : BeforeInSpeed(p[1], p[2])}
  <2>1. \A x, y \in S : <<x, y>> \in R <=> BeforeInSpeed(x, y)
    OBVIOUS
  <2> QED
    BY <2>1
<1>3. IsOrder(R, S)
  BY <1>0, <1>1, <1>2 DEF IsOrder, BeforeInSpeed
<1>4. \A x \in S : Cardinality({y \in S : BeforeInSpeed(y, x)}) = Rank(R, S, x)
  <2>1. \A x \in S : {y \in S : BeforeInSpeed(y, x)} = Before2(R, S, x)
    BY <1>2 DEF Before2
  <2> QED
    BY <2>1 DEF Rank
<1>5. a = [i \in 1..Cardinality(S) |-> a[i]]
  <2> DEFINE e(i) == CHOOSE x \in S : Cardinality({y \in S : BeforeInSpeed(y, x)}) = i - 1
  <2>1. a = [i \in 1..Cardinality(S) |-> e(i)]
    BY DEF InOrder
  <2> HIDE DEF e, a
  <2> QED
    BY <2>1
<1>6. ASSUME NEW i \in 1..Cardinality(S), NEW x \in S, Rank(R, S, x) = i - 1
      PROVE  a[i] \in S /\ Rank(R, S, a[i]) = i - 1
  <2>1. Cardinality({y \in S : BeforeInSpeed(y, x)}) = i - 1
    BY <1>4, <1>6
  <2>2. a[i] = CHOOSE u \in S : Cardinality({y \in S : BeforeInSpeed(y, u)}) = i - 1
    BY DEF InOrder
  <2> HIDE DEF a
  <2>3. a[i] \in S /\ Cardinality({y \in S : BeforeInSpeed(y, a[i])}) = i - 1
    BY <2>1, <2>2
  <2> QED
    BY <1>4, <2>3
<1> HIDE DEF a
<1>7. Lists(a, R, S)
  BY <1>0, <1>3, <1>5, <1>6, RanksList
<1>8. a \in Seq(S) /\ \A x \in S : \E i \in 1..Len(a) : a[i] = x
  BY <1>7 DEF Lists
<1>9. DOMAIN a = 1..Len(a) /\ \A i \in 1..Len(a) : a[i] \in S
  BY <1>8
<1>10. ToSet(a) = S
  BY <1>8, <1>9 DEF ToSet
<1>11. \A i, j \in 1..Len(a) : i < j => BeforeInSpeed(a[i], a[j])
  BY <1>2, <1>7, <1>9 DEF Lists
<1> QED
  BY <1>8, <1>10, <1>11 DEF a

\* The rows are sorted by time: all of them, none before a quicker one.
LEMMA TimeIsOrder ==
  ASSUME RankInv, NEW target \in Nat, NEW S \in SUBSET Rows(target)
  PROVE  /\ InOrder(S, BeforeInTime) \in Seq(S)
         /\ ToSet(InOrder(S, BeforeInTime)) = S
         /\ \A i, j \in 1..Len(InOrder(S, BeforeInTime)) : i < j =>
               BeforeInTime(InOrder(S, BeforeInTime)[i], InOrder(S, BeforeInTime)[j])
<1> DEFINE a == InOrder(S, BeforeInTime)
<1>0. IsFiniteSet(S) /\ \A x, y \in S : x.model = y.model => x = y
  BY RowsAreRows, FS_Subset
<1>1. \A x \in S : x.model \in Int /\ x.time \in Int
  BY RowsAreRows
<1>2. PICK R : \A x, y \in S : <<x, y>> \in R <=> BeforeInTime(x, y)
  <2> DEFINE R == {p \in S \X S : BeforeInTime(p[1], p[2])}
  <2>1. \A x, y \in S : <<x, y>> \in R <=> BeforeInTime(x, y)
    OBVIOUS
  <2> QED
    BY <2>1
<1>3. IsOrder(R, S)
  BY <1>0, <1>1, <1>2 DEF IsOrder, BeforeInTime
<1>4. \A x \in S : Cardinality({y \in S : BeforeInTime(y, x)}) = Rank(R, S, x)
  <2>1. \A x \in S : {y \in S : BeforeInTime(y, x)} = Before2(R, S, x)
    BY <1>2 DEF Before2
  <2> QED
    BY <2>1 DEF Rank
<1>5. a = [i \in 1..Cardinality(S) |-> a[i]]
  <2> DEFINE e(i) == CHOOSE x \in S : Cardinality({y \in S : BeforeInTime(y, x)}) = i - 1
  <2>1. a = [i \in 1..Cardinality(S) |-> e(i)]
    BY DEF InOrder
  <2> HIDE DEF e, a
  <2> QED
    BY <2>1
<1>6. ASSUME NEW i \in 1..Cardinality(S), NEW x \in S, Rank(R, S, x) = i - 1
      PROVE  a[i] \in S /\ Rank(R, S, a[i]) = i - 1
  <2>1. Cardinality({y \in S : BeforeInTime(y, x)}) = i - 1
    BY <1>4, <1>6
  <2>2. a[i] = CHOOSE u \in S : Cardinality({y \in S : BeforeInTime(y, u)}) = i - 1
    BY DEF InOrder
  <2> HIDE DEF a
  <2>3. a[i] \in S /\ Cardinality({y \in S : BeforeInTime(y, a[i])}) = i - 1
    BY <2>1, <2>2
  <2> QED
    BY <1>4, <2>3
<1> HIDE DEF a
<1>7. Lists(a, R, S)
  BY <1>0, <1>3, <1>5, <1>6, RanksList
<1>8. a \in Seq(S) /\ \A x \in S : \E i \in 1..Len(a) : a[i] = x
  BY <1>7 DEF Lists
<1>9. DOMAIN a = 1..Len(a) /\ \A i \in 1..Len(a) : a[i] \in S
  BY <1>8
<1>10. ToSet(a) = S
  BY <1>8, <1>9 DEF ToSet
<1>11. \A i, j \in 1..Len(a) : i < j => BeforeInTime(a[i], a[j])
  BY <1>2, <1>7, <1>9 DEF Lists
<1> QED
  BY <1>8, <1>10, <1>11 DEF a

\* The overview shows these rows, first those with a speed.
LEMMA OverviewShowsRows ==
  ASSUME RankInv, NEW target \in Nat
  PROVE  /\ ToSet(Overview(target)) = Rows(target)
         /\ DOMAIN Overview(target) = 1..Len(Overview(target)) /\ Len(Overview(target)) \in Nat
         /\ \A i, j \in DOMAIN Overview(target) : i < j =>
               LET x == Overview(target)[i]
                   y == Overview(target)[j]
               IN  \/ x.speed # Null /\ y.speed # Null /\ BeforeInSpeed(x, y)
                   \/ x.speed = Null /\ y.speed = Null /\ BeforeInTime(x, y)
                   \/ x.speed # Null /\ y.speed = Null
<1> DEFINE rows == Rows(target)
           A == {x \in rows : x.speed # Null}
           B == {x \in rows : x.speed = Null}
           a == InOrder(A, BeforeInSpeed)
           b == InOrder(B, BeforeInTime)
           c == Overview(target)
<1>1. c = a \o b
  BY DEF Overview, Rows, RowOf, MeasuredModels
<1>2. A \in SUBSET rows /\ B \in SUBSET rows /\ A \cup B = rows
      /\ (\A x \in A : x.speed # Null) /\ (\A x \in B : x.speed = Null)
  OBVIOUS
<1> HIDE DEF c, A, B, a, b, rows
<1>3. /\ a \in Seq(A) /\ ToSet(a) = A
      /\ \A i, j \in 1..Len(a) : i < j => BeforeInSpeed(a[i], a[j])
  BY <1>2, SpeedIsOrder DEF a, rows
<1>4. /\ b \in Seq(B) /\ ToSet(b) = B
      /\ \A i, j \in 1..Len(b) : i < j => BeforeInTime(b[i], b[j])
  BY <1>2, TimeIsOrder DEF b, rows
<1> DEFINE n == Len(a)
           k == Len(b)
<1>5. /\ n \in Nat /\ k \in Nat /\ DOMAIN a = 1..n /\ DOMAIN b = 1..k
      /\ (\A i \in 1..n : a[i] \in A) /\ (\A i \in 1..k : b[i] \in B)
  BY <1>3, <1>4
<1>6. DOMAIN c = 1..(n + k) /\ Len(c) = n + k
  BY <1>1, <1>3, <1>4, <1>5
<1>7. \A i \in 1..n : c[i] = a[i]
  BY <1>1, <1>3, <1>4, <1>5
<1>8. \A i \in 1..k : c[n + i] = b[i]
  BY <1>1, <1>3, <1>4, <1>5
<1> HIDE DEF n, k
<1>9. \A i \in 1..(n + k) : i \notin 1..n => i - n \in 1..k /\ c[i] = b[i - n]
  <2> SUFFICES ASSUME NEW i \in 1..(n + k), i \notin 1..n PROVE i - n \in 1..k /\ c[i] = b[i - n]
    OBVIOUS
  <2>1. i - n \in 1..k /\ n + (i - n) = i
    BY <1>5
  <2> QED
    BY <2>1, <1>8
<1>10. ToSet(c) = rows
  <2>1. \A i \in DOMAIN c : c[i] \in A \cup B
    BY <1>5, <1>6, <1>7, <1>9
  <2>2. \A x \in A : \E i \in DOMAIN c : c[i] = x
    <3> SUFFICES ASSUME NEW x \in A PROVE \E i \in DOMAIN c : c[i] = x
      OBVIOUS
    <3>1. PICK i \in 1..n : a[i] = x
      BY <1>3, <1>5 DEF ToSet
    <3>2. i \in DOMAIN c /\ c[i] = x
      BY <3>1, <1>5, <1>6, <1>7
    <3> QED
      BY <3>2
  <2>3. \A x \in B : \E i \in DOMAIN c : c[i] = x
    <3> SUFFICES ASSUME NEW x \in B PROVE \E i \in DOMAIN c : c[i] = x
      OBVIOUS
    <3>1. PICK i \in 1..k : b[i] = x
      BY <1>4, <1>5 DEF ToSet
    <3>2. n + i \in DOMAIN c /\ c[n + i] = x
      BY <3>1, <1>5, <1>6, <1>8
    <3> QED
      BY <3>2
  <2>4. ToSet(c) = A \cup B
    BY <2>1, <2>2, <2>3 DEF ToSet
  <2> QED
    BY <2>4, <1>2
<1>11. ASSUME NEW i \in DOMAIN c, NEW j \in DOMAIN c, i < j
       PROVE  \/ c[i].speed # Null /\ c[j].speed # Null /\ BeforeInSpeed(c[i], c[j])
              \/ c[i].speed = Null /\ c[j].speed = Null /\ BeforeInTime(c[i], c[j])
              \/ c[i].speed # Null /\ c[j].speed = Null
  <2>1. CASE j \in 1..n
    <3>1. i \in 1..n
      BY <2>1, <1>5, <1>6, <1>11
    <3>2. c[i] \in A /\ c[j] \in A
      BY <3>1, <2>1, <1>5, <1>7
    <3>3. BeforeInSpeed(c[i], c[j])
      <4>1. \A u, v \in 1..n : u < v => BeforeInSpeed(a[u], a[v])
        BY <1>3 DEF n
      <4>2. BeforeInSpeed(a[i], a[j]) /\ c[i] = a[i] /\ c[j] = a[j]
        BY <4>1, <3>1, <2>1, <1>7, <1>11
      <4> QED
        BY <4>2
    <3> QED
      BY <3>2, <3>3, <1>2
  <2>2. CASE j \notin 1..n /\ i \in 1..n
    <3>1. c[i] \in A /\ c[j] \in B
      BY <2>2, <1>5, <1>6, <1>7, <1>9
    <3> QED
      BY <3>1, <1>2
  <2>3. CASE j \notin 1..n /\ i \notin 1..n
    <3>1. i - n \in 1..k /\ c[i] = b[i - n] /\ j - n \in 1..k /\ c[j] = b[j - n]
      BY <2>3, <1>6, <1>9
    <3>2. i - n < j - n
      BY <1>5, <1>6, <1>11
    <3>3. \A u, v \in 1..k : u < v => BeforeInTime(b[u], b[v])
      BY <1>4 DEF k
    <3>4. BeforeInTime(c[i], c[j])
      BY <3>1, <3>2, <3>3
    <3>5. c[i] \in B /\ c[j] \in B
      BY <3>1, <1>5
    <3> QED
      BY <3>4, <3>5, <1>2
  <2> QED
    BY <2>1, <2>2, <2>3
<1>12. DOMAIN c = 1..Len(c) /\ Len(c) \in Nat
  BY <1>5, <1>6
<1> QED
  BY <1>10, <1>11, <1>12 DEF c, rows

\* What is compared is what is shown.
LEMMA ViewsAreOne == RankInv => ViewsAgree
<1> SUFFICES ASSUME RankInv, NEW target \in Target, NEW model \in 1..Models
             PROVE  LET shown == {x \in ToSet(Overview(target)) : x.model = model}
                    IN  /\ shown = Compare(model, target)
                        /\ \A x \in shown : /\ [run |-> x.run, speed |-> x.speed] \in ListedRuns(model)
                                          /\ board[x.run].ended <= board[Current(model)].ended
  BY DEF ViewsAgree
<1> DEFINE shown == {x \in ToSet(Overview(target)) : x.model = model}
<1>0. target \in Nat
  BY RankingAssumption
<1>1. shown = {x \in Rows(target) : x.model = model}
  BY <1>0, OverviewShowsRows
<1> HIDE DEF shown
<1>2. \A m : ComparedRuns(m) = MeasuredRuns(m)
  BY DEF ComparedRuns, MeasuredRuns
<1>3. Compare(model, target) = {RowOf(m, target) : m \in {m \in {model} : MeasuredRuns(m) # {}}}
  BY <1>2 DEF Compare, RowOf
<1>4. \A x \in Rows(target) : x.model \in MeasuredModels /\ x = RowOf(x.model, target) /\ IsRow(x, x.model, target)
  BY <1>0, RowsAreRows
<1>5. ASSUME NEW x \in shown PROVE x \in Compare(model, target)
  <2>1. x = RowOf(model, target) /\ model \in MeasuredModels
    BY <1>1, <1>4
  <2> QED
    BY <2>1, <1>3 DEF MeasuredModels
<1>6. ASSUME NEW x \in Compare(model, target) PROVE x \in shown
  <2>1. x = RowOf(model, target) /\ model \in MeasuredModels
    BY <1>3 DEF MeasuredModels
  <2>2. x \in Rows(target) /\ x.model = model
    BY <2>1, <1>0, RowIsRow DEF Rows, IsRow
  <2> QED
    BY <2>2, <1>1
<1>7. ASSUME NEW x \in shown
      PROVE  /\ [run |-> x.run, speed |-> x.speed] \in ListedRuns(model)
             /\ board[x.run].ended <= board[Current(model)].ended
  <2>1. IsRow(x, model, target)
    BY <1>1, <1>4
  <2>2. x.run \in MeasuredRuns(model) /\ x.speed = Effective(model, board[x.run].result)
    BY <2>1 DEF IsRow
  <2>3. x.run \in DOMAIN board /\ board[x.run].model = model
    BY <2>2 DEF MeasuredRuns
  <2>4. [run |-> x.run, speed |-> x.speed] \in ListedRuns(model)
    BY <2>2, <2>3 DEF ListedRuns
  <2>5. MeasuredRuns(model) \subseteq DOMAIN board /\ MeasuredRuns(model) # {}
    BY <2>2 DEF MeasuredRuns
  <2>6. board[x.run].ended <= board[Current(model)].ended
    BY <2>2, <2>5, LatestIsLatest DEF Current
  <2> QED
    BY <2>4, <2>6
<1> QED
  BY <1>5, <1>6, <1>7 DEF shown

\* What is shown is nearest.
LEMMA ShownIsNearest == RankInv => NearestIsShown
<1> SUFFICES ASSUME RankInv, NEW target \in Target, NEW x \in ToSet(Overview(target))
             PROVE  /\ board[x.run].context \in MeasuredContexts
                    /\ \A r \in MeasuredRuns(x.model) :
                          LET near == Distance(board[r].context, target) - Distance(board[x.run].context, target)
                          IN  near > 0 \/ (near = 0 /\ board[r].context >= board[x.run].context)
                    /\ x.substituted <=> \A r \in MeasuredRuns(x.model) : board[r].context # target
  BY DEF NearestIsShown
<1> DEFINE of == MeasuredRuns(x.model)
           n == board[x.run].context
<1>0. target \in Nat
  BY RankingAssumption
<1>1. IsRow(x, x.model, target)
  BY <1>0, OverviewShowsRows, RowsAreRows
<1>2. of \subseteq DOMAIN board /\ \A r \in of : board[r].status = "completed"
  BY DEF MeasuredRuns
<1>3. x.run \in of /\ IsNearest(n, target, {board[q].context : q \in of}) /\ x.substituted = (n # target)
  BY <1>1 DEF IsRow, IsRepresentative
<1>4. n \in MeasuredContexts
  BY <1>2, <1>3 DEF MeasuredContexts
<1> HIDE DEF of
<1>5. \A r \in of : board[r].context \in Nat
  BY <1>2, RunsAreFinite
<1>6. n \in Nat
  BY <1>3, <1>5
<1>7. \A r \in of : \/ Distance(n, target) < Distance(board[r].context, target)
                    \/ Distance(n, target) = Distance(board[r].context, target) /\ n <= board[r].context
  BY <1>3 DEF IsNearest
<1> HIDE DEF n
<1>8. \A r \in of : Distance(board[r].context, target) \in Nat /\ Distance(n, target) \in Nat
  BY <1>0, <1>5, <1>6 DEF Distance
<1>9. ASSUME NEW r \in of
      PROVE  LET near == Distance(board[r].context, target) - Distance(n, target)
             IN  near > 0 \/ (near = 0 /\ board[r].context >= n)
  BY <1>5, <1>6, <1>7, <1>8
<1>10. (n # target) => \A r \in of : board[r].context # target
  <2> SUFFICES ASSUME n # target, NEW r \in of, board[r].context = target PROVE FALSE
    OBVIOUS
  <2>1. Distance(board[r].context, target) = 0 /\ Distance(n, target) > 0
    BY <1>0, <1>6 DEF Distance
  <2> QED
    BY <2>1, <1>7, <1>8
<1>11. (\A r \in of : board[r].context # target) => n # target
  BY <1>3 DEF n
<1>12. x.substituted <=> \A r \in of : board[r].context # target
  BY <1>3, <1>10, <1>11
<1> QED
  BY <1>4, <1>9, <1>12 DEF of, n

\* A higher speed is in no lower tier.
LEMMA TierRises ==
  ASSUME NEW a \in Int, NEW b \in Int, a >= b
  PROVE  Tier(a) >= Tier(b)
<1> DEFINE all == {10, 40, 60, 100}
           A == {limit \in all : a >= limit}
           B == {limit \in all : b >= limit}
<1>1. B \subseteq A /\ A \subseteq 1..100
  OBVIOUS
<1>2. IsFiniteSet(1..100)
  <2>1. 1 \in Int /\ 100 \in Int
    OBVIOUS
  <2> QED
    BY <2>1, FS_Interval
<1> HIDE DEF A, B
<1>3. IsFiniteSet(A) /\ IsFiniteSet(B)
  BY <1>1, <1>2, FS_Subset
<1>4. Cardinality(B) <= Cardinality(A) /\ Cardinality(A) \in Nat /\ Cardinality(B) \in Nat
  BY <1>1, <1>3, FS_Subset, FS_CardinalityType
<1> QED
  BY <1>4 DEF Tier, A, B

\* What the overview shows is ranked, for every target.
LEMMA ShownIsRanked == RankInv => OverviewIsRanked
<1> SUFFICES ASSUME RankInv, NEW target \in Target
             PROVE  LET rows == Overview(target)
                    IN  /\ {x.model : x \in ToSet(rows)} = {m \in 1..Models : MeasuredRuns(m) # {}}
                        /\ \A i, j \in DOMAIN rows : i < j =>
                              /\ rows[i].model # rows[j].model
                              /\ rows[i].speed >= rows[j].speed
                              /\ Tier(rows[i].speed) >= Tier(rows[j].speed)
  BY DEF OverviewIsRanked
<1> DEFINE c == Overview(target)
<1>0. target \in Nat
  BY RankingAssumption
<1>1. ToSet(c) = Rows(target)
  BY <1>0, OverviewShowsRows
<1>2. \A i, j \in DOMAIN c : i < j =>
               \/ c[i].speed # Null /\ c[j].speed # Null /\ BeforeInSpeed(c[i], c[j])
               \/ c[i].speed = Null /\ c[j].speed = Null /\ BeforeInTime(c[i], c[j])
               \/ c[i].speed # Null /\ c[j].speed = Null
  BY <1>0, OverviewShowsRows
<1> HIDE DEF c
<1>3. \A x \in Rows(target) : /\ x.model \in MeasuredModels /\ x.model \in Nat /\ x.time \in Int
                              /\ x.speed \in Reading
  BY <1>0, RowsAreRows DEF IsRow
<1>4. {x.model : x \in ToSet(c)} = MeasuredModels
  <2>1. \A m \in MeasuredModels : RowOf(m, target) \in Rows(target) /\ RowOf(m, target).model = m
    BY <1>0, RowIsRow DEF Rows, IsRow
  <2> QED
    BY <2>1, <1>1, <1>3
<1>5. ASSUME NEW i \in DOMAIN c, NEW j \in DOMAIN c, i < j
      PROVE  c[i].model # c[j].model /\ c[i].speed >= c[j].speed /\ Tier(c[i].speed) >= Tier(c[j].speed)
  <2>1. c[i] \in Rows(target) /\ c[j] \in Rows(target)
    BY <1>1 DEF ToSet
  <2>2. /\ c[i].model \in Nat /\ c[j].model \in Nat /\ c[i].time \in Int /\ c[j].time \in Int
        /\ c[i].speed \in Reading /\ c[j].speed \in Reading
    BY <2>1, <1>3
  <2>3. /\ c[i].speed \in Int /\ c[j].speed \in Int /\ Null = -1
        /\ (c[i].speed # Null => c[i].speed >= 0) /\ (c[j].speed # Null => c[j].speed >= 0)
    BY <2>2, ReadingIsNumber DEF Null
  <2>4. c[i].speed >= c[j].speed
    BY <2>3, <1>2, <1>5 DEF BeforeInSpeed
  <2>5. c[i].model # c[j].model
    <3>1. c[i].model = c[j].model => c[i] = c[j]
      BY <2>1, <1>0, RowsAreRows
    <3>2. ~BeforeInSpeed(c[i], c[i]) /\ ~BeforeInTime(c[i], c[i])
      BY <2>2, <2>3 DEF BeforeInSpeed, BeforeInTime
    <3> QED
      BY <3>1, <3>2, <1>2, <1>5
  <2> QED
    BY <2>3, <2>4, <2>5, TierRises
<1> QED
  BY <1>4, <1>5 DEF c, MeasuredModels

\* A sum lies between what it would be of the least and of the greatest numbers only.

\* A sum of so many numbers is between so many times their bounds.
LEMMA SumIsBetween ==
  ASSUME NEW S, IsFiniteSet(S), NEW f \in [S -> Nat], NEW lo \in Nat, NEW hi \in Nat,
         \A x \in S : lo <= f[x] /\ f[x] <= hi
  PROVE  /\ FoldFunction(+, 0, f) \in Nat
         /\ Cardinality(S) * lo <= FoldFunction(+, 0, f)
         /\ FoldFunction(+, 0, f) <= Cardinality(S) * hi
<1> DEFINE ch == [s \in SUBSET S |-> CHOOSE x \in s : TRUE]
           st == [p \in S \X Nat |-> f[p[1]] + p[2]]
           iter == CHOOSE g : g = [s \in SUBSET S |-> IF s = {} THEN 0
                                    ELSE LET x == CHOOSE x \in s : TRUE IN f[x] + g[s \ {x}]]
<1>1. FoldFunction(+, 0, f) = iter[S]
  BY DEF FoldFunction, FoldFunctionOnSet, MapThenFoldSet
<1>2. Chooses(ch, S)
  BY DEF Chooses
<1>3. st \in [S \X Nat -> Nat] /\ \A x \in S, n \in Nat : st[<<x, n>>] = f[x] + n
  OBVIOUS
<1>4. \A s \in SUBSET S : ch[s] = CHOOSE x \in s : TRUE
  OBVIOUS
<1> HIDE DEF st, ch
<1>5. PICK h \in [SUBSET S -> Nat] : FoldsTo(h, S, ch, st, 0)
  BY <1>2, <1>3, FoldExists
<1>6. h = [s \in SUBSET S |-> IF s = {} THEN 0
                                    ELSE LET x == CHOOSE x \in s : TRUE IN f[x] + h[s \ {x}]]
  <2>1. ASSUME NEW s \in SUBSET S, s # {} PROVE h[s] = f[ch[s]] + h[s \ {ch[s]}]
    <3>1. ch[s] \in S /\ h[s \ {ch[s]}] \in Nat
      BY <1>2, <2>1 DEF Chooses
    <3>2. h[s] = st[<<ch[s], h[s \ {ch[s]}]>>]
      BY <1>5, <2>1 DEF FoldsTo
    <3> QED
      BY <3>1, <3>2, <1>3
  <2>2. h[{}] = 0
    BY <1>5 DEF FoldsTo
  <2> QED
    BY <2>1, <2>2, <1>4
<1>7. iter = [s \in SUBSET S |-> IF s = {} THEN 0
                                    ELSE LET x == CHOOSE x \in s : TRUE IN f[x] + iter[s \ {x}]]
  BY <1>6
<1> HIDE DEF iter
<1>8. \A s \in SUBSET S : s # {} => ch[s] \in s /\ iter[s] = f[ch[s]] + iter[s \ {ch[s]}]
  BY <1>2, <1>4, <1>7 DEF Chooses
<1>9. iter[{}] = 0
  BY <1>7
<1> DEFINE Fine(s) == iter[s] \in Nat /\ Cardinality(s) * lo <= iter[s] /\ iter[s] <= Cardinality(s) * hi
           Bad == {s \in SUBSET S : ~Fine(s)}
<1>10. Bad = {}
  <2> SUFFICES ASSUME Bad # {} PROVE FALSE
    OBVIOUS
  <2>1. PICK s \in Bad : \A y \in Bad : y \subseteq s => y = s
    <3>1. Bad \in SUBSET (SUBSET S)
      OBVIOUS
    <3> HIDE DEF Bad
    <3> QED
      BY <3>1, SmallestSet
  <2>2. CASE s = {}
    <3>1. Cardinality(s) = 0 /\ iter[s] = 0
      BY <2>2, <1>9, FS_EmptySet
    <3>2. Fine(s)
      BY <3>1
    <3> QED
      BY <3>2
  <2>3. CASE s # {}
    <3> DEFINE x == ch[s]
               r == s \ {x}
    <3>1. x \in s /\ iter[s] = f[x] + iter[r] /\ s \in SUBSET S
      BY <1>8, <2>3
    <3> HIDE DEF x
    <3>2. Fine(r)
      <4>1. r \in SUBSET S /\ r # s /\ r \subseteq s
        BY <3>1
      <4> HIDE DEF Fine
      <4> QED
        BY <4>1, <2>1
    <3>3. IsFiniteSet(s)
      BY <3>1, FS_Subset
    <3>4. Cardinality(r) = Cardinality(s) - 1 /\ Cardinality(s) \in Nat /\ IsFiniteSet(r)
      BY <3>1, <3>3, FS_RemoveElement, FS_CardinalityType
    <3>5. f[x] \in Nat /\ lo <= f[x] /\ f[x] <= hi
      BY <3>1
    <3> DEFINE k == Cardinality(r)
               i == iter[r]
               j == f[x]
    <3>6. k \in Nat
      BY <3>4, FS_CardinalityType
    <3>7. i \in Nat /\ k * lo <= i /\ i <= k * hi
      BY <3>2
    <3>8. j \in Nat /\ lo <= j /\ j <= hi /\ iter[s] = j + i /\ Cardinality(s) = k + 1
      BY <3>1, <3>4, <3>5
    <3> HIDE DEF k, i, j, r, Fine
    <3>9. (k + 1) * lo = k * lo + lo /\ (k + 1) * hi = k * hi + hi /\ k * lo \in Nat /\ k * hi \in Nat
      BY <3>6
    <3>10. iter[s] \in Nat /\ Cardinality(s) * lo <= iter[s] /\ iter[s] <= Cardinality(s) * hi
      <4> DEFINE kl == k * lo
                 kh == k * hi
      <4>1. kl \in Nat /\ kh \in Nat /\ kl <= i /\ i <= kh /\ Cardinality(s) * lo = kl + lo /\ Cardinality(s) * hi = kh + hi
        BY <3>7, <3>8, <3>9
      <4> HIDE DEF kl, kh
      <4> QED
        BY <4>1, <3>7, <3>8
    <3>11. Fine(s)
      BY <3>10 DEF Fine
    <3> QED
      BY <3>11
  <2> QED
    BY <2>2, <2>3
<1>11. Fine(S)
  BY <1>10
<1> QED
  BY <1>1, <1>11

\* Dividing by how many there are gives a number between the least and the greatest.
LEMMA MeanIsBetween ==
  ASSUME NEW n \in Nat, n > 0, NEW lo \in Nat, NEW hi \in Nat, NEW sum \in Nat,
         n * lo <= sum, sum <= n * hi
  PROVE  lo <= sum \div n /\ sum \div n <= hi /\ sum \div n \in Int
<1> DEFINE q == sum \div n
<1>1. q \in Nat /\ n * q <= sum /\ sum < n * q + n
  OBVIOUS
<1> HIDE DEF q
<1>2. ASSUME q < lo PROVE FALSE
  <2>1. q + 1 <= lo
    BY <1>1, <1>2
  <2>2. n * (q + 1) = n * q + n
    BY <1>1
  <2>3. n * (q + 1) <= n * lo
    BY <2>1, <1>1
  <2> QED
    BY <2>2, <2>3, <1>1
<1>3. ASSUME q > hi PROVE FALSE
  <2>1. hi + 1 <= q
    BY <1>1, <1>3
  <2>2. n * (hi + 1) = n * hi + n
    OBVIOUS
  <2>3. n * (hi + 1) <= n * q
    BY <2>1, <1>1
  <2> QED
    BY <2>2, <2>3, <1>1
<1> QED
  BY <1>1, <1>2, <1>3 DEF q

\* The least, the mean and the greatest speed are in that order.
LEMMA SpreadIsRight == RankInv => SpreadIsOrdered
<1> SUFFICES ASSUME RankInv, NEW model \in 1..Models, NEW context \in Context, Speeds(model, context) # <<>>
             PROVE  LET s == Spread(model, context)
                    IN  /\ s.min <= s.mean /\ s.mean <= s.max
                        /\ \A x \in ToSet(Overview(context)) :
                              x.model = model /\ x.speed # Null /\ ~x.substituted => s.min <= x.speed /\ x.speed <= s.max
  BY DEF SpreadIsOrdered
<1> DEFINE f == Speeds(model, context)
           of(r) == Effective(model, board[r].result)
           S == {r \in RunsAt(model, context) : of(r) # Null}
           V == Range(f)
<1>0. context \in Nat
  BY RankingAssumption
<1>1. f = [r \in S |-> of(r)]
  BY DEF Speeds
<1>2. S # {}
  <2>1. ASSUME NEW g, DOMAIN g = {}, g = [x \in {} |-> g[x]] PROVE g = <<>>
    BY <2>1
  <2> QED
    BY <1>1, <2>1
<1>3. S \subseteq DOMAIN board
  BY DEF RunsAt, MeasuredRuns
<1>4. IsFiniteSet(S)
  BY <1>3, RunsAreFinite
<1>5. \A r \in S : of(r) \in Nat
  <2> SUFFICES ASSUME NEW r \in S PROVE of(r) \in Nat
    OBVIOUS
  <2>1. board[r] \in RunRecord
    BY <1>3, RunsAreFinite
  <2>2. board[r].result \in Readings
    BY <2>1 DEF RunRecord
  <2>3. of(r) \in Reading
    BY <2>2, ReadingIsNumber DEF Readings, Effective
  <2> QED
    BY <2>3 DEF Reading
<1> HIDE DEF f
<1>6. f \in [S -> Nat] /\ DOMAIN f = S /\ \A r \in S : f[r] = of(r)
  BY <1>1, <1>5
<1> HIDE DEF of, S
<1>7. V \in SUBSET Int /\ V # {} /\ (\A r \in S : f[r] \in V) /\ (\A v \in V : v \in Nat)
  BY <1>2, <1>6 DEF Range
<1>8. IsFiniteSet(V)
  <2>1. f \in Surjection(S, V)
    BY <1>6 DEF Surjection, Range
  <2> HIDE DEF V
  <2> QED
    BY <2>1, <1>4, FS_Surjection
<1> DEFINE lo == Min(V)
           hi == Max(V)
           n == Cardinality(S)
           mean == FoldFunction(+, 0, f) \div n
<1>9. lo \in Nat /\ hi \in Nat /\ \A v \in V : lo <= v /\ v <= hi
  <2> HIDE DEF V
  <2>1. lo \in V /\ hi \in V /\ \A v \in V : lo <= v /\ hi >= v
    BY <1>7, <1>8, GreatestExists, LowestExists
  <2> QED
    BY <2>1, <1>7
<1>10. Spread(model, context) = [min |-> lo, mean |-> mean, max |-> hi]
  BY <1>6 DEF Spread, MeanSpeed, f
<1> HIDE DEF lo, hi, V
<1>11. \A r \in S : lo <= f[r] /\ f[r] <= hi
  BY <1>7, <1>9
<1>12. n \in Nat /\ n > 0
  BY <1>2, <1>4, FS_CardinalityType, FS_EmptySet
<1>13. lo <= mean /\ mean <= hi
  <2>1. /\ FoldFunction(+, 0, f) \in Nat
        /\ n * lo <= FoldFunction(+, 0, f) /\ FoldFunction(+, 0, f) <= n * hi
    BY <1>4, <1>6, <1>9, <1>11, SumIsBetween
  <2> HIDE DEF n
  <2> DEFINE sum == FoldFunction(+, 0, f)
  <2>2. sum \in Nat /\ n * lo <= sum /\ sum <= n * hi
    BY <2>1
  <2> HIDE DEF sum
  <2>3. lo <= sum \div n /\ sum \div n <= hi
    BY <2>2, <1>9, <1>12, MeanIsBetween
  <2> QED
    BY <2>3 DEF sum
<1> HIDE DEF mean
<1>14. ASSUME NEW x \in ToSet(Overview(context)), x.model = model, x.speed # Null, ~x.substituted
       PROVE  lo <= x.speed /\ x.speed <= hi
  <2>1. IsRow(x, model, context)
    BY <1>0, <1>14, OverviewShowsRows, RowsAreRows
  <2>2. /\ x.run \in MeasuredRuns(model) /\ x.speed = Effective(model, board[x.run].result)
        /\ x.substituted = (board[x.run].context # context)
    BY <2>1 DEF IsRow
  <2>3. board[x.run].context = context
    BY <2>2, <1>14
  <2>4. x.run \in S /\ of(x.run) = x.speed
    BY <2>2, <2>3, <1>14 DEF S, RunsAt, of
  <2> QED
    BY <2>4, <1>6, <1>11
<1> QED
  BY <1>10, <1>13, <1>14

\* The views agree in every state.
LEMMA RankInvRanks == RankInv => RankingAgrees
<1> SUFFICES ASSUME RankInv PROVE RankTypeOK
  BY ViewsAreOne, ShownIsNearest, ShownIsRanked, SpreadIsRight DEF RankingAgrees
<1>1. \A r \in DOMAIN board : board[r].status \in {"running", "completed", "failed"}
  <2>1. \A r \in DOMAIN board : board[r] \in RunRecord
    BY DEF RankInv
  <2> QED
    BY <2>1 DEF RunRecord
<1> QED
  BY <1>1 DEF RankInv, RankTypeOK

\* The overview, the comparison and the details of the measurements agree with each
\* other and with the runs they are about, whatever is measured (stats.rs).
THEOREM ViewsOfRunsAgree == RankSpec => []RankingAgrees
<1>1. RankInit => RankInv
  BY InitRank
<1>2. RankInv /\ [RankNext]_rankVars => RankInv'
  BY RankKept
<1>3. RankInv => RankingAgrees
  BY RankInvRanks
<1> QED
  BY <1>1, <1>2, <1>3, PTL DEF RankSpec

\* A measured run that ended after all others is what the overview of its context shows.
ShowsNewest ==
  \A r \in DOMAIN board : \A target \in Target :
     (/\ board[r].status = "completed" /\ board[r].result.ttft # Null /\ board[r].context = target
      /\ \A q \in DOMAIN board : q # r => board[q].ended < board[r].ended)
       => \E x \in ToSet(Overview(target)) : x.run = r

\* The newest run at a context is the one that is shown.
LEMMA RankInvShowsNewest == RankInv => ShowsNewest
<1> SUFFICES ASSUME RankInv, NEW r \in DOMAIN board, NEW target \in Target,
                    board[r].status = "completed", board[r].result.ttft # Null, board[r].context = target,
                    \A q \in DOMAIN board : q # r => board[q].ended < board[r].ended
             PROVE  \E x \in ToSet(Overview(target)) : x.run = r
  BY DEF ShowsNewest
<1> DEFINE m == board[r].model
           x == RowOf(m, target)
<1>0. target \in Nat
  BY RankingAssumption
<1>1. board[r] \in RunRecord
  BY RunsAreFinite
<1>2. m \in 1..Models
  BY <1>1 DEF RunRecord
<1>3. r \in MeasuredRuns(m) /\ MeasuredRuns(m) \subseteq DOMAIN board
  BY DEF MeasuredRuns
<1>4. m \in MeasuredModels
  BY <1>2, <1>3 DEF MeasuredModels
<1> HIDE DEF m, x
<1>5. IsRow(x, m, target) /\ x \in Rows(target)
  BY <1>0, <1>4, RowIsRow DEF Rows, x
<1> DEFINE u == x.run
<1>6. IsRepresentative(u, MeasuredRuns(m), target) /\ u \in DOMAIN board
  BY <1>3, <1>5 DEF IsRow
<1> HIDE DEF u
<1>7. /\ IsNearest(board[u].context, target, {board[q].context : q \in MeasuredRuns(m)})
      /\ board[r].context = board[u].context => board[r].ended <= board[u].ended
  BY <1>3, <1>6 DEF IsRepresentative
<1>8. board[u].context = target
  <2> DEFINE n == board[u].context
             contexts == {board[q].context : q \in MeasuredRuns(m)}
  <2>1. n \in Nat
    BY <1>6, RunsAreFinite
  <2>2. target \in contexts
    BY <1>3
  <2> HIDE DEF n, contexts
  <2>3. Distance(n, target) <= Distance(target, target)
    <3>1. Distance(n, target) \in Nat /\ Distance(target, target) \in Nat
      BY <1>0, <2>1 DEF Distance
    <3>2. \/ Distance(n, target) < Distance(target, target)
          \/ Distance(n, target) = Distance(target, target)
      BY <1>7, <2>2 DEF IsNearest, n, contexts
    <3> QED
      BY <3>1, <3>2
  <2>4. n = target
    BY <1>0, <2>1, <2>3 DEF Distance
  <2> QED
    BY <2>4 DEF n
<1>9. u = r
  <2>1. board[u].ended \in Int /\ board[r].ended \in Int
    BY <1>6, RunsAreFinite
  <2> QED
    BY <2>1, <1>6, <1>7, <1>8
<1>10. x \in ToSet(Overview(target))
  BY <1>0, <1>5, OverviewShowsRows
<1> QED
  BY <1>9, <1>10 DEF u

NewlyShown ==
  \A r \in DOMAIN board : \A target \in Target :
     (/\ board[r].status = "running" /\ board'[r].status = "completed"
      /\ board'[r].result.ttft # Null /\ board[r].context = target /\ minute' > minute)
       => \E x \in ToSet(Overview(target))' : x.run = r

\* Which run a step finishes.
LEMMA StepShowsNewest == RankInv /\ ShowsNewest' /\ [RankNext]_rankVars => [NewlyShown]_rankVars
<1> SUFFICES ASSUME RankInv, ShowsNewest', RankNext PROVE NewlyShown
  OBVIOUS
<1> SUFFICES ASSUME NEW r \in DOMAIN board, NEW target \in Target,
                    board[r].status = "running", board'[r].status = "completed", board'[r].result.ttft # Null,
                    board[r].context = target, minute' > minute
             PROVE  \E x \in ToSet(Overview(target))' : x.run = r
  BY DEF NewlyShown
<1>0. /\ minute \in Nat /\ \A q \in DOMAIN board : board[q].ended <= minute /\ board[q].ended \in Int
  BY RunsAreFinite DEF RankInv
<1>1. ASSUME NEW s \in DOMAIN board, NEW status \in {"completed", "failed"}, NEW result \in Result,
             NEW later \in 0..1, EndsMeasure(s, status, result, later)
      PROVE  \E x \in ToSet(Overview(target))' : x.run = r
  <2>1. /\ DOMAIN board' = DOMAIN board /\ \A q \in DOMAIN board : q # s => board'[q] = board[q]
        /\ board'[s].ended = minute' /\ board'[s].context = board[s].context
    BY <1>1, EndKeepsRank
  <2>2. s = r
    BY <2>1
  <2>3. minute' \in Nat
    BY <1>0, <1>1 DEF EndsMeasure
  <2>4. \A q \in DOMAIN board' : q # r => board'[q].ended < board'[r].ended
    <3> SUFFICES ASSUME NEW q \in DOMAIN board', q # r PROVE board'[q].ended < board'[r].ended
      OBVIOUS
    <3>1. board'[q].ended = board[q].ended /\ board[q].ended <= minute /\ board[q].ended \in Int
      BY <1>0, <2>1, <2>2
    <3> QED
      BY <3>1, <1>0, <2>1, <2>2, <2>3
  <2>5. r \in DOMAIN board' /\ board'[r].context = target
    BY <2>1, <2>2
  <2> QED
    BY <2>4, <2>5 DEF ShowsNewest
<1>2. ASSUME NEW model \in 1..Models, NEW context \in Context, BeginsMeasure(model, context) PROVE FALSE
  BY <1>0, <1>2 DEF BeginsMeasure
<1>3. ASSUME NEW model \in 1..Models, ChangesKind(model) PROVE FALSE
  BY <1>0, <1>3 DEF ChangesKind
<1> QED
  BY <1>1, <1>2, <1>3 DEF RankNext

\* A run that ends is shown at once where it is the best to show (stats.rs).
THEOREM NewRunsAreShown == RankSpec => NewMeasureShows
<1>1. RankInit => RankInv
  BY InitRank
<1>2. RankInv /\ [RankNext]_rankVars => RankInv'
  BY RankKept
<1>3. RankInv => ShowsNewest
  BY RankInvShowsNewest
<1>4. RankInv /\ ShowsNewest' /\ [RankNext]_rankVars => [NewlyShown]_rankVars
  BY StepShowsNewest
<1>5. RankSpec => [][NewlyShown]_rankVars
  BY <1>1, <1>2, <1>3, <1>4, PTL DEF RankSpec
<1> QED
  BY <1>5 DEF NewMeasureShows, NewlyShown

-----------------------------------------------------------------------------
(* Evaluations. *)

ShelfRow ==
  [who : Eval, item : Nat, context : EvalContext \cup {"none"}, score : {0, FullMark}, at : 0..MaxTime]
EvalState ==
  [at : {"rest", "load", "items", "store"} \cup Over, kind : EvalKind, context : EvalContext \cup {"none"},
   marks : Seq({0, FullMark})]

EvalTypes ==
  /\ evals \in [Eval -> EvalState]
  /\ evalServer \in [Eval -> {"none", "starting", "ready", "dead", "idle"}]
  /\ evalRow \in [Eval -> [status : {"none", "running", "failed", "completed"}, score : Nat]]
  /\ shelf \in Seq(ShelfRow)
  /\ clock \in 0..MaxTime

\* Where an evaluation is, its server, its row and its marks go together.
Stage(e) ==
  LET at == evals[e].at
      marks == evals[e].marks
  IN  /\ Len(marks) <= Items
      /\ at \in {"rest", "refused"} <=> evalRow[e].status = "none"
      /\ at = "failed" <=> evalRow[e].status = "failed"
      /\ at = "completed" <=> evalRow[e].status = "completed"
      /\ at \in {"store", "failed", "completed"} => evalServer[e] = "idle"
      /\ at \in {"rest", "load", "refused", "failed"} => marks = <<>>
      /\ at = "rest" => evals[e].kind = "quality"
      /\ at \in {"store", "completed"} => Len(marks) = Items
      /\ at = "completed" => evalRow[e].score = Mean(marks)

\* The rows of an evaluation are those of its marks, the newest first.
Shelves(e) ==
  /\ evals[e].kind = "template" =>
       /\ \A n \in 1..Len(evals[e].marks) : \E i \in Places(e) :
             shelf[i].item = n /\ shelf[i].score = evals[e].marks[n]
       /\ \A i \in Places(e) : shelf[i].item \in 1..Len(evals[e].marks) /\ shelf[i].context = evals[e].context
       /\ \A i, j \in Places(e) : i < j => shelf[i].item > shelf[j].item
  /\ evals[e].kind = "quality" => Places(e) = {}

\* Nothing on the shelf is from later than the clock, and nothing lies above a newer row.
ShelfIsTimed ==
  /\ \A i \in DOMAIN shelf : shelf[i].at <= clock
  /\ \A i, j \in DOMAIN shelf : i < j => shelf[i].at >= shelf[j].at

EvalInv == EvalTypes /\ (\A e \in Eval : Stage(e) /\ Shelves(e)) /\ ShelfIsTimed

\* There are no evaluations at first.
LEMMA InitEval == EvalInit => EvalInv
<1> SUFFICES ASSUME EvalInit PROVE EvalInv
  OBVIOUS
<1>1. <<>> \in Seq({0, FullMark}) /\ <<>> \in Seq(ShelfRow) /\ DOMAIN <<>> = {} /\ Len(<<>>) = 0
  OBVIOUS
<1>2. Unasked \in EvalState
  BY <1>1 DEF Unasked, EvalState, EvalKind
<1>3. EvalTypes
  BY <1>1, <1>2, EvalAssumption DEF EvalInit, EvalTypes
<1>4. \A e \in Eval : Stage(e)
  BY <1>1, EvalAssumption DEF EvalInit, Stage, Unasked
<1>5. \A e \in Eval : Places(e) = {}
  BY <1>1 DEF Places, EvalInit
<1>6. \A e \in Eval : Shelves(e)
  BY <1>5 DEF EvalInit, Unasked, Shelves
<1>7. ShelfIsTimed
  BY <1>1 DEF EvalInit, ShelfIsTimed
<1> QED
  BY <1>3, <1>4, <1>6, <1>7 DEF EvalInv

\* A step that leaves the shelf, the clock and the others alone, and the marks of e.
LEMMA OneMoves ==
  ASSUME EvalInv, NEW e \in Eval, EvalTypes', Stage(e)', UNCHANGED <<shelf, clock>>,
         \A f \in Eval : f # e => evals'[f] = evals[f] /\ evalServer'[f] = evalServer[f] /\ evalRow'[f] = evalRow[f],
         Shelves(e)'
  PROVE  EvalInv'
<1>1. ASSUME NEW f \in Eval, f # e PROVE Stage(f)' /\ Shelves(f)'
  BY <1>1 DEF EvalInv, Stage, Shelves, Places
<1>2. ShelfIsTimed'
  BY DEF EvalInv, ShelfIsTimed
<1> QED
  BY <1>1, <1>2 DEF EvalInv

\* An evaluation that is asked for is at its place.
LEMMA AskKeepsEval ==
  ASSUME EvalInv, NEW e \in Eval, NEW kind \in EvalKind, NEW c \in EvalContext, AsksEval(e, kind, c)
  PROVE  EvalInv'
<1>1. /\ evals[e] \in EvalState /\ evals[e].at = "rest" /\ evals[e].marks = <<>> /\ Shelves(e)
      /\ evals[e].kind = "quality" /\ Stage(e)
  BY DEF EvalInv, EvalTypes, Stage, AsksEval
<1>2. Places(e) = {} /\ Places(e)' = {}
  BY <1>1 DEF Shelves, Places, AsksEval
<1> DEFINE s == [evals[e] EXCEPT !.at = "load", !.kind = kind, !.context = IF kind = "template" THEN c ELSE @]
<1>3. /\ s \in EvalState /\ s.at = "load" /\ s.marks = evals[e].marks
      /\ s.kind = kind
  BY <1>1 DEF EvalState
<1>4. evals' = [evals EXCEPT ![e] = s]
  BY DEF AsksEval
<1> DEFINE line == [evalRow[e] EXCEPT !.status = "running"]
<1>9. /\ line \in [status : {"none", "running", "failed", "completed"}, score : Nat] /\ line.status = "running"
      /\ evalRow' = [evalRow EXCEPT ![e] = line]
  BY DEF EvalInv, EvalTypes, AsksEval, Says
<1> HIDE DEF s, line
<1>5. /\ evals'[e] = s /\ evalServer'[e] = "starting" /\ evalRow'[e].status = "running"
      /\ EvalTypes'
      /\ \A f \in Eval : f # e => evals'[f] = evals[f] /\ evalServer'[f] = evalServer[f] /\ evalRow'[f] = evalRow[f]
  <2>1. evalServer' = [evalServer EXCEPT ![e] = "starting"] /\ UNCHANGED <<shelf, clock>>
    BY DEF AsksEval
  <2>2. EvalTypes
    BY DEF EvalInv
  <2> QED
    BY <2>1, <2>2, <1>3, <1>4, <1>9 DEF EvalTypes
<1>6. Stage(e)'
  BY <1>1, <1>3, <1>5 DEF Stage
<1>7. Len(<<>>) = 0
  OBVIOUS
<1>8. Shelves(e)'
  BY <1>1, <1>2, <1>3, <1>5, <1>7 DEF Shelves
<1> QED
  BY <1>5, <1>6, <1>8, OneMoves DEF AsksEval

\* A place for e, with a server and a row that go together there.
Suits(e, at, server, line) ==
  LET marks == evals[e].marks
  IN  /\ at \in {"rest", "load", "items", "store"} \cup Over
      /\ server \in {"none", "starting", "ready", "dead", "idle"}
      /\ line \in [status : {"none", "running", "failed", "completed"}, score : Nat]
      /\ at \in {"rest", "refused"} <=> line.status = "none"
      /\ at = "failed" <=> line.status = "failed"
      /\ at = "completed" <=> line.status = "completed"
      /\ at \in {"store", "failed", "completed"} => server = "idle"
      /\ at \in {"rest", "load", "refused", "failed"} => marks = <<>>
      /\ at = "rest" => evals[e].kind = "quality"
      /\ at \in {"store", "completed"} => Len(marks) = Items
      /\ at = "completed" => line.score = Mean(marks)

\* A step that only moves e, its server and its row, not its marks.
LEMMA MoveKeepsEval ==
  ASSUME EvalInv, NEW e \in Eval, NEW at, NEW server, NEW line, Suits(e, at, server, line),
         evals' = [evals EXCEPT ![e].at = at], evalServer' = [evalServer EXCEPT ![e] = server],
         evalRow' = [evalRow EXCEPT ![e] = line], UNCHANGED <<shelf, clock>>
  PROVE  EvalInv'
<1> USE DEF Suits
<1>1. evals[e] \in EvalState /\ Shelves(e) /\ Stage(e)
  BY DEF EvalInv, EvalTypes
<1> DEFINE s == [evals[e] EXCEPT !.at = at]
<1>3. /\ s \in EvalState /\ s.at = at /\ s.marks = evals[e].marks
      /\ s.kind = evals[e].kind /\ s.context = evals[e].context
  BY <1>1 DEF EvalState
<1>4. evals' = [evals EXCEPT ![e] = s]
  OBVIOUS
<1> HIDE DEF s
<1>5. /\ evals'[e] = s /\ evalServer'[e] = server /\ evalRow'[e] = line
      /\ EvalTypes'
      /\ \A f \in Eval : f # e => evals'[f] = evals[f] /\ evalServer'[f] = evalServer[f] /\ evalRow'[f] = evalRow[f]
  BY <1>3, <1>4 DEF EvalInv, EvalTypes
<1>6. Stage(e)'
  BY <1>1, <1>3, <1>5 DEF Stage
<1>8. Shelves(e)'
  BY <1>1, <1>3, <1>5 DEF Shelves, Places
<1> QED
  BY <1>5, <1>6, <1>8, OneMoves

\* What an evaluation is when it moves.
LEMMA StageOf ==
  ASSUME EvalInv, NEW e \in Eval
  PROVE  /\ Stage(e) /\ Shelves(e) /\ evals[e] \in EvalState /\ Len(evals[e].marks) \in Nat
         /\ evalRow[e] \in [status : {"none", "running", "failed", "completed"}, score : Nat]
         /\ evalServer[e] \in {"none", "starting", "ready", "dead", "idle"}
         /\ evals[e].marks \in Seq({0, FullMark})
         /\ evals = [evals EXCEPT ![e].at = evals[e].at] /\ evalRow = [evalRow EXCEPT ![e] = evalRow[e]]
         /\ evalServer = [evalServer EXCEPT ![e] = evalServer[e]]
<1>1. /\ Stage(e) /\ Shelves(e) /\ evals \in [Eval -> EvalState]
      /\ evalRow \in [Eval -> [status : {"none", "running", "failed", "completed"}, score : Nat]]
      /\ evalServer \in [Eval -> {"none", "starting", "ready", "dead", "idle"}]
  BY DEF EvalInv, EvalTypes
<1>2. evals[e] \in EvalState
  BY <1>1
<1>3. evals[e].marks \in Seq({0, FullMark})
  BY <1>2 DEF EvalState
<1>4. Len(evals[e].marks) \in Nat
  BY <1>3
<1>5. evals[e] = [evals[e] EXCEPT !.at = evals[e].at]
  BY <1>2 DEF EvalState
<1>6. evals = [evals EXCEPT ![e] = [evals[e] EXCEPT !.at = evals[e].at]]
  BY <1>1, <1>5
<1> QED
  BY <1>1, <1>2, <1>3, <1>4, <1>6

\* A step that sets the status of an evaluation leaves a row of that status.
LEMMA RowSays ==
  ASSUME EvalInv, NEW e \in Eval, NEW status \in {"none", "running", "failed", "completed"}, Says(e, status)
  PROVE  \E line \in [status : {"none", "running", "failed", "completed"}, score : Nat] :
            line.status = status /\ evalRow' = [evalRow EXCEPT ![e] = line]
<1> DEFINE line == [evalRow[e] EXCEPT !.status = status]
<1>1. line \in [status : {"none", "running", "failed", "completed"}, score : Nat] /\ line.status = status
  BY DEF EvalInv, EvalTypes
<1>2. evalRow' = [evalRow EXCEPT ![e] = line]
  BY DEF Says
<1> HIDE DEF line
<1> QED
  BY <1>1, <1>2

\* What happens until the server is ready keeps the evaluation whole.
LEMMA LoadKeepsEval ==
  ASSUME EvalInv, NEW e \in Eval, BeginsWork(e) \/ LoadFails(e) \/ RefusesEval(e) \/ ServerLoads(e) \/ ServerDies(e)
  PROVE  EvalInv'
<1> USE StageOf
<1> DEFINE at == evals[e].at
           line == evalRow[e]
           server == evalServer[e]
<1>0. evals = [evals EXCEPT ![e].at = at] /\ evalRow = [evalRow EXCEPT ![e] = line]
      /\ evalServer = [evalServer EXCEPT ![e] = server]
      /\ line \in [status : {"none", "running", "failed", "completed"}, score : Nat]
      /\ server \in {"none", "starting", "ready", "dead", "idle"}
      /\ at \in {"rest", "load", "items", "store"} \cup Over /\ Stage(e)
  BY DEF EvalState
<1> HIDE DEF at, line, server
<1>1. CASE BeginsWork(e)
  <2>1. at = "load" /\ evals' = [evals EXCEPT ![e].at = "items"] /\ UNCHANGED <<evalServer, evalRow, shelf, clock>>
    BY <1>1 DEF BeginsWork, Goes, at
  <2>2. line.status = "running"
    BY <1>0, <2>1 DEF Stage, at, line
  <2>8. Suits(e, "items", server, line)
    BY <1>0, <2>1, <2>2 DEF Suits, Over
  <2> QED
    BY <1>0, <2>1, <2>8, MoveKeepsEval
<1>2. CASE LoadFails(e)
  <2>1. /\ at = "load" /\ UNCHANGED <<shelf, clock>> /\ evalServer' = [evalServer EXCEPT ![e] = "idle"]
        /\ \/ evals' = [evals EXCEPT ![e].at = "failed"] /\ Says(e, "failed")
           \/ evals' = [evals EXCEPT ![e].at = "unstored"] /\ UNCHANGED evalRow
    BY <1>2 DEF LoadFails, Goes, at
  <2>2. evals[e].marks = <<>> /\ line.status = "running"
    BY <1>0, <2>1 DEF Stage, at, line
  <2>3. CASE evals' = [evals EXCEPT ![e].at = "failed"] /\ Says(e, "failed")
    <3>1. PICK failed \in [status : {"none", "running", "failed", "completed"}, score : Nat] :
             failed.status = "failed" /\ evalRow' = [evalRow EXCEPT ![e] = failed]
      BY <2>3, RowSays
    <3>2. Suits(e, "failed", "idle", failed)
      BY <1>0, <2>1, <2>2, <3>1 DEF Suits, Over
    <3> QED
      BY <2>1, <2>3, <3>1, <3>2, MoveKeepsEval
  <2>4. CASE evals' = [evals EXCEPT ![e].at = "unstored"] /\ UNCHANGED evalRow
    <3>1. Suits(e, "unstored", "idle", line)
      BY <1>0, <2>1, <2>2 DEF Suits, Over
    <3> QED
      BY <1>0, <2>1, <2>4, <3>1, MoveKeepsEval
  <2> QED
    BY <2>1, <2>3, <2>4
<1>3. CASE RefusesEval(e)
  <2>1. /\ at = "rest" /\ evals' = [evals EXCEPT ![e].at = "refused"] /\ UNCHANGED <<evalServer, evalRow, shelf, clock>>
    BY <1>3 DEF RefusesEval, Goes, at
  <2>2. evals[e].marks = <<>> /\ line.status = "none"
    BY <1>0, <2>1 DEF Stage, at, line
  <2>8. Suits(e, "refused", server, line)
    BY <1>0, <2>1, <2>2 DEF Suits, Over
  <2> QED
    BY <1>0, <2>1, <2>8, MoveKeepsEval
<1>4. CASE ServerLoads(e)
  <2>1. /\ at = "load" /\ evalServer' = [evalServer EXCEPT ![e] = "ready"] /\ UNCHANGED <<evals, evalRow, shelf, clock>>
    BY <1>4 DEF ServerLoads, at
  <2>2. evals[e].marks = <<>> /\ line.status = "running"
    BY <1>0, <2>1 DEF Stage, at, line
  <2>8. Suits(e, at, "ready", line)
    BY <1>0, <2>1, <2>2 DEF Suits, Over
  <2> QED
    BY <1>0, <2>1, <2>8, MoveKeepsEval
<1>5. CASE ServerDies(e)
  <2>1. /\ at \in {"load", "items"} /\ evalServer' = [evalServer EXCEPT ![e] = "dead"]
        /\ UNCHANGED <<evals, evalRow, shelf, clock>>
    BY <1>5 DEF ServerDies, at
  <2>2. (at = "load" => evals[e].marks = <<>>) /\ line.status = "running"
    BY <1>0, <2>1 DEF Stage, at, line
  <2>8. Suits(e, at, "dead", line)
    BY <1>0, <2>1, <2>2 DEF Suits, Over
  <2> QED
    BY <1>0, <2>1, <2>8, MoveKeepsEval
<1> QED
  BY <1>1, <1>2, <1>3, <1>4, <1>5

\* A mean of marks is a natural number.
LEMMA EndKeepsEval ==
  ASSUME EvalInv, NEW e \in Eval, EndsWork(e) \/ StoreEvalFails(e) \/ BreaksOff(e)
  PROVE  EvalInv'
<1> DEFINE at == evals[e].at
           line == evalRow[e]
           server == evalServer[e]
           n == Len(evals[e].marks)
<1>0. /\ evals = [evals EXCEPT ![e].at = at] /\ evalRow = [evalRow EXCEPT ![e] = line]
      /\ evalServer = [evalServer EXCEPT ![e] = server]
      /\ line \in [status : {"none", "running", "failed", "completed"}, score : Nat]
      /\ server \in {"none", "starting", "ready", "dead", "idle"}
      /\ at \in {"rest", "load", "items", "store"} \cup Over /\ Stage(e)
      /\ n \in Nat /\ n <= Items /\ Items \in Nat
  BY StageOf, EvalAssumption DEF EvalState, Stage
<1> HIDE DEF at, line, server, n
<1>1. CASE EndsWork(e)
  <2>1. /\ at = "items" /\ n + 1 > Items /\ evals' = [evals EXCEPT ![e].at = "store"]
        /\ evalServer' = [evalServer EXCEPT ![e] = "idle"] /\ UNCHANGED <<evalRow, shelf, clock>>
    BY <1>1 DEF EndsWork, Goes, at, Item, n
  <2>2. line.status = "running"
    BY <1>0, <2>1 DEF Stage, at, line
  <2>3. Len(evals[e].marks) = Items
    BY <1>0, <2>1 DEF n
  <2>8. Suits(e, "store", "idle", line)
    BY <1>0, <2>1, <2>2, <2>3 DEF Suits, Over
  <2> QED
    BY <1>0, <2>1, <2>8, MoveKeepsEval
<1>2. CASE StoreEvalFails(e)
  <2>1. /\ at = "store" /\ evals' = [evals EXCEPT ![e].at = "unstored"]
        /\ UNCHANGED <<evalServer, evalRow, shelf, clock>>
    BY <1>2 DEF StoreEvalFails, Goes, at
  <2>2. line.status = "running"
    BY <1>0, <2>1 DEF Stage, at, line
  <2>8. Suits(e, "unstored", server, line)
    BY <1>0, <2>1, <2>2 DEF Suits, Over
  <2> QED
    BY <1>0, <2>1, <2>8, MoveKeepsEval
<1>3. CASE BreaksOff(e)
  <2>1. /\ at \in {"load", "items"} /\ evals' = [evals EXCEPT ![e].at = "broken"]
        /\ UNCHANGED <<evalServer, evalRow, shelf, clock>>
    BY <1>3 DEF BreaksOff, Goes, at
  <2>2. line.status = "running"
    BY <1>0, <2>1 DEF Stage, at, line
  <2>8. Suits(e, "broken", server, line)
    BY <1>0, <2>1, <2>2 DEF Suits, Over
  <2> QED
    BY <1>0, <2>1, <2>8, MoveKeepsEval
<1> QED
  BY <1>1, <1>2, <1>3

-----------------------------------------------------------------------------
(* Folds of sequences. *)

\* The last of the first k numbers.
LEMMA LastOfFirst ==
  ASSUME NEW k \in Nat, k # 0
  PROVE  Max(1..k) = k /\ (1..k) \ {k} = 1..(k - 1) /\ 1..k # {}
<1> DEFINE S == 1..k
<1>1. S \in SUBSET Int /\ k \in S /\ k \in Int /\ \A x \in S : x <= k /\ x \in Int
  OBVIOUS
<1>2. IsFiniteSet(S)
  <2>1. 1 \in Int /\ k \in Int
    OBVIOUS
  <2> QED
    BY <2>1, FS_Interval
<1>3. (1..k) \ {k} = 1..(k - 1)
  OBVIOUS
<1> HIDE DEF S
<1>4. Max(S) \in S /\ \A y \in S : Max(S) >= y
  BY <1>1, <1>2, GreatestExists
<1>5. Max(S) = k
  <2> DEFINE m == Max(S)
  <2>1. m \in S /\ \A y \in S : m >= y
    BY <1>4
  <2> HIDE DEF m
  <2>2. m = k
    BY <2>1, <1>1
  <2> QED
    BY <2>2 DEF m
<1> QED
  BY <1>1, <1>3, <1>5 DEF S

\* iter folds sets of places by st, the last place of each at last.
FoldsUp(iter, n, V, st) ==
  /\ st \in [(1..n) \X V -> V]
  /\ \A S \in SUBSET (1..n) : (S # {} /\ iter[S \ {Max(S)}] \in V)
        => iter[S] = st[<<Max(S), iter[S \ {Max(S)}]>>]
\* T has the values that the fold goes through.
GoesThrough(T, n, base, st) == T[0] = base /\ \A k \in 1..n : T[k] = st[<<k, T[k - 1]>>]

\* It goes through values of V, from the base to what is made of all.
GoesTo(iter, n, V, base, st) == \E T \in [0..n -> V] : GoesThrough(T, n, base, st) /\ T[n] = iter[1..n]

\* A fold from the left goes through the values it has for the first elements.
LEMMA FoldGoesOn ==
  ASSUME NEW n \in Nat, NEW V, NEW base \in V, NEW st, NEW iter, iter[{}] = base,
         FoldsUp(iter, n, V, st)
  PROVE  GoesTo(iter, n, V, base, st)
<1> USE DEF FoldsUp, GoesThrough
<1> DEFINE T == [k \in 0..n |-> iter[1..k]]
           Bad == {k \in 0..n : T[k] \notin V}
<1>1. 1..0 = {} /\ T[0] = base
  OBVIOUS
<1>2. ASSUME NEW k \in 1..n, T[k - 1] \in V PROVE T[k] = st[<<k, T[k - 1]>>] /\ T[k] \in V
  <2>1. k \in Nat /\ k # 0 /\ k - 1 \in 0..n /\ k \in 0..n /\ 1..k \in SUBSET (1..n)
    OBVIOUS
  <2>2. Max(1..k) = k /\ (1..k) \ {k} = 1..(k - 1) /\ 1..k # {}
    BY <2>1, LastOfFirst
  <2>3. iter[1..(k - 1)] = T[k - 1] /\ T[k] = iter[1..k]
    BY <2>1
  <2> HIDE DEF T
  <2>4. iter[1..k] = st[<<k, T[k - 1]>>]
    BY <2>1, <2>2, <2>3, <1>2
  <2>5. st[<<k, T[k - 1]>>] \in V
    BY <1>2
  <2> QED
    BY <2>3, <2>4, <2>5
<1> HIDE DEF T
<1>3. Bad = {}
  <2> SUFFICES ASSUME Bad # {} PROVE FALSE
    OBVIOUS
  <2>1. PICK k \in Bad : \A j \in Bad : k <= j
    <3>1. Bad \in SUBSET Nat
      OBVIOUS
    <3> HIDE DEF Bad
    <3> QED
      BY <3>1, LeastExists
  <2>2. k # 0
    BY <1>1
  <2>3. k \in 1..n /\ k - 1 \in 0..n /\ k - 1 < k
    BY <2>2
  <2>4. k - 1 \notin Bad
    BY <2>1, <2>3
  <2> QED
    BY <1>2, <2>3, <2>4
<1>4. T \in [0..n -> V]
  BY <1>3 DEF T
<1>5. \A k \in 1..n : T[k] = st[<<k, T[k - 1]>>]
  <2> SUFFICES ASSUME NEW k \in 1..n PROVE T[k] = st[<<k, T[k - 1]>>]
    OBVIOUS
  <2>1. k - 1 \in 0..n
    OBVIOUS
  <2> QED
    BY <1>2, <1>4, <2>1
<1>6. T[n] = iter[1..n]
  BY DEF T
<1> QED
  BY <1>1, <1>4, <1>5, <1>6 DEF GoesTo

\* Sums: T[k] is the sum of the first k numbers of s.
Sums(T, s, n) == T \in [0..n -> Int] /\ T[0] = 0 /\ \A k \in 1..n : T[k] = T[k - 1] + s[k]

\* A total is the last of its partial sums.
LEMMA TotalSums ==
  ASSUME NEW n \in Nat, NEW s \in [1..n -> Int]
  PROVE  \E T : Sums(T, s, n) /\ T[n] = Total(s)
<1> DEFINE D == 1..n
           ch == [u \in SUBSET D |-> Max(u)]
           st == [p \in D \X Int |-> p[2] + s[p[1]]]
           iter == CHOOSE g : g = [u \in SUBSET D |-> IF u = {} THEN 0
                                    ELSE LET x == Max(u) IN g[u \ {x}] + s[x]]
<1>1. Total(s) = iter[D]
  BY DEF Total, FoldLeft, MapThenFoldSet
<1>2. IsFiniteSet(D) /\ D \in SUBSET Int
  <2>1. 1 \in Int /\ n \in Int
    OBVIOUS
  <2> QED
    BY <2>1, FS_Interval
<1>3. \A x \in D, v \in Int : st[<<x, v>>] = v + s[x] /\ v + s[x] \in Int
  OBVIOUS
<1>4. st \in [D \X Int -> Int]
  OBVIOUS
<1> HIDE DEF D, st
<1>5. \A u \in SUBSET D : u # {} => Max(u) \in u /\ Max(u) \in D
  <2> SUFFICES ASSUME NEW u \in SUBSET D, u # {} PROVE Max(u) \in u /\ Max(u) \in D
    OBVIOUS
  <2>1. IsFiniteSet(u) /\ u \in SUBSET Int
    BY <1>2, FS_Subset
  <2> QED
    BY <2>1, GreatestExists
<1>6. Chooses(ch, D) /\ \A u \in SUBSET D : ch[u] = Max(u)
  BY <1>5 DEF Chooses
<1> HIDE DEF ch
<1>7. PICK h \in [SUBSET D -> Int] : FoldsTo(h, D, ch, st, 0)
  <2>1. 0 \in Int
    OBVIOUS
  <2> QED
    BY <2>1, <1>2, <1>4, <1>6, FoldExists
<1>8. h = [u \in SUBSET D |-> IF u = {} THEN 0 ELSE LET x == Max(u) IN h[u \ {x}] + s[x]]
  <2>1. ASSUME NEW u \in SUBSET D, u # {} PROVE h[u] = h[u \ {Max(u)}] + s[Max(u)]
    <3>1. ch[u] = Max(u) /\ Max(u) \in D /\ h[u \ {Max(u)}] \in Int
      BY <1>5, <1>6, <2>1
    <3>2. h[u] = st[<<ch[u], h[u \ {ch[u]}]>>]
      BY <1>7, <2>1 DEF FoldsTo
    <3> QED
      BY <3>1, <3>2, <1>3
  <2>2. h[{}] = 0
    BY <1>7 DEF FoldsTo
  <2> QED
    BY <2>1, <2>2
<1>9. iter = [u \in SUBSET D |-> IF u = {} THEN 0 ELSE LET x == Max(u) IN iter[u \ {x}] + s[x]]
  BY <1>8
<1> HIDE DEF iter
<1>10. iter[{}] = 0
  BY <1>9
<1>11. \A u \in SUBSET D : (u # {} /\ iter[u \ {Max(u)}] \in Int)
            => iter[u] = st[<<Max(u), iter[u \ {Max(u)}]>>]
  <2> SUFFICES ASSUME NEW u \in SUBSET D, u # {}, iter[u \ {Max(u)}] \in Int
               PROVE  iter[u] = st[<<Max(u), iter[u \ {Max(u)}]>>]
    OBVIOUS
  <2>1. iter[u] = iter[u \ {Max(u)}] + s[Max(u)]
    BY <1>9
  <2>2. Max(u) \in D
    BY <1>5
  <2> QED
    BY <2>1, <2>2, <1>3
<1>12. PICK T \in [0..n -> Int] : GoesThrough(T, n, 0, st) /\ T[n] = iter[1..n]
  <2>1. st \in [(1..n) \X Int -> Int]
    BY <1>4 DEF D
  <2>2. 0 \in Int
    OBVIOUS
  <2>3. FoldsUp(iter, n, Int, st)
    BY <2>1, <1>11 DEF D, FoldsUp
  <2>4. GoesTo(iter, n, Int, 0, st)
    BY <2>2, <2>3, <1>10, FoldGoesOn
  <2> QED
    BY <2>4 DEF GoesTo
<1>13. \A k \in 1..n : T[k] = T[k - 1] + s[k]
  <2> SUFFICES ASSUME NEW k \in 1..n PROVE T[k] = T[k - 1] + s[k]
    OBVIOUS
  <2>1. k - 1 \in 0..n
    OBVIOUS
  <2>2. T[k - 1] \in Int /\ k \in D
    BY <2>1 DEF D
  <2> QED
    BY <2>2, <1>3, <1>12 DEF GoesThrough
<1>14. Sums(T, s, n) /\ T[n] = Total(s)
  BY <1>1, <1>12, <1>13 DEF Sums, D, GoesThrough
<1> QED
  BY <1>14

\* What holds for nothing, and for one more whenever it holds, holds for all the first n.
\* The sums are determined by the numbers.
LEMMA TotalIsSum ==
  ASSUME NEW n \in Nat, NEW s \in [1..n -> Int], NEW U, Sums(U, s, n)
  PROVE  Total(s) = U[n] /\ Total(s) \in Int
<1>1. PICK T : Sums(T, s, n) /\ T[n] = Total(s)
  BY TotalSums
<1> DEFINE Bad == {k \in 0..n : T[k] # U[k]}
<1>2. Bad = {}
  <2> SUFFICES ASSUME Bad # {} PROVE FALSE
    OBVIOUS
  <2>1. PICK k \in Bad : \A j \in Bad : k <= j
    <3>1. Bad \in SUBSET Nat
      OBVIOUS
    <3> HIDE DEF Bad
    <3> QED
      BY <3>1, LeastExists
  <2>2. k # 0
    BY <1>1 DEF Sums
  <2>3. k \in 1..n /\ k - 1 \in 0..n /\ k - 1 < k
    BY <2>2
  <2>4. k - 1 \notin Bad
    BY <2>1, <2>3
  <2>5. T[k - 1] = U[k - 1]
    BY <2>3, <2>4
  <2>6. T[k] = T[k - 1] + s[k] /\ U[k] = U[k - 1] + s[k]
    BY <2>3, <1>1 DEF Sums
  <2>7. T[k] = U[k]
    BY <2>5, <2>6
  <2> QED
    BY <2>7
<1>3. n \in 0..n
  OBVIOUS
<1>4. T[n] = U[n]
  BY <1>2, <1>3
<1>5. T[n] \in Int
  BY <1>1, <1>3 DEF Sums
<1> QED
  BY <1>1, <1>4, <1>5

\* Sums of natural numbers are natural numbers.
LEMMA TotalIsNat ==
  ASSUME NEW n \in Nat, NEW s \in [1..n -> Nat]
  PROVE  Total(s) \in Nat
<1>1. s \in [1..n -> Int] /\ \A k \in 1..n : s[k] \in Nat
  OBVIOUS
<1>2. PICK T : Sums(T, s, n) /\ T[n] = Total(s)
  BY <1>1, TotalSums
<1> DEFINE Bad == {k \in 0..n : T[k] \notin Nat}
<1>3. Bad = {}
  <2> SUFFICES ASSUME Bad # {} PROVE FALSE
    OBVIOUS
  <2>1. PICK k \in Bad : \A j \in Bad : k <= j
    <3>1. Bad \in SUBSET Nat
      OBVIOUS
    <3> HIDE DEF Bad
    <3> QED
      BY <3>1, LeastExists
  <2>2. k # 0
    BY <1>2 DEF Sums
  <2>3. k \in 1..n /\ k - 1 \in 0..n /\ k - 1 < k
    BY <2>2
  <2>4. k - 1 \notin Bad
    BY <2>1, <2>3
  <2>5. T[k] = T[k - 1] + s[k] /\ s[k] \in Nat /\ T[k - 1] \in Nat
    BY <2>3, <2>4, <1>1, <1>2 DEF Sums
  <2> QED
    BY <2>5
<1>4. n \in 0..n
  OBVIOUS
<1> QED
  BY <1>2, <1>3, <1>4

\* The mean of marks is a number.
LEMMA MeanIsNat ==
  ASSUME NEW marks \in Seq({0, FullMark})
  PROVE  Mean(marks) \in Nat
<1>1. CASE marks = <<>>
  BY <1>1 DEF Mean
<1>2. CASE marks # <<>>
  <2> DEFINE n == Len(marks)
  <2>1. n \in Nat /\ n # 0 /\ marks \in [1..n -> {0, FullMark}]
    BY <1>2
  <2> HIDE DEF n
  <2>2. marks \in [1..n -> Nat]
    BY <2>1, EvalAssumption
  <2>3. Total(marks) \in Nat
    BY <2>1, <2>2, TotalIsNat
  <2>4. Mean(marks) = Total(marks) \div n
    BY <1>2 DEF Mean, Total, n
  <2>5. Total(marks) \div n \in Nat
    BY <2>1, <2>3
  <2> QED
    BY <2>4, <2>5
<1> QED
  BY <1>1, <1>2

\* A score that is stored is the mean of the marks.
LEMMA StoreKeepsEval ==
  ASSUME EvalInv, NEW e \in Eval, StoresEval(e)
  PROVE  EvalInv'
<1> DEFINE line == [status |-> "completed", score |-> Mean(evals[e].marks)]
           server == evalServer[e]
<1>1. /\ evals[e].at = "store" /\ evals' = [evals EXCEPT ![e].at = "completed"]
      /\ evalRow' = [evalRow EXCEPT ![e] = line] /\ UNCHANGED <<evalServer, shelf, clock>>
  BY DEF StoresEval, Goes
<1>2. Mean(evals[e].marks) \in Nat
  BY StageOf, MeanIsNat
<1>3. line \in [status : {"none", "running", "failed", "completed"}, score : Nat]
      /\ line.status = "completed" /\ line.score = Mean(evals[e].marks)
  BY <1>2
<1> HIDE DEF line, server
<1>4. server = "idle" /\ Len(evals[e].marks) = Items /\ evalServer = [evalServer EXCEPT ![e] = server]
  BY <1>1, StageOf DEF Stage, server
<1>5. Suits(e, "completed", server, line)
  BY <1>3, <1>4 DEF Suits, Over
<1> QED
  BY <1>1, <1>4, <1>5, MoveKeepsEval

\* A row that is put upon the shelf.
LEMMA ShelfGrows ==
  ASSUME shelf \in Seq(ShelfRow), NEW line \in ShelfRow, shelf' = <<line>> \o shelf
  PROVE  /\ shelf' \in Seq(ShelfRow) /\ shelf'[1] = line /\ 1 \in DOMAIN shelf'
         /\ \A i \in DOMAIN shelf : i \in Nat /\ i >= 1 /\ i + 1 \in DOMAIN shelf' /\ shelf'[i + 1] = shelf[i]
         /\ \A j \in DOMAIN shelf' : j \in Nat /\ j >= 1
                                     /\ (j = 1 \/ (j - 1 \in DOMAIN shelf /\ shelf'[j] = shelf[j - 1]))
<1> DEFINE n == Len(shelf)
<1>1. n \in Nat /\ DOMAIN shelf = 1..n /\ \A i \in 1..n : shelf[i] \in ShelfRow
  OBVIOUS
<1>2. <<line>> \in Seq(ShelfRow) /\ Len(<<line>>) = 1 /\ <<line>>[1] = line
  OBVIOUS
<1>3. shelf' \in Seq(ShelfRow) /\ Len(shelf') = n + 1 /\ DOMAIN shelf' = 1..(n + 1)
  BY <1>1, <1>2
<1>4. shelf'[1] = line
  BY <1>1, <1>2
<1>5. \A i \in 1..n : shelf'[i + 1] = shelf[i]
  BY <1>1, <1>2
<1> HIDE DEF n
<1>6. \A j \in 1..(n + 1) : j = 1 \/ (j - 1 \in 1..n /\ (j - 1) + 1 = j)
  BY <1>1
<1> QED
  BY <1>1, <1>3, <1>4, <1>5, <1>6

\* A mark that is put upon the shelf is the next one of its run.
LEMMA MarkKeepsEval ==
  ASSUME EvalInv, NEW e \in Eval, NEW mark \in {0, FullMark},
         NEW took \in Nat, evals[e].at = "items", Item(e) <= Items, clock + took <= MaxTime,
         Marks(e, mark, took), UNCHANGED <<evalServer, evalRow>>
  PROVE  EvalInv'
<1> DEFINE n == Len(evals[e].marks)
           line == [who |-> e, item |-> n + 1, context |-> evals[e].context, score |-> mark, at |-> clock + took]
           s == [evals[e] EXCEPT !.marks = Append(@, mark)]
           m == Append(evals[e].marks, mark)
<1>1. /\ Stage(e) /\ Shelves(e) /\ evals[e] \in EvalState /\ n \in Nat
      /\ evals[e].marks \in Seq({0, FullMark})
  BY StageOf
<1>2. n + 1 <= Items /\ clock \in 0..MaxTime /\ clock + took \in 0..MaxTime /\ clock + took >= clock
      /\ Items \in Nat /\ MaxTime \in Nat
  BY EvalAssumption DEF Item, EvalInv, EvalTypes
<1>3. line \in ShelfRow
  BY <1>1, <1>2 DEF ShelfRow, EvalState
<1>4. /\ s \in EvalState /\ s.at = "items" /\ s.marks = m
      /\ s.kind = evals[e].kind /\ s.context = evals[e].context
  <2>1. m \in Seq({0, FullMark})
    BY <1>1
  <2>2. s = [evals[e] EXCEPT !.marks = m]
    BY <1>1 DEF EvalState
  <2> HIDE DEF m, s
  <2> QED
    BY <1>1, <2>1, <2>2 DEF EvalState
<1>5. /\ evals' = [evals EXCEPT ![e] = s] /\ clock' = clock + took
      /\ shelf' = IF evals[e].kind = "quality" THEN shelf ELSE <<line>> \o shelf
  BY <1>1 DEF Marks, Shelved, Item, EvalState
<1>6. /\ Len(m) = n + 1 /\ m \in Seq({0, FullMark}) /\ DOMAIN m = 1..(n + 1)
      /\ m[n + 1] = mark /\ \A i \in 1..n : m[i] = evals[e].marks[i]
  BY <1>1
<1>9. line.who = e /\ line.item = n + 1 /\ line.context = evals[e].context /\ line.score = mark /\ line.at = clock + took
  OBVIOUS
<1> HIDE DEF m, s, line, n
<1>11. evals'[e] = s /\ \A f \in Eval : f # e => evals'[f] = evals[f]
  BY <1>5 DEF EvalInv, EvalTypes
<1>12. Stage(e)'
  <2>1. evalRow[e].status = "running"
    BY <1>1, StageOf DEF Stage
  <2> QED
    BY <2>1, <1>1, <1>2, <1>4, <1>6, <1>11 DEF Stage
<1>13. shelf \in Seq(ShelfRow) /\ ShelfIsTimed
  BY DEF EvalInv, EvalTypes
<1>14. CASE evals[e].kind = "quality"
  <2>1. shelf' = shelf
    BY <1>5, <1>14
  <2>2. EvalTypes'
    BY <2>1, <1>2, <1>4, <1>5 DEF EvalInv, EvalTypes
  <2>3. ASSUME NEW f \in Eval PROVE Stage(f)' /\ Shelves(f)'
    <3>1. CASE f = e
      <4>1. Places(e)' = {}
        BY <2>1, <1>1, <1>14 DEF Shelves, Places
      <4> QED
        BY <3>1, <4>1, <1>12, <1>4, <1>11, <1>14 DEF Shelves
    <3>2. CASE f # e
      BY <3>2, <2>1, <1>11 DEF EvalInv, Stage, Shelves, Places
    <3> QED
      BY <3>1, <3>2
  <2>4. ShelfIsTimed'
    <3>1. \A i \in DOMAIN shelf : shelf[i].at \in Nat
      <4>1. \A i \in DOMAIN shelf : shelf[i] \in ShelfRow
        BY <1>13
      <4> QED
        BY <4>1 DEF ShelfRow
    <3>2. \A i \in DOMAIN shelf : shelf[i].at <= clock /\ clock <= clock' /\ clock \in Nat /\ clock' \in Nat
      BY <1>2, <1>5, <1>13 DEF ShelfIsTimed
    <3>3. \A i \in DOMAIN shelf : shelf[i].at <= clock'
      BY <3>1, <3>2
    <3> QED
      BY <3>3, <2>1, <1>13 DEF ShelfIsTimed
  <2> QED
    BY <2>2, <2>3, <2>4 DEF EvalInv
<1>15. CASE evals[e].kind # "quality"
  <2>0. evals[e].kind = "template"
    BY <1>1, <1>15 DEF EvalState, EvalKind
  <2>1. /\ shelf' \in Seq(ShelfRow) /\ shelf'[1] = line /\ 1 \in DOMAIN shelf'
        /\ \A i \in DOMAIN shelf : i \in Nat /\ i >= 1 /\ i + 1 \in DOMAIN shelf' /\ shelf'[i + 1] = shelf[i]
        /\ \A j \in DOMAIN shelf' : j \in Nat /\ j >= 1
                                    /\ (j = 1 \/ (j - 1 \in DOMAIN shelf /\ shelf'[j] = shelf[j - 1]))
    BY <1>3, <1>5, <1>13, <1>15, ShelfGrows
  <2>2. EvalTypes'
    BY <2>1, <1>2, <1>4, <1>5 DEF EvalInv, EvalTypes
  <2>3. \A f \in Eval : \A i \in Places(f) : i + 1 \in Places(f)' /\ i \in DOMAIN shelf /\ i \in Nat
    BY <2>1 DEF Places
  <2>4. \A f \in Eval : \A j \in Places(f)' : j \in Nat /\ j \in DOMAIN shelf' /\
           ((f = e /\ j = 1) \/ (j # 1 /\ j - 1 \in Places(f) /\ shelf'[j] = shelf[j - 1]))
    BY <2>1, <1>9 DEF Places
  <2>5. ASSUME NEW f \in Eval, f # e PROVE Stage(f)' /\ Shelves(f)'
    <3>1. Stage(f) /\ Shelves(f)
      BY DEF EvalInv
    <3>2. Stage(f)'
      BY <3>1, <2>5, <1>11 DEF Stage
    <3>3. CASE evals[f].kind = "quality"
      <4>1. Places(f)' = {}
        BY <3>1, <3>3, <2>4, <2>5 DEF Shelves
      <4> QED
        BY <3>2, <3>3, <4>1, <2>5, <1>11 DEF Shelves
    <3>4. CASE evals[f].kind # "quality"
      <4>0. evals[f].kind = "template"
        BY <3>4, StageOf DEF EvalState, EvalKind
      <4>1. /\ \A k \in 1..Len(evals[f].marks) : \E i \in Places(f) :
                  shelf[i].item = k /\ shelf[i].score = evals[f].marks[k]
            /\ \A i \in Places(f) : shelf[i].item \in 1..Len(evals[f].marks) /\ shelf[i].context = evals[f].context
            /\ \A i, j \in Places(f) : i < j => shelf[i].item > shelf[j].item
        BY <3>1, <4>0 DEF Shelves
      <4>2. \A k \in 1..Len(evals[f].marks) : \E i \in Places(f)' :
               shelf'[i].item = k /\ shelf'[i].score = evals[f].marks[k]
        <5> SUFFICES ASSUME NEW k \in 1..Len(evals[f].marks)
                     PROVE  \E i \in Places(f)' : shelf'[i].item = k /\ shelf'[i].score = evals[f].marks[k]
          OBVIOUS
        <5>1. PICK i \in Places(f) : shelf[i].item = k /\ shelf[i].score = evals[f].marks[k]
          BY <4>1
        <5>2. i + 1 \in Places(f)' /\ shelf'[i + 1] = shelf[i]
          BY <2>1, <2>3
        <5> QED
          BY <5>1, <5>2
      <4>3. \A i \in Places(f)' : shelf'[i].item \in 1..Len(evals[f].marks) /\ shelf'[i].context = evals[f].context
        BY <4>1, <2>4, <2>5
      <4>4. \A i, j \in Places(f)' : i < j => shelf'[i].item > shelf'[j].item
        <5> SUFFICES ASSUME NEW i \in Places(f)', NEW j \in Places(f)', i < j
                     PROVE  shelf'[i].item > shelf'[j].item
          OBVIOUS
        <5>1. i \in Nat /\ j \in Nat /\ i - 1 \in Places(f) /\ j - 1 \in Places(f)
              /\ shelf'[i] = shelf[i - 1] /\ shelf'[j] = shelf[j - 1]
          BY <2>4, <2>5
        <5>2. i - 1 < j - 1
          BY <5>1
        <5> QED
          BY <5>1, <5>2, <4>1
      <4> QED
        BY <3>2, <4>0, <4>2, <4>3, <4>4, <2>5, <1>11 DEF Shelves
    <3> QED
      BY <3>3, <3>4
  <2>6. Shelves(e)'
    <3>1. /\ \A k \in 1..n : \E i \in Places(e) :
                shelf[i].item = k /\ shelf[i].score = evals[e].marks[k]
          /\ \A i \in Places(e) : shelf[i].item \in 1..n /\ shelf[i].context = evals[e].context
          /\ \A i, j \in Places(e) : i < j => shelf[i].item > shelf[j].item
      BY <1>1, <2>0 DEF Shelves, n
    <3>0. 1 \in Places(e)'
      BY <2>1, <1>9 DEF Places
    <3>2. \A k \in 1..(n + 1) : \E i \in Places(e)' : shelf'[i].item = k /\ shelf'[i].score = m[k]
      <4> SUFFICES ASSUME NEW k \in 1..(n + 1)
                   PROVE  \E i \in Places(e)' : shelf'[i].item = k /\ shelf'[i].score = m[k]
        OBVIOUS
      <4>1. CASE k \in 1..n
        <5>1. PICK i \in Places(e) : shelf[i].item = k /\ shelf[i].score = evals[e].marks[k]
          BY <3>1, <4>1
        <5>2. i + 1 \in Places(e)' /\ shelf'[i + 1] = shelf[i]
          BY <2>1, <2>3
        <5>3. m[k] = evals[e].marks[k]
          BY <1>6, <4>1
        <5> QED
          BY <5>1, <5>2, <5>3
      <4>2. CASE k \notin 1..n
        <5>1. k = n + 1
          BY <4>2, <1>1
        <5> QED
          BY <5>1, <3>0, <2>1, <1>6, <1>9
      <4> QED
        BY <4>1, <4>2
    <3>3. \A i \in Places(e)' : shelf'[i].item \in 1..(n + 1) /\ shelf'[i].context = evals[e].context
      <4> SUFFICES ASSUME NEW i \in Places(e)'
                   PROVE  shelf'[i].item \in 1..(n + 1) /\ shelf'[i].context = evals[e].context
        OBVIOUS
      <4>1. CASE i = 1
        BY <4>1, <2>1, <1>1, <1>9
      <4>2. CASE i # 1
        <5>1. shelf'[i].item \in 1..n /\ shelf'[i].context = evals[e].context
          BY <4>2, <2>4, <3>1
        <5> QED
          BY <5>1, <1>1
      <4> QED
        BY <4>1, <4>2
    <3>4. \A i, j \in Places(e)' : i < j => shelf'[i].item > shelf'[j].item
      <4> SUFFICES ASSUME NEW i \in Places(e)', NEW j \in Places(e)', i < j
                   PROVE  shelf'[i].item > shelf'[j].item
        OBVIOUS
      <4>1. j \in Nat /\ j # 1 /\ i \in Nat
        BY <2>1, <2>4
      <4>2. j - 1 \in Places(e) /\ shelf'[j] = shelf[j - 1]
        BY <4>1, <2>4
      <4>3. CASE i = 1
        <5>1. shelf'[j].item \in 1..n /\ shelf'[i].item = n + 1
          BY <4>2, <4>3, <3>1, <2>1, <1>9
        <5> QED
          BY <5>1, <1>1
      <4>4. CASE i # 1
        <5>1. i - 1 \in Places(e) /\ shelf'[i] = shelf[i - 1] /\ i - 1 < j - 1
          BY <4>1, <4>4, <2>4
        <5> QED
          BY <5>1, <4>2, <3>1
      <4> QED
        BY <4>3, <4>4
    <3> QED
      BY <3>2, <3>3, <3>4, <2>0, <1>4, <1>6, <1>11 DEF Shelves
  <2>7. ShelfIsTimed'
    <3>0. \A i \in DOMAIN shelf : shelf[i].at \in Nat /\ shelf[i].at <= clock
      <4>1. \A i \in DOMAIN shelf : shelf[i] \in ShelfRow
        BY <1>13
      <4> QED
        BY <4>1, <1>13 DEF ShelfRow, ShelfIsTimed
    <3>1. \A i \in DOMAIN shelf' : shelf'[i].at <= clock'
      <4> SUFFICES ASSUME NEW i \in DOMAIN shelf' PROVE shelf'[i].at <= clock + took
        BY <1>5
      <4>1. CASE i = 1
        BY <4>1, <2>1, <1>2, <1>9
      <4>2. CASE i # 1
        <5>1. i - 1 \in DOMAIN shelf /\ shelf'[i] = shelf[i - 1]
          BY <4>2, <2>1
        <5> QED
          BY <5>1, <3>0, <1>2
      <4> QED
        BY <4>1, <4>2
    <3>2. ASSUME NEW i \in DOMAIN shelf', NEW j \in DOMAIN shelf', i < j PROVE shelf'[i].at >= shelf'[j].at
      <4>1. i \in Nat /\ j \in Nat /\ j # 1 /\ j - 1 \in DOMAIN shelf /\ shelf'[j] = shelf[j - 1]
        BY <3>2, <2>1
      <4>2. CASE i = 1
        <5>1. shelf'[i].at = clock + took
          BY <4>2, <2>1, <1>9
        <5>2. shelf'[j].at \in Nat /\ shelf'[j].at <= clock
          BY <4>1, <3>0
        <5>3. clock \in Nat /\ clock + took \in Nat /\ clock <= clock + took
          BY <1>2
        <5> HIDE DEF ShelfIsTimed
        <5> QED
          BY <5>1, <5>2, <5>3
      <4>3. CASE i # 1
        <5>1. i - 1 \in DOMAIN shelf /\ shelf'[i] = shelf[i - 1] /\ i - 1 < j - 1
          BY <4>1, <4>3, <3>2, <2>1
        <5> QED
          BY <5>1, <4>1, <1>13 DEF ShelfIsTimed
      <4> QED
        BY <4>2, <4>3
    <3> QED
      BY <3>1, <3>2 DEF ShelfIsTimed
  <2> QED
    BY <2>2, <2>5, <2>6, <2>7, <1>12 DEF EvalInv
<1> QED
  BY <1>14, <1>15

\* An answer, or the text of an error in its place, keeps the evaluation whole.
LEMMA AnswerKeepsEval ==
  ASSUME EvalInv, NEW e \in Eval, NEW took \in 0..Gap + 1, Answers(e, took)
  PROVE  EvalInv'
<1>1. took \in Nat
  BY EvalAssumption
<1>2. PICK mark \in {0, FullMark} : Marks(e, mark, took)
  BY DEF Answers
<1>3. /\ evals[e].at = "items" /\ Item(e) <= Items /\ clock + took <= MaxTime
      /\ UNCHANGED <<evalServer, evalRow>>
  BY DEF Answers
<1> QED
  BY <1>1, <1>2, <1>3, MarkKeepsEval

\* Every step keeps what is known of the evaluations.
LEMMA EvalKept == EvalInv /\ [EvalNext]_evalVars => EvalInv'
<1> SUFFICES ASSUME EvalInv, [EvalNext]_evalVars PROVE EvalInv'
  OBVIOUS
<1>1. ASSUME NEW e \in Eval, EvalStep(e) PROVE EvalInv'
  <2>1. CASE BeginsWork(e) \/ LoadFails(e)
    BY <2>1, LoadKeepsEval
  <2>2. CASE EndsWork(e) \/ StoreEvalFails(e) \/ BreaksOff(e)
    BY <2>2, EndKeepsEval
  <2>3. CASE StoresEval(e)
    BY <2>3, StoreKeepsEval
  <2>4. ASSUME NEW took \in 0..Gap + 1, Answers(e, took) PROVE EvalInv'
    BY <2>4, AnswerKeepsEval
  <2> QED
    BY <1>1, <2>1, <2>2, <2>3, <2>4 DEF EvalStep
<1>2. ASSUME NEW e \in Eval, ServerLoads(e) \/ ServerDies(e) \/ RefusesEval(e) PROVE EvalInv'
  BY <1>2, LoadKeepsEval
<1>3. ASSUME NEW e \in Eval, NEW kind \in EvalKind, NEW c \in EvalContext, AsksEval(e, kind, c) PROVE EvalInv'
  BY <1>3, AskKeepsEval
<1>4. CASE UNCHANGED evalVars
  BY <1>4 DEF evalVars, EvalInv, EvalTypes, Stage, Shelves, Places, ShelfIsTimed
<1> QED
  BY <1>1, <1>2, <1>3, <1>4 DEF EvalNext

\* The types follow.
LEMMA EvalInvTypes == EvalInv => EvalTypeOK
<1> SUFFICES ASSUME EvalInv PROVE EvalTypeOK
  OBVIOUS
<1>1. ASSUME NEW e \in Eval
      PROVE  /\ evals[e].at \in {"rest", "load", "items", "store"} \cup Over
             /\ Len(evals[e].marks) <= Items
             /\ evalRow[e].status \in {"none", "running", "failed", "completed"}
  BY StageOf DEF Stage, EvalState
<1> QED
  BY <1>1 DEF EvalInv, EvalTypes, EvalTypeOK

\* A finished evaluation has no server and all its marks.
LEMMA EvalInvHolds == EvalInv => FinishedIsReleased /\ CompletedIsWhole
<1> SUFFICES ASSUME EvalInv PROVE FinishedIsReleased /\ CompletedIsWhole
  OBVIOUS
<1>1. \A e \in Eval : Stage(e) /\ Shelves(e)
  BY DEF EvalInv
<1>2. FinishedIsReleased
  BY <1>1 DEF FinishedIsReleased, Stage
<1>3. CompletedIsWhole
  <2> SUFFICES ASSUME NEW e \in Eval, evalRow[e].status = "completed"
               PROVE  /\ Len(evals[e].marks) = Items
                      /\ evalRow[e].score = Mean(evals[e].marks)
                      /\ evals[e].kind = "template" =>
                           /\ \A n \in 1..Items : \E i \in Places(e) :
                                 shelf[i].item = n /\ shelf[i].score = evals[e].marks[n]
                           /\ \A i \in Places(e) : shelf[i].item \in 1..Items
                           /\ \A i, j \in Places(e) : i < j => shelf[i].item > shelf[j].item
    BY DEF CompletedIsWhole
  <2>1. Len(evals[e].marks) = Items /\ evalRow[e].score = Mean(evals[e].marks)
    BY <1>1 DEF Stage
  <2> QED
    BY <1>1, <2>1 DEF Shelves
<1> QED
  BY <1>2, <1>3

-----------------------------------------------------------------------------
(* The history. *)

Group == Seq(ShelfRow) \ {<<>>}
Groups == Seq(Group)
Joins(groups, line) ==
  IF groups # <<>> /\ Fits(Last(groups), line)
    THEN [groups EXCEPT ![Len(groups)] = Append(@, line)]
    ELSE Append(groups, <<line>>)

\* A row that joins groups leaves groups.
LEMMA JoinsIsGroups ==
  ASSUME NEW groups \in Groups, NEW line \in ShelfRow
  PROVE  Joins(groups, line) \in Groups
<1>1. CASE groups # <<>> /\ Fits(Last(groups), line)
  <2> DEFINE k == Len(groups)
             last == groups[k]
             more == Append(last, line)
  <2>1. k \in DOMAIN groups /\ last \in Group
    BY <1>1 DEF Groups
  <2> HIDE DEF last, k
  <2>2. more \in Seq(ShelfRow) /\ more # <<>>
    BY <2>1 DEF Group
  <2>3. [groups EXCEPT ![k] = more] \in Groups
    <3>1. more \in Group
      BY <2>2 DEF Group
    <3> HIDE DEF more
    <3> QED
      BY <2>1, <3>1 DEF Groups
  <2>4. Joins(groups, line) = [groups EXCEPT ![k] = more]
    BY <1>1, <2>1 DEF Joins, k, last
  <2> QED
    BY <2>3, <2>4
<1>2. CASE ~(groups # <<>> /\ Fits(Last(groups), line))
  <2>1. <<line>> \in Group
    BY DEF Group
  <2>2. Joins(groups, line) = Append(groups, <<line>>)
    BY <1>2 DEF Joins
  <2> QED
    BY <2>1, <2>2 DEF Groups
<1> QED
  BY <1>1, <1>2

\* The history after each row of the shelf.
HistoryOf(T) ==
  /\ T \in [0..Len(shelf) -> Groups]
  /\ T[0] = <<>>
  /\ \A k \in 1..Len(shelf) : T[k] = Joins(T[k - 1], shelf[k])

\* The history is made row by row.
LEMMA HistoryGoesOn ==
  ASSUME EvalInv
  PROVE  \E T : HistoryOf(T) /\ T[Len(shelf)] = History
<1> DEFINE n == Len(shelf)
           D == 1..n
           ch == [u \in SUBSET D |-> Max(u)]
           st == [p \in D \X Groups |-> Joins(p[2], shelf[p[1]])]
           iter == CHOOSE g : g = [u \in SUBSET D |-> IF u = {} THEN <<>>
                                    ELSE LET x == Max(u) IN Joins(g[u \ {x}], shelf[x])]
<1>0. n \in Nat /\ DOMAIN shelf = D /\ \A i \in D : shelf[i] \in ShelfRow
  BY DEF EvalInv, EvalTypes
<1>1. History = iter[D]
  BY <1>0 DEF History, FoldLeft, MapThenFoldSet, Joins
<1>2. IsFiniteSet(D) /\ D \in SUBSET Int
  <2>1. 1 \in Int /\ n \in Int
    BY <1>0
  <2> QED
    BY <2>1, FS_Interval
<1> HIDE DEF D, n
<1>3. \A x \in D, v \in Groups : st[<<x, v>>] = Joins(v, shelf[x]) /\ Joins(v, shelf[x]) \in Groups
  BY <1>0, JoinsIsGroups
<1>4. st \in [D \X Groups -> Groups]
  BY <1>0, JoinsIsGroups
<1> HIDE DEF st
<1>5. \A u \in SUBSET D : u # {} => Max(u) \in u /\ Max(u) \in D
  <2> SUFFICES ASSUME NEW u \in SUBSET D, u # {} PROVE Max(u) \in u /\ Max(u) \in D
    OBVIOUS
  <2>1. IsFiniteSet(u) /\ u \in SUBSET Int
    BY <1>2, FS_Subset
  <2> QED
    BY <2>1, GreatestExists
<1>6. Chooses(ch, D) /\ \A u \in SUBSET D : ch[u] = Max(u)
  BY <1>5 DEF Chooses
<1> HIDE DEF ch
<1>20. <<>> \in Groups
  BY DEF Groups
<1>7. PICK h \in [SUBSET D -> Groups] : FoldsTo(h, D, ch, st, <<>>)
  BY <1>2, <1>4, <1>6, <1>20, FoldExists
<1>8. h = [u \in SUBSET D |-> IF u = {} THEN <<>> ELSE LET x == Max(u) IN Joins(h[u \ {x}], shelf[x])]
  <2>1. ASSUME NEW u \in SUBSET D, u # {} PROVE h[u] = Joins(h[u \ {Max(u)}], shelf[Max(u)])
    <3>1. ch[u] = Max(u) /\ Max(u) \in D /\ h[u \ {Max(u)}] \in Groups
      BY <1>5, <1>6, <2>1
    <3>2. h[u] = st[<<ch[u], h[u \ {ch[u]}]>>]
      BY <1>7, <2>1 DEF FoldsTo
    <3> QED
      BY <3>1, <3>2, <1>3
  <2>2. h[{}] = <<>>
    BY <1>7 DEF FoldsTo
  <2> QED
    BY <2>1, <2>2
<1>9. iter = [u \in SUBSET D |-> IF u = {} THEN <<>> ELSE LET x == Max(u) IN Joins(iter[u \ {x}], shelf[x])]
  BY <1>8
<1> HIDE DEF iter
<1>10. iter[{}] = <<>>
  BY <1>9
<1>11. FoldsUp(iter, n, Groups, st)
  <2>1. ASSUME NEW u \in SUBSET D, u # {}, iter[u \ {Max(u)}] \in Groups
        PROVE  iter[u] = st[<<Max(u), iter[u \ {Max(u)}]>>]
    <3>1. iter[u] = Joins(iter[u \ {Max(u)}], shelf[Max(u)])
      BY <1>9, <2>1
    <3>2. Max(u) \in D
      BY <1>5, <2>1
    <3> QED
      BY <2>1, <3>1, <3>2, <1>3
  <2> QED
    BY <2>1, <1>4 DEF FoldsUp, D
<1>12. PICK T \in [0..n -> Groups] : GoesThrough(T, n, <<>>, st) /\ T[n] = iter[1..n]
  <2>1. GoesTo(iter, n, Groups, <<>>, st)
    BY <1>0, <1>20, <1>10, <1>11, FoldGoesOn
  <2> QED
    BY <2>1 DEF GoesTo
<1>13. \A k \in 1..n : T[k] = Joins(T[k - 1], shelf[k])
  <2> SUFFICES ASSUME NEW k \in 1..n PROVE T[k] = Joins(T[k - 1], shelf[k])
    OBVIOUS
  <2>1. k - 1 \in 0..n
    BY <1>0
  <2>2. T[k - 1] \in Groups /\ k \in D
    BY <2>1 DEF D
  <2> QED
    BY <2>2, <1>3, <1>12 DEF GoesThrough
<1>14. HistoryOf(T) /\ T[n] = History
  BY <1>1, <1>12, <1>13 DEF HistoryOf, D, GoesThrough, n
<1> QED
  BY <1>14 DEF n

\* What a row does to the groups: it joins the last one, or is a new one.
Joined(groups, line, new) ==
  \/ /\ groups # <<>> /\ Fits(Last(groups), line) /\ DOMAIN new = DOMAIN groups /\ Len(new) = Len(groups)
     /\ \A g \in DOMAIN groups : g # Len(groups) => new[g] = groups[g]
     /\ Len(Last(new)) = Len(Last(groups)) + 1 /\ Last(new)[Len(Last(groups)) + 1] = line
     /\ \A i \in 1..Len(Last(groups)) : Last(new)[i] = Last(groups)[i]
  \/ /\ ~(groups # <<>> /\ Fits(Last(groups), line)) /\ Len(new) = Len(groups) + 1
     /\ \A g \in DOMAIN groups : new[g] = groups[g]
     /\ new[Len(groups) + 1] = <<line>>

\* A row joins the last group if it fits there, and is a group of its own if not.
LEMMA JoinsJoin ==
  ASSUME NEW groups \in Groups, NEW line \in ShelfRow
  PROVE  Joined(groups, line, Joins(groups, line))
<1>0. DOMAIN groups = 1..Len(groups) /\ Len(groups) \in Nat /\ \A g \in DOMAIN groups : groups[g] \in Group
  <2>1. groups \in Seq(Group)
    BY DEF Groups
  <2>2. DOMAIN groups = 1..Len(groups) /\ Len(groups) \in Nat
    BY <2>1
  <2>3. ASSUME NEW g \in DOMAIN groups PROVE groups[g] \in Group
    BY <2>1
  <2> QED
    BY <2>2, <2>3
<1>1. CASE groups # <<>> /\ Fits(Last(groups), line)
  <2> DEFINE k == Len(groups)
             last == groups[k]
             more == Append(last, line)
             new == [groups EXCEPT ![k] = more]
  <2>1. k \in DOMAIN groups /\ last \in Group /\ last = Last(groups) /\ DOMAIN groups = 1..k /\ k \in Nat
    BY <1>0, <1>1 DEF Last, Groups
  <2> HIDE DEF last
  <2>2. Len(more) = Len(last) + 1 /\ more[Len(last) + 1] = line /\ \A i \in 1..Len(last) : more[i] = last[i]
    BY <2>1 DEF Group
  <2>3. Joins(groups, line) = new
    BY <1>1, <2>1 DEF Joins, last
  <2>5. new \in Groups
    BY <2>3, JoinsIsGroups
  <2> HIDE DEF k, more
  <2>4. DOMAIN new = DOMAIN groups /\ new[k] = more /\ \A g \in DOMAIN groups : g # k => new[g] = groups[g]
    BY <2>1
  <2> HIDE DEF new
  <2>6. Len(new) = k
    BY <2>1, <2>4, <2>5 DEF Groups
  <2>7. Last(new) = more
    BY <2>4, <2>6 DEF Last
  <2> QED
    BY <1>1, <2>1, <2>2, <2>3, <2>4, <2>6, <2>7 DEF Joined, k
<1>2. CASE ~(groups # <<>> /\ Fits(Last(groups), line))
  <2>1. Joins(groups, line) = Append(groups, <<line>>)
    BY <1>2 DEF Joins
  <2>2. <<line>> \in Group
    BY DEF Group
  <2>3. /\ Len(Append(groups, <<line>>)) = Len(groups) + 1
        /\ \A g \in DOMAIN groups : Append(groups, <<line>>)[g] = groups[g]
        /\ Append(groups, <<line>>)[Len(groups) + 1] = <<line>>
    BY <1>0, <2>2 DEF Groups
  <2> QED
    BY <1>2, <2>1, <2>3 DEF Joined
<1> QED
  BY <1>1, <1>2

\* Each entry is about one context and one span of time, and as large as it can be.
Spanned(group) ==
  \A i \in DOMAIN group : group[i].context = group[1].context /\ group[1].at - group[i].at <= Gap
Parted(left1, right1) ==
  \/ right1[1].context # left1[1].context
  \/ left1[1].at - right1[1].at > Gap
Tidy(groups) ==
  \A g \in DOMAIN groups : Spanned(groups[g]) /\ (g > 1 => Parted(groups[g - 1], groups[g]))

\* Groups stay tidy when a row joins them.
LEMMA JoinsKeepTidy ==
  ASSUME NEW groups \in Groups, NEW line \in ShelfRow, Tidy(groups)
  PROVE  Tidy(Joins(groups, line))
<1> DEFINE new == Joins(groups, line)
           k == Len(groups)
<1>1. Joined(groups, line, new) /\ new \in Groups
  BY JoinsJoin, JoinsIsGroups
<1>2. /\ DOMAIN groups = 1..k /\ k \in Nat /\ (\A g \in 1..k : groups[g] \in Group) /\ line.at \in Nat
      /\ DOMAIN new = 1..Len(new) /\ Len(new) \in Nat
  BY <1>1 DEF Groups, ShelfRow
<1> HIDE DEF new, k
<1>3. CASE groups # <<>> /\ Fits(Last(groups), line)
  <2> DEFINE last == groups[k]
             more == new[k]
  <2>1. /\ DOMAIN new = 1..k /\ (\A g \in 1..k : g # k => new[g] = groups[g]) /\ k \in 1..k
        /\ Len(more) = Len(last) + 1 /\ more[Len(last) + 1] = line /\ (\A i \in 1..Len(last) : more[i] = last[i])
        /\ Fits(last, line)
    <3>1. k # 0 /\ Last(groups) = last
      BY <1>2, <1>3 DEF Groups, k, Last
    <3>2. Len(new) = k /\ Last(new) = more
      BY <1>1, <1>3 DEF Joined, k, Last
    <3>3. /\ Fits(Last(groups), line) /\ DOMAIN new = DOMAIN groups
          /\ \A g \in DOMAIN groups : g # k => new[g] = groups[g]
          /\ Len(Last(new)) = Len(Last(groups)) + 1 /\ Last(new)[Len(Last(groups)) + 1] = line
          /\ \A i \in 1..Len(Last(groups)) : Last(new)[i] = Last(groups)[i]
      BY <1>1, <1>3 DEF Joined, k
    <3> HIDE DEF last, more
    <3>4. k \in 1..k
      BY <1>2, <3>1
    <3>5. /\ Fits(last, line) /\ DOMAIN new = 1..k
          /\ \A g \in 1..k : g # k => new[g] = groups[g]
          /\ Len(more) = Len(last) + 1 /\ more[Len(last) + 1] = line
          /\ \A i \in 1..Len(last) : more[i] = last[i]
      BY <1>2, <3>1, <3>2, <3>3
    <3> QED
      BY <3>4, <3>5
  <2>2. last \in Group /\ more \in Group
    BY <1>1, <1>2, <2>1 DEF Groups
  <2>3. Len(last) \in Nat /\ Len(last) # 0 /\ DOMAIN last = 1..Len(last) /\ DOMAIN more = 1..(Len(last) + 1)
    BY <2>1, <2>2 DEF Group
  <2>4. Spanned(last)
    BY <1>2, <2>1 DEF Tidy
  <2> HIDE DEF last, more
  <2>5. more[1] = last[1]
    BY <2>1, <2>3
  <2>6. Spanned(more)
    <3> SUFFICES ASSUME NEW i \in 1..(Len(last) + 1)
                 PROVE  more[i].context = more[1].context /\ more[1].at - more[i].at <= Gap
      BY <2>3 DEF Spanned
    <3>1. CASE i \in 1..Len(last)
      BY <3>1, <2>1, <2>3, <2>4, <2>5 DEF Spanned
    <3>2. CASE i \notin 1..Len(last)
      <4>1. i = Len(last) + 1
        BY <3>2, <2>3
      <4>2. Head(last) = last[1]
        BY <2>2 DEF Group
      <4> QED
        BY <4>1, <4>2, <2>1, <2>5 DEF Fits
    <3> QED
      BY <3>1, <3>2
  <2>7. ASSUME NEW g \in 1..k PROVE Spanned(new[g]) /\ (g > 1 => Parted(new[g - 1], new[g]))
    <3>1. Spanned(groups[g]) /\ (g > 1 => Parted(groups[g - 1], groups[g]))
      BY <1>2 DEF Tidy
    <3>2. CASE g # k
      <4>1. new[g] = groups[g] /\ (g > 1 => new[g - 1] = groups[g - 1])
        BY <3>2, <1>2, <2>1
      <4> QED
        BY <3>1, <4>1
    <3>3. CASE g = k
      <4>1. new[g] = more /\ groups[g] = last /\ (g > 1 => new[g - 1] = groups[g - 1])
        BY <3>3, <1>2, <2>1 DEF more, last
      <4> QED
        BY <3>1, <4>1, <2>5, <2>6 DEF Parted
    <3> QED
      BY <3>2, <3>3
  <2>8. Tidy(new)
    <3>1. ASSUME NEW g \in DOMAIN new PROVE Spanned(new[g]) /\ (g > 1 => Parted(new[g - 1], new[g]))
      <4>1. g \in 1..k
        BY <2>1
      <4> QED
        BY <4>1, <2>7
    <3> QED
      BY <3>1 DEF Tidy
  <2> QED
    BY <2>8 DEF new
<1>4. CASE ~(groups # <<>> /\ Fits(Last(groups), line))
  <2>1. /\ DOMAIN new = 1..(k + 1) /\ (\A g \in 1..k : new[g] = groups[g]) /\ new[k + 1] = <<line>>
    BY <1>1, <1>2, <1>4 DEF Joined, k
  <2>2. Spanned(new[k + 1])
    <3>1. DOMAIN <<line>> = {1} /\ <<line>>[1] = line
      OBVIOUS
    <3>2. line.at - line.at <= Gap
      BY <1>2, EvalAssumption
    <3> QED
      BY <2>1, <3>1, <3>2 DEF Spanned
  <2>3. k + 1 > 1 => Parted(new[k], new[k + 1])
    <3> SUFFICES ASSUME k # 0 PROVE Parted(new[k], new[k + 1])
      BY <1>2
    <3>1. k \in 1..k /\ groups # <<>> /\ Last(groups) = groups[k]
      BY <1>2 DEF Last, k
    <3>2. new[k] = groups[k] /\ ~Fits(groups[k], line)
      BY <3>1, <2>1, <1>4
    <3>3. groups[k] \in Group
      BY <3>1, <1>2
    <3>4. Head(groups[k]) = groups[k][1] /\ groups[k][1] \in ShelfRow
      BY <3>3 DEF Group
    <3>5. groups[k][1].at \in Nat
      BY <3>4 DEF ShelfRow
    <3>6. groups[k][1].context # line.context \/ groups[k][1].at - line.at > Gap
      BY <3>2, <3>4, <3>5, <1>2, EvalAssumption DEF Fits
    <3>7. new[k + 1][1] = line
      BY <2>1
    <3> QED
      BY <3>2, <3>6, <3>7 DEF Parted
  <2>4. ASSUME NEW g \in 1..(k + 1) PROVE Spanned(new[g]) /\ (g > 1 => Parted(new[g - 1], new[g]))
    <3>1. CASE g \in 1..k
      <4>1. new[g] = groups[g] /\ (g > 1 => new[g - 1] = groups[g - 1])
        BY <3>1, <1>2, <2>1
      <4> QED
        BY <4>1, <3>1, <1>2 DEF Tidy
    <3>2. CASE g \notin 1..k
      <4>1. g = k + 1 /\ g - 1 = k
        BY <3>2, <1>2
      <4> QED
        BY <4>1, <2>2, <2>3
    <3> QED
      BY <3>1, <3>2
  <2>5. Tidy(new)
    BY <2>1, <2>4 DEF Tidy
  <2> QED
    BY <2>5 DEF new
<1> QED
  BY <1>3, <1>4

\* The entries of the history are runs: of one context, with no long pause.
LEMMA HistoryIsTidy ==
  ASSUME EvalInv PROVE EntriesAreRuns
<1>1. PICK T : HistoryOf(T) /\ T[Len(shelf)] = History
  BY HistoryGoesOn
<1> DEFINE n == Len(shelf)
           Bad == {k \in 0..n : ~Tidy(T[k])}
<1>2. n \in Nat /\ \A k \in 1..n : shelf[k] \in ShelfRow
  BY DEF EvalInv, EvalTypes
<1>3. /\ T[0] = <<>> /\ (\A k \in 0..n : T[k] \in Groups) /\ \A k \in 1..n : T[k] = Joins(T[k - 1], shelf[k])
  BY <1>1 DEF HistoryOf
<1> HIDE DEF n
<1>4. Bad = {}
  <2> SUFFICES ASSUME Bad # {} PROVE FALSE
    OBVIOUS
  <2>1. PICK k \in Bad : \A j \in Bad : k <= j
    <3>1. Bad \in SUBSET Nat
      BY <1>2
    <3> HIDE DEF Bad
    <3> QED
      BY <3>1, LeastExists
  <2>2. k # 0
    <3>1. DOMAIN <<>> = {}
      OBVIOUS
    <3>2. Tidy(<<>>)
      BY <3>1 DEF Tidy
    <3> QED
      BY <3>2, <1>3
  <2>3. k \in 1..n /\ k - 1 \in 0..n /\ k - 1 < k
    BY <1>2, <2>2
  <2>4. Tidy(T[k - 1])
    BY <2>1, <2>3
  <2>5. Tidy(T[k])
    BY <2>3, <2>4, <1>2, <1>3, JoinsKeepTidy
  <2> QED
    BY <2>5
<1>5. Tidy(History)
  <2>1. n \in 0..n
    BY <1>2
  <2> QED
    BY <1>1, <1>4, <2>1 DEF n
<1> QED
  BY <1>5 DEF EntriesAreRuns, Tidy, Spanned, Parted

\* How far the rows of places a to b have got after k rows: the group of the first of
\* them is the last one, until b, and has them all.
Gathers(groups, k, a, b) ==
  /\ k >= 1 => groups # <<>> /\ \E h \in 1..k : Last(groups)[1] = shelf[h]
  /\ (a <= k /\ k <= b) => (/\ Last(groups)[1] = shelf[a]
                            /\ \A i \in a..k : shelf[i] \in ToSet(Last(groups)))
  /\ b <= k => \E g \in DOMAIN groups : \A i \in a..b : shelf[i] \in ToSet(groups[g])

\* Rows a to b belong together, and to nothing that lies above them.
OneSpan(a, b) ==
  /\ a \in DOMAIN shelf /\ b \in DOMAIN shelf /\ a <= b
  /\ \A i \in a..b : Fits(<<shelf[a]>>, shelf[i])
  /\ \A h \in 1..(a - 1) : ~Fits(<<shelf[h]>>, shelf[a])

\* A span of rows that belong together is gathered in one group, row by row.
LEMMA JoinsGather ==
  ASSUME EvalInv, NEW a, NEW b, OneSpan(a, b), NEW groups \in Groups, NEW k \in 1..Len(shelf),
         Gathers(groups, k - 1, a, b), k = 1 => groups = <<>>
  PROVE  Gathers(Joins(groups, shelf[k]), k, a, b)
<1> DEFINE line == shelf[k]
           new == Joins(groups, line)
           n == Len(shelf)
           m == Len(groups)
<1>0. /\ n \in Nat /\ DOMAIN shelf = 1..n /\ (\A i \in 1..n : shelf[i] \in ShelfRow) /\ line \in ShelfRow
      /\ a \in 1..n /\ b \in 1..n /\ a <= b
  BY DEF EvalInv, EvalTypes, OneSpan
<1>1. Joined(groups, line, new) /\ new \in Groups
  BY <1>0, JoinsJoin, JoinsIsGroups
<1>2. /\ DOMAIN groups = 1..m /\ m \in Nat /\ (\A g \in 1..m : groups[g] \in Group)
      /\ DOMAIN new = 1..Len(new) /\ Len(new) \in Nat /\ (\A g \in DOMAIN new : new[g] \in Group)
  BY <1>1 DEF Groups
<1>3. line = shelf[k]
  OBVIOUS
<1> HIDE DEF new, n, m, line
\* The heads and members of the last group, and that no group is lost.
<1>4. /\ new # <<>> /\ line \in ToSet(Last(new))
      /\ \A g \in DOMAIN groups : g \in DOMAIN new /\ ToSet(groups[g]) \subseteq ToSet(new[g])
      /\ \/ /\ groups # <<>> /\ Fits(Last(groups), line)
            /\ Last(new)[1] = Last(groups)[1] /\ ToSet(Last(groups)) \subseteq ToSet(Last(new))
         \/ ~(groups # <<>> /\ Fits(Last(groups), line)) /\ Last(new)[1] = line
  <2>1. CASE groups # <<>> /\ Fits(Last(groups), line)
    <3> DEFINE last == Last(groups)
               more == Last(new)
    <3>1. /\ DOMAIN new = DOMAIN groups /\ Len(new) = m
          /\ \A g \in DOMAIN groups : g # m => new[g] = groups[g]
          /\ Len(more) = Len(last) + 1 /\ more[Len(last) + 1] = line
          /\ \A i \in 1..Len(last) : more[i] = last[i]
      BY <1>1, <2>1 DEF Joined, m
    <3>2. m # 0 /\ m \in 1..m
      BY <1>2, <2>1 DEF Groups, m
    <3>3. last = groups[m] /\ more = new[m]
      BY <3>1 DEF Last, m
    <3> HIDE DEF last, more
    <3>4. last \in Group /\ more \in Group
      BY <1>2, <3>1, <3>2, <3>3
    <3>5. /\ Len(last) \in Nat /\ Len(last) # 0 /\ DOMAIN last = 1..Len(last)
          /\ DOMAIN more = 1..(Len(last) + 1)
      BY <3>1, <3>4 DEF Group
    <3>6. more[1] = last[1]
      BY <3>1, <3>5
    <3>7. ToSet(last) \subseteq ToSet(more) /\ line \in ToSet(more)
      <4>1. ASSUME NEW i \in 1..Len(last) PROVE last[i] \in ToSet(more)
        <5>1. i \in DOMAIN more /\ more[i] = last[i]
          BY <3>1, <3>5
        <5> QED
          BY <5>1 DEF ToSet
      <4>2. Len(last) + 1 \in DOMAIN more
        BY <3>5
      <4> QED
        BY <4>1, <4>2, <3>1, <3>5 DEF ToSet
    <3>8. \A g \in DOMAIN groups : g \in DOMAIN new /\ ToSet(groups[g]) \subseteq ToSet(new[g])
      BY <3>1, <3>3, <3>7
    <3>9. new # <<>>
      BY <3>1, <3>2, <1>2
    <3> QED
      BY <2>1, <3>6, <3>7, <3>8, <3>9 DEF last, more
  <2>2. CASE ~(groups # <<>> /\ Fits(Last(groups), line))
    <3>1. Len(new) = m + 1 /\ (\A g \in DOMAIN groups : new[g] = groups[g]) /\ new[m + 1] = <<line>>
      BY <1>1, <2>2 DEF Joined, m
    <3>2. Last(new) = <<line>> /\ DOMAIN new = 1..(m + 1)
      BY <3>1, <1>2 DEF Last
    <3>3. <<line>>[1] = line /\ line \in ToSet(<<line>>)
      BY DEF ToSet
    <3>4. new # <<>> /\ \A g \in DOMAIN groups : g \in DOMAIN new
      BY <3>1, <3>2, <1>2
    <3> QED
      BY <2>2, <3>1, <3>2, <3>3, <3>4
  <2> QED
    BY <2>1, <2>2
<1>5. groups # <<>> => Last(groups) \in Group
  <2> SUFFICES ASSUME groups # <<>> PROVE Last(groups) \in Group
    OBVIOUS
  <2>1. m \in 1..m
    BY <1>2 DEF m, Groups
  <2> QED
    BY <2>1, <1>2 DEF Last, m
<1>6. \A g \in Group : Head(g) = g[1] /\ g[1] \in ShelfRow
  BY DEF Group
<1>7. \A g \in Group, x \in ShelfRow, y \in ShelfRow : g[1] = x => (Fits(g, y) <=> Fits(<<x>>, y))
  BY <1>6 DEF Fits
<1>8. k = 1 \/ (k - 1 >= 1 /\ k - 1 \in Nat)
  BY <1>0
<1>9. k - 1 >= 1 => groups # <<>> /\ \E h \in 1..(k - 1) : Last(groups)[1] = shelf[h]
  BY DEF Gathers
<1>10. \E h \in 1..k : Last(new)[1] = shelf[h]
  <2>1. CASE Last(new)[1] = line
    <3>1. k \in 1..k
      BY <1>0
    <3> QED
      BY <2>1, <3>1, <1>3
  <2>2. CASE groups # <<>> /\ Last(new)[1] = Last(groups)[1]
    <3>1. k # 1 /\ k - 1 >= 1
      BY <2>2, <1>8
    <3>2. PICK h \in 1..(k - 1) : Last(groups)[1] = shelf[h]
      BY <3>1, <1>9
    <3>3. h \in 1..k
      BY <1>0
    <3> QED
      BY <3>2, <3>3, <2>2
  <2> QED
    BY <2>1, <2>2, <1>4
<1>11. ASSUME a <= k, k <= b
       PROVE  Last(new)[1] = shelf[a] /\ \A i \in a..k : shelf[i] \in ToSet(Last(new))
  <2>1. CASE k = a
    <3>1. ~(groups # <<>> /\ Fits(Last(groups), line))
      <4> SUFFICES ASSUME groups # <<>>, Fits(Last(groups), line) PROVE FALSE
        OBVIOUS
      <4>1. k # 1 /\ k - 1 >= 1
        BY <1>8
      <4>2. PICK h \in 1..(k - 1) : Last(groups)[1] = shelf[h]
        BY <4>1, <1>9
      <4>3. h \in 1..n
        BY <1>0
      <4>4. Fits(<<shelf[h]>>, line)
        BY <4>2, <4>3, <1>0, <1>5, <1>7
      <4> QED
        BY <4>4, <2>1, <1>3 DEF OneSpan
    <3>2. Last(new)[1] = line
      BY <3>1, <1>4
    <3>3. \A i \in a..k : i = k
      BY <2>1, <1>0
    <3> QED
      BY <2>1, <3>2, <3>3, <1>3, <1>4
  <2>2. CASE k # a
    <3>1. a <= k - 1 /\ k - 1 <= b /\ k - 1 >= 1 /\ k \in a..b
      BY <2>2, <1>0, <1>11
    <3>2. /\ groups # <<>> /\ Last(groups)[1] = shelf[a]
          /\ \A i \in a..(k - 1) : shelf[i] \in ToSet(Last(groups))
      BY <3>1 DEF Gathers
    <3>3. Fits(<<shelf[a]>>, line)
      BY <3>1, <1>3 DEF OneSpan
    <3>4. Fits(Last(groups), line)
      BY <3>2, <3>3, <1>0, <1>5, <1>7
    <3>5. \A i \in a..k : i \in a..(k - 1) \/ i = k
      BY <1>0
    <3> QED
      BY <3>2, <3>4, <3>5, <1>3, <1>4
  <2> QED
    BY <2>1, <2>2
<1>12. ASSUME b <= k
       PROVE  \E g \in DOMAIN new : \A i \in a..b : shelf[i] \in ToSet(new[g])
  <2>1. CASE b = k
    <3>1. \A i \in a..b : shelf[i] \in ToSet(Last(new))
      BY <2>1, <1>0, <1>11
    <3>2. Len(new) \in DOMAIN new
      BY <1>1, <1>2, <1>4 DEF Groups
    <3> QED
      BY <3>1, <3>2 DEF Last
  <2>2. CASE b # k
    <3>1. b <= k - 1
      BY <2>2, <1>0, <1>12
    <3>2. PICK g \in DOMAIN groups : \A i \in a..b : shelf[i] \in ToSet(groups[g])
      BY <3>1 DEF Gathers
    <3> QED
      BY <3>2, <1>4
  <2> QED
    BY <2>1, <2>2
<1>13. Gathers(new, k, a, b)
  BY <1>4, <1>10, <1>11, <1>12 DEF Gathers
<1> QED
  BY <1>13 DEF new, line

\* The rows of a quick run that is alone are in one span.
LEMMA RunIsOneSpan ==
  ASSUME EvalInv, NEW e \in Eval, Quick(e), Alone(e)
  PROVE  \E a, b : OneSpan(a, b) /\ Places(e) \subseteq a..b
<1> DEFINE a == Min(Places(e))
           b == Max(Places(e))
           n == Len(shelf)
           here == Places(e)
<1>0. /\ n \in Nat /\ DOMAIN shelf = 1..n /\ \A i \in 1..n : shelf[i] \in ShelfRow
  BY DEF EvalInv, EvalTypes
<1>1. \A i \in 1..n : shelf[i].at \in Nat
  BY <1>0 DEF ShelfRow
<1>2. \A i, j \in 1..n : i < j => shelf[i].at >= shelf[j].at
  BY <1>0 DEF EvalInv, ShelfIsTimed
<1>3. here \subseteq 1..n /\ here # {} /\ \A i \in 1..n : i \in here <=> shelf[i].who = e
  BY <1>0 DEF Places, Quick
<1>4. shelf[a].at - shelf[b].at <= Gap
  BY DEF Quick, Newest, Oldest
<1>5. \A i \in 1..n : shelf[i].who # e => shelf[i].at > shelf[a].at + Gap \/ shelf[i].at < shelf[b].at
  BY <1>0 DEF Alone, Newest, Oldest
<1>6. \A i \in here : shelf[i].context = evals[e].context
  <2>1. evals[e].kind = "template"
    BY <1>3, StageOf DEF Shelves, EvalState, EvalKind
  <2> QED
    BY <2>1, StageOf DEF Shelves
<1>7. a \in here /\ b \in here /\ \A i \in here : a <= i /\ i <= b
  <2> HIDE DEF here
  <2>1. IsFiniteSet(1..n)
    <3>1. 1 \in Int /\ n \in Int
      BY <1>0
    <3> QED
      BY <3>1, FS_Interval
  <2>2. IsFiniteSet(here) /\ here \in SUBSET Int
    <3>1. here \in SUBSET (1..n)
      BY <1>3
    <3>2. IsFiniteSet(here)
      BY <2>1, <3>1, FS_Subset
    <3>3. \A i \in here : i \in Int
      BY <3>1, <1>0
    <3> QED
      BY <3>2, <3>3
  <2>3. Min(here) \in here /\ Max(here) \in here /\ \A i \in here : Min(here) <= i /\ Max(here) >= i
    BY <1>3, <2>2, GreatestExists, LowestExists
  <2>4. \A i \in here : i \in Int
    BY <2>2
  <2> QED
    BY <2>3, <2>4 DEF here
<1> HIDE DEF a, b, here, n
<1>8. a \in 1..n /\ b \in 1..n /\ a <= b /\ Gap \in Nat
  BY <1>0, <1>3, <1>7, EvalAssumption
<1>9. ASSUME NEW i \in a..b PROVE Fits(<<shelf[a]>>, shelf[i])
  <2>1. i \in 1..n
    BY <1>0, <1>8
  <2>2. shelf[a].at >= shelf[i].at /\ shelf[i].at >= shelf[b].at
    <3>1. i = a \/ a < i
      BY <1>8, <2>1
    <3>2. i = b \/ i < b
      BY <1>8, <2>1
    <3>3. shelf[a].at >= shelf[i].at
      BY <3>1, <2>1, <1>1, <1>2, <1>8
    <3>4. shelf[i].at >= shelf[b].at
      BY <3>2, <2>1, <1>1, <1>2, <1>8
    <3> QED
      BY <3>3, <3>4
  <2>3. shelf[a].at \in Nat /\ shelf[b].at \in Nat /\ shelf[i].at \in Nat
    BY <1>1, <1>8, <2>1
  <2>4. i \in here
    BY <2>1, <2>2, <2>3, <1>3, <1>5, <1>8
  <2>5. shelf[a].context = shelf[i].context
    BY <2>4, <1>6, <1>7
  <2>6. shelf[a].at - shelf[i].at <= Gap
    BY <2>2, <2>3, <1>4, <1>8
  <2>7. Head(<<shelf[a]>>) = shelf[a]
    OBVIOUS
  <2> QED
    BY <2>5, <2>6, <2>7 DEF Fits
<1>10. ASSUME NEW h \in 1..(a - 1) PROVE ~Fits(<<shelf[h]>>, shelf[a])
  <2>1. h \in 1..n /\ h < a
    BY <1>0, <1>8
  <2>2. h \notin here
    BY <2>1, <1>3, <1>7, <1>8
  <2>3. shelf[h].at > shelf[a].at + Gap \/ shelf[h].at < shelf[b].at
    BY <2>1, <2>2, <1>3, <1>5
  <2>4. shelf[h].at >= shelf[b].at
    BY <2>1, <1>2, <1>8
  <2>5. shelf[a].at \in Nat /\ shelf[b].at \in Nat /\ shelf[h].at \in Nat
    BY <1>1, <1>8, <2>1
  <2>6. ~(shelf[h].at - shelf[a].at <= Gap)
    BY <2>3, <2>4, <2>5, <1>8
  <2>7. Head(<<shelf[h]>>) = shelf[h]
    OBVIOUS
  <2> QED
    BY <2>6, <2>7 DEF Fits
<1>11. OneSpan(a, b)
  BY <1>0, <1>8, <1>9, <1>10 DEF OneSpan
<1>12. here \subseteq a..b
  BY <1>0, <1>3, <1>7, <1>8
<1> QED
  BY <1>11, <1>12 DEF here

\* A quick run that is alone is one entry of the history.
LEMMA RunsAreEntries == ASSUME EvalInv PROVE OneRunOneEntry
<1> SUFFICES ASSUME NEW e \in Eval, Quick(e), Alone(e)
             PROVE  \E g \in DOMAIN History : \A i \in Places(e) : shelf[i] \in ToSet(History[g])
  BY DEF OneRunOneEntry
<1>1. PICK T : HistoryOf(T) /\ T[Len(shelf)] = History
  BY HistoryGoesOn
<1>2. PICK a, b : OneSpan(a, b) /\ Places(e) \subseteq a..b
  BY RunIsOneSpan
<1> DEFINE n == Len(shelf)
           Bad == {k \in 0..n : ~Gathers(T[k], k, a, b)}
<1>3. n \in Nat /\ DOMAIN shelf = 1..n /\ a \in 1..n /\ b \in 1..n
  BY <1>2 DEF EvalInv, EvalTypes, OneSpan
<1>4. /\ T[0] = <<>> /\ (\A k \in 0..n : T[k] \in Groups) /\ \A k \in 1..n : T[k] = Joins(T[k - 1], shelf[k])
  BY <1>1 DEF HistoryOf
<1>5. Bad = {}
  <2> SUFFICES ASSUME Bad # {} PROVE FALSE
    OBVIOUS
  <2>1. PICK k \in Bad : \A j \in Bad : k <= j
    <3>1. Bad \in SUBSET Nat
      BY <1>3
    <3> HIDE DEF Bad
    <3> QED
      BY <3>1, LeastExists
  <2>2. k # 0
    <3>1. Gathers(T[0], 0, a, b)
      BY <1>3 DEF Gathers
    <3> QED
      BY <3>1
  <2>3. k \in 1..n /\ k - 1 \in 0..n /\ k - 1 < k
    BY <1>3, <2>2
  <2>4. Gathers(T[k - 1], k - 1, a, b)
    BY <2>1, <2>3
  <2>5. k = 1 => T[k - 1] = <<>>
    BY <1>4
  <2>6. T[k - 1] \in Groups
    BY <2>3, <1>4
  <2>7. Gathers(Joins(T[k - 1], shelf[k]), k, a, b)
    <3> HIDE DEF Bad
    <3>1. k \in 1..Len(shelf)
      BY <2>3
    <3> QED
      BY <3>1, <2>4, <2>5, <2>6, <1>2, JoinsGather
  <2>8. Gathers(T[k], k, a, b)
    BY <2>3, <2>7, <1>4
  <2> QED
    BY <2>8
<1>6. Gathers(History, n, a, b)
  <2>1. n \in 0..n
    BY <1>3
  <2> QED
    BY <1>1, <1>5, <2>1
<1>7. PICK g \in DOMAIN History : \A i \in a..b : shelf[i] \in ToSet(History[g])
  <2>1. b <= n
    BY <1>3
  <2> QED
    BY <2>1, <1>6 DEF Gathers
<1> QED
  BY <1>2, <1>7

\* An evaluation that is finished has released its server and has all its marks, and
\* the history shows its rows as they were made, a quick run as one entry (eval.rs).
THEOREM EvaluationsAreTrue == EvalSpec => []EvaluationIsTrue
<1>1. EvalInit => EvalInv
  BY InitEval
<1>2. EvalInv /\ [EvalNext]_evalVars => EvalInv'
  BY EvalKept
<1>3. EvalInv => EvaluationIsTrue
  BY EvalInvTypes, EvalInvHolds, HistoryIsTidy, RunsAreEntries DEF EvaluationIsTrue
<1> QED
  BY <1>1, <1>2, <1>3, PTL DEF EvalSpec

-----------------------------------------------------------------------------
(* Sums, and marks. *)

\* Larger numbers have a larger sum, and an equal one only if they are equal.
LEMMA TotalsCompare ==
  ASSUME NEW n \in Nat, NEW s \in [1..n -> Int], NEW t \in [1..n -> Int], \A i \in 1..n : s[i] <= t[i]
  PROVE  /\ Total(s) \in Int /\ Total(t) \in Int /\ Total(s) <= Total(t)
         /\ Total(s) = Total(t) => \A i \in 1..n : s[i] = t[i]
<1>1. PICK S : Sums(S, s, n) /\ S[n] = Total(s)
  BY TotalSums
<1>2. PICK T : Sums(T, t, n) /\ T[n] = Total(t)
  BY TotalSums
<1> DEFINE Fine(k) == S[k] <= T[k] /\ (S[k] = T[k] => \A i \in 1..k : s[i] = t[i])
           Bad == {k \in 0..n : ~Fine(k)}
<1>3. Bad = {}
  <2> SUFFICES ASSUME Bad # {} PROVE FALSE
    OBVIOUS
  <2>1. PICK k \in Bad : \A j \in Bad : k <= j
    <3>1. Bad \in SUBSET Nat
      OBVIOUS
    <3> HIDE DEF Bad
    <3> QED
      BY <3>1, LeastExists
  <2>2. k # 0
    <3>1. S[0] = 0 /\ T[0] = 0
      BY <1>1, <1>2 DEF Sums
    <3>2. Fine(0)
      BY <3>1
    <3> QED
      BY <3>2
  <2>3. k \in 1..n /\ k - 1 \in 0..n /\ k - 1 < k
    BY <2>2
  <2>4. Fine(k - 1)
    <3> HIDE DEF Fine
    <3> QED
      BY <2>1, <2>3
  <2>5. S[k] = S[k - 1] + s[k] /\ T[k] = T[k - 1] + t[k]
    BY <2>3, <1>1, <1>2 DEF Sums
  <2>6. S[k - 1] \in Int /\ T[k - 1] \in Int /\ s[k] \in Int /\ t[k] \in Int /\ s[k] <= t[k]
    BY <2>3, <1>1, <1>2 DEF Sums
  <2>7. S[k] <= T[k] /\ (S[k] = T[k] => S[k - 1] = T[k - 1] /\ s[k] = t[k])
    BY <2>4, <2>5, <2>6
  <2>8. \A i \in 1..k : i \in 1..(k - 1) \/ i = k
    BY <2>3
  <2>9. Fine(k)
    BY <2>4, <2>7, <2>8
  <2> QED
    BY <2>9
<1>4. n \in 0..n
  OBVIOUS
<1>5. Fine(n)
  <2> HIDE DEF Fine
  <2> QED
    BY <1>3, <1>4
<1>6. S[n] \in Int /\ T[n] \in Int
  BY <1>1, <1>2, <1>4 DEF Sums
<1> QED
  BY <1>1, <1>2, <1>5, <1>6

\* One number changes.
LEMMA TotalDiffers ==
  ASSUME NEW n \in Nat, NEW s \in [1..n -> Int], NEW t \in [1..n -> Int], NEW j \in 1..n,
         \A i \in 1..n : i # j => t[i] = s[i]
  PROVE  Total(t) = Total(s) + t[j] - s[j]
<1>1. PICK S : Sums(S, s, n) /\ S[n] = Total(s)
  BY TotalSums
<1> DEFINE T == [k \in 0..n |-> IF k < j THEN S[k] ELSE S[k] + t[j] - s[j]]
<1>2. \A k \in 0..n : S[k] \in Int
  BY <1>1 DEF Sums
<1>3. t[j] \in Int /\ s[j] \in Int /\ j \in Nat
  OBVIOUS
<1>4. T \in [0..n -> Int]
  BY <1>2, <1>3
<1>5. T[0] = 0
  BY <1>1 DEF Sums
<1>6. ASSUME NEW k \in 1..n PROVE T[k] = T[k - 1] + t[k]
  <2>1. k - 1 \in 0..n /\ k \in 0..n /\ S[k] = S[k - 1] + s[k] /\ S[k - 1] \in Int /\ S[k] \in Int
    BY <1>1, <1>2 DEF Sums
  <2>2. s[k] \in Int /\ t[k] \in Int
    OBVIOUS
  <2>3. CASE k < j
    <3>1. T[k] = S[k] /\ T[k - 1] = S[k - 1] /\ t[k] = s[k]
      BY <2>1, <2>3, <1>3
    <3> QED
      BY <2>1, <3>1
  <2>4. CASE k = j
    <3>1. T[k] = S[k] + t[j] - s[j] /\ T[k - 1] = S[k - 1]
      BY <2>1, <2>4, <1>3
    <3> QED
      BY <2>1, <2>2, <2>4, <3>1
  <2>5. CASE k > j
    <3>1. T[k] = S[k] + t[j] - s[j] /\ T[k - 1] = S[k - 1] + t[j] - s[j] /\ t[k] = s[k]
      BY <2>1, <2>5, <1>3
    <3> QED
      BY <2>1, <2>2, <3>1, <1>3
  <2> QED
    BY <1>3, <2>3, <2>4, <2>5
<1> HIDE DEF T
<1>7. Sums(T, t, n)
  BY <1>4, <1>5, <1>6 DEF Sums
<1>8. Total(t) = T[n]
  BY <1>7, TotalIsSum
<1>9. n \in 0..n /\ ~(n < j)
  OBVIOUS
<1> QED
  BY <1>1, <1>8, <1>9 DEF T

\* Nothing but zeros sums up to zero.
LEMMA TotalOfZeros ==
  ASSUME NEW n \in Nat, NEW s \in [1..n -> Int], \A i \in 1..n : s[i] = 0
  PROVE  Total(s) = 0
<1> DEFINE T == [k \in 0..n |-> 0]
<1>1. \A k \in 1..n : k - 1 \in 0..n /\ k \in 0..n
  OBVIOUS
<1>2. Sums(T, s, n) /\ T[n] = 0
  BY <1>1 DEF Sums
<1> HIDE DEF T
<1> QED
  BY <1>2, TotalIsSum

\* An answer that was marked.
MarkedInv ==
  marked # NoMark =>
    /\ marked.weights \in Seq(Nat) /\ Scorable(marked.weights)
    /\ marked.found \subseteq DOMAIN marked.weights
    /\ marked.mark = KeywordMark(marked.weights, marked.found)

\* The mark is a share, and full, or nothing, for everything that counts, or nothing of it.
IsShare(weights, found, mark) ==
  /\ mark \in 0..100
  /\ Total(weights) < 200 =>
       /\ mark = 100 <=> \A i \in DOMAIN weights : weights[i] > 0 => i \in found
       /\ mark = 0 <=> \A i \in DOMAIN weights : i \in found => weights[i] = 0

\* A mark is between 0 and 100, and full, or nothing, only when it is earned.
LEMMA MarkIsShare ==
  ASSUME NEW weights \in Seq(Nat), Scorable(weights), NEW found
  PROVE  IsShare(weights, found, KeywordMark(weights, found))
<1> DEFINE n == Len(weights)
           part == [i \in DOMAIN weights |-> IF i \in found THEN weights[i] ELSE 0]
           t == Total(weights)
           e == Total(part)
           mark == KeywordMark(weights, found)
<1>1. n \in Nat /\ DOMAIN weights = 1..n /\ weights \in [1..n -> Nat] /\ weights \in [1..n -> Int]
  OBVIOUS
<1>2. part \in [1..n -> Nat] /\ part \in [1..n -> Int]
  BY <1>1
<1>3. \A i \in 1..n : part[i] = (IF i \in found THEN weights[i] ELSE 0) /\ part[i] <= weights[i] /\ weights[i] \in Nat
  BY <1>1
<1>4. mark = IF t = 0 THEN 0 ELSE (200 * e + t) \div (2 * t)
  BY DEF KeywordMark
<1>5. PICK j \in 1..n : weights[j] > 0
  BY <1>1 DEF Scorable
<1> HIDE DEF n, part, mark, t, e
<1>6. t \in Nat /\ e \in Nat
  BY <1>1, <1>2, TotalIsNat DEF t, e
<1>7. e <= t /\ (e = t => \A i \in 1..n : part[i] = weights[i])
  BY <1>1, <1>2, <1>3, TotalsCompare DEF t, e
<1> DEFINE zero == [i \in 1..n |-> 0]
<1>8. zero \in [1..n -> Int] /\ \A i \in 1..n : zero[i] = 0
  OBVIOUS
<1> HIDE DEF zero
<1>9. Total(zero) = 0
  BY <1>1, <1>8, TotalOfZeros
<1>10. e = 0 => \A i \in 1..n : part[i] = 0
  <2>1. \A i \in 1..n : zero[i] <= part[i]
    BY <1>2, <1>8
  <2> QED
    BY <1>1, <1>2, <1>8, <1>9, <2>1, TotalsCompare DEF e
<1>11. t # 0
  <2> SUFFICES ASSUME t = 0 PROVE FALSE
    OBVIOUS
  <2>1. \A i \in 1..n : zero[i] <= weights[i]
    BY <1>1, <1>8
  <2>2. \A i \in 1..n : zero[i] = weights[i]
    BY <1>1, <1>8, <1>9, <2>1, TotalsCompare DEF t
  <2> QED
    BY <2>2, <1>5, <1>8
<1>12. (\A i \in 1..n : part[i] = weights[i]) => e = t
  <2> SUFFICES ASSUME \A i \in 1..n : part[i] = weights[i] PROVE e = t
    OBVIOUS
  <2>1. part = weights
    BY <1>1, <1>2
  <2> QED
    BY <2>1 DEF e, t
<1>13. (\A i \in 1..n : part[i] = 0) => e = 0
  BY <1>1, <1>2, TotalOfZeros DEF e
<1>14. mark = (200 * e + t) \div (2 * t)
  BY <1>4, <1>11
<1>15. mark \in Nat /\ 2 * t * mark <= 200 * e + t /\ 200 * e + t < 2 * t * mark + 2 * t
  <2> DEFINE x == 200 * e + t
             y == 2 * t
  <2>1. x \in Nat /\ y \in Nat /\ y > 0
    BY <1>6, <1>11
  <2>2. mark = x \div y
    BY <1>14
  <2> HIDE DEF x, y
  <2>3. mark \in Nat /\ y * mark <= x /\ x < y * mark + y
    BY <2>1, <2>2
  <2> QED
    BY <2>3 DEF x, y
<1>16. mark <= 100
  <2> SUFFICES ASSUME mark >= 101 PROVE FALSE
    BY <1>15
  <2>1. 2 * t * mark >= 2 * t * 101
    BY <1>6, <1>15
  <2> QED
    BY <2>1, <1>6, <1>7, <1>11, <1>15
<1>17. ASSUME t < 200 PROVE (mark = 100 <=> e = t) /\ (mark = 0 <=> e = 0)
  <2>1. ASSUME mark = 100 PROVE e = t
    <3>1. 2 * t * mark = 200 * t
      BY <2>1, <1>6
    <3>2. 200 * t <= 200 * e + t
      BY <3>1, <1>15
    <3> QED
      BY <3>2, <1>6, <1>7, <1>17
  <2>2. ASSUME e = t PROVE mark = 100
    <3>1. ASSUME mark <= 99 PROVE FALSE
      <4>1. 2 * t * mark <= 2 * t * 99
        BY <3>1, <1>6, <1>15
      <4> QED
        BY <4>1, <2>2, <1>6, <1>11, <1>15
    <3> QED
      BY <3>1, <1>15, <1>16
  <2>3. ASSUME mark = 0 PROVE e = 0
    <3>1. 2 * t * mark = 0
      BY <2>3, <1>6
    <3> QED
      BY <3>1, <1>6, <1>15, <1>17
  <2>4. ASSUME e = 0 PROVE mark = 0
    <3>1. ASSUME mark >= 1 PROVE FALSE
      <4>1. 2 * t * mark >= 2 * t
        BY <3>1, <1>6, <1>15
      <4> QED
        BY <4>1, <2>4, <1>6, <1>11, <1>15
    <3> QED
      BY <3>1, <1>15
  <2> QED
    BY <2>1, <2>2, <2>3, <2>4
<1>18. e = t <=> \A i \in 1..n : weights[i] > 0 => i \in found
  BY <1>3, <1>7, <1>12
<1>19. e = 0 <=> \A i \in 1..n : i \in found => weights[i] = 0
  BY <1>3, <1>10, <1>13
<1>20. DOMAIN weights = 1..n
  BY <1>1
<1>21. mark \in 0..100
  BY <1>15, <1>16
<1>22. t < 200 => /\ mark = 100 <=> \A i \in 1..n : weights[i] > 0 => i \in found
                  /\ mark = 0 <=> \A i \in 1..n : i \in found => weights[i] = 0
  BY <1>17, <1>18, <1>19
<1> QED
  BY <1>20, <1>21, <1>22 DEF mark, t, IsShare

-----------------------------------------------------------------------------
(* Texts. *)

Piece == [what : Int, length : Nat]
Text == Seq(Piece)
LengthSums(T, t) ==
  T \in [0..Len(t) -> Nat] /\ T[0] = 0 /\ \A k \in 1..Len(t) : T[k] = T[k - 1] + t[k].length

\* The pieces of a text.
LEMMA PiecesOfText ==
  ASSUME NEW t \in Text
  PROVE  /\ Len(t) \in Nat /\ DOMAIN t = 1..Len(t)
         /\ \A k \in 1..Len(t) : t[k] \in Piece /\ t[k].length \in Nat /\ t[k].what \in Int
<1>1. Len(t) \in Nat /\ DOMAIN t = 1..Len(t) /\ \A k \in 1..Len(t) : t[k] \in Piece
  BY DEF Text
<1>2. \A c \in Piece : c.length \in Nat /\ c.what \in Int
  BY DEF Piece
<1> QED
  BY <1>1, <1>2

\* A text is as long as its pieces together.
LEMMA LengthsAreSums ==
  ASSUME NEW t \in Text
  PROVE  \E T : LengthSums(T, t) /\ T[Len(t)] = Lengths(t)
<1> DEFINE n == Len(t)
           s == [i \in DOMAIN t |-> t[i].length]
<1>1. n \in Nat /\ DOMAIN t = 1..n /\ \A k \in 1..n : t[k].length \in Nat
  BY PiecesOfText
<1>2. s \in [1..n -> Nat] /\ s \in [1..n -> Int] /\ \A k \in 1..n : s[k] = t[k].length
  BY <1>1
<1>3. Lengths(t) = Total(s)
  BY DEF Lengths
<1> HIDE DEF s, n
<1>4. PICK T : Sums(T, s, n) /\ T[n] = Total(s)
  BY <1>1, <1>2, TotalSums
<1> DEFINE Bad == {k \in 0..n : T[k] \notin Nat}
<1>5. Bad = {}
  <2> SUFFICES ASSUME Bad # {} PROVE FALSE
    OBVIOUS
  <2>1. PICK k \in Bad : \A j \in Bad : k <= j
    <3>1. Bad \in SUBSET Nat
      BY <1>1
    <3> HIDE DEF Bad
    <3> QED
      BY <3>1, LeastExists
  <2>2. k # 0
    BY <1>4 DEF Sums
  <2>3. k \in 1..n /\ k - 1 \in 0..n /\ k - 1 < k
    BY <2>2, <1>1
  <2>4. T[k - 1] \in Nat
    BY <2>1, <2>3
  <2>5. T[k] = T[k - 1] + s[k]
    BY <2>3, <1>4 DEF Sums
  <2> QED
    BY <2>3, <2>4, <2>5, <1>2
<1>6. T \in [0..n -> Nat]
  BY <1>4, <1>5 DEF Sums
<1>7. LengthSums(T, t)
  BY <1>2, <1>4, <1>6 DEF Sums, LengthSums, n
<1> QED
  BY <1>3, <1>4, <1>7 DEF n

\* The lengths of the beginnings of a text determine its own.
LEMMA LengthsIsSum ==
  ASSUME NEW t \in Text, NEW T, LengthSums(T, t)
  PROVE  Lengths(t) = T[Len(t)] /\ Lengths(t) \in Nat
<1> DEFINE n == Len(t)
           s == [i \in DOMAIN t |-> t[i].length]
<1>1. n \in Nat /\ DOMAIN t = 1..n /\ \A k \in 1..n : t[k].length \in Nat
  BY PiecesOfText
<1>2. s \in [1..n -> Int] /\ \A k \in 1..n : s[k] = t[k].length
  BY <1>1
<1>3. Lengths(t) = Total(s)
  BY DEF Lengths
<1>4. Sums(T, s, n)
  BY <1>2 DEF Sums, LengthSums
<1> HIDE DEF s
<1>5. Total(s) = T[n]
  BY <1>1, <1>2, <1>4, TotalIsSum
<1>6. T[n] \in Nat
  BY <1>1 DEF LengthSums
<1> QED
  BY <1>3, <1>5, <1>6

\* The length of a text that is put behind another one adds to the length of that.
LEMMA LengthsAdd ==
  ASSUME NEW a \in Text, NEW b \in Text
  PROVE  /\ a \o b \in Text /\ Lengths(a) \in Nat /\ Lengths(b) \in Nat
         /\ Lengths(a \o b) = Lengths(a) + Lengths(b)
<1> DEFINE n == Len(a)
           m == Len(b)
           t == a \o b
<1>1. PICK A : LengthSums(A, a) /\ A[n] = Lengths(a)
  BY LengthsAreSums
<1>2. PICK B : LengthSums(B, b) /\ B[m] = Lengths(b)
  BY LengthsAreSums
<1>3. n \in Nat /\ m \in Nat
  BY DEF Text
<1>4. t \in Text /\ Len(t) = n + m /\ \A i \in 1..(n + m) : t[i] = IF i <= n THEN a[i] ELSE b[i - n]
  BY ConcatProperties DEF Text
<1> HIDE DEF t
<1> DEFINE T == [k \in 0..(n + m) |-> IF k <= n THEN A[k] ELSE A[n] + B[k - n]]
<1>5. A \in [0..n -> Nat] /\ B \in [0..m -> Nat] /\ B[0] = 0 /\ A[0] = 0
  BY <1>1, <1>2 DEF LengthSums
<1> HIDE DEF n, m
<1>6. T \in [0..(n + m) -> Nat] /\ T[0] = 0 /\ T[n + m] = A[n] + B[m]
  <2>1. ASSUME NEW k \in 0..(n + m) PROVE T[k] \in Nat
    <3>1. CASE k <= n
      BY <3>1, <1>3, <1>5
    <3>2. CASE k > n
      <4>1. k - n \in 0..m /\ n \in 0..n
        BY <3>2, <1>3
      <4>2. B[k - n] \in Nat /\ A[n] \in Nat
        BY <4>1, <1>5
      <4> QED
        BY <3>2, <4>2, <1>3
    <3> QED
      BY <3>1, <3>2, <1>3
  <2>2. T[0] = 0
    BY <1>3, <1>5
  <2>3. T[n + m] = A[n] + B[m]
    <3>1. n \in 0..n /\ A[n] \in Nat
      BY <1>3, <1>5
    <3>2. CASE m = 0
      BY <3>1, <3>2, <1>3, <1>5
    <3>3. CASE m # 0
      <4> DEFINE k == n + m
      <4>1. ~(k <= n) /\ k - n = m /\ k \in 0..(n + m)
        BY <3>3, <1>3
      <4>2. T[k] = A[n] + B[k - n]
        <5> HIDE DEF k
        <5> QED
          BY <4>1
      <4>3. T[k] = A[n] + B[m]
        BY <4>1, <4>2
      <4> QED
        BY <4>3
    <3> QED
      BY <3>2, <3>3
  <2> QED
    BY <2>1, <2>2, <2>3
<1>7. ASSUME NEW k \in 1..(n + m) PROVE T[k] = T[k - 1] + t[k].length
  <2>1. CASE k <= n
    <3>1. k \in 1..n /\ k - 1 <= n /\ k - 1 \in 0..(n + m) /\ k \in 0..(n + m)
      BY <2>1, <1>3
    <3>2. A[k] = A[k - 1] + a[k].length
      BY <3>1, <1>1 DEF LengthSums, n
    <3>3. T[k] = A[k] /\ T[k - 1] = A[k - 1] /\ t[k] = a[k]
      BY <2>1, <3>1, <1>4
    <3> QED
      BY <3>2, <3>3
  <2>2. CASE k > n
    <3>1. k - n \in 1..m /\ k - n - 1 \in 0..m /\ k - n \in 0..m /\ k - 1 \in 0..(n + m) /\ k \in 0..(n + m) /\ n \in 0..n
      BY <2>2, <1>3
    <3>2. B[k - n] = B[k - n - 1] + b[k - n].length
      BY <3>1, <1>2 DEF LengthSums, m
    <3>3. t[k] = b[k - n] /\ T[k] = A[n] + B[k - n]
      BY <2>2, <3>1, <1>3, <1>4
    <3>4. T[k - 1] = A[n] + B[k - n - 1]
      <4>1. CASE k - 1 = n
        <5>1. T[k - 1] = A[n] /\ k - n - 1 = 0 /\ A[n] \in Nat
          BY <4>1, <3>1, <1>3, <1>5
        <5> QED
          BY <5>1, <1>5
      <4>2. CASE k - 1 > n
        <5>1. k - 1 - n = k - n - 1 /\ ~(k - 1 <= n)
          BY <4>2, <1>3
        <5> QED
          BY <5>1, <3>1
      <4> QED
        BY <4>1, <4>2, <2>2, <1>3
    <3>5. B[k - n - 1] \in Nat /\ A[n] \in Nat
      BY <3>1, <1>5
    <3>6. b[k - n].length \in Nat
      BY <3>1, PiecesOfText DEF m
    <3> HIDE DEF T
    <3> QED
      BY <3>2, <3>3, <3>4, <3>5, <3>6
  <2> QED
    BY <2>1, <2>2, <1>3
<1>8. LengthSums(T, t)
  BY <1>4, <1>6, <1>7 DEF LengthSums
<1> HIDE DEF T
<1>9. Lengths(t) = T[n + m] /\ Lengths(a) \in Nat /\ Lengths(b) \in Nat
  BY <1>4, <1>8, <1>1, <1>2, LengthsIsSum
<1>10. Lengths(t) = Lengths(a) + Lengths(b)
  BY <1>1, <1>2, <1>6, <1>9 DEF n, m
<1> QED
  BY <1>4, <1>9, <1>10 DEF t

\* Nothing has no length, one piece has its own.
LEMMA LengthsOfFew ==
  /\ <<>> \in Text /\ Lengths(<<>>) = 0
  /\ \A c \in Piece : <<c>> \in Text /\ Lengths(<<c>>) = c.length
<1>1. <<>> \in Text /\ Lengths(<<>>) = 0
  <2> DEFINE T == [k \in 0..0 |-> 0]
             none == <<>>
  <2>1. none \in Text /\ Len(none) = 0
    BY DEF Text
  <2>2. LengthSums(T, none) /\ T[0] = 0
    BY <2>1 DEF LengthSums
  <2> HIDE DEF T, none
  <2>3. Lengths(none) = 0
    BY <2>1, <2>2, LengthsIsSum
  <2> QED
    BY <2>1, <2>3 DEF none
<1>2. ASSUME NEW c \in Piece PROVE <<c>> \in Text /\ Lengths(<<c>>) = c.length
  <2> DEFINE t == <<c>>
             T == [k \in 0..1 |-> IF k = 0 THEN 0 ELSE c.length]
  <2>1. t \in Text /\ Len(t) = 1 /\ t[1] = c
    BY DEF Text
  <2>2. c.length \in Nat
    BY DEF Piece
  <2> HIDE DEF t
  <2>3. T \in [0..1 -> Nat] /\ T[0] = 0 /\ T[1] = c.length
    BY <2>2
  <2> HIDE DEF T
  <2>4. \A k \in 1..1 : T[k] = T[k - 1] + t[k].length
    BY <2>1, <2>2, <2>3
  <2>5. LengthSums(T, t)
    BY <2>1, <2>3, <2>4 DEF LengthSums
  <2>6. Lengths(t) = c.length
    BY <2>1, <2>3, <2>5, LengthsIsSum
  <2> QED
    BY <2>1, <2>6 DEF t
<1> QED
  BY <1>1, <1>2

\* A text read from its end.
LEMMA ReverseOfText ==
  ASSUME NEW t \in Text
  PROVE  /\ Reverse(t) \in Text /\ Len(Reverse(t)) = Len(t)
         /\ \A i \in 1..Len(t) : Reverse(t)[i] = t[Len(t) - i + 1]
<1> DEFINE n == Len(t)
<1>1. n \in Nat /\ \A k \in 1..n : t[k] \in Piece
  BY PiecesOfText
<1>2. Reverse(t) = [i \in 1..n |-> t[n - i + 1]]
  BY DEF Reverse
<1> HIDE DEF n
<1>3. \A i \in 1..n : n - i + 1 \in 1..n
  BY <1>1
<1>4. Reverse(t) \in [1..n -> Piece] /\ \A i \in 1..n : Reverse(t)[i] = t[n - i + 1]
  BY <1>1, <1>2, <1>3
<1>5. Reverse(t) \in Seq(Piece) /\ Len(Reverse(t)) = n
  BY <1>1, <1>4, FunctionIsSeq
<1> QED
  BY <1>4, <1>5 DEF n, Text

\* The reversal of a text is as long.
LEMMA LengthsOfReverse ==
  ASSUME NEW t \in Text
  PROVE  Lengths(Reverse(t)) = Lengths(t)
<1> DEFINE n == Len(t)
           r == Reverse(t)
<1>1. PICK T : LengthSums(T, t) /\ T[n] = Lengths(t)
  BY LengthsAreSums
<1>2. n \in Nat /\ r \in Text /\ Len(r) = n /\ \A i \in 1..n : r[i] = t[n - i + 1]
  BY ReverseOfText, PiecesOfText
<1>3. PICK S : LengthSums(S, r) /\ S[n] = Lengths(r)
  BY <1>2, LengthsAreSums
<1>4. /\ T \in [0..n -> Nat] /\ T[0] = 0 /\ S \in [0..n -> Nat] /\ S[0] = 0
      /\ \A k \in 1..n : T[k] = T[k - 1] + t[k].length
      /\ \A k \in 1..n : S[k] = S[k - 1] + r[k].length
  BY <1>1, <1>2, <1>3 DEF LengthSums
<1>5. \A k \in 1..n : t[k].length \in Nat
  BY PiecesOfText
<1> HIDE DEF n, r
<1> DEFINE Bad == {k \in 0..n : S[k] # T[n] - T[n - k]}
<1>6. Bad = {}
  <2> SUFFICES ASSUME Bad # {} PROVE FALSE
    OBVIOUS
  <2>1. PICK k \in Bad : \A j \in Bad : k <= j
    <3>1. Bad \in SUBSET Nat
      BY <1>2
    <3> HIDE DEF Bad
    <3> QED
      BY <3>1, LeastExists
  <2>2. k # 0
    <3>1. n - 0 = n /\ n \in 0..n /\ T[n] \in Nat
      BY <1>2, <1>4
    <3>2. S[0] = T[n] - T[n - 0]
      BY <3>1, <1>4
    <3> QED
      BY <3>2
  <2>3. k \in 1..n /\ k - 1 \in 0..n /\ k - 1 < k /\ n - k + 1 \in 1..n /\ n - k \in 0..n
    BY <2>2, <1>2
  <2>4. S[k - 1] = T[n] - T[n - (k - 1)]
    BY <2>1, <2>3
  <2>5. n - (k - 1) = n - k + 1 /\ n - k + 1 - 1 = n - k
    BY <2>3, <1>2
  <2>6. S[k] = S[k - 1] + t[n - k + 1].length
    BY <2>3, <1>2, <1>4
  <2>7. T[n - k + 1] = T[n - k] + t[n - k + 1].length
    BY <2>3, <2>5, <1>4
  <2>8. t[n - k + 1].length \in Nat /\ T[n - k] \in Nat
    BY <2>3, <1>4, <1>5
  <2>9. T[n] \in Nat
    BY <1>2, <1>4
  <2>10. S[k] = T[n] - T[n - k]
    BY <2>4, <2>5, <2>6, <2>7, <2>8, <2>9
  <2> QED
    BY <2>10
<1>7. n \in 0..n /\ n - n = 0
  BY <1>2
<1>8. S[n] = T[n] - T[n - n]
  BY <1>6, <1>7
<1>9. T[n] \in Nat
  BY <1>4, <1>7
<1>10. S[n] = T[n]
  BY <1>4, <1>7, <1>8, <1>9
<1> QED
  BY <1>1, <1>3, <1>10 DEF r

\* Reversing twice, and reversing a text of a first piece and the rest.
LEMMA ReverseTwice ==
  ASSUME NEW t \in Text
  PROVE  Reverse(Reverse(t)) = t
<1> DEFINE r == Reverse(t)
           n == Len(t)
<1>1. n \in Nat /\ r \in Text /\ Len(r) = n /\ \A i \in 1..n : r[i] = t[n - i + 1]
  BY ReverseOfText, PiecesOfText
<1> HIDE DEF r
<1>2. Reverse(r) \in Text /\ Len(Reverse(r)) = n /\ \A i \in 1..n : Reverse(r)[i] = r[n - i + 1]
  BY <1>1, ReverseOfText
<1>3. \A i \in 1..n : n - i + 1 \in 1..n /\ n - (n - i + 1) + 1 = i
  BY <1>1
<1>4. \A i \in 1..n : Reverse(r)[i] = t[i]
  BY <1>1, <1>2, <1>3
<1>5. Reverse(r) = t
  BY <1>1, <1>2, <1>4, SeqEqual DEF Text, n
<1> QED
  BY <1>5 DEF r

\* A piece before a text, and behind one.
LEMMA PutFirst ==
  ASSUME NEW c \in Piece, NEW t \in Text
  PROVE  /\ <<c>> \o t \in Text /\ Len(<<c>> \o t) = Len(t) + 1 /\ (<<c>> \o t)[1] = c
         /\ \A i \in 1..Len(t) : (<<c>> \o t)[i + 1] = t[i]
<1> DEFINE n == Len(t)
           one == <<c>>
           a == one \o t
<1>1. n \in Nat
  BY PiecesOfText
<1>2. one \in Text /\ Len(one) = 1 /\ one[1] = c
  BY LengthsOfFew
<1> HIDE DEF one
<1>3. a \in Text /\ Len(a) = 1 + n /\ \A i \in 1..(1 + n) : a[i] = IF i <= 1 THEN one[i] ELSE t[i - 1]
  <2> DEFINE m == Len(one)
  <2>1. a \in Text /\ Len(a) = m + n /\ \A i \in 1..(m + n) : a[i] = IF i <= m THEN one[i] ELSE t[i - m]
    BY <1>2, ConcatProperties DEF Text
  <2>2. m = 1
    BY <1>2
  <2> HIDE DEF m
  <2> QED
    BY <2>1, <2>2
<1> HIDE DEF a, n
<1>4. a[1] = c
  BY <1>1, <1>2, <1>3
<1>5. ASSUME NEW i \in 1..n PROVE a[i + 1] = t[i]
  <2>1. i + 1 \in 1..(1 + n) /\ ~(i + 1 <= 1) /\ i + 1 - 1 = i
    BY <1>1
  <2>2. a[i + 1] = t[i + 1 - 1]
    BY <2>1, <1>3
  <2> QED
    BY <2>1, <2>2
<1>6. 1 + n = n + 1
  BY <1>1
<1> QED
  BY <1>3, <1>4, <1>5, <1>6 DEF a, n, one

\* A text with a piece put behind it.
LEMMA PutLast ==
  ASSUME NEW c \in Piece, NEW t \in Text
  PROVE  /\ t \o <<c>> \in Text /\ Len(t \o <<c>>) = Len(t) + 1 /\ (t \o <<c>>)[Len(t) + 1] = c
         /\ \A i \in 1..Len(t) : (t \o <<c>>)[i] = t[i]
<1> DEFINE n == Len(t)
           one == <<c>>
           b == t \o one
<1>1. n \in Nat
  BY PiecesOfText
<1>2. one \in Text /\ Len(one) = 1 /\ one[1] = c
  BY LengthsOfFew
<1> HIDE DEF one
<1>3. b \in Text /\ Len(b) = n + 1 /\ \A i \in 1..(n + 1) : b[i] = IF i <= n THEN t[i] ELSE one[i - n]
  <2> DEFINE m == Len(one)
  <2>1. b \in Text /\ Len(b) = n + m /\ \A i \in 1..(n + m) : b[i] = IF i <= n THEN t[i] ELSE one[i - n]
    BY <1>2, ConcatProperties DEF Text
  <2>2. m = 1
    BY <1>2
  <2> HIDE DEF m
  <2> QED
    BY <2>1, <2>2
<1> HIDE DEF b, n
<1>4. b[n + 1] = c
  <2> DEFINE k == n + 1
  <2>1. k \in 1..(n + 1) /\ ~(k <= n) /\ k - n = 1
    BY <1>1
  <2> HIDE DEF k
  <2>2. b[k] = one[k - n]
    BY <2>1, <1>3
  <2>3. b[k] = c
    BY <2>1, <2>2, <1>2
  <2> QED
    BY <2>3 DEF k
<1>5. \A i \in 1..n : b[i] = t[i]
  BY <1>1, <1>3
<1> QED
  BY <1>3, <1>4, <1>5 DEF b, n, one

\* Reversed, a first piece is the last and a last piece the first.
LEMMA ReverseOfFirst ==
  ASSUME NEW c \in Piece, NEW t \in Text
  PROVE  Reverse(<<c>> \o t) = Reverse(t) \o <<c>>
<1> DEFINE n == Len(t)
           r == Reverse(t)
           a == <<c>> \o t
           x == r \o <<c>>
<1>1. n \in Nat /\ r \in Text /\ Len(r) = n /\ \A i \in 1..n : r[i] = t[n - i + 1]
  BY ReverseOfText, PiecesOfText
<1> HIDE DEF r
<1>2. a \in Text /\ Len(a) = n + 1 /\ a[1] = c /\ \A i \in 1..n : a[i + 1] = t[i]
  BY PutFirst
<1>3. x \in Text /\ Len(x) = n + 1 /\ x[n + 1] = c /\ \A i \in 1..n : x[i] = r[i]
  BY <1>1, PutLast
<1> HIDE DEF a, x, n
<1>4. Reverse(a) \in Text /\ Len(Reverse(a)) = n + 1 /\ \A i \in 1..(n + 1) : Reverse(a)[i] = a[n + 1 - i + 1]
  <2> DEFINE m == Len(a)
  <2>1. Reverse(a) \in Text /\ Len(Reverse(a)) = m /\ \A i \in 1..m : Reverse(a)[i] = a[m - i + 1]
    BY <1>2, ReverseOfText
  <2>2. m = n + 1
    BY <1>2
  <2> HIDE DEF m
  <2> QED
    BY <2>1, <2>2, <1>1
<1>5. ASSUME NEW i \in 1..(n + 1) PROVE Reverse(a)[i] = x[i]
  <2>1. CASE i = n + 1
    <3>1. n + 1 - i + 1 = 1
      BY <2>1, <1>1
    <3> QED
      BY <2>1, <3>1, <1>2, <1>3, <1>4
  <2>2. CASE i # n + 1
    <3> DEFINE j == n - i + 1
    <3>1. i \in 1..n /\ j \in 1..n /\ n + 1 - i + 1 = j + 1
      BY <2>2, <1>1
    <3>2. x[i] = t[j]
      BY <3>1, <1>1, <1>3
    <3> HIDE DEF j
    <3>3. Reverse(a)[i] = a[j + 1]
      BY <3>1, <1>4
    <3> QED
      BY <3>1, <3>2, <3>3, <1>2
  <2> QED
    BY <2>1, <2>2
<1>6. Reverse(a) = x
  BY <1>3, <1>4, <1>5, SeqEqual DEF Text
<1> QED
  BY <1>6 DEF a, x, r

\* A text in reverse begins with its last piece.
LEMMA ReverseOfLast ==
  ASSUME NEW c \in Piece, NEW t \in Text
  PROVE  Reverse(t \o <<c>>) = <<c>> \o Reverse(t)
<1> DEFINE r == Reverse(t)
<1>1. r \in Text /\ Reverse(r) = t
  BY ReverseOfText, ReverseTwice
<1> HIDE DEF r
<1>2. Reverse(<<c>> \o r) = t \o <<c>>
  BY <1>1, ReverseOfFirst
<1>3. <<c>> \o r \in Text
  BY <1>1, PutFirst
<1>4. Reverse(Reverse(<<c>> \o r)) = <<c>> \o r
  BY <1>3, ReverseTwice
<1> QED
  BY <1>2, <1>4 DEF r

-----------------------------------------------------------------------------
(* The beginning of a text. *)

\* What a piece adds to a beginning of m characters.
Cuts(done, piece, m) ==
  LET room == m - Lengths(done)
  IN  IF room <= 0 THEN done
      ELSE Append(done, [piece EXCEPT !.length = IF @ < room THEN @ ELSE room])

\* A shortened piece is a piece.
LEMMA CutIsPiece ==
  ASSUME NEW c \in Piece, NEW room \in Int, room > 0
  PROVE  /\ [c EXCEPT !.length = IF @ < room THEN @ ELSE room] \in Piece
         /\ [c EXCEPT !.length = IF @ < room THEN @ ELSE room].length = IF c.length < room THEN c.length ELSE room
         /\ [c EXCEPT !.length = IF @ < room THEN @ ELSE room].what = c.what
         /\ c.length <= room => [c EXCEPT !.length = IF @ < room THEN @ ELSE room] = c
<1> DEFINE x == IF c.length < room THEN c.length ELSE room
           d == [c EXCEPT !.length = IF @ < room THEN @ ELSE room]
<1>1. c.length \in Nat /\ c.what \in Int /\ c = [what |-> c.what, length |-> c.length]
  BY DEF Piece
<1>2. x \in Nat /\ (c.length <= room => x = c.length)
  BY <1>1
<1>3. d = [c EXCEPT !.length = x]
  OBVIOUS
<1> HIDE DEF x, d
<1>4. d = [what |-> c.what, length |-> x]
  BY <1>1, <1>3
<1>5. d \in Piece /\ d.length = x /\ d.what = c.what
  BY <1>1, <1>2, <1>4 DEF Piece
<1>6. c.length <= room => d = c
  BY <1>1, <1>2, <1>4
<1> QED
  BY <1>5, <1>6 DEF x, d

\* A piece adds itself, or what there is room for, or nothing.
LEMMA CutsAdds ==
  ASSUME NEW done \in Text, NEW c \in Piece, NEW m \in Int
  PROVE  /\ Cuts(done, c, m) \in Text
         /\ m <= Lengths(done) => Cuts(done, c, m) = done
         /\ m > Lengths(done) =>
              \E d \in Piece : /\ Cuts(done, c, m) = done \o <<d>> /\ d.what = c.what
                               /\ d.length = IF c.length < m - Lengths(done) THEN c.length ELSE m - Lengths(done)
                               /\ c.length <= m - Lengths(done) => d = c
<1> DEFINE room == m - Lengths(done)
           d == [c EXCEPT !.length = IF @ < room THEN @ ELSE room]
           Fine(x) == /\ Cuts(done, c, m) = done \o <<x>> /\ x.what = c.what
                      /\ x.length = IF c.length < room THEN c.length ELSE room
                      /\ c.length <= room => x = c
<1>1. Lengths(done) \in Nat
  BY LengthsAdd
<1>2. room \in Int /\ (m <= Lengths(done) <=> room <= 0) /\ (m > Lengths(done) <=> room > 0)
  BY <1>1
<1>3. CASE room <= 0
  <2>1. Cuts(done, c, m) = done
    BY <1>3 DEF Cuts
  <2>2. ~(m > Lengths(done))
    BY <1>1, <1>3
  <2> QED
    BY <2>1, <2>2
<1>4. CASE room > 0
  <2>1. Cuts(done, c, m) = Append(done, d)
    BY <1>2, <1>4 DEF Cuts
  <2>2. /\ d \in Piece /\ d.what = c.what
        /\ d.length = IF c.length < room THEN c.length ELSE room
        /\ c.length <= room => d = c
    <3> HIDE DEF room
    <3> QED
      BY <1>2, <1>4, CutIsPiece
  <2> HIDE DEF d
  <2>3. Append(done, d) = done \o <<d>>
    BY <2>2, AppendIsConcat DEF Text
  <2>4. done \o <<d>> \in Text
    BY <2>2, PutLast
  <2>5. Fine(d)
    BY <2>1, <2>2, <2>3
  <2>6. \E x \in Piece : Fine(x)
    <3> HIDE DEF Fine
    <3> QED
      BY <2>2, <2>5
  <2>7. Cuts(done, c, m) \in Text /\ ~(m <= Lengths(done))
    BY <2>1, <2>3, <2>4, <1>2, <1>4
  <2> QED
    BY <2>6, <2>7
<1>5. room <= 0 \/ room > 0
  BY <1>2
<1> QED
  BY <1>3, <1>4, <1>5

\* The beginnings of the first pieces.
Beginnings(T, t, m) ==
  T \in [0..Len(t) -> Text] /\ T[0] = <<>> /\ \A k \in 1..Len(t) : T[k] = Cuts(T[k - 1], t[k], m)

\* The beginning of a text is cut piece by piece.
LEMMA BeforeGoesOn ==
  ASSUME NEW t \in Text, NEW m \in Int
  PROVE  \E T : Beginnings(T, t, m) /\ T[Len(t)] = Before(t, m)
<1> DEFINE n == Len(t)
           D == 1..n
           ch == [u \in SUBSET D |-> Max(u)]
           st == [p \in D \X Text |-> Cuts(p[2], t[p[1]], m)]
           iter == CHOOSE g : g = [u \in SUBSET D |-> IF u = {} THEN <<>>
                                    ELSE LET x == Max(u) IN Cuts(g[u \ {x}], t[x], m)]
<1>0. n \in Nat /\ DOMAIN t = D /\ \A i \in D : t[i] \in Piece
  BY PiecesOfText
<1>1. Before(t, m) = iter[D]
  BY <1>0 DEF Before, FoldLeft, MapThenFoldSet, Cuts
<1>2. IsFiniteSet(D) /\ D \in SUBSET Int
  <2>1. 1 \in Int /\ n \in Int
    BY <1>0
  <2> QED
    BY <2>1, FS_Interval
<1> HIDE DEF D, n
<1>3. \A x \in D, v \in Text : st[<<x, v>>] = Cuts(v, t[x], m) /\ Cuts(v, t[x], m) \in Text
  BY <1>0, CutsAdds
<1>4. st \in [D \X Text -> Text]
  BY <1>0, CutsAdds
<1> HIDE DEF st
<1>5. \A u \in SUBSET D : u # {} => Max(u) \in u /\ Max(u) \in D
  <2> SUFFICES ASSUME NEW u \in SUBSET D, u # {} PROVE Max(u) \in u /\ Max(u) \in D
    OBVIOUS
  <2>1. IsFiniteSet(u) /\ u \in SUBSET Int
    BY <1>2, FS_Subset
  <2> QED
    BY <2>1, GreatestExists
<1>6. Chooses(ch, D) /\ \A u \in SUBSET D : ch[u] = Max(u)
  BY <1>5 DEF Chooses
<1> HIDE DEF ch
<1>20. <<>> \in Text
  BY LengthsOfFew
<1>7. PICK h \in [SUBSET D -> Text] : FoldsTo(h, D, ch, st, <<>>)
  BY <1>2, <1>4, <1>6, <1>20, FoldExists
<1>8. h = [u \in SUBSET D |-> IF u = {} THEN <<>> ELSE LET x == Max(u) IN Cuts(h[u \ {x}], t[x], m)]
  <2>1. ASSUME NEW u \in SUBSET D, u # {} PROVE h[u] = Cuts(h[u \ {Max(u)}], t[Max(u)], m)
    <3>1. ch[u] = Max(u) /\ Max(u) \in D /\ h[u \ {Max(u)}] \in Text
      BY <1>5, <1>6, <2>1
    <3>2. h[u] = st[<<ch[u], h[u \ {ch[u]}]>>]
      BY <1>7, <2>1 DEF FoldsTo
    <3> QED
      BY <3>1, <3>2, <1>3
  <2>2. h[{}] = <<>>
    BY <1>7 DEF FoldsTo
  <2> QED
    BY <2>1, <2>2
<1>9. iter = [u \in SUBSET D |-> IF u = {} THEN <<>> ELSE LET x == Max(u) IN Cuts(iter[u \ {x}], t[x], m)]
  BY <1>8
<1> HIDE DEF iter
<1>10. iter[{}] = <<>>
  BY <1>9
<1>11. FoldsUp(iter, n, Text, st)
  <2>1. ASSUME NEW u \in SUBSET D, u # {}, iter[u \ {Max(u)}] \in Text
        PROVE  iter[u] = st[<<Max(u), iter[u \ {Max(u)}]>>]
    <3>1. iter[u] = Cuts(iter[u \ {Max(u)}], t[Max(u)], m)
      BY <1>9, <2>1
    <3>2. Max(u) \in D
      BY <1>5, <2>1
    <3> QED
      BY <2>1, <3>1, <3>2, <1>3
  <2> QED
    BY <2>1, <1>4 DEF FoldsUp, D
<1>12. PICK T \in [0..n -> Text] : GoesThrough(T, n, <<>>, st) /\ T[n] = iter[1..n]
  <2>1. GoesTo(iter, n, Text, <<>>, st)
    BY <1>0, <1>20, <1>10, <1>11, FoldGoesOn
  <2> QED
    BY <2>1 DEF GoesTo
<1>13. \A k \in 1..n : T[k] = Cuts(T[k - 1], t[k], m)
  <2> SUFFICES ASSUME NEW k \in 1..n PROVE T[k] = Cuts(T[k - 1], t[k], m)
    OBVIOUS
  <2>1. k - 1 \in 0..n
    BY <1>0
  <2>2. T[k - 1] \in Text /\ k \in D
    BY <2>1 DEF D
  <2> QED
    BY <2>2, <1>3, <1>12 DEF GoesThrough
<1>14. Beginnings(T, t, m) /\ T[n] = Before(t, m)
  BY <1>1, <1>12, <1>13 DEF Beginnings, GoesThrough, D, n
<1> QED
  BY <1>14 DEF n

\* The beginning of a text is as long as was asked, or as the text.
LEMMA LengthsOfBefore ==
  ASSUME NEW t \in Text, NEW m \in Nat
  PROVE  /\ Before(t, m) \in Text
         /\ Lengths(Before(t, m)) = IF m < Lengths(t) THEN m ELSE Lengths(t)
<1> DEFINE n == Len(t)
<1>1. PICK T : Beginnings(T, t, m) /\ T[n] = Before(t, m)
  BY BeforeGoesOn
<1>2. PICK L : LengthSums(L, t) /\ L[n] = Lengths(t)
  BY LengthsAreSums
<1>3. n \in Nat /\ \A k \in 1..n : t[k] \in Piece /\ t[k].length \in Nat
  BY PiecesOfText
<1>4. /\ T \in [0..n -> Text] /\ T[0] = <<>> /\ \A k \in 1..n : T[k] = Cuts(T[k - 1], t[k], m)
      /\ L \in [0..n -> Nat] /\ L[0] = 0 /\ \A k \in 1..n : L[k] = L[k - 1] + t[k].length
  BY <1>1, <1>2 DEF Beginnings, LengthSums
<1> HIDE DEF n
<1> DEFINE Fine(k) == Lengths(T[k]) = IF m < L[k] THEN m ELSE L[k]
           Bad == {k \in 0..n : ~Fine(k)}
<1>5. Bad = {}
  <2> SUFFICES ASSUME Bad # {} PROVE FALSE
    OBVIOUS
  <2>1. PICK k \in Bad : \A j \in Bad : k <= j
    <3>1. Bad \in SUBSET Nat
      BY <1>3
    <3> HIDE DEF Bad
    <3> QED
      BY <3>1, LeastExists
  <2>2. k # 0
    <3>1. Lengths(T[0]) = 0
      BY <1>4, LengthsOfFew
    <3>2. Fine(0)
      BY <3>1, <1>4
    <3> QED
      BY <3>2
  <2>3. k \in 1..n /\ k - 1 \in 0..n /\ k - 1 < k
    BY <2>2, <1>3
  <2>4. Fine(k - 1)
    <3> HIDE DEF Fine
    <3> QED
      BY <2>1, <2>3
  <2> DEFINE done == T[k - 1]
             c == t[k]
             l == L[k - 1]
  <2>5. done \in Text /\ c \in Piece /\ c.length \in Nat /\ l \in Nat /\ T[k] = Cuts(done, c, m) /\ L[k] = l + c.length
    BY <2>3, <1>3, <1>4
  <2>6. Lengths(done) = IF m < l THEN m ELSE l
    BY <2>4
  <2>7. Fine(k)
    <3>1. CASE m <= l
      <4> HIDE DEF done, c, l
      <4>1. Lengths(done) = m
        BY <2>5, <2>6, <3>1
      <4>2. T[k] = done
        BY <4>1, <2>5, CutsAdds
      <4> QED
        BY <4>1, <4>2, <2>5, <3>1
    <3>2. CASE m > l
      <4> HIDE DEF done, c, l
      <4>1. Lengths(done) = l
        BY <2>5, <2>6, <3>2
      <4>4. m > Lengths(done) /\ m \in Int
        BY <4>1, <3>2
      <4>5. PICK d \in Piece : /\ Cuts(done, c, m) = done \o <<d>> /\ d.what = c.what
                               /\ d.length = IF c.length < m - Lengths(done) THEN c.length ELSE m - Lengths(done)
                               /\ c.length <= m - Lengths(done) => d = c
        BY <4>4, <2>5, CutsAdds
      <4>2. T[k] = done \o <<d>> /\ d.length = IF c.length < m - l THEN c.length ELSE m - l
        BY <4>1, <4>5, <2>5
      <4>3. Lengths(T[k]) = l + d.length
        BY <4>1, <4>2, <2>5, LengthsAdd, LengthsOfFew
      <4> QED
        BY <4>2, <4>3, <2>5, <3>2
    <3> QED
      BY <3>1, <3>2, <2>5
  <2> QED
    BY <2>7
<1>6. n \in 0..n
  BY <1>3
<1>7. Fine(n)
  <2> HIDE DEF Fine
  <2> QED
    BY <1>5, <1>6
<1> QED
  BY <1>1, <1>2, <1>4, <1>6, <1>7

\* The rest of a text has the rest of its length.
LEMMA LengthsOfAfter ==
  ASSUME NEW t \in Text, NEW m \in 0..Lengths(t)
  PROVE  /\ After(t, m) \in Text
         /\ Lengths(After(t, m)) = Lengths(t) - m
<1> DEFINE r == Reverse(t)
           k == Lengths(t) - m
           b == Before(r, k)
<1>1. r \in Text /\ Lengths(r) = Lengths(t)
  BY ReverseOfText, LengthsOfReverse
<1>2. Lengths(t) \in Nat
  BY LengthsAdd
<1>3. k \in Nat /\ ~(Lengths(t) < k)
  BY <1>2
<1>4. After(t, m) = Reverse(b)
  BY DEF After
<1> HIDE DEF r, k
<1>5. b \in Text /\ Lengths(b) = k
  BY <1>1, <1>2, <1>3, LengthsOfBefore
<1> HIDE DEF b
<1>6. Reverse(b) \in Text /\ Lengths(Reverse(b)) = k
  BY <1>5, ReverseOfText, LengthsOfReverse
<1> QED
  BY <1>4, <1>6 DEF k

\* A text that begins with a piece of at least m characters begins with m of it.
LEMMA BeforeInFirst ==
  ASSUME NEW c \in Piece, NEW rest \in Text, NEW m \in 0..c.length
  PROVE  Before(<<c>> \o rest, m) = IF m = 0 THEN <<>> ELSE << [what |-> c.what, length |-> m] >>
<1> DEFINE t == <<c>> \o rest
           n == Len(t)
           d == [what |-> c.what, length |-> m]
           first == IF m = 0 THEN <<>> ELSE <<d>>
<1>1. t \in Text /\ t[1] = c /\ n = Len(rest) + 1
  BY PutFirst
<1>2. Len(rest) \in Nat /\ c.length \in Nat /\ c.what \in Int
  BY PiecesOfText DEF Piece
<1>3. d \in Piece /\ d.length = m
  BY <1>2 DEF Piece
<1> HIDE DEF t
<1>4. PICK T : Beginnings(T, t, m) /\ T[n] = Before(t, m)
  BY <1>1, <1>2, BeforeGoesOn
<1>5. n \in Nat /\ \A k \in 1..n : t[k] \in Piece
  BY <1>1, PiecesOfText
<1>6. T \in [0..n -> Text] /\ T[0] = <<>> /\ \A k \in 1..n : T[k] = Cuts(T[k - 1], t[k], m)
  BY <1>4 DEF Beginnings
<1>7. first \in Text /\ Lengths(first) = m
  BY <1>3, LengthsOfFew
<1>8. T[1] = first
  <2>1. T[1] = Cuts(<<>>, c, m)
    <3>1. 1 \in 1..n /\ 1 - 1 = 0
      BY <1>1, <1>2
    <3> QED
      BY <3>1, <1>1, <1>6
  <2>2. <<>> \in Text /\ Lengths(<<>>) = 0 /\ m \in Int
    BY LengthsOfFew
  <2>3. CASE m = 0
    BY <2>1, <2>2, <2>3, CutsAdds
  <2>4. CASE m # 0
    <3>1. m > 0 /\ m > Lengths(<<>>) /\ m - Lengths(<<>>) = m
      BY <2>2, <2>4
    <3> DEFINE none == <<>>
    <3>6. none \in Text /\ m > Lengths(none) /\ Cuts(none, c, m) = T[1]
      BY <2>1, <2>2, <3>1
    <3>7. PICK x \in Piece : /\ Cuts(none, c, m) = none \o <<x>> /\ x.what = c.what
                             /\ x.length = IF c.length < m - Lengths(none) THEN c.length ELSE m - Lengths(none)
                             /\ c.length <= m - Lengths(none) => x = c
      <4> HIDE DEF none
      <4> QED
        BY <2>2, <3>6, CutsAdds
    <3>2. T[1] = <<>> \o <<x>> /\ x.what = c.what
          /\ x.length = IF c.length < m - Lengths(<<>>) THEN c.length ELSE m - Lengths(<<>>)
      BY <3>6, <3>7
    <3>3. x.length = m
      BY <3>1, <3>2, <1>2
    <3>4. x = [what |-> c.what, length |-> m]
      BY <3>2, <3>3 DEF Piece
    <3>5. <<>> \o <<x>> = <<x>>
      OBVIOUS
    <3> QED
      BY <2>4, <3>2, <3>4, <3>5
  <2> QED
    BY <2>3, <2>4
<1> HIDE DEF first, n
<1> DEFINE Bad == {k \in 1..n : T[k] # first}
<1>9. Bad = {}
  <2> SUFFICES ASSUME Bad # {} PROVE FALSE
    OBVIOUS
  <2>1. PICK k \in Bad : \A j \in Bad : k <= j
    <3>1. Bad \in SUBSET Nat
      BY <1>5
    <3> HIDE DEF Bad
    <3> QED
      BY <3>1, LeastExists
  <2>2. k # 1
    BY <1>8
  <2>3. k \in 1..n /\ k - 1 \in 1..n /\ k - 1 < k
    BY <2>2, <1>5
  <2>4. T[k - 1] = first
    BY <2>1, <2>3
  <2>5. T[k] = Cuts(first, t[k], m) /\ t[k] \in Piece
    BY <2>3, <2>4, <1>5, <1>6
  <2>6. T[k] = first
    BY <2>5, <1>7, CutsAdds
  <2> QED
    BY <2>6
<1>10. n \in 1..n
  BY <1>1, <1>2
<1>11. Before(t, m) = first
  BY <1>4, <1>9, <1>10
<1> QED
  BY <1>11 DEF t, first

\* No beginning of a text is longer than it.
LEMMA LengthsRise ==
  ASSUME NEW t \in Text, NEW L, LengthSums(L, t)
  PROVE  \A k \in 0..Len(t) : L[k] <= L[Len(t)]
<1> DEFINE n == Len(t)
           Bad == {j \in 0..n : ~(L[n - j] <= L[n])}
<1>1. n \in Nat /\ \A k \in 1..n : t[k].length \in Nat
  BY PiecesOfText
<1>2. L \in [0..n -> Nat] /\ \A k \in 1..n : L[k] = L[k - 1] + t[k].length
  BY DEF LengthSums
<1> HIDE DEF n
<1>3. Bad = {}
  <2> SUFFICES ASSUME Bad # {} PROVE FALSE
    OBVIOUS
  <2>1. PICK j \in Bad : \A i \in Bad : j <= i
    <3>1. Bad \in SUBSET Nat
      BY <1>1
    <3> HIDE DEF Bad
    <3> QED
      BY <3>1, LeastExists
  <2>2. j # 0
    BY <1>1, <1>2
  <2> DEFINE k == n - j + 1
  <2>3. j - 1 \in 0..n /\ j - 1 < j /\ k \in 1..n /\ k \in 0..n /\ k - 1 \in 0..n /\ n - (j - 1) = k /\ n - j = k - 1 /\ n \in 0..n
    BY <2>2, <1>1
  <2>4. L[n - (j - 1)] <= L[n]
    BY <2>1, <2>3
  <2> HIDE DEF k
  <2>5. L[k] <= L[n] /\ ~(L[k - 1] <= L[n])
    BY <2>1, <2>3, <2>4
  <2>6. L[k] = L[k - 1] + t[k].length /\ t[k].length \in Nat /\ L[k - 1] \in Nat /\ L[n] \in Nat
    BY <2>3, <1>1, <1>2
  <2> QED
    BY <2>5, <2>6
<1>4. ASSUME NEW k \in 0..n PROVE L[k] <= L[n]
  <2> DEFINE j == n - k
  <2>1. j \in 0..n /\ n - j = k
    BY <1>1
  <2> HIDE DEF j
  <2>2. L[n - j] <= L[n]
    BY <2>1, <1>3
  <2> QED
    BY <2>1, <2>2
<1> QED
  BY <1>4 DEF n

\* Whatever is longer than a text begins with all of it.
LEMMA BeforeTakesAll ==
  ASSUME NEW a \in Text, NEW c \in Piece, NEW m \in Nat, m > Lengths(a), m - Lengths(a) <= c.length
  PROVE  Before(a \o <<c>>, m) = a \o << [what |-> c.what, length |-> m - Lengths(a)] >>
<1> DEFINE n == Len(a)
           t == a \o <<c>>
<1>1. n \in Nat /\ \A k \in 1..n : a[k] \in Piece /\ a[k].length \in Nat
  BY PiecesOfText
<1>2. t \in Text /\ Len(t) = n + 1 /\ t[n + 1] = c /\ \A i \in 1..n : t[i] = a[i]
  BY PutLast
<1> HIDE DEF t
<1>3. PICK A : LengthSums(A, a) /\ A[n] = Lengths(a)
  BY LengthsAreSums
<1>4. \A k \in 0..n : A[k] <= A[n]
  BY <1>3, LengthsRise
<1>5. A \in [0..n -> Nat] /\ A[0] = 0 /\ \A k \in 1..n : A[k] = A[k - 1] + a[k].length
  BY <1>3 DEF LengthSums
<1>6. PICK T : Beginnings(T, t, m) /\ T[Len(t)] = Before(t, m)
  <2>1. m \in Int
    OBVIOUS
  <2> QED
    BY <1>2, <2>1, BeforeGoesOn
<1>7. T \in [0..(n + 1) -> Text] /\ T[0] = <<>> /\ \A k \in 1..(n + 1) : T[k] = Cuts(T[k - 1], t[k], m)
  BY <1>2, <1>6 DEF Beginnings
<1> HIDE DEF n
<1> DEFINE Fine(k) == Len(T[k]) = k /\ (\A i \in 1..k : T[k][i] = a[i]) /\ Lengths(T[k]) = A[k]
           Bad == {k \in 0..n : ~Fine(k)}
<1>8. Bad = {}
  <2> SUFFICES ASSUME Bad # {} PROVE FALSE
    OBVIOUS
  <2>1. PICK k \in Bad : \A j \in Bad : k <= j
    <3>1. Bad \in SUBSET Nat
      BY <1>1
    <3> HIDE DEF Bad
    <3> QED
      BY <3>1, LeastExists
  <2>2. k # 0
    <3>1. Len(T[0]) = 0 /\ Lengths(T[0]) = 0
      BY <1>7, LengthsOfFew
    <3>2. Fine(0)
      BY <3>1, <1>5
    <3> QED
      BY <3>2
  <2>3. k \in 1..n /\ k - 1 \in 0..n /\ k - 1 < k /\ k \in 1..(n + 1) /\ k - 1 \in 0..(n + 1) /\ k \in 0..n
    BY <2>2, <1>1
  <2>4. Fine(k - 1)
    <3> HIDE DEF Fine
    <3> QED
      BY <2>1, <2>3
  <2> DEFINE done == T[k - 1]
             p == a[k]
  <2>5. done \in Text /\ p \in Piece /\ p.length \in Nat /\ T[k] = Cuts(done, p, m) /\ A[k] = A[k - 1] + p.length
    BY <2>3, <1>1, <1>2, <1>5, <1>7
  <2>6. A[k - 1] \in Nat /\ A[k] <= A[n] /\ A[k - 1] <= A[n] /\ A[n] < m /\ A[n] \in Nat
    <3>1. n \in 0..n
      BY <1>1
    <3> QED
      BY <3>1, <2>3, <1>3, <1>4, <1>5
  <2>7. Len(done) = k - 1 /\ (\A i \in 1..(k - 1) : done[i] = a[i]) /\ Lengths(done) = A[k - 1]
    BY <2>4
  <2> HIDE DEF done, p
  <2>8. m > Lengths(done) /\ p.length <= m - Lengths(done) /\ m \in Int
    BY <2>5, <2>6, <2>7
  <2>9. Cuts(done, p, m) = done \o <<p>>
    <3>1. done \in Text /\ p \in Piece
      BY <2>5
    <3>2. PICK d \in Piece : /\ Cuts(done, p, m) = done \o <<d>> /\ d.what = p.what
                             /\ d.length = IF p.length < m - Lengths(done) THEN p.length ELSE m - Lengths(done)
                             /\ p.length <= m - Lengths(done) => d = p
      BY <3>1, <2>8, CutsAdds
    <3>3. d = p
      BY <3>2, <2>8
    <3> QED
      BY <3>2, <3>3
  <2>10. T[k] = done \o <<p>>
    BY <2>5, <2>9
  <2>11. /\ Len(done \o <<p>>) = Len(done) + 1 /\ (done \o <<p>>)[Len(done) + 1] = p
         /\ \A i \in 1..Len(done) : (done \o <<p>>)[i] = done[i]
    BY <2>5, PutLast
  <2>12. Lengths(done \o <<p>>) = Lengths(done) + p.length
    BY <2>5, LengthsAdd, LengthsOfFew
  <2>13. Len(T[k]) = k /\ T[k][k] = p /\ (\A i \in 1..(k - 1) : T[k][i] = a[i]) /\ Lengths(T[k]) = A[k]
    BY <2>3, <2>5, <2>6, <2>7, <2>10, <2>11, <2>12
  <2>14. \A i \in 1..k : i \in 1..(k - 1) \/ i = k
    BY <2>3
  <2>15. Fine(k)
    BY <2>13, <2>14 DEF p
  <2> QED
    BY <2>15
<1>9. n \in 0..n /\ n + 1 \in 1..(n + 1) /\ n + 1 - 1 = n /\ n \in 0..(n + 1)
  BY <1>1
<1>10. Fine(n)
  <2> HIDE DEF Fine
  <2> QED
    BY <1>8, <1>9
<1>11. T[n] = a
  <2>1. T[n] \in Text /\ Len(T[n]) = Len(a) /\ \A i \in 1..Len(T[n]) : T[n][i] = a[i]
    BY <1>7, <1>9, <1>10 DEF n
  <2> QED
    BY <2>1, SeqEqual DEF Text
<1>12. T[n + 1] = Cuts(a, c, m)
  BY <1>2, <1>7, <1>9, <1>11
<1> DEFINE x == m - Lengths(a)
<1>13. m \in Int
  OBVIOUS
<1>14. PICK d \in Piece : /\ Cuts(a, c, m) = a \o <<d>> /\ d.what = c.what
                          /\ d.length = IF c.length < x THEN c.length ELSE x
                          /\ c.length <= x => d = c
  BY <1>13, CutsAdds
<1>15. x \in Nat /\ x <= c.length /\ c.length \in Nat
  <2>1. c.length \in Nat /\ Lengths(a) \in Nat
    BY LengthsAdd DEF Piece
  <2> QED
    BY <2>1
<1> HIDE DEF x
<1>16. d.length = x
  BY <1>14, <1>15
<1>17. d = [what |-> c.what, length |-> x]
  BY <1>14, <1>16 DEF Piece
<1>18. Before(t, m) = a \o << [what |-> c.what, length |-> x] >>
  BY <1>2, <1>6, <1>12, <1>14, <1>17
<1> QED
  BY <1>18 DEF t, x

\* What is left of a text behind a part of its first piece.
LEMMA AfterInFirst ==
  ASSUME NEW c \in Piece, NEW rest \in Text, NEW m \in 0..c.length, rest = <<>> \/ m < c.length
  PROVE  After(<<c>> \o rest, m) =
           IF m < c.length THEN << [what |-> c.what, length |-> c.length - m] >> \o rest ELSE <<>>
<1> DEFINE t == <<c>> \o rest
           r == Reverse(rest)
           k == Lengths(t) - m
<1>1. r \in Text /\ Reverse(r) = rest /\ Lengths(r) = Lengths(rest) /\ Reverse(t) = r \o <<c>>
  BY ReverseOfText, ReverseTwice, LengthsOfReverse, ReverseOfFirst
<1>2. Lengths(t) = c.length + Lengths(rest) /\ Lengths(rest) \in Nat /\ c.length \in Nat /\ c.what \in Int
  BY LengthsAdd, LengthsOfFew DEF Piece
<1>3. After(t, m) = Reverse(Before(r \o <<c>>, k))
  BY <1>1 DEF After
<1> HIDE DEF t
<1>4. k = c.length - m + Lengths(rest) /\ k \in Nat
  BY <1>2
<1> HIDE DEF k, r
<1>5. CASE m < c.length
  <2> DEFINE x == k - Lengths(r)
             d == [what |-> c.what, length |-> x]
  <2>1. x = c.length - m /\ k > Lengths(r) /\ x <= c.length /\ x \in Nat
    BY <1>1, <1>2, <1>4, <1>5
  <2>2. Before(r \o <<c>>, k) = r \o <<d>>
    BY <2>1, <1>1, <1>4, BeforeTakesAll
  <2>3. d \in Piece
    BY <2>1, <1>2 DEF Piece
  <2> HIDE DEF d
  <2>4. Reverse(r \o <<d>>) = <<d>> \o rest
    BY <2>3, <1>1, ReverseOfLast
  <2> QED
    BY <2>1, <2>2, <2>4, <1>3, <1>5 DEF d, t
<1>6. CASE m = c.length
  <2> DEFINE none == <<>>
  <2>1. rest = none /\ none \in Text /\ Lengths(none) = 0 /\ Len(none) = 0
    BY <1>6, <1>2, LengthsOfFew
  <2> HIDE DEF none
  <2>2. r = none
    <3>1. r \in Text /\ Len(r) = 0
      BY <2>1, ReverseOfText DEF r
    <3> QED
      BY <2>1, <3>1, SeqEqual DEF Text
  <2>3. none \o <<c>> = <<c>> \o none
    BY DEF none
  <2>4. k = 0 /\ 0 \in 0..c.length
    BY <2>1, <1>2, <1>4, <1>6
  <2>5. Before(<<c>> \o none, 0) = none
    <3> DEFINE z == 0
    <3>1. z \in 0..c.length /\ z = 0
      BY <2>4
    <3> HIDE DEF z
    <3>2. Before(<<c>> \o none, z) = IF z = 0 THEN <<>> ELSE << [what |-> c.what, length |-> z] >>
      BY <2>1, <3>1, BeforeInFirst
    <3> QED
      BY <3>1, <3>2 DEF none
  <2>6. Reverse(none) = none
    BY <1>1, <2>1, <2>2
  <2>7. After(t, m) = none
    BY <1>3, <2>2, <2>3, <2>4, <2>5, <2>6
  <2> QED
    BY <1>6, <1>2, <2>7 DEF none, t
<1> QED
  BY <1>2, <1>5, <1>6

\* No piece of the text is from there.
Without(t, w) == \A k \in 1..Len(t) : t[k].what # w

\* Two texts have a piece from there if one of them has.
LEMMA WithoutBoth ==
  ASSUME NEW a \in Text, NEW b \in Text, NEW w
  PROVE  Without(a \o b, w) <=> Without(a, w) /\ Without(b, w)
<1> DEFINE n == Len(a)
           m == Len(b)
           t == a \o b
<1>1. n \in Nat /\ m \in Nat
  BY PiecesOfText
<1>2. Len(t) = n + m /\ \A i \in 1..(n + m) : t[i] = IF i <= n THEN a[i] ELSE b[i - n]
  BY ConcatProperties DEF Text
<1> HIDE DEF t, n, m
<1>3. ASSUME Without(t, w) PROVE Without(a, w) /\ Without(b, w)
  <2>1. ASSUME NEW k \in 1..n PROVE a[k].what # w
    <3>1. k \in 1..(n + m) /\ k <= n
      BY <1>1
    <3>2. t[k] = a[k]
      BY <3>1, <1>2
    <3> QED
      BY <3>1, <3>2, <1>2, <1>3 DEF Without
  <2>2. ASSUME NEW k \in 1..m PROVE b[k].what # w
    <3> DEFINE j == n + k
    <3>1. j \in 1..(n + m) /\ ~(j <= n) /\ j - n = k
      BY <1>1
    <3> HIDE DEF j
    <3>2. t[j] = b[j - n]
      BY <3>1, <1>2
    <3> QED
      BY <3>1, <3>2, <1>2, <1>3 DEF Without
  <2> QED
    BY <2>1, <2>2 DEF Without, n, m
<1>4. ASSUME Without(a, w), Without(b, w) PROVE Without(t, w)
  <2>1. ASSUME NEW k \in 1..(n + m) PROVE t[k].what # w
    <3>1. CASE k <= n
      <4>1. k \in 1..n /\ t[k] = a[k]
        BY <3>1, <1>1, <1>2
      <4> QED
        BY <4>1, <1>4 DEF Without, n
    <3>2. CASE k > n
      <4>1. k - n \in 1..m /\ ~(k <= n)
        BY <3>2, <1>1
      <4>2. t[k] = b[k - n]
        BY <4>1, <1>2
      <4> QED
        BY <4>1, <4>2, <1>4 DEF Without, m
    <3> QED
      BY <3>1, <3>2, <1>1
  <2> QED
    BY <2>1, <1>2 DEF Without
<1> QED
  BY <1>3, <1>4 DEF t

\* The empty text has none, and a single piece only its own origin.
LEMMA WithoutFew ==
  /\ \A w : Without(<<>>, w)
  /\ \A c \in Piece : \A w : Without(<<c>>, w) <=> c.what # w
<1>1. \A w : Without(<<>>, w)
  BY DEF Without
<1>2. ASSUME NEW c \in Piece, NEW w PROVE Without(<<c>>, w) <=> c.what # w
  <2>1. Len(<<c>>) = 1 /\ <<c>>[1] = c /\ 1..1 = {1}
    OBVIOUS
  <2> QED
    BY <2>1 DEF Without
<1> QED
  BY <1>1, <1>2

\* Around a needle there is a blank line.
LEMMA GapIsText ==
  /\ Gap2 \in Text /\ Lengths(Gap2) = 2
  /\ \A w : w # OfGap => Without(Gap2, w)
<1> DEFINE g == [what |-> OfGap, length |-> 2]
<1>1. g \in Piece /\ g.length = 2 /\ g.what = OfGap
  BY DEF Piece, OfGap
<1>2. Gap2 = <<g>>
  BY DEF Gap2
<1> HIDE DEF g
<1> QED
  BY <1>1, <1>2, LengthsOfFew, WithoutFew

\* A text with a piece put in at a place.
PutIn(t, at, x) == Before(t, at) \o Gap2 \o <<x>> \o Gap2 \o After(t, at)

\* Nothing is lost: the text is longer by the piece and the blank lines.
LEMMA LengthsOfPutIn ==
  ASSUME NEW t \in Text, NEW at \in 0..Lengths(t), NEW x \in Piece
  PROVE  PutIn(t, at, x) \in Text /\ Lengths(PutIn(t, at, x)) = Lengths(t) + x.length + 4
<1> DEFINE front == Before(t, at)
           back == After(t, at)
<1>1. Lengths(t) \in Nat /\ at \in Nat /\ x.length \in Nat
  BY LengthsAdd DEF Piece
<1>2. front \in Text /\ Lengths(front) = at
  BY <1>1, LengthsOfBefore
<1>3. back \in Text /\ Lengths(back) = Lengths(t) - at
  BY LengthsOfAfter
<1>4. PutIn(t, at, x) = front \o Gap2 \o <<x>> \o Gap2 \o back
  BY DEF PutIn
<1> HIDE DEF front, back
<1>5. <<x>> \in Text /\ Lengths(<<x>>) = x.length
  BY LengthsOfFew
<1>6. front \o Gap2 \in Text /\ Lengths(front \o Gap2) = at + 2
  BY <1>2, GapIsText, LengthsAdd
<1>7. front \o Gap2 \o <<x>> \in Text /\ Lengths(front \o Gap2 \o <<x>>) = at + 2 + x.length
  BY <1>5, <1>6, LengthsAdd
<1>8. front \o Gap2 \o <<x>> \o Gap2 \in Text /\ Lengths(front \o Gap2 \o <<x>> \o Gap2) = at + 2 + x.length + 2
  BY <1>7, GapIsText, LengthsAdd
<1> DEFINE most == front \o Gap2 \o <<x>> \o Gap2
<1> HIDE DEF most
<1>9. most \o back \in Text /\ Lengths(most \o back) = at + 2 + x.length + 2 + (Lengths(t) - at)
  BY <1>8, <1>3, LengthsAdd DEF most
<1>10. PutIn(t, at, x) = most \o back
  BY <1>4 DEF most
<1> QED
  BY <1>1, <1>9, <1>10

\* A piece of c's origin, or nothing if it has no length.
CutPiece(c, length) == IF length = 0 THEN <<>> ELSE << [what |-> c.what, length |-> length] >>

\* A part of a piece is a text of its length and origin.
LEMMA CutPieceIsText ==
  ASSUME NEW c \in Piece, NEW n \in Nat
  PROVE  /\ CutPiece(c, n) \in Text /\ Lengths(CutPiece(c, n)) = n
         /\ \A w : w # c.what => Without(CutPiece(c, n), w)
         /\ n # 0 => [what |-> c.what, length |-> n] \in Piece
<1> DEFINE d == [what |-> c.what, length |-> n]
<1>1. d \in Piece /\ d.length = n /\ d.what = c.what
  BY DEF Piece
<1>2. n # 0 => CutPiece(c, n) = <<d>>
  BY DEF CutPiece
<1>3. n = 0 => CutPiece(c, n) = <<>>
  BY DEF CutPiece
<1> HIDE DEF d
<1>4. CASE n = 0
  BY <1>3, <1>4, LengthsOfFew, WithoutFew
<1>5. CASE n # 0
  <2>1. CutPiece(c, n) \in Text /\ Lengths(CutPiece(c, n)) = n /\ \A w : w # c.what => Without(CutPiece(c, n), w)
    BY <1>1, <1>2, <1>5, LengthsOfFew, WithoutFew
  <2> QED
    BY <2>1, <1>1 DEF d
<1> QED
  BY <1>4, <1>5

\* What follows the place where a piece is put into the first piece of a text.
Follows(x, c, left1, rest) == Gap2 \o (<<x>> \o (Gap2 \o (CutPiece(c, left1) \o rest)))

\* How long what follows is, and what is in it.
LEMMA FollowsIsText ==
  ASSUME NEW x \in Piece, NEW c \in Piece, NEW n \in Nat, NEW rest \in Text
  PROVE  /\ Gap2 \o (CutPiece(c, n) \o rest) \in Text
         /\ Follows(x, c, n, rest) \in Text
         /\ Lengths(Follows(x, c, n, rest)) = 4 + x.length + n + Lengths(rest)
         /\ \A w : (w # OfGap /\ w # c.what) =>
               /\ Without(Gap2 \o (CutPiece(c, n) \o rest), w) <=> Without(rest, w)
               /\ Without(Follows(x, c, n, rest), w) <=> (x.what # w /\ Without(rest, w))
<1> DEFINE p == CutPiece(c, n)
           u == p \o rest
           v == Gap2 \o u
           y == <<x>> \o v
<1>1. p \in Text /\ Lengths(p) = n /\ \A w : w # c.what => Without(p, w)
  BY CutPieceIsText
<1> HIDE DEF p
<1>2. u \in Text /\ Lengths(u) = n + Lengths(rest)
  BY <1>1, LengthsAdd
<1>20. ASSUME NEW w, w # c.what PROVE Without(u, w) <=> Without(rest, w)
  BY <1>1, <1>20, WithoutBoth
<1> HIDE DEF u
<1>3. v \in Text /\ Lengths(v) = 2 + (n + Lengths(rest))
  BY <1>2, GapIsText, LengthsAdd
<1>30. ASSUME NEW w, w # OfGap, w # c.what PROVE Without(v, w) <=> Without(rest, w)
  <2>1. Without(v, w) <=> Without(Gap2, w) /\ Without(u, w)
    BY <1>2, GapIsText, WithoutBoth
  <2> QED
    BY <2>1, <1>20, <1>30, GapIsText
<1> HIDE DEF v
<1>4. y \in Text /\ Lengths(y) = x.length + (2 + (n + Lengths(rest)))
  <2>1. <<x>> \in Text /\ Lengths(<<x>>) = x.length
    BY LengthsOfFew
  <2>2. y \in Text /\ Lengths(y) = Lengths(<<x>>) + Lengths(v)
    BY <2>1, <1>3, LengthsAdd
  <2> QED
    BY <2>1, <2>2, <1>3
<1>40. ASSUME NEW w, w # OfGap, w # c.what PROVE Without(y, w) <=> (x.what # w /\ Without(rest, w))
  <2>1. <<x>> \in Text /\ (Without(<<x>>, w) <=> x.what # w)
    BY LengthsOfFew, WithoutFew
  <2>2. Without(y, w) <=> Without(<<x>>, w) /\ Without(v, w)
    BY <2>1, <1>3, WithoutBoth
  <2> QED
    BY <2>1, <2>2, <1>30, <1>40
<1> HIDE DEF y
<1>5. Gap2 \o y \in Text /\ Lengths(Gap2 \o y) = 2 + (x.length + (2 + (n + Lengths(rest))))
  BY <1>4, GapIsText, LengthsAdd
<1>50. ASSUME NEW w, w # OfGap, w # c.what PROVE Without(Gap2 \o y, w) <=> (x.what # w /\ Without(rest, w))
  <2>1. Without(Gap2 \o y, w) <=> Without(Gap2, w) /\ Without(y, w)
    BY <1>4, GapIsText, WithoutBoth
  <2> QED
    BY <2>1, <1>40, <1>50, GapIsText
<1>6. Follows(x, c, n, rest) = Gap2 \o y
  BY DEF Follows, y, v, u, p
<1>7. Lengths(rest) \in Nat /\ x.length \in Nat
  BY LengthsAdd DEF Piece
<1>8. Lengths(Gap2 \o y) = 4 + x.length + n + Lengths(rest)
  BY <1>5, <1>7
<1> QED
  BY <1>3, <1>30, <1>5, <1>50, <1>6, <1>8 DEF v, u, p

\* Three texts, one behind the other, are the same however they are put together.
Regroups(a, b, c) == (a \o b) \o c = a \o (b \o c)

\* It does not matter in which order texts are put together.
LEMMA Regroup ==
  ASSUME NEW a \in Text, NEW b \in Text, NEW c \in Text
  PROVE  Regroups(a, b, c)
BY ConcatAssociative DEF Text, Regroups

\* A text whose first piece is long enough, with a piece put into that.
LEMMA PutIntoFirst ==
  ASSUME NEW c \in Piece, NEW rest \in Text, NEW at \in 0..c.length, rest = <<>> \/ at < c.length,
         NEW x \in Piece
  PROVE  PutIn(<<c>> \o rest, at, x) = CutPiece(c, at) \o Follows(x, c, c.length - at, rest)
<1> DEFINE front == CutPiece(c, at)
           back == CutPiece(c, c.length - at)
           t == <<c>> \o rest
           one == <<x>>
<1>1. at \in Nat /\ c.length \in Nat /\ c.length - at \in Nat /\ (c.length - at = 0 <=> ~(at < c.length))
  BY DEF Piece
<1>2. Before(t, at) = front
  BY BeforeInFirst DEF CutPiece
<1>3. After(t, at) = back \o rest
  <2>1. CASE at < c.length
    <3>1. c.length - at # 0
      BY <1>1, <2>1
    <3>2. After(t, at) = << [what |-> c.what, length |-> c.length - at] >> \o rest
      BY <2>1, AfterInFirst
    <3> QED
      BY <3>1, <3>2 DEF CutPiece
  <2>2. CASE ~(at < c.length)
    <3>1. c.length - at = 0 /\ rest = <<>>
      BY <1>1, <2>2
    <3>2. After(t, at) = <<>>
      BY <2>2, AfterInFirst
    <3>3. back = <<>> /\ <<>> \o <<>> = <<>>
      BY <3>1 DEF CutPiece
    <3> QED
      BY <3>1, <3>2, <3>3
  <2> QED
    BY <2>1, <2>2
<1>4. front \in Text /\ back \in Text /\ one \in Text
  BY <1>1, CutPieceIsText, LengthsOfFew
<1>5. PutIn(t, at, x) = front \o Gap2 \o one \o Gap2 \o (back \o rest)
  BY <1>2, <1>3 DEF PutIn
<1>6. Follows(x, c, c.length - at, rest) = Gap2 \o (one \o (Gap2 \o (back \o rest)))
  BY DEF Follows
<1> HIDE DEF front, back, one, t
<1> DEFINE z == back \o rest
           z1 == Gap2 \o z
           z2 == one \o z1
<1>7. z \in Text
  BY <1>4, LengthsAdd
<1> HIDE DEF z
<1>8. z1 \in Text /\ Gap2 \in Text
  BY <1>7, GapIsText, LengthsAdd
<1>9. front \o Gap2 \in Text
  BY <1>4, <1>8, LengthsAdd
<1>10. front \o Gap2 \o one \in Text
  BY <1>4, <1>9, LengthsAdd
<1>11. (front \o Gap2 \o one \o Gap2) \o z = (front \o Gap2 \o one) \o z1
  <2>1. Regroups(front \o Gap2 \o one, Gap2, z)
    BY <1>7, <1>8, <1>10, Regroup
  <2> QED
    BY <2>1 DEF Regroups
<1> HIDE DEF z1
<1>12. z2 \in Text
  BY <1>4, <1>8, LengthsAdd
<1>13. (front \o Gap2 \o one) \o z1 = (front \o Gap2) \o z2
  <2>1. Regroups(front \o Gap2, one, z1)
    BY <1>4, <1>8, <1>9, Regroup
  <2> QED
    BY <2>1 DEF Regroups
<1> HIDE DEF z2
<1>14. (front \o Gap2) \o z2 = front \o (Gap2 \o z2)
  <2>1. front \in Text
    BY <1>4
  <2>2. Gap2 \in Text
    BY <1>8
  <2>3. Regroups(front, Gap2, z2)
    BY <2>1, <2>2, <1>12, Regroup
  <2> QED
    BY <2>3 DEF Regroups
<1> QED
  BY <1>5, <1>6, <1>11, <1>13, <1>14 DEF z, z1, z2, front, t

\* The needle with that number, as a piece of the prompt.
NeedleAt(i) == [what |-> i, length |-> asked.needles[i].length]
\* It is in the text in one piece, and as deep as was asked for, as far as the other
\* insertions let it.
Deep(i, start, length) ==
  /\ 100 * start - asked.needles[i].depth * length <= 100 * (length - asked.room)
  /\ asked.needles[i].depth * length - 100 * start <= 100 * (length - asked.room)
Placed(i, text, base, length) ==
  \E a \in Text, b \in Text :
     /\ text = a \o (<<NeedleAt(i)>> \o b) /\ Without(a, i) /\ Without(b, i)
     /\ Deep(i, base + Lengths(a), length)

\* What is put before a text moves its needles.
LEMMA PlacedBehind ==
  ASSUME NEW i, NeedleAt(i) \in Piece, NEW text \in Text, NEW base \in Nat, NEW length \in Nat,
         Placed(i, text, base, length), NEW front \in Text, Lengths(front) = base, Without(front, i)
  PROVE  Placed(i, front \o text, 0, length)
<1>1. PICK a \in Text, b \in Text :
        /\ text = a \o (<<NeedleAt(i)>> \o b) /\ Without(a, i) /\ Without(b, i)
        /\ Deep(i, base + Lengths(a), length)
  BY DEF Placed
<1> DEFINE u == <<NeedleAt(i)>> \o b
           f == front \o a
<1>2. u \in Text
  BY PutFirst
<1>3. f \in Text /\ Lengths(f) = base + Lengths(a) /\ Without(f, i) /\ Lengths(f) \in Nat
  BY <1>1, LengthsAdd, WithoutBoth
<1> HIDE DEF u
<1>4. front \o (a \o u) = f \o u
  <2>1. Regroups(front, a, u)
    BY <1>2, Regroup
  <2> QED
    BY <2>1 DEF Regroups
<1> HIDE DEF f
<1>5. 0 + Lengths(f) = base + Lengths(a)
  BY <1>3
<1>6. front \o text = f \o (<<NeedleAt(i)>> \o b)
  BY <1>1, <1>4 DEF u
<1>7. Deep(i, 0 + Lengths(f), length)
  BY <1>1, <1>5
<1> QED
  BY <1>1, <1>3, <1>6, <1>7 DEF Placed

\* Two texts are the same.
SameText(a, b) == a = b

\* What follows goes on with what the rest goes on with.
LEMMA FollowsRegroups ==
  ASSUME NEW x \in Piece, NEW c \in Piece, NEW n \in Nat, NEW a \in Text, NEW u \in Text
  PROVE  SameText(Follows(x, c, n, a \o u), Follows(x, c, n, a) \o u)
<1> DEFINE back == CutPiece(c, n)
           one == <<x>>
           g == Gap2
<1>1. back \in Text /\ one \in Text /\ g \in Text
  BY CutPieceIsText, LengthsOfFew, GapIsText
<1>2. Follows(x, c, n, a \o u) = g \o (one \o (g \o (back \o (a \o u))))
  BY DEF Follows
<1>3. Follows(x, c, n, a) = g \o (one \o (g \o (back \o a)))
  BY DEF Follows
<1> HIDE DEF back, one, g
<1> DEFINE v == back \o a
<1>11. v \in Text /\ back \o (a \o u) = v \o u
  <2>1. v \in Text
    BY <1>1, LengthsAdd
  <2>2. (back \o a) \o u = back \o (a \o u)
    <3>1. Regroups(back, a, u)
      BY <1>1, Regroup
    <3> QED
      BY <3>1 DEF Regroups
  <2> QED
    BY <2>1, <2>2
<1> HIDE DEF v
<1> DEFINE w == g \o v
<1>12. w \in Text /\ g \o (v \o u) = w \o u
  <2>1. w \in Text
    BY <1>1, <1>11, LengthsAdd
  <2>2. (g \o v) \o u = g \o (v \o u)
    <3>1. Regroups(g, v, u)
      BY <1>1, <1>11, Regroup
    <3> QED
      BY <3>1 DEF Regroups
  <2> QED
    BY <2>1, <2>2
<1> HIDE DEF w
<1> DEFINE y == one \o w
<1>13. y \in Text /\ one \o (w \o u) = y \o u
  <2>1. y \in Text
    BY <1>1, <1>12, LengthsAdd
  <2>2. (one \o w) \o u = one \o (w \o u)
    <3>1. Regroups(one, w, u)
      BY <1>1, <1>12, Regroup
    <3> QED
      BY <3>1 DEF Regroups
  <2> QED
    BY <2>1, <2>2
<1> HIDE DEF y
<1>14. g \o (y \o u) = (g \o y) \o u
  <2>1. Regroups(g, y, u)
    BY <1>1, <1>13, Regroup
  <2> QED
    BY <2>1 DEF Regroups
<1>15. Follows(x, c, n, a) = g \o y
  BY <1>3 DEF y, w, v
<1> QED
  BY <1>2, <1>11, <1>12, <1>13, <1>14, <1>15 DEF SameText

\* A place that moves as far as the text becomes longer stays as deep.
LEMMA DeepStays ==
  ASSUME NEW i, asked.needles[i].depth \in 0..100, asked.room \in Nat,
         NEW s \in Nat, NEW g \in Nat, NEW length \in Nat, Deep(i, s, length)
  PROVE  Deep(i, s + g, length + g)
<1> DEFINE d == asked.needles[i].depth
           room == asked.room
<1>1. d \in 0..100 /\ room \in Nat
  OBVIOUS
<1>2. 100 * s - d * length <= 100 * (length - room) /\ d * length - 100 * s <= 100 * (length - room)
  BY DEF Deep
<1> HIDE DEF d, room
<1>3. d * g <= 100 * g /\ d * g >= 0 /\ d * length \in Int /\ d * g \in Int
  BY <1>1
<1>4. d * (length + g) = d * length + d * g
  BY <1>1
<1>5. 100 * (s + g) = 100 * s + 100 * g /\ 100 * (length + g - room) = 100 * (length - room) + 100 * g
  BY <1>1
<1>6. /\ 100 * (s + g) - d * (length + g) <= 100 * (length + g - room)
      /\ d * (length + g) - 100 * (s + g) <= 100 * (length + g - room)
  BY <1>1, <1>2, <1>3, <1>4, <1>5
<1> QED
  BY <1>6 DEF Deep, d, room

\* What is put into the piece before a text moves its needles, and makes the text
\* longer, by no less.
LEMMA PlacedStays ==
  ASSUME NEW i, NeedleAt(i) \in Piece, asked.needles[i].depth \in 0..100, i # OfGap,
         asked.room \in Nat,
         NEW c \in Piece, c.what # i, NEW rest \in Text, NEW length \in Nat,
         Placed(i, rest, c.length, length),
         NEW x \in Piece, x.what # i, NEW at \in 0..c.length
  PROVE  Placed(i, Follows(x, c, c.length - at, rest), at, length + x.length + 4)
<1>1. PICK a \in Text, b \in Text :
        /\ rest = a \o (<<NeedleAt(i)>> \o b) /\ Without(a, i) /\ Without(b, i)
        /\ Deep(i, c.length + Lengths(a), length)
  BY DEF Placed
<1> DEFINE n == c.length - at
           back == CutPiece(c, n)
           one == <<x>>
           u == <<NeedleAt(i)>> \o b
           f == Follows(x, c, n, a)
<1>2. n \in Nat /\ c.length \in Nat /\ x.length \in Nat /\ at \in Nat
  BY DEF Piece
<1>3. u \in Text /\ one \in Text /\ Gap2 \in Text
  BY PutFirst, LengthsOfFew, GapIsText
<1> HIDE DEF u, n
<1>4. back \in Text
  BY <1>2, CutPieceIsText
<1>5. f \in Text /\ Lengths(f) = 4 + x.length + n + Lengths(a) /\ Without(f, i)
  BY <1>1, <1>2, FollowsIsText
<1>6. Follows(x, c, n, rest) = f \o u
  <2>1. rest = a \o u
    BY <1>1 DEF u
  <2>2. Follows(x, c, n, a \o u) = Follows(x, c, n, a) \o u
    <3>1. n \in Nat
      BY <1>2
    <3>2. u \in Text
      BY <1>3
    <3>3. SameText(Follows(x, c, n, a \o u), Follows(x, c, n, a) \o u)
      BY <3>1, <3>2, FollowsRegroups
    <3> QED
      BY <3>3 DEF SameText
  <2> QED
    BY <2>1, <2>2
<1> HIDE DEF f
<1>7. Lengths(a) \in Nat
  BY LengthsAdd
<1>8. Deep(i, at + Lengths(f), length + x.length + 4)
  <2> DEFINE s == c.length + Lengths(a)
             g == x.length + 4
  <2>1. at + Lengths(f) = s + g /\ length + x.length + 4 = length + g
    BY <1>2, <1>5, <1>7 DEF n
  <2>2. s \in Nat /\ g \in Nat /\ Deep(i, s, length)
    BY <1>1, <1>2, <1>7
  <2> HIDE DEF s, g
  <2>3. Deep(i, s + g, length + g)
    BY <2>2, DeepStays
  <2> QED
    BY <2>1, <2>3
<1>9. Follows(x, c, n, rest) = f \o (<<NeedleAt(i)>> \o b)
  BY <1>6 DEF u
<1>10. Placed(i, Follows(x, c, n, rest), at, length + x.length + 4)
  BY <1>1, <1>5, <1>8, <1>9 DEF Placed
<1> QED
  BY <1>10 DEF n

\* A position is the nearest one to the share of the length.
LEMMA PositionIsNear ==
  ASSUME NEW length \in Nat, NEW d \in 0..100
  PROVE  /\ Position(length, d) \in 0..length
         /\ 200 * Position(length, d) <= 2 * (length * d) + 100
         /\ 200 * Position(length, d) >= 2 * (length * d) - 99
<1> DEFINE p == length * d
           x == 2 * p + 100
           at == x \div 200
<1>1. p \in Nat
  OBVIOUS
<1>2. p <= 100 * length
  OBVIOUS
<1>3. 2 * length * d = 2 * p
  OBVIOUS
<1> HIDE DEF p
<1>4. x \in Nat /\ x <= 200 * length + 100
  BY <1>1, <1>2
<1> HIDE DEF x
<1>5. at \in Nat /\ 200 * at <= x /\ x < 200 * at + 200
  BY <1>4
<1> HIDE DEF at
<1>6. at <= length
  BY <1>4, <1>5
<1>7. Position(length, d) = at
  BY <1>3 DEF Position, at, x
<1>8. 200 * at <= 2 * p + 100 /\ 200 * at >= 2 * p - 99
  BY <1>1, <1>4, <1>5 DEF x
<1>9. at \in 0..length
  BY <1>5, <1>6
<1> QED
  BY <1>7, <1>8, <1>9 DEF p

\* A needle that is far enough from the next is put in behind the place of that.
LEMMA NextIsBefore ==
  ASSUME NEW length \in Nat, NEW room \in Nat, room <= length,
         NEW d \in 0..100, NEW e \in 0..100, d > e,
         NEW g \in Nat, room * (d - e) >= 100 * (g + 1)
  PROVE  Position(length + g, e) < Position(length, d)
<1> DEFINE p == Position(length, d)
           q == Position(length + g, e)
           m == length + g
<1>1. p \in Int /\ 200 * p >= 2 * (length * d) - 99
  <2>1. Position(length, d) \in 0..length /\ 200 * Position(length, d) >= 2 * (length * d) - 99
    BY PositionIsNear
  <2>2. p = Position(length, d)
    OBVIOUS
  <2> HIDE DEF p
  <2> QED
    BY <2>1, <2>2
<1>2. q \in Int /\ 200 * q <= 2 * (m * e) + 100
  <2>1. m \in Nat
    OBVIOUS
  <2> HIDE DEF m
  <2>2. Position(m, e) \in 0..m /\ 200 * Position(m, e) <= 2 * (m * e) + 100
    BY <2>1, PositionIsNear
  <2>3. q = Position(m, e)
    BY DEF m
  <2> HIDE DEF q
  <2> QED
    BY <2>1, <2>2, <2>3
<1> HIDE DEF p, q
<1>3. m * e = length * e + g * e /\ g * e <= 100 * g /\ g * e \in Nat
  OBVIOUS
<1>4. length * d - length * e = length * (d - e) /\ length * d \in Nat /\ length * e \in Nat
  OBVIOUS
<1>5. length * (d - e) >= room * (d - e)
  OBVIOUS
<1>6. room * (d - e) \in Nat /\ length * (d - e) \in Nat
  OBVIOUS
<1> DEFINE ld == length * d
           le == length * e
           ge == g * e
           lde == length * (d - e)
           rde == room * (d - e)
           me == m * e
<1>7. /\ ld \in Nat /\ le \in Nat /\ ge \in Nat /\ lde \in Nat /\ rde \in Nat /\ me = le + ge
      /\ ld - le = lde /\ lde >= rde /\ rde >= 100 * (g + 1) /\ ge <= 100 * g
      /\ 200 * p >= 2 * ld - 99 /\ 200 * q <= 2 * me + 100
  BY <1>1, <1>2, <1>3, <1>4, <1>5, <1>6
<1> HIDE DEF ld, le, ge, lde, rde, me, m
<1>8. q < p
  BY <1>1, <1>2, <1>7
<1> QED
  BY <1>8 DEF p, q

\* The tokens of needles and their blank lines are no fewer than their characters need.
LEMMA TokensAreEnough ==
  ASSUME NEW n \in Nat, NEW len \in [1..n -> Nat], NEW s, s = [i \in 1..n |-> len[i] + 4],
         NEW t, t = [i \in 1..n |-> Tokens(len[i])]
  PROVE  Total(s) \in Nat /\ Total(t) \in Nat /\ 2 * Total(s) <= 5 * Total(t) + 8 * n
<1>1. \A i \in 1..n : len[i] \in Nat
  OBVIOUS
<1>2. \A x \in Nat : Tokens(x) \in Nat /\ 2 * x <= 5 * Tokens(x)
  <2> SUFFICES ASSUME NEW x \in Nat PROVE Tokens(x) \in Nat /\ 2 * x <= 5 * Tokens(x)
    OBVIOUS
  <2> DEFINE y == 2 * x + 4
  <2>1. y \in Nat /\ Tokens(x) = y \div 5
    BY DEF Tokens
  <2> HIDE DEF y
  <2>2. Tokens(x) \in Nat /\ y < 5 * Tokens(x) + 5
    BY <2>1
  <2> QED
    BY <2>2 DEF y
<1>3. s \in [1..n -> Nat] /\ s \in [1..n -> Int] /\ \A i \in 1..n : s[i] = len[i] + 4
  BY <1>1
<1>4. t \in [1..n -> Nat] /\ t \in [1..n -> Int] /\ \A i \in 1..n : t[i] = Tokens(len[i])
  <2>1. \A i \in 1..n : Tokens(len[i]) \in Nat
    BY <1>1, <1>2
  <2>2. \A i \in 1..n : t[i] = Tokens(len[i])
    OBVIOUS
  <2>3. t \in [1..n -> Nat]
    BY <2>1
  <2> QED
    BY <2>2, <2>3
<1>5. Total(s) \in Nat /\ Total(t) \in Nat
  BY <1>3, <1>4, TotalIsNat
<1>6. PICK S : Sums(S, s, n) /\ S[n] = Total(s)
  BY <1>3, TotalSums
<1>7. PICK T : Sums(T, t, n) /\ T[n] = Total(t)
  BY <1>4, TotalSums
<1> DEFINE Fine(k) == 2 * S[k] <= 5 * T[k] + 8 * k
           Bad == {k \in 0..n : ~Fine(k)}
<1>8. Bad = {}
  <2> SUFFICES ASSUME Bad # {} PROVE FALSE
    OBVIOUS
  <2>1. PICK k \in Bad : \A j \in Bad : k <= j
    <3>1. Bad \in SUBSET Nat
      OBVIOUS
    <3> HIDE DEF Bad
    <3> QED
      BY <3>1, LeastExists
  <2>2. k # 0
    <3>1. S[0] = 0 /\ T[0] = 0
      BY <1>6, <1>7 DEF Sums
    <3>2. Fine(0)
      BY <3>1
    <3> QED
      BY <3>2
  <2>3. k \in 1..n /\ k - 1 \in 0..n /\ k - 1 < k
    BY <2>2
  <2>4. Fine(k - 1)
    <3> HIDE DEF Fine
    <3> QED
      BY <2>1, <2>3
  <2>5. S[k] = S[k - 1] + s[k] /\ T[k] = T[k - 1] + t[k] /\ S[k - 1] \in Int /\ T[k - 1] \in Int
    BY <2>3, <1>6, <1>7 DEF Sums
  <2>6. s[k] \in Int /\ t[k] \in Int /\ 2 * s[k] <= 5 * t[k] + 8
    <3> DEFINE x == len[k]
    <3>1. x \in Nat /\ s[k] = x + 4 /\ t[k] = Tokens(x)
      BY <2>3, <1>1, <1>3, <1>4
    <3> HIDE DEF x
    <3>2. Tokens(x) \in Nat /\ 2 * x <= 5 * Tokens(x)
      BY <3>1, <1>2
    <3> DEFINE y == Tokens(x)
               sk == s[k]
               tk == t[k]
    <3>3. y \in Nat /\ 2 * x <= 5 * y /\ x \in Nat /\ sk = x + 4 /\ tk = y
      BY <3>1, <3>2
    <3> HIDE DEF y, sk, tk
    <3>4. sk \in Int /\ tk \in Int /\ 2 * sk <= 5 * tk + 8
      BY <3>3
    <3> QED
      BY <3>4 DEF sk, tk
  <2>7. Fine(k)
    <3> DEFINE S1 == S[k - 1]
               T1 == T[k - 1]
    <3>1. 2 * S1 <= 5 * T1 + 8 * (k - 1) /\ S[k] = S1 + s[k] /\ T[k] = T1 + t[k] /\ S1 \in Int /\ T1 \in Int /\ k \in Nat
      BY <2>3, <2>4, <2>5
    <3> DEFINE sk == s[k]
               tk == t[k]
               Sk == S[k]
               Tk == T[k]
    <3>2. 2 * S1 <= 5 * T1 + 8 * (k - 1) /\ Sk = S1 + sk /\ Tk = T1 + tk /\ S1 \in Int /\ T1 \in Int /\ k \in Nat
          /\ sk \in Int /\ tk \in Int /\ 2 * sk <= 5 * tk + 8
      BY <3>1, <2>6
    <3> HIDE DEF S1, T1, sk, tk, Sk, Tk
    <3>3. 2 * Sk <= 5 * Tk + 8 * k
      BY <3>2
    <3> QED
      BY <3>3 DEF Sk, Tk
  <2> QED
    BY <2>7
<1>9. n \in 0..n
  OBVIOUS
<1>10. Fine(n)
  <2> HIDE DEF Fine
  <2> QED
    BY <1>8, <1>9
<1> QED
  BY <1>5, <1>6, <1>7, <1>10

-----------------------------------------------------------------------------
(* A prompt while it is put together. *)

Needle == [length : Nat, depth : Nat]
ToInsert == [what : Nat, length : Nat, depth : Nat]
Entry(i) == [what |-> i, length |-> asked.needles[i].length, depth |-> asked.needles[i].depth]
Waiting(i) == \E k \in 1..Len(left) : left[k].what = i
\* What the needles add to the text, and what those that are not yet in it will add.
Extra == [i \in DOMAIN asked.needles |-> asked.needles[i].length + 4]
Owed == [i \in DOMAIN asked.needles |-> IF Waiting(i) THEN asked.needles[i].length + 4 ELSE 0]

TextTypes ==
  /\ asked \in [at : {"rest", "refused", "inserting", "built"}, size : Nat, needles : Seq(Needle),
               question : Nat, room : Nat]
  /\ pieces \in Text
  /\ left \in Seq(ToInsert)

\* The needles of a prompt are valid, and its filler has the size that is left.
AskedInv ==
  asked.at \in {"inserting", "built"} =>
    /\ Valid(asked.needles)
    /\ \E over \in Overshoot :
          asked.room = (5 * FillerTokens(asked.size, asked.needles, asked.question) + 1) \div 2 + over
    /\ asked.room <= Lengths(pieces)

\* The needles that are left are of the template, from the deepest on.
LeftInv ==
  /\ asked.at = "inserting" =>
       /\ \A k \in 1..Len(left) : left[k].what \in DOMAIN asked.needles /\ left[k] = Entry(left[k].what)
       /\ \A j, k \in 1..Len(left) : j < k => Deeper(left[j], left[k])
  /\ asked.at = "built" => left = <<>>

\* The text has grown by the needles that are in it.
LengthInv ==
  /\ asked.at = "inserting" => Lengths(pieces) + Total(Owed) = asked.room + Total(Extra)
  /\ asked.at = "built" => Lengths(pieces) = asked.room + Total(Extra) + 2 + asked.question

\* The text begins with a piece of filler; the next needle is put into that, and the
\* ones that are in the text are behind it.
Begins(c, rest) ==
  /\ pieces = <<c>> \o rest /\ c.what = OfFiller
  /\ rest = <<>> \/ Position(Lengths(pieces), Head(left).depth) < c.length
  /\ \A i \in DOMAIN asked.needles : Waiting(i) => Without(rest, i)
  /\ \A i \in DOMAIN asked.needles : ~Waiting(i) => Placed(i, rest, c.length, Lengths(pieces))

ShapeInv ==
  /\ asked.at = "inserting" /\ Separate /\ left # <<>> =>
       \E c \in Piece, rest \in Text : Begins(c, rest)
  /\ asked.at \in {"inserting", "built"} /\ Separate /\ left = <<>> =>
       \A i \in DOMAIN asked.needles : Placed(i, pieces, 0, Lengths(pieces))

TextInv ==
  /\ TextTypes
  /\ AskedInv
  /\ LeftInv
  /\ LengthInv
  /\ ShapeInv
  /\ MarkedInv

\* There is no text at first.
LEMMA InitText == TextInit => TextInv
<1> SUFFICES ASSUME TextInit PROVE TextInv
  OBVIOUS
<1>1. /\ asked.at = "rest" /\ asked.size = 0 /\ asked.needles = <<>> /\ asked.question = 0 /\ asked.room = 0
      /\ pieces = <<>> /\ left = <<>> /\ marked = NoMark
  BY DEF TextInit, NoTemplate
<1>2. pieces \in Text
  BY <1>1, LengthsOfFew
<1>3. left \in Seq(ToInsert) /\ asked.needles \in Seq(Needle)
  BY <1>1
<1>4. TextTypes
  <2>1. asked = NoTemplate /\ <<>> \in Seq(Needle)
    BY DEF TextInit
  <2> QED
    BY <1>2, <1>3, <2>1 DEF TextTypes, NoTemplate
<1>5. AskedInv /\ LeftInv /\ LengthInv /\ ShapeInv /\ MarkedInv
  BY <1>1 DEF AskedInv, LeftInv, LengthInv, ShapeInv, MarkedInv
<1> QED
  BY <1>4, <1>5 DEF TextInv

\* While the text rests, so does what is known of it.
LEMMA TextRests ==
  ASSUME TextTypes, AskedInv, LeftInv, LengthInv, ShapeInv, UNCHANGED <<asked, pieces, left>>
  PROVE  TextTypes' /\ AskedInv' /\ LeftInv' /\ LengthInv' /\ ShapeInv'
<1>1. TextTypes'
  BY DEF TextTypes
<1>2. AskedInv'
  BY DEF AskedInv, Valid
<1>3. LeftInv'
  BY DEF LeftInv, Entry
<1>4. LengthInv'
  BY DEF LengthInv, Owed, Extra, Waiting
<1>5. Separate' = Separate /\ \A i : Waiting(i)' = Waiting(i)
  BY DEF Separate, Apart, Waiting
<1>6. \A c, rest : Begins(c, rest)' = Begins(c, rest)
  BY DEF Begins, Waiting, Placed, NeedleAt, Deep
<1>7. (\A i \in DOMAIN asked.needles : Placed(i, pieces, 0, Lengths(pieces)))' =
       \A i \in DOMAIN asked.needles : Placed(i, pieces, 0, Lengths(pieces))
  BY DEF Placed, NeedleAt, Deep
<1>8. ShapeInv'
  BY <1>5, <1>6, <1>7 DEF ShapeInv
<1> QED
  BY <1>1, <1>2, <1>3, <1>4, <1>8

\* A step that changes nothing keeps the text.
LEMMA StutterKeepsText ==
  ASSUME TextInv, UNCHANGED textVars PROVE TextInv'
<1>1. UNCHANGED <<asked, pieces, left>> /\ marked' = marked
  BY DEF textVars
<1>2. TextTypes' /\ AskedInv' /\ LeftInv' /\ LengthInv' /\ ShapeInv'
  BY <1>1, TextRests DEF TextInv
<1>3. MarkedInv'
  BY <1>1 DEF TextInv, MarkedInv
<1> QED
  BY <1>2, <1>3 DEF TextInv

\* Marking an answer keeps the text.
LEMMA MarkKeepsText ==
  ASSUME TextAssumption, TextInv, NEW weights \in SeqOf(Weight, MaxKeywords),
         NEW found \in SUBSET DOMAIN weights, MarksAnswer(weights, found)
  PROVE  TextInv'
<1>1. UNCHANGED <<asked, pieces, left>> /\ Scorable(weights)
      /\ marked' = [weights |-> weights, found |-> found, mark |-> KeywordMark(weights, found)]
  BY DEF MarksAnswer
<1>2. TextTypes' /\ AskedInv' /\ LeftInv' /\ LengthInv' /\ ShapeInv'
  BY <1>1, TextRests DEF TextInv
<1>3. weights \in Seq(Nat)
  <2>1. PICK m \in 0..MaxKeywords : weights \in [1..m -> Weight]
    BY DEF SeqOf
  <2>3. MaxKeywords \in Nat /\ \A x \in Weight : x \in Nat
    BY DEF TextAssumption
  <2>4. m \in Nat
    BY <2>3
  <2>2. m \in Nat /\ weights \in [1..m -> Nat]
    BY <2>1, <2>3, <2>4
  <2> QED
    BY <2>2, FunctionIsSeq
<1>4. MarkedInv'
  <2>1. marked'.weights = weights /\ marked'.found = found /\ marked'.mark = KeywordMark(weights, found)
    BY <1>1
  <2> QED
    BY <2>1, <1>1, <1>3 DEF MarkedInv
<1> QED
  BY <1>2, <1>4 DEF TextInv

\* The filler is not less than 64 tokens.
LEMMA FillerIsNat ==
  ASSUME NEW size \in Nat, NEW needles \in Seq(Needle), NEW question \in Nat
  PROVE  FillerTokens(size, needles, question) \in Nat
<1> DEFINE n == Len(needles)
           t == [i \in DOMAIN needles |-> Tokens(needles[i].length)]
           len == [i \in 1..n |-> needles[i].length]
           s == [i \in 1..n |-> len[i] + 4]
           t2 == [i \in 1..n |-> Tokens(len[i])]
<1>1. n \in Nat /\ DOMAIN needles = 1..n /\ \A i \in 1..n : needles[i] \in Needle
  OBVIOUS
<1>2. len \in [1..n -> Nat]
  BY <1>1 DEF Needle
<1>3. t = t2
  BY <1>1
<1>4. Total(t2) \in Nat
  <2> HIDE DEF len, n
  <2> QED
    BY <1>1, <1>2, TokensAreEnough
<1>5. Tokens(question) \in Int
  BY DEF Tokens
<1> DEFINE wanted == (size * 4) \div 5
           taken == Tokens(question) + Total(t)
<1>6. wanted \in Int /\ taken \in Int
  BY <1>3, <1>4, <1>5
<1>7. FillerTokens(size, needles, question) = IF wanted - taken < 64 THEN 64 ELSE wanted - taken
  BY DEF FillerTokens
<1> HIDE DEF wanted, taken
<1> QED
  BY <1>6, <1>7

\* The needle with the number, to be inserted.
Made(needles, i) == [what |-> i, length |-> needles[i].length, depth |-> needles[i].depth]

\* The sorted needles are a function of the ranks.
LEMMA DeepestIsFunction ==
  ASSUME NEW S PROVE DeepestFirst(S) = [i \in 1..Cardinality(S) |-> DeepestFirst(S)[i]]
<1> DEFINE e(k) == CHOOSE x \in S : Cardinality({y \in S : Deeper(y, x)}) = k - 1
           a == DeepestFirst(S)
<1>1. a = [k \in 1..Cardinality(S) |-> e(k)]
  BY DEF DeepestFirst
<1> HIDE DEF e, a
<1>2. a = [i \in 1..Cardinality(S) |-> a[i]]
  BY <1>1
<1> QED
  BY <1>2 DEF a

\* The needles in the order in which they are inserted.
AllMade(needles, n) == {Made(needles, i) : i \in 1..n}
Sorted(s, needles, n) ==
  /\ s \in Seq(ToInsert)
  /\ \A k \in 1..Len(s) : s[k].what \in 1..n /\ s[k] = Made(needles, s[k].what)
  /\ \A j, k \in 1..Len(s) : j < k => Deeper(s[j], s[k])
  /\ \A i \in 1..n : \E k \in 1..Len(s) : s[k].what = i

\* The needles are sorted: each is in the list, and the deeper ones are before it.
LEMMA DeepestLists ==
  ASSUME NEW n \in Nat, NEW needles \in [1..n -> Needle]
  PROVE  Sorted(DeepestFirst(AllMade(needles, n)), needles, n)
<1> DEFINE S == AllMade(needles, n)
<1>0. S = {Made(needles, i) : i \in 1..n}
  BY DEF AllMade
<1> HIDE DEF S
<1> DEFINE a == DeepestFirst(S)
           made == [i \in 1..n |-> Made(needles, i)]
<1>1. \A i \in 1..n : Made(needles, i) \in ToInsert /\ Made(needles, i).what = i
  <2> SUFFICES ASSUME NEW i \in 1..n PROVE Made(needles, i) \in ToInsert /\ Made(needles, i).what = i
    OBVIOUS
  <2>1. needles[i] \in Needle
    OBVIOUS
  <2>2. needles[i].length \in Nat /\ needles[i].depth \in Nat
    BY <2>1 DEF Needle
  <2> QED
    BY <2>2 DEF Made, ToInsert
<1>2. \A x \in S : x \in ToInsert /\ x.what \in 1..n /\ x = Made(needles, x.what) /\ x.depth \in Nat
  BY <1>0, <1>1 DEF ToInsert
<1>3. IsFiniteSet(S)
  <2>1. made \in [1..n -> ToInsert]
    BY <1>1
  <2>2. made \in Seq(ToInsert) /\ DOMAIN made = 1..n
    BY <2>1, FunctionIsSeq
  <2>3. ToSet(made) = S
    BY <1>0, <2>2 DEF ToSet
  <2> QED
    BY <2>2, <2>3, ElementsAreFinite
<1>4. PICK R : \A x, y \in S : <<x, y>> \in R <=> Deeper(x, y)
  <2> DEFINE R == {p \in S \X S : Deeper(p[1], p[2])}
  <2>1. \A x, y \in S : <<x, y>> \in R <=> Deeper(x, y)
    OBVIOUS
  <2> QED
    BY <2>1
<1>5. IsOrder(R, S)
  <2>1. ASSUME NEW x \in S PROVE ~Deeper(x, x)
    BY <1>2 DEF Deeper
  <2>2. ASSUME NEW x \in S, NEW y \in S, NEW z \in S, Deeper(x, y), Deeper(y, z) PROVE Deeper(x, z)
    <3>1. x.depth \in Nat /\ y.depth \in Nat /\ z.depth \in Nat /\ x.what \in Nat /\ y.what \in Nat /\ z.what \in Nat
      BY <1>2
    <3> QED
      BY <2>2, <3>1 DEF Deeper
  <2>3. ASSUME NEW x \in S, NEW y \in S, x # y PROVE Deeper(x, y) \/ Deeper(y, x)
    <3>1. x.depth \in Nat /\ y.depth \in Nat /\ x.what \in Nat /\ y.what \in Nat
      BY <1>2
    <3>2. x.what # y.what
      BY <1>2, <2>3
    <3> QED
      BY <3>1, <3>2 DEF Deeper
  <2> QED
    BY <1>4, <2>1, <2>2, <2>3 DEF IsOrder
<1>6. \A x \in S : Cardinality({y \in S : Deeper(y, x)}) = Rank(R, S, x)
  <2>1. \A x \in S : {y \in S : Deeper(y, x)} = Before2(R, S, x)
    BY <1>4 DEF Before2
  <2> QED
    BY <2>1 DEF Rank
<1>7. /\ a = [i \in 1..Cardinality(S) |-> a[i]]
      /\ \A i \in 1..Cardinality(S) : \A x \in S :
            Rank(R, S, x) = i - 1 => a[i] \in S /\ Rank(R, S, a[i]) = i - 1
  <2>1. a = [i \in 1..Cardinality(S) |-> a[i]]
    BY DeepestIsFunction
  <2>2. ASSUME NEW i \in 1..Cardinality(S), NEW x \in S, Rank(R, S, x) = i - 1
        PROVE  a[i] \in S /\ Rank(R, S, a[i]) = i - 1
    <3>1. Cardinality({y \in S : Deeper(y, x)}) = i - 1
      BY <1>6, <2>2
    <3>2. a[i] = CHOOSE u \in S : Cardinality({y \in S : Deeper(y, u)}) = i - 1
      BY DEF DeepestFirst
    <3> HIDE DEF a
    <3>3. a[i] \in S /\ Cardinality({y \in S : Deeper(y, a[i])}) = i - 1
      BY <3>1, <3>2
    <3> QED
      BY <1>6, <3>3
  <2> QED
    BY <2>1, <2>2
<1> HIDE DEF a
<1>8. Lists(a, R, S)
  BY <1>3, <1>5, <1>7, RanksList
<1>9. a \in Seq(S) /\ \A k \in 1..Len(a) : a[k] \in S
  <2>1. a \in Seq(S)
    BY <1>8 DEF Lists
  <2>2. \A k \in 1..Len(a) : a[k] \in S
    BY <2>1, ElementOfSeq
  <2> QED
    BY <2>1, <2>2
<1>10. a \in Seq(ToInsert)
  BY <1>2, <1>9
<1>11. \A k \in 1..Len(a) : a[k].what \in 1..n /\ a[k] = Made(needles, a[k].what)
  BY <1>2, <1>9
<1>12. \A j, k \in 1..Len(a) : j < k => Deeper(a[j], a[k])
  BY <1>4, <1>8, <1>9 DEF Lists
<1>13. \A i \in 1..n : \E k \in 1..Len(a) : a[k].what = i
  <2> SUFFICES ASSUME NEW i \in 1..n PROVE \E k \in 1..Len(a) : a[k].what = i
    OBVIOUS
  <2>1. Made(needles, i) \in S /\ Made(needles, i).what = i
    BY <1>0, <1>1
  <2>2. PICK k \in 1..Len(a) : a[k] = Made(needles, i)
    BY <1>8, <2>1 DEF Lists
  <2> QED
    BY <2>1, <2>2
<1> QED
  BY <1>10, <1>11, <1>12, <1>13 DEF a, S, Sorted

\* The fields of what is asked.
LEMMA AskedFields ==
  ASSUME TextTypes
  PROVE  /\ asked.at \in {"rest", "refused", "inserting", "built"} /\ asked.size \in Nat
         /\ asked.question \in Nat /\ asked.room \in Nat
         /\ asked.needles \in Seq(Needle) /\ Len(asked.needles) \in Nat
         /\ DOMAIN asked.needles = 1..Len(asked.needles)
         /\ asked.needles \in [1..Len(asked.needles) -> Needle]
         /\ \A i \in DOMAIN asked.needles :
               asked.needles[i].length \in Nat /\ asked.needles[i].depth \in Nat /\ i \in Nat /\ i >= 1
<1> DEFINE s == asked.needles
<1>1. /\ asked.at \in {"rest", "refused", "inserting", "built"} /\ asked.size \in Nat
      /\ asked.question \in Nat /\ asked.room \in Nat /\ s \in Seq(Needle)
  BY DEF TextTypes
<1> HIDE DEF s
<1>2. Len(s) \in Nat /\ DOMAIN s = 1..Len(s) /\ s \in [1..Len(s) -> Needle]
  BY <1>1
<1>3. \A i \in DOMAIN s : s[i].length \in Nat /\ s[i].depth \in Nat /\ i \in Nat /\ i >= 1
  <2>1. \A x \in Needle : x.length \in Nat /\ x.depth \in Nat
    BY DEF Needle
  <2> QED
    BY <1>2, <2>1
<1> QED
  BY <1>1, <1>2, <1>3 DEF s

\* A text that is begun is all filler, with all needles waiting in order.
LEMMA StartKeepsText ==
  ASSUME TextAssumption, TextInv, NEW size \in PromptSize, NEW question \in QuestionLength,
         NEW over \in Overshoot, NEW needles \in SeqOf(NeedleOf, MaxNeedles),
         StartsPrompt(size, needles, question, over)
  PROVE  TextInv'
<1>1. size \in Nat /\ question \in Nat /\ over \in Nat
  BY DEF TextAssumption
<1>2. needles \in Seq(Needle) /\ Len(needles) \in Nat /\ DOMAIN needles = 1..Len(needles)
      /\ needles \in [1..Len(needles) -> Needle]
  <2>1. PICK m \in 0..MaxNeedles : needles \in [1..m -> NeedleOf]
    BY DEF SeqOf
  <2>2. MaxNeedles \in Nat /\ NeedleLength \subseteq Nat /\ NeedleDepth \subseteq Nat
    BY DEF TextAssumption
  <2>6. m \in Nat
    BY <2>2
  <2>7. \A x \in NeedleOf : x \in Needle
    BY <2>2 DEF NeedleOf, Needle
  <2>3. m \in Nat /\ \A x \in NeedleOf : x \in Needle
    BY <2>6, <2>7
  <2>4. needles \in [1..m -> Needle]
    BY <2>1, <2>3
  <2>5. needles \in Seq(Needle)
    BY <2>3, <2>4, FunctionIsSeq
  <2> QED
    BY <2>5
<1>3. asked.at = "rest" /\ marked' = marked
  BY DEF StartsPrompt
<1>4. MarkedInv'
  BY <1>3 DEF TextInv, MarkedInv
<1>5. CASE ~Valid(needles)
  <2>1. asked' = [asked EXCEPT !.at = "refused"] /\ pieces' = pieces /\ left' = left
    BY <1>5 DEF StartsPrompt
  <2>2. TextTypes' /\ asked'.at = "refused"
    BY <2>1 DEF TextInv, TextTypes
  <2>3. AskedInv' /\ LeftInv' /\ LengthInv' /\ ShapeInv'
    BY <2>2 DEF AskedInv, LeftInv, LengthInv, ShapeInv
  <2> QED
    BY <1>4, <2>2, <2>3 DEF TextInv
<1>6. CASE Valid(needles)
  <2> DEFINE filler == (5 * FillerTokens(size, needles, question) + 1) \div 2 + over
             c == [what |-> OfFiller, length |-> filler]
             S == AllMade(needles, Len(needles))
             n == Len(needles)
  <2>1. /\ asked' = [at |-> "inserting", size |-> size, needles |-> needles, question |-> question, room |-> filler]
        /\ pieces' = <<c>> /\ left' = DeepestFirst(S)
    BY <1>6, <1>2 DEF StartsPrompt, Made, AllMade
  <2>2. filler \in Nat
    <3> DEFINE f == FillerTokens(size, needles, question)
               x == 5 * f + 1
               y == x \div 2
    <3>1. f \in Nat
      BY <1>1, <1>2, FillerIsNat
    <3> HIDE DEF f
    <3>2. x \in Nat
      BY <3>1
    <3> HIDE DEF x
    <3>3. y \in Nat
      BY <3>2
    <3> HIDE DEF y
    <3>4. y + over \in Nat
      BY <3>3, <1>1
    <3>5. filler = y + over
      BY DEF y, x, f
    <3> HIDE DEF filler
    <3> QED
      BY <3>4, <3>5
  <2>3. /\ left' \in Seq(ToInsert)
        /\ \A k \in 1..Len(left') : left'[k].what \in 1..n /\ left'[k] = Made(needles, left'[k].what)
        /\ \A j, k \in 1..Len(left') : j < k => Deeper(left'[j], left'[k])
        /\ \A i \in 1..n : \E k \in 1..Len(left') : left'[k].what = i
    <3>1. Sorted(DeepestFirst(S), needles, n)
      BY <1>2, DeepestLists
    <3> HIDE DEF S, n, filler
    <3>2. Sorted(left', needles, n)
      BY <2>1, <3>1
    <3> QED
      BY <3>2 DEF Sorted
  <2> HIDE DEF S, filler
  <2>4. /\ asked'.at = "inserting" /\ asked'.needles = needles /\ asked'.room = filler
        /\ asked'.size = size /\ asked'.question = question
    BY <2>1
  <2>5. c \in Piece /\ c.length = filler /\ c.what = OfFiller
    BY <2>2 DEF Piece, OfFiller
  <2> HIDE DEF c
  <2>6. pieces' \in Text /\ Lengths(pieces') = filler
    BY <2>1, <2>5, LengthsOfFew
  <2>7. TextTypes'
    BY <1>1, <1>2, <2>1, <2>2, <2>3, <2>6 DEF TextTypes
  <2>8. AskedInv'
    <3>1. filler = (5 * FillerTokens(size, needles, question) + 1) \div 2 + over
      BY DEF filler
    <3>2. asked'.room <= Lengths(pieces')
      BY <2>2, <2>4, <2>6
    <3>3. Valid(asked'.needles) /\ asked'.room = (5 * FillerTokens(asked'.size, asked'.needles, asked'.question) + 1) \div 2 + over
      BY <1>6, <2>4, <3>1
    <3> QED
      BY <3>2, <3>3 DEF AskedInv
  <2>9. \A i \in 1..n : Made(needles, i) = Entry(i)'
    BY <2>4 DEF Made, Entry
  <2>10. LeftInv'
    BY <1>2, <2>3, <2>4, <2>9 DEF LeftInv
  <2>11. \A i \in DOMAIN asked'.needles : Waiting(i)'
    BY <1>2, <2>3, <2>4 DEF Waiting
  <2>12. LengthInv'
    <3>1. Owed' = Extra'
      BY <2>11 DEF Owed, Extra
    <3>2. Total(Extra)' \in Nat
      <4> DEFINE e == [i \in 1..n |-> needles[i].length + 4]
      <4>1. Extra' = e
        BY <1>2, <2>4 DEF Extra
      <4>2. e \in [1..n -> Nat]
        BY <1>2 DEF Needle
      <4> HIDE DEF e
      <4> QED
        BY <1>2, <4>1, <4>2, TotalIsNat
    <3>3. Lengths(pieces') + Total(Owed') = asked'.room + Total(Extra')
      BY <2>2, <2>4, <2>6, <3>1, <3>2
    <3> QED
      BY <2>4, <3>3 DEF LengthInv
  <2>13. ShapeInv'
    <3> DEFINE none == <<>>
    <3>1. pieces' = <<c>> \o none /\ none \in Text /\ \A w : Without(none, w)
      BY <2>1, LengthsOfFew, WithoutFew
    <3>2. Begins(c, none)'
      BY <2>5, <2>11, <3>1 DEF Begins
    <3>3. left' # <<>>
      <4>1. needles # <<>>
        BY <1>6 DEF Valid
      <4>2. 1 \in 1..n
        BY <1>2, <4>1
      <4>3. PICK k \in 1..Len(left') : TRUE
        BY <2>3, <4>2
      <4> QED
        BY <4>3
    <3> HIDE DEF none
    <3>4. \E d \in Piece, rest \in Text : Begins(d, rest)'
      BY <2>5, <3>1, <3>2
    <3> QED
      BY <2>4, <3>3, <3>4 DEF ShapeInv
  <2> QED
    BY <1>4, <2>7, <2>8, <2>10, <2>12, <2>13 DEF TextInv
<1> QED
  BY <1>5, <1>6

\* A place stays deep when the text behind it becomes longer.
LEMMA DeepWhenLonger ==
  ASSUME NEW i, asked.needles[i].depth \in 0..100, asked.room \in Nat,
         NEW s \in Nat, NEW g \in Nat, NEW length \in Nat, Deep(i, s, length)
  PROVE  Deep(i, s, length + g)
<1> DEFINE d == asked.needles[i].depth
           room == asked.room
<1>1. d \in 0..100 /\ room \in Nat
  OBVIOUS
<1>2. 100 * s - d * length <= 100 * (length - room) /\ d * length - 100 * s <= 100 * (length - room)
  BY DEF Deep
<1> HIDE DEF d, room
<1>3. d * g <= 100 * g /\ d * g >= 0 /\ d * length \in Int /\ d * g \in Int
  BY <1>1
<1>4. d * (length + g) = d * length + d * g
  BY <1>1
<1>5. 100 * (length + g - room) = 100 * (length - room) + 100 * g
  BY <1>1
<1>6. /\ 100 * s - d * (length + g) <= 100 * (length + g - room)
      /\ d * (length + g) - 100 * s <= 100 * (length + g - room)
  BY <1>1, <1>2, <1>3, <1>4, <1>5
<1> QED
  BY <1>6 DEF Deep, d, room

\* A needle stays where it is when the text goes on.
LEMMA PlacedBefore ==
  ASSUME NEW i, NeedleAt(i) \in Piece, asked.needles[i].depth \in 0..100, asked.room \in Nat,
         NEW text \in Text, NEW length \in Nat, Placed(i, text, 0, length),
         NEW end \in Text, Without(end, i), NEW g \in Nat, g = Lengths(end)
  PROVE  Placed(i, text \o end, 0, length + g)
<1>1. PICK a \in Text, b \in Text :
        /\ text = a \o (<<NeedleAt(i)>> \o b) /\ Without(a, i) /\ Without(b, i)
        /\ Deep(i, 0 + Lengths(a), length)
  BY DEF Placed
<1> DEFINE s == 0 + Lengths(a)
           more == b \o end
           one == <<NeedleAt(i)>>
<1>2. s \in Nat
  <2>1. Lengths(a) \in Nat
    BY LengthsAdd
  <2> QED
    BY <2>1
<1>3. more \in Text /\ Without(more, i)
  BY <1>1, LengthsAdd, WithoutBoth
<1>4. one \in Text
  BY LengthsOfFew
<1> HIDE DEF one
<1>5. SameText(text \o end, a \o (one \o more))
  <2> DEFINE u == one \o b
  <2>1. u \in Text
    BY <1>4, LengthsAdd
  <2>2. (one \o b) \o end = one \o (b \o end)
    <3>1. Regroups(one, b, end)
      BY <1>4, Regroup
    <3> QED
      BY <3>1 DEF Regroups
  <2>3. text = a \o u
    BY <1>1 DEF one
  <2> HIDE DEF u
  <2>4. (a \o u) \o end = a \o (u \o end)
    <3>1. Regroups(a, u, end)
      BY <2>1, Regroup
    <3> QED
      BY <3>1 DEF Regroups
  <2> QED
    BY <2>2, <2>3, <2>4 DEF SameText, u
<1>6. Deep(i, s, length + g)
  <2>1. Deep(i, s, length)
    BY <1>1
  <2> HIDE DEF s
  <2> QED
    BY <1>2, <2>1, DeepWhenLonger
<1> HIDE DEF more
<1>7. text \o end = a \o (<<NeedleAt(i)>> \o more)
  BY <1>5 DEF SameText, one
<1> QED
  BY <1>1, <1>3, <1>6, <1>7 DEF Placed

\* What is said of the needles depends on them and on the size of the filler.
LEMMA SameAsked ==
  ASSUME asked'.needles = asked.needles, asked'.room = asked.room
  PROVE  /\ Separate' = Separate /\ Total(Extra)' = Total(Extra)
         /\ \A i : NeedleAt(i)' = NeedleAt(i) /\ Entry(i)' = Entry(i)
         /\ \A i, s, l : Deep(i, s, l)' = Deep(i, s, l)
         /\ \A i, t, s, l : Placed(i, t, s, l)' = Placed(i, t, s, l)
<1>1. Separate' = Separate /\ Total(Extra)' = Total(Extra)
  BY DEF Separate, Apart, Extra
<1>2. \A i : NeedleAt(i)' = NeedleAt(i) /\ Entry(i)' = Entry(i)
  BY DEF NeedleAt, Entry
<1>3. \A i, s, l : Deep(i, s, l)' = Deep(i, s, l)
  BY DEF Deep
<1>4. \A i, t, s, l : Placed(i, t, s, l)' = Placed(i, t, s, l)
  BY <1>2, <1>3 DEF Placed
<1> QED
  BY <1>1, <1>2, <1>3, <1>4

\* A needle of a valid template is a piece, with a depth of up to 100 per cent.
LEMMA NeedlesArePieces ==
  ASSUME TextTypes, Valid(asked.needles), NEW i \in DOMAIN asked.needles
  PROVE  /\ NeedleAt(i) \in Piece /\ NeedleAt(i).length = asked.needles[i].length /\ NeedleAt(i).what = i
         /\ asked.needles[i].depth \in 0..100 /\ asked.needles[i].length \in Nat
         /\ i \in Nat /\ i # OfFiller /\ i # OfGap /\ i # OfQuestion
<1>1. asked.needles[i].length \in Nat /\ asked.needles[i].depth \in Nat /\ i \in Nat /\ i >= 1
  BY AskedFields
<1>2. asked.needles[i].depth <= 100
  BY DEF Valid
<1>3. i \in Int /\ i # OfFiller /\ i # OfGap /\ i # OfQuestion
  BY <1>1 DEF OfFiller, OfGap, OfQuestion
<1> QED
  BY <1>1, <1>2, <1>3 DEF NeedleAt, Piece

\* The question behind the text leaves the needles where they are.
LEMMA QuestionKeepsText ==
  ASSUME TextInv, AppendsQuestion PROVE TextInv'
<1> DEFINE q == [what |-> OfQuestion, length |-> asked.question]
           end == Gap2 \o <<q>>
           g == 2 + asked.question
           l == Lengths(pieces)
<1>1. /\ asked.at = "inserting" /\ left = <<>> /\ left' = left /\ marked' = marked
      /\ pieces' = pieces \o Gap2 \o <<q>> /\ asked' = [asked EXCEPT !.at = "built"]
  BY DEF AppendsQuestion
<1>2. TextTypes /\ AskedInv /\ LeftInv /\ LengthInv /\ ShapeInv /\ MarkedInv
  BY DEF TextInv
<1>3. /\ asked.question \in Nat /\ asked.room \in Nat /\ pieces \in Text /\ l \in Nat /\ Valid(asked.needles)
      /\ asked.room <= l
  BY <1>1, <1>2, AskedFields, LengthsAdd DEF TextTypes, AskedInv
<1>4. /\ asked'.at = "built" /\ asked'.needles = asked.needles /\ asked'.room = asked.room
      /\ asked'.size = asked.size /\ asked'.question = asked.question
  BY <1>1, <1>2 DEF TextTypes
<1>5. q \in Piece /\ q.length = asked.question /\ q.what = OfQuestion
  BY <1>3 DEF Piece, OfQuestion
<1> HIDE DEF q
<1>6. <<q>> \in Text /\ Lengths(<<q>>) = asked.question /\ \A w : w # OfQuestion => Without(<<q>>, w)
  BY <1>5, LengthsOfFew, WithoutFew
<1>7. end \in Text /\ Lengths(end) = g /\ g \in Nat
  <2> DEFINE one == <<q>>
  <2>1. one \in Text /\ Lengths(one) = asked.question
    BY <1>6
  <2> HIDE DEF one
  <2>2. Gap2 \o one \in Text /\ Lengths(Gap2 \o one) = 2 + asked.question
    BY <2>1, GapIsText, LengthsAdd
  <2> QED
    BY <2>2, <1>3 DEF one
<1>8. \A w : (w # OfGap /\ w # OfQuestion) => Without(end, w)
  BY <1>6, GapIsText, WithoutBoth
<1>9. SameText(pieces', pieces \o end)
  <2>1. (pieces \o Gap2) \o <<q>> = pieces \o (Gap2 \o <<q>>)
    <3>1. Regroups(pieces, Gap2, <<q>>)
      BY <1>3, <1>6, GapIsText, Regroup
    <3> QED
      BY <3>1 DEF Regroups
  <2> QED
    BY <1>1, <2>1 DEF SameText
<1> HIDE DEF end, g, l
<1>10. pieces' = pieces \o end
  BY <1>9 DEF SameText
<1>11. pieces' \in Text /\ Lengths(pieces') = l + g
  BY <1>3, <1>7, <1>10, LengthsAdd DEF l
<1>12. TextTypes'
  BY <1>1, <1>2, <1>11 DEF TextTypes
<1>13. AskedInv'
  <2>1. asked'.room <= Lengths(pieces')
    BY <1>3, <1>4, <1>7, <1>11
  <2>2. Valid(asked'.needles) /\ \E over \in Overshoot :
          asked'.room = (5 * FillerTokens(asked'.size, asked'.needles, asked'.question) + 1) \div 2 + over
    BY <1>1, <1>2, <1>4 DEF AskedInv
  <2> QED
    BY <2>1, <2>2 DEF AskedInv
<1>14. LeftInv'
  BY <1>1, <1>4 DEF LeftInv
<1>15. LengthInv'
  <2>1. l + Total(Owed) = asked.room + Total(Extra)
    BY <1>1, <1>2 DEF LengthInv, l
  <2>2. Total(Owed) = 0
    <3> DEFINE n == Len(asked.needles)
    <3>1. n \in Nat /\ DOMAIN asked.needles = 1..n
      BY <1>2, AskedFields
    <3>2. \A i : ~Waiting(i)
      BY <1>1 DEF Waiting
    <3> DEFINE o == Owed
    <3>3. o \in [1..n -> Int] /\ \A i \in 1..n : o[i] = 0
      BY <3>1, <3>2 DEF Owed
    <3> HIDE DEF o, n
    <3>4. Total(o) = 0
      BY <3>1, <3>3, TotalOfZeros
    <3> QED
      BY <3>4 DEF o
  <2>3. Total(Extra)' = Total(Extra)
    BY <1>4, SameAsked
  <2>4. l = asked.room + Total(Extra)
    BY <1>3, <2>1, <2>2
  <2>5. Lengths(pieces') = asked'.room + Total(Extra') + 2 + asked'.question
    <3> DEFINE t == Total(Extra)
    <3>1. Total(Extra') = t
      BY <2>3
    <3>2. l = asked.room + t /\ g = 2 + asked.question
      BY <2>4 DEF g
    <3>4. t \in Int
      <4> DEFINE n == Len(asked.needles)
                 e == Extra
      <4>1. n \in Nat /\ DOMAIN asked.needles = 1..n /\ \A i \in 1..n : asked.needles[i].length \in Nat
        BY <1>2, AskedFields
      <4>2. e \in [1..n -> Nat]
        BY <4>1 DEF Extra
      <4> HIDE DEF e, n
      <4>3. Total(e) \in Nat
        BY <4>1, <4>2, TotalIsNat
      <4> QED
        BY <4>3 DEF e
    <3> HIDE DEF t
    <3> QED
      BY <1>3, <1>4, <1>11, <3>1, <3>2, <3>4
  <2> QED
    BY <1>4, <2>5 DEF LengthInv
<1>16. ShapeInv'
  <2>1. ASSUME Separate, NEW i \in DOMAIN asked.needles PROVE Placed(i, pieces, 0, Lengths(pieces))'
    <3>1. Placed(i, pieces, 0, l)
      BY <1>1, <1>2, <2>1 DEF ShapeInv, l
    <3>2. NeedleAt(i) \in Piece /\ asked.needles[i].depth \in 0..100 /\ i # OfGap /\ i # OfQuestion
      BY <1>2, <1>3, NeedlesArePieces
    <3>3. Without(end, i)
      BY <1>8, <3>2
    <3>4. Placed(i, pieces \o end, 0, l + g)
      BY <1>3, <1>7, <3>1, <3>2, <3>3, PlacedBefore
    <3>5. Placed(i, pieces', 0, Lengths(pieces'))
      BY <3>4, <1>10, <1>11
    <3> QED
      BY <1>4, <3>5 DEF Placed, NeedleAt, Deep
  <2>2. Separate' = Separate
    BY <1>4, SameAsked
  <2> QED
    BY <1>1, <1>4, <2>1, <2>2 DEF ShapeInv
<1>17. MarkedInv'
  BY <1>1, <1>2 DEF MarkedInv
<1> QED
  BY <1>12, <1>13, <1>14, <1>15, <1>16, <1>17 DEF TextInv

\* The needle that is put in is one of the template, and the next is not as deep.
LEMMA HeadOfLeft ==
  ASSUME TextTypes, LeftInv, asked.at = "inserting", left # <<>>
  PROVE  /\ Len(left) \in Nat /\ Len(left) >= 1 /\ Head(left) = left[1]
         /\ Head(left).what \in DOMAIN asked.needles /\ Head(left) = Entry(Head(left).what)
         /\ Tail(left) \in Seq(ToInsert) /\ Len(Tail(left)) = Len(left) - 1
         /\ \A k \in 1..Len(Tail(left)) : Tail(left)[k] = left[k + 1]
<1>1. left \in Seq(ToInsert) /\ Len(left) \in Nat
  BY DEF TextTypes
<1>2. Len(left) >= 1 /\ Head(left) = left[1] /\ Tail(left) \in Seq(ToInsert) /\ Len(Tail(left)) = Len(left) - 1
      /\ \A k \in 1..Len(Tail(left)) : Tail(left)[k] = left[k + 1]
  BY <1>1, HeadTailProperties
<1>3. 1 \in 1..Len(left)
  BY <1>1, <1>2
<1>4. left[1].what \in DOMAIN asked.needles /\ left[1] = Entry(left[1].what)
  BY <1>3 DEF LeftInv
<1> QED
  BY <1>1, <1>2, <1>4

\* The rest of the needles are still in order, and the first waits no more.
LEMMA TailOfLeft ==
  ASSUME TextTypes, LeftInv, asked.at = "inserting", left # <<>>, left' = Tail(left), asked' = asked
  PROVE  /\ left' \in Seq(ToInsert) /\ LeftInv'
         /\ \A i : Waiting(i)' <=> (Waiting(i) /\ i # Head(left).what)
         /\ left' # <<>> =>
              /\ Head(left').what \in DOMAIN asked.needles /\ Head(left') = Entry(Head(left').what)
              /\ Deeper(Head(left), Head(left'))
<1> DEFINE n == Len(left)
           m == Len(left')
<1>1. /\ n \in Nat /\ n >= 1 /\ Head(left) = left[1] /\ left' \in Seq(ToInsert) /\ m = n - 1
      /\ \A k \in 1..m : left'[k] = left[k + 1]
  BY HeadOfLeft
<1>2. /\ \A k \in 1..n : left[k].what \in DOMAIN asked.needles /\ left[k] = Entry(left[k].what)
      /\ \A j, k \in 1..n : j < k => Deeper(left[j], left[k])
  BY DEF LeftInv
<1>20. \A i \in DOMAIN asked.needles : i \in Nat /\ asked.needles[i].depth \in Nat
  BY AskedFields
<1> HIDE DEF n, m
<1>3. \A k \in 1..m : k + 1 \in 1..n /\ k + 1 > 1
  BY <1>1
<1>4. \A k \in 1..m : left'[k].what \in DOMAIN asked.needles /\ left'[k] = Entry(left'[k].what)
  BY <1>1, <1>2, <1>3
<1>5. \A j, k \in 1..m : j < k => Deeper(left'[j], left'[k])
  <2> SUFFICES ASSUME NEW j \in 1..m, NEW k \in 1..m, j < k PROVE Deeper(left'[j], left'[k])
    OBVIOUS
  <2>1. j + 1 \in 1..n /\ k + 1 \in 1..n /\ j + 1 < k + 1
    BY <1>3, <1>1
  <2>2. Deeper(left[j + 1], left[k + 1])
    BY <2>1, <1>2
  <2> QED
    BY <2>2, <1>1
<1>6. \A k \in 1..m : Deeper(left[1], left'[k])
  <2> SUFFICES ASSUME NEW k \in 1..m PROVE Deeper(left[1], left'[k])
    OBVIOUS
  <2>1. 1 \in 1..n /\ k + 1 \in 1..n /\ 1 < k + 1
    BY <1>3, <1>1
  <2>2. Deeper(left[1], left[k + 1])
    BY <2>1, <1>2
  <2> QED
    BY <2>2, <1>1
<1>7. LeftInv'
  <2>1. \A i : Entry(i)' = Entry(i)
    BY DEF Entry
  <2>2. asked'.at = "inserting" /\ asked'.needles = asked.needles
    OBVIOUS
  <2> QED
    BY <1>4, <1>5, <2>1, <2>2 DEF LeftInv, m
<1>8. ASSUME NEW i PROVE Waiting(i)' <=> (Waiting(i) /\ i # left[1].what)
  <2>1. ASSUME Waiting(i)' PROVE Waiting(i) /\ i # left[1].what
    <3>1. PICK k \in 1..m : left'[k].what = i
      BY <2>1 DEF Waiting, m
    <3>2. left[k + 1].what = i /\ k + 1 \in 1..n
      BY <3>1, <1>1, <1>3
    <3>3. Waiting(i)
      BY <3>2 DEF Waiting, n
    <3>4. i # left[1].what
      <4>1. Deeper(left[1], left'[k])
        BY <1>6
      <4>2. 1 \in 1..n
        BY <1>1
      <4>3. left[1] = Entry(left[1].what) /\ left[1].what \in DOMAIN asked.needles
        BY <4>2, <1>2
      <4>4. left'[k] = Entry(i) /\ i \in DOMAIN asked.needles
        BY <3>1, <1>4
      <4>5. ASSUME i = left[1].what PROVE FALSE
        <5>1. Deeper(Entry(i), Entry(i)) /\ Entry(i).what = i /\ Entry(i).depth = asked.needles[i].depth
          BY <4>1, <4>3, <4>4, <4>5 DEF Entry
        <5> QED
          BY <5>1, <1>20, <4>4 DEF Deeper
      <4> QED
        BY <4>5
    <3> QED
      BY <3>3, <3>4
  <2>2. ASSUME Waiting(i), i # left[1].what PROVE Waiting(i)'
    <3>1. PICK k \in 1..n : left[k].what = i
      BY <2>2 DEF Waiting, n
    <3>2. k # 1
      BY <3>1, <2>2
    <3>3. k - 1 \in 1..m /\ (k - 1) + 1 = k
      BY <3>2, <1>1
    <3>4. left'[k - 1] = left[k]
      BY <3>3, <1>1
    <3> QED
      BY <3>1, <3>3, <3>4 DEF Waiting, m
  <2> QED
    BY <2>1, <2>2
<1>9. ASSUME left' # <<>>
      PROVE /\ Head(left').what \in DOMAIN asked.needles /\ Head(left') = Entry(Head(left').what)
            /\ Deeper(left[1], Head(left'))
  <2>1. m >= 1 /\ Head(left') = left'[1]
    BY <1>1, <1>9 DEF m
  <2>2. 1 \in 1..m
    BY <2>1, <1>1
  <2> QED
    BY <2>1, <2>2, <1>4, <1>6
<1> QED
  BY <1>1, <1>7, <1>8, <1>9

\* What is still to be put in gets less by the needle that is put in.
LEMMA OwedLess ==
  ASSUME TextTypes, NEW j \in DOMAIN asked.needles, asked' = asked, Waiting(j),
         \A i : Waiting(i)' <=> (Waiting(i) /\ i # j)
  PROVE  /\ Total(Owed)' = Total(Owed) - (asked.needles[j].length + 4) /\ Total(Owed) \in Int
<1> DEFINE n == Len(asked.needles)
           s == Owed
           t == Owed'
<1>1. /\ n \in Nat /\ DOMAIN asked.needles = 1..n
      /\ \A i \in 1..n : asked.needles[i].length \in Nat
  BY AskedFields
<1>2. s = [i \in 1..n |-> IF Waiting(i) THEN asked.needles[i].length + 4 ELSE 0]
  BY <1>1 DEF Owed
<1>3. t = [i \in 1..n |-> IF Waiting(i)' THEN asked.needles[i].length + 4 ELSE 0]
  BY <1>1 DEF Owed
<1> HIDE DEF s, t, n
<1>4. s \in [1..n -> Int] /\ t \in [1..n -> Int]
  BY <1>1, <1>2, <1>3
<1>5. \A i \in 1..n : i # j => t[i] = s[i]
  BY <1>2, <1>3
<1>6. j \in 1..n
  BY <1>1
<1>7. s[j] = asked.needles[j].length + 4 /\ t[j] = 0
  BY <1>2, <1>3, <1>6
<1>8. Total(t) = Total(s) + t[j] - s[j] /\ Total(s) \in Int
  <2>1. Total(s) \in Int
    <3>1. PICK S : Sums(S, s, n) /\ S[n] = Total(s)
      BY <1>1, <1>4, TotalSums
    <3>2. S \in [0..n -> Int] /\ n \in 0..n
      BY <1>1, <3>1 DEF Sums
    <3> QED
      BY <3>1, <3>2
  <2>2. Total(t) = Total(s) + t[j] - s[j]
    BY <1>1, <1>4, <1>5, <1>6, TotalDiffers
  <2> QED
    BY <2>1, <2>2
<1>9. Total(Owed)' = Total(t) /\ Total(Owed) = Total(s)
  BY DEF s, t
<1>10. asked.needles[j].length \in Nat
  BY <1>1, <1>6
<1> QED
  BY <1>7, <1>8, <1>9, <1>10

\* A place that is the nearest to what was asked for is deep enough.
LEMMA DeepAtPosition ==
  ASSUME NEW i, asked.needles[i].depth \in 0..100, asked.room \in Nat, NEW length \in Nat,
         asked.room <= length, NEW g \in Nat, g >= 4
  PROVE  Deep(i, Position(length, asked.needles[i].depth) + 2, length + g)
<1> DEFINE d == asked.needles[i].depth
           room == asked.room
           at == Position(length, d)
<1>1. d \in 0..100 /\ room \in Nat /\ room <= length
  OBVIOUS
<1> HIDE DEF d, room
<1>2. at \in 0..length /\ 200 * at <= 2 * (length * d) + 100 /\ 200 * at >= 2 * (length * d) - 99
  BY <1>1, PositionIsNear
<1> HIDE DEF at
<1> DEFINE p == length * d
           q == d * g
           r == d * (length + g)
<1>3. q <= 100 * g /\ q >= 0 /\ p \in Int /\ q \in Int
  BY <1>1
<1>4. r = p + q
  BY <1>1
<1>5. 200 * at <= 2 * p + 100 /\ 200 * at >= 2 * p - 99 /\ at \in Int
  BY <1>2
<1> HIDE DEF p, q, r
<1>6. /\ 100 * (at + 2) - r <= 100 * (length + g - room)
      /\ r - 100 * (at + 2) <= 100 * (length + g - room)
  BY <1>1, <1>3, <1>4, <1>5
<1> QED
  BY <1>6 DEF Deep, d, room, at, r

\* The needle that is put in is where it was asked for.
LEMMA JustPlaced ==
  ASSUME NEW j, NeedleAt(j) \in Piece, NeedleAt(j).length = asked.needles[j].length,
         asked.needles[j].depth \in 0..100, j # OfGap, asked.room \in Nat,
         NEW c \in Piece, c.what # j, NEW n \in Nat, NEW rest \in Text, Without(rest, j),
         NEW length \in Nat, asked.room <= length, NEW at \in Nat, at = Position(length, asked.needles[j].depth),
         NEW g \in Nat, g = asked.needles[j].length + 4, asked.needles[j].length \in Nat
  PROVE  Placed(j, Follows(NeedleAt(j), c, n, rest), at, length + g)
<1> DEFINE b == Gap2 \o (CutPiece(c, n) \o rest)
           a == Gap2
           x == NeedleAt(j)
<1>1. b \in Text /\ Without(b, j)
  BY FollowsIsText
<1>2. a \in Text /\ Lengths(a) = 2 /\ Without(a, j)
  BY GapIsText
<1>3. Follows(x, c, n, rest) = a \o (<<x>> \o b)
  BY DEF Follows
<1> HIDE DEF a, b
<1>4. g >= 4
  OBVIOUS
<1>5. Deep(j, at + 2, length + g)
  BY <1>4, DeepAtPosition
<1>6. Deep(j, at + Lengths(a), length + g)
  BY <1>2, <1>5
<1> QED
  BY <1>1, <1>2, <1>3, <1>6 DEF Placed

\* The place of a needle is in the first piece of the text.
LEMMA PlaceInFirst ==
  ASSUME NEW c \in Piece, NEW rest \in Text, NEW t \in Text, SameText(t, <<c>> \o rest), NEW d \in 0..100,
         rest = <<>> \/ Position(Lengths(t), d) < c.length
  PROVE  /\ Position(Lengths(t), d) \in 0..c.length
         /\ rest = <<>> \/ Position(Lengths(t), d) < c.length
<1> DEFINE l == Lengths(t)
           at == Position(l, d)
           one == <<c>>
<1>1. l \in Nat
  BY LengthsAdd
<1>2. one \in Text /\ Lengths(one) = c.length /\ c.length \in Nat
  BY LengthsOfFew DEF Piece
<1>3. l = c.length + Lengths(rest) /\ Lengths(rest) \in Nat
  <2> HIDE DEF one
  <2>1. Lengths(one \o rest) = Lengths(one) + Lengths(rest) /\ Lengths(rest) \in Nat
    BY <1>2, LengthsAdd
  <2>2. t = one \o rest
    BY DEF SameText, one
  <2> QED
    BY <1>2, <2>1, <2>2
<1> HIDE DEF l, one
<1>4. at \in 0..l
  BY <1>1, PositionIsNear
<1>5. rest = <<>> \/ at < c.length
  BY DEF l
<1>6. rest = <<>> => l = c.length
  BY <1>2, <1>3, LengthsOfFew
<1> HIDE DEF at
<1>7. at \in 0..c.length
  BY <1>1, <1>2, <1>4, <1>5, <1>6
<1> QED
  BY <1>5, <1>7 DEF at, l

\* What is known of the text behind the place, before and after.
FitsBehind(rest, base, length) ==
  /\ \A i \in DOMAIN asked.needles : Waiting(i) => Without(rest, i)
  /\ \A i \in DOMAIN asked.needles : ~Waiting(i) => Placed(i, rest, base, length)
FitsButOne(j, rest, base, length) ==
  /\ \A i \in DOMAIN asked.needles : (Waiting(i) /\ i # j) => Without(rest, i)
  /\ \A i \in DOMAIN asked.needles : ~(Waiting(i) /\ i # j) => Placed(i, rest, base, length)

\* One more needle is in the text behind the place.
LEMMA FollowsFits ==
  ASSUME TextTypes, Valid(asked.needles), NEW j \in DOMAIN asked.needles, Waiting(j),
         NEW c \in Piece, c.what = OfFiller, NEW rest \in Text, NEW length \in Nat, asked.room <= length,
         FitsBehind(rest, c.length, length), NEW at \in 0..c.length, at = Position(length, asked.needles[j].depth)
  PROVE  FitsButOne(j, Follows(NeedleAt(j), c, c.length - at, rest), at, length + asked.needles[j].length + 4)
<1> DEFINE x == NeedleAt(j)
           n == c.length - at
           f == Follows(x, c, n, rest)
           g == asked.needles[j].length + 4
<1>1. asked.room \in Nat /\ c.length \in Nat /\ at \in Nat /\ n \in Nat
  BY AskedFields DEF Piece
<1>2. x \in Piece /\ x.length = asked.needles[j].length /\ x.what = j /\ x.length \in Nat /\ g \in Nat
  BY NeedlesArePieces
<1>3. length + x.length + 4 = length + g /\ length + asked.needles[j].length + 4 = length + g
  BY <1>2
<1>4. ASSUME NEW i \in DOMAIN asked.needles, Waiting(i), i # j PROVE Without(f, i)
  <2>1. i # OfGap /\ i # OfFiller
    BY NeedlesArePieces
  <2>2. Without(rest, i) /\ x.what # i
    BY <1>2, <1>4 DEF FitsBehind
  <2> HIDE DEF x, n
  <2>3. Without(Follows(x, c, n, rest), i) <=> (x.what # i /\ Without(rest, i))
    BY <1>1, <1>2, <2>1, FollowsIsText
  <2> QED
    BY <2>2, <2>3
<1>5. ASSUME NEW i \in DOMAIN asked.needles, ~Waiting(i) PROVE Placed(i, f, at, length + g)
  <2>1. /\ i # OfGap /\ i # OfFiller /\ NeedleAt(i) \in Piece /\ asked.needles[i].depth \in 0..100
    BY NeedlesArePieces
  <2>2. Placed(i, rest, c.length, length) /\ x.what # i /\ c.what # i
    BY <1>2, <1>5, <2>1 DEF FitsBehind
  <2> HIDE DEF x, n, g
  <2>3. Placed(i, Follows(x, c, c.length - at, rest), at, length + x.length + 4)
    BY <1>1, <1>2, <2>1, <2>2, PlacedStays
  <2> QED
    BY <1>3, <2>3 DEF n
<1>6. Placed(j, f, at, length + g)
  <2>1. /\ j # OfGap /\ j # OfFiller /\ NeedleAt(j) \in Piece /\ asked.needles[j].depth \in 0..100
        /\ NeedleAt(j).length = asked.needles[j].length /\ asked.needles[j].length \in Nat
    BY NeedlesArePieces
  <2>2. Without(rest, j) /\ c.what # j
    BY <2>1 DEF FitsBehind
  <2>3. g = asked.needles[j].length + 4
    OBVIOUS
  <2> HIDE DEF x, n, g
  <2> QED
    BY <1>1, <1>2, <2>1, <2>2, <2>3, JustPlaced DEF x
<1> HIDE DEF f, g
<1>7. FitsButOne(j, f, at, length + g)
  <2>1. \A i \in DOMAIN asked.needles : (Waiting(i) /\ i # j) => Without(f, i)
    BY <1>4
  <2>2. \A i \in DOMAIN asked.needles : ~(Waiting(i) /\ i # j) => Placed(i, f, at, length + g)
    BY <1>5, <1>6
  <2> QED
    BY <2>1, <2>2 DEF FitsButOne
<1> QED
  BY <1>3, <1>7 DEF f, x, n

\* Of two needles that are apart, the one that is put in later comes to stand before.
LEMMA NextIsInFront ==
  ASSUME TextTypes, Valid(asked.needles), NEW j \in DOMAIN asked.needles, NEW e \in DOMAIN asked.needles,
         Separate, Deeper(Entry(j), Entry(e)), NEW length \in Nat, asked.room <= length
  PROVE  Position(length + asked.needles[j].length + 4, asked.needles[e].depth)
           < Position(length, asked.needles[j].depth)
<1> DEFINE dj == asked.needles[j].depth
           de == asked.needles[e].depth
           lj == asked.needles[j].length
           le == asked.needles[e].length
           room == asked.room
           g == lj + 4
<1>1. dj \in 0..100 /\ de \in 0..100 /\ lj \in Nat /\ le \in Nat /\ room \in Nat /\ j \in Nat
  BY NeedlesArePieces, AskedFields
<1>2. dj > de \/ (dj = de /\ j < e)
  BY DEF Deeper, Entry
<1>3. j # e
  BY <1>1, <1>2
<1>4. room * (IF dj > de THEN dj - de ELSE de - dj) >= 100 * (lj + 5)
  BY <1>3 DEF Separate, Apart
<1> HIDE DEF dj, de, lj, le, room
<1>5. dj > de
  <2>1. ASSUME dj = de PROVE FALSE
    <3>1. (IF dj > de THEN dj - de ELSE de - dj) = 0
      BY <1>1, <2>1
    <3>2. room * 0 >= 100 * (lj + 5) /\ room * 0 = 0
      BY <1>1, <1>4, <3>1
    <3> QED
      BY <1>1, <3>2
  <2> QED
    BY <1>2, <2>1
<1>6. room * (dj - de) >= 100 * (g + 1) /\ g \in Nat
  BY <1>1, <1>4, <1>5
<1>7. length + lj + 4 = length + g /\ room <= length
  BY <1>1 DEF room
<1> HIDE DEF g
<1>8. Position(length + g, de) < Position(length, dj)
  BY <1>1, <1>5, <1>6, <1>7, NextIsBefore
<1>9. Position(length + lj + 4, de) < Position(length, dj)
  BY <1>7, <1>8
<1> QED
  BY <1>9 DEF de, dj, lj

\* The text with the next needle in it still begins with filler, or has all of them.
LEMMA InsertShapes ==
  ASSUME TextTypes, Valid(asked.needles), asked.room <= Lengths(pieces), Separate,
         asked.at = "inserting", asked' = asked,
         NEW j \in DOMAIN asked.needles, Waiting(j), left # <<>>, Head(left) = Entry(j),
         NEW at, at = Position(Lengths(pieces), asked.needles[j].depth),
         pieces' = PutIn(pieces, at, NeedleAt(j)),
         Lengths(pieces') = Lengths(pieces) + asked.needles[j].length + 4,
         \A i : Waiting(i)' <=> (Waiting(i) /\ i # j),
         left' # <<>> => /\ Head(left').what \in DOMAIN asked.needles
                         /\ Head(left') = Entry(Head(left').what)
                         /\ Deeper(Entry(j), Head(left')),
         NEW c \in Piece, NEW rest \in Text, Begins(c, rest)
  PROVE  ShapeInv'
<1> DEFINE L == Lengths(pieces)
           M == L + asked.needles[j].length + 4
           x == NeedleAt(j)
           f == Follows(x, c, c.length - at, rest)
           front == CutPiece(c, at)
           d == asked.needles[j].depth
<1>1. /\ L \in Nat /\ pieces \in Text /\ c.length \in Nat /\ x \in Piece /\ asked.room \in Nat
      /\ asked.needles[j].length \in Nat /\ d \in 0..100
  <2>1. pieces \in Text
    BY DEF TextTypes
  <2>2. L \in Nat
    BY <2>1, LengthsAdd
  <2> QED
    BY <2>1, <2>2, NeedlesArePieces, AskedFields DEF Piece
<1>2. /\ SameText(pieces, <<c>> \o rest) /\ c.what = OfFiller
      /\ rest = <<>> \/ Position(L, d) < c.length
      /\ FitsBehind(rest, c.length, L)
  <2>1. Head(left).depth = d
    BY DEF Entry
  <2> QED
    BY <2>1 DEF Begins, FitsBehind, SameText
<1>3. at \in 0..c.length /\ (rest = <<>> \/ at < c.length)
  <2> HIDE DEF d
  <2>1. Position(Lengths(pieces), d) \in 0..c.length /\ (rest = <<>> \/ Position(Lengths(pieces), d) < c.length)
    BY <1>1, <1>2, PlaceInFirst
  <2> QED
    BY <2>1 DEF d
<1>4. SameText(pieces', front \o f)
  <2> HIDE DEF x
  <2>1. PutIn(<<c>> \o rest, at, x) = CutPiece(c, at) \o Follows(x, c, c.length - at, rest)
    BY <1>1, <1>3, PutIntoFirst
  <2>2. pieces' = PutIn(pieces, at, x)
    BY DEF x
  <2>3. pieces = <<c>> \o rest
    BY <1>2 DEF SameText
  <2> QED
    BY <2>1, <2>2, <2>3 DEF SameText
<1>5. FitsButOne(j, f, at, M)
  <2>1. L \in Nat /\ asked.room <= L /\ FitsBehind(rest, c.length, L) /\ at = Position(L, asked.needles[j].depth)
    BY <1>1, <1>2
  <2> HIDE DEF L
  <2> QED
    BY <1>2, <1>3, <2>1, FollowsFits
<1>6. at \in Nat /\ c.length - at \in Nat /\ f \in Text /\ front \in Text /\ Lengths(front) = at
      /\ \A w : w # c.what => Without(front, w)
  <2>1. at \in Nat /\ c.length - at \in Nat
    BY <1>1, <1>3
  <2>2. f \in Text
    <3> HIDE DEF x
    <3> QED
      BY <1>1, <2>1, FollowsIsText
  <2>3. front \in Text /\ Lengths(front) = at /\ \A w : w # c.what => Without(front, w)
    BY <2>1, CutPieceIsText
  <2> QED
    BY <2>1, <2>2, <2>3
<1>7. M \in Nat /\ Lengths(pieces') = M
  BY <1>1
<1>8. Separate' /\ asked'.at = "inserting" /\ asked'.needles = asked.needles /\ asked'.room = asked.room
  BY SameAsked
<1>80. \A i, t, s, l : Placed(i, t, s, l)' = Placed(i, t, s, l)
  BY <1>8, SameAsked
<1> HIDE DEF f, M, L, x
<1>20. PICK y, m : SameText(y, f) /\ m = M
  BY DEF SameText
<1>21. /\ SameText(pieces', front \o y) /\ FitsButOne(j, y, at, m) /\ y \in Text
       /\ m \in Nat /\ Lengths(pieces') = m
  BY <1>4, <1>5, <1>6, <1>7, <1>20 DEF SameText
<1>9. CASE left' # <<>>
  <2> DEFINE e == Head(left').what
  <2>0. PICK c2 : c2 = [what |-> c.what, length |-> at]
    OBVIOUS
  <2>1. e \in DOMAIN asked.needles /\ Head(left') = Entry(e) /\ Deeper(Entry(j), Entry(e))
    BY <1>9
  <2>2. Position(m, asked.needles[e].depth) < at
    <3> HIDE DEF e
    <3>1. Position(L + asked.needles[j].length + 4, asked.needles[e].depth) < Position(L, asked.needles[j].depth)
      <4>1. L \in Nat /\ asked.room <= L
        BY <1>1 DEF L
      <4> QED
        BY <2>1, <4>1, NextIsInFront
    <3> QED
      BY <1>20, <3>1 DEF M, L
  <2>3. at # 0
    <3>1. asked.needles[e].depth \in 0..100
      BY <2>1, NeedlesArePieces
    <3> HIDE DEF e
    <3> DEFINE de == asked.needles[e].depth
               pe == Position(m, de)
    <3>2. pe \in 0..m
      <4>1. de \in 0..100
        BY <3>1
      <4> HIDE DEF de
      <4> QED
        BY <1>21, <4>1, PositionIsNear
    <3>3. pe < at
      BY <2>2
    <3> HIDE DEF pe
    <3> QED
      BY <1>6, <1>21, <3>2, <3>3
  <2>4. front = <<c2>>
    BY <2>0, <2>3 DEF CutPiece
  <2>5. c2 \in Piece /\ c2.what = OfFiller /\ c2.length = at
    BY <1>2, <1>6, <2>0 DEF Piece, OfFiller
  <2>6. Begins(c2, y)'
    <3>1. pieces' = <<c2>> \o y /\ c2.what = OfFiller
      BY <1>21, <2>4, <2>5 DEF SameText
    <3>2. Position(Lengths(pieces'), Head(left').depth) < c2.length
      <4>1. Head(left').depth = asked.needles[e].depth
        BY <2>1 DEF Entry
      <4> QED
        BY <1>21, <2>2, <2>5, <4>1
    <3>3. \A i \in DOMAIN asked'.needles : Waiting(i)' => Without(y, i)
      BY <1>21, <1>8 DEF FitsButOne
    <3>4. \A i \in DOMAIN asked'.needles : ~Waiting(i)' => Placed(i, y, c2.length, Lengths(pieces))'
      <4>1. \A i \in DOMAIN asked.needles : ~Waiting(i)' => Placed(i, y, at, m)
        BY <1>21 DEF FitsButOne
      <4>2. ASSUME NEW i \in DOMAIN asked.needles, ~Waiting(i)' PROVE Placed(i, y, c2.length, Lengths(pieces))'
        <5>1. Placed(i, y, at, m)
          BY <4>1, <4>2
        <5>2. Placed(i, y, c2.length, Lengths(pieces'))
          BY <1>21, <2>5, <5>1
        <5> QED
          BY <1>8, <5>2 DEF Placed, NeedleAt, Deep
      <4> QED
        BY <1>8, <4>2
    <3> QED
      BY <3>1, <3>2, <3>3, <3>4 DEF Begins
  <2>7. \E k \in Piece, r \in Text : Begins(k, r)'
    BY <1>21, <2>5, <2>6
  <2> QED
    BY <1>8, <1>9, <2>7 DEF ShapeInv
<1>10. CASE left' = <<>>
  <2>1. \A i : ~Waiting(i)'
    BY <1>10 DEF Waiting
  <2>2. ASSUME NEW i \in DOMAIN asked.needles PROVE Placed(i, pieces', 0, m)
    <3>1. Placed(i, y, at, m)
      BY <1>21, <2>1 DEF FitsButOne
    <3>2. NeedleAt(i) \in Piece /\ i # c.what
      BY <1>2, NeedlesArePieces
    <3>3. Without(front, i)
      BY <1>6, <3>2
    <3> HIDE DEF front
    <3>4. Placed(i, front \o y, 0, m)
      BY <1>6, <1>21, <3>1, <3>2, <3>3, PlacedBehind
    <3> QED
      BY <1>21, <3>4 DEF SameText
  <2>3. (\A i \in DOMAIN asked.needles : Placed(i, pieces, 0, Lengths(pieces)))'
    <3>1. ASSUME NEW i \in DOMAIN asked.needles PROVE Placed(i, pieces, 0, Lengths(pieces))'
      <4>1. Placed(i, pieces', 0, Lengths(pieces'))
        BY <1>21, <2>2
      <4> QED
        BY <1>8, <4>1 DEF Placed, NeedleAt, Deep
    <3> QED
      BY <1>8, <3>1
  <2> QED
    BY <1>8, <1>10, <2>3 DEF ShapeInv
<1> QED
  BY <1>9, <1>10

\* A needle that is put in leaves the text whole, and the others at their places.
LEMMA InsertKeepsText ==
  ASSUME TextInv, InsertsNeedle PROVE TextInv'
<1> DEFINE j == Head(left).what
           l == Lengths(pieces)
           d == asked.needles[j].depth
           at == Position(l, d)
           len == asked.needles[j].length
           x == NeedleAt(j)
<1>1. TextTypes /\ AskedInv /\ LeftInv /\ LengthInv /\ ShapeInv /\ MarkedInv
  BY DEF TextInv
<1>2. /\ asked.at = "inserting" /\ left # <<>> /\ left' = Tail(left) /\ asked' = asked /\ marked' = marked
      /\ pieces' = Before(pieces, Position(Lengths(pieces), Head(left).depth)) \o Gap2
                     \o << [what |-> Head(left).what, length |-> Head(left).length] >> \o Gap2
                     \o After(pieces, Position(Lengths(pieces), Head(left).depth))
  BY DEF InsertsNeedle
<1>3. j \in DOMAIN asked.needles /\ Head(left) = Entry(j)
  BY <1>1, <1>2, HeadOfLeft
<1>4. Waiting(j)
  <2>1. Len(left) \in Nat /\ Len(left) >= 1 /\ Head(left) = left[1]
    BY <1>1, <1>2, HeadOfLeft
  <2>2. 1 \in 1..Len(left) /\ left[1].what = j
    BY <2>1
  <2> HIDE DEF j
  <2> QED
    BY <2>2 DEF Waiting
<1>5. Head(left).depth = d /\ Head(left).length = len
  <2> HIDE DEF j
  <2> QED
    BY <1>3 DEF Entry
<1>6. /\ pieces \in Text /\ l \in Nat /\ asked.room \in Nat /\ asked.room <= l /\ Valid(asked.needles)
  BY <1>1, <1>2, AskedFields, LengthsAdd DEF TextTypes, AskedInv
<1>7. x \in Piece /\ x.length = len /\ x.what = j /\ d \in 0..100 /\ len \in Nat
  <2> HIDE DEF j
  <2>1. TextTypes /\ Valid(asked.needles)
    BY <1>1, <1>6
  <2>2. j \in DOMAIN asked.needles
    BY <1>3
  <2> QED
    BY <2>1, <2>2, NeedlesArePieces
<1>8. pieces' = PutIn(pieces, at, x)
  BY <1>2, <1>5 DEF PutIn, NeedleAt
<1>9. /\ left' \in Seq(ToInsert) /\ LeftInv'
      /\ \A i : Waiting(i)' <=> (Waiting(i) /\ i # j)
      /\ left' # <<>> =>
           /\ Head(left').what \in DOMAIN asked.needles /\ Head(left') = Entry(Head(left').what)
           /\ Deeper(Head(left), Head(left'))
  BY <1>1, <1>2, TailOfLeft
<1> HIDE DEF j, d, l, len, x
<1>10. at \in 0..Lengths(pieces)
  <2>1. Position(l, d) \in 0..l
    BY <1>6, <1>7, PositionIsNear
  <2> QED
    BY <2>1 DEF l
<1> HIDE DEF at
<1>11. pieces' \in Text /\ Lengths(pieces') = l + len + 4
  <2>1. PutIn(pieces, at, x) \in Text /\ Lengths(PutIn(pieces, at, x)) = Lengths(pieces) + x.length + 4
    BY <1>6, <1>7, <1>10, LengthsOfPutIn
  <2> QED
    BY <1>7, <1>8, <2>1 DEF l
<1>12. TextTypes'
  BY <1>1, <1>2, <1>9, <1>11 DEF TextTypes
<1>13. AskedInv'
  <2>1. asked'.room <= Lengths(pieces')
    BY <1>2, <1>6, <1>7, <1>11
  <2> QED
    BY <1>1, <1>2, <2>1 DEF AskedInv
<1>14. LengthInv'
  <2>1. l + Total(Owed) = asked.room + Total(Extra)
    BY <1>1, <1>2 DEF LengthInv, l
  <2>2. Total(Owed)' = Total(Owed) - (len + 4) /\ Total(Owed) \in Int
    <3>1. Total(Owed)' = Total(Owed) - (asked.needles[j].length + 4) /\ Total(Owed) \in Int
      BY <1>1, <1>2, <1>3, <1>4, <1>9, OwedLess
    <3> QED
      BY <3>1 DEF len
  <2>3. Total(Extra)' = Total(Extra)
    BY <1>2, SameAsked
  <2> DEFINE o == Total(Owed)
             u == Total(Owed)'
             v == Total(Extra)
  <2>4. l + o = asked.room + v /\ u = o - (len + 4) /\ o \in Int
    BY <2>1, <2>2
  <2> HIDE DEF o, u, v
  <2>5. Lengths(pieces') + u = asked.room + v
    BY <1>6, <1>7, <1>11, <2>4
  <2>6. Lengths(pieces') + Total(Owed') = asked'.room + Total(Extra')
    BY <1>2, <2>3, <2>5 DEF u, v
  <2> QED
    BY <1>2, <2>6 DEF LengthInv
<1>15. ShapeInv'
  <2>1. Separate' = Separate
    BY <1>2, SameAsked
  <2>2. CASE Separate
    <3>1. PICK c \in Piece, rest \in Text : Begins(c, rest)
      BY <1>1, <1>2, <2>2 DEF ShapeInv
    <3>2. /\ asked.room <= Lengths(pieces)
          /\ at = Position(Lengths(pieces), asked.needles[j].depth)
          /\ pieces' = PutIn(pieces, at, NeedleAt(j))
          /\ Lengths(pieces') = Lengths(pieces) + asked.needles[j].length + 4
      BY <1>6, <1>8, <1>11 DEF at, l, d, x, len
    <3>3. left' # <<>> => /\ Head(left').what \in DOMAIN asked.needles
                          /\ Head(left') = Entry(Head(left').what)
                          /\ Deeper(Entry(j), Head(left'))
      BY <1>3, <1>9
    <3> QED
      BY <1>1, <1>2, <1>3, <1>4, <1>6, <1>9, <2>2, <3>1, <3>2, <3>3, InsertShapes
  <2>3. CASE ~Separate
    BY <2>1, <2>3 DEF ShapeInv
  <2> QED
    BY <2>2, <2>3
<1>16. MarkedInv'
  BY <1>1, <1>2 DEF MarkedInv
<1> QED
  BY <1>9, <1>12, <1>13, <1>14, <1>15, <1>16 DEF TextInv

\* Whatever is put together, the text has the parts it was put together from.
THEOREM TextInvHolds == TextSpec => []TextInv
<1>1. TextInit => TextInv
  BY InitText
<1>2. TextInv /\ [TextNext]_textVars => TextInv'
  <2> SUFFICES ASSUME TextInv, [TextNext]_textVars PROVE TextInv'
    OBVIOUS
  <2>1. CASE InsertsNeedle
    BY <2>1, InsertKeepsText
  <2>2. CASE AppendsQuestion
    BY <2>2, QuestionKeepsText
  <2>3. ASSUME NEW size \in PromptSize, NEW question \in QuestionLength, NEW over \in Overshoot,
               NEW needles \in SeqOf(NeedleOf, MaxNeedles), StartsPrompt(size, needles, question, over)
        PROVE  TextInv'
    BY <2>3, TextAssumption, StartKeepsText
  <2>4. ASSUME NEW weights \in SeqOf(Weight, MaxKeywords), NEW found \in SUBSET DOMAIN weights,
               MarksAnswer(weights, found)
        PROVE  TextInv'
    BY <2>4, TextAssumption, MarkKeepsText
  <2>5. CASE UNCHANGED textVars
    BY <2>5, StutterKeepsText
  <2> QED
    BY <2>1, <2>2, <2>3, <2>4, <2>5 DEF TextNext
<1> QED
  BY <1>1, <1>2, PTL DEF TextSpec

\* A piece between two texts that have none of its origin is the only one.
LEMMA PlaceOfPiece ==
  ASSUME NEW a \in Text, NEW b \in Text, NEW x \in Piece, NEW t \in Text, SameText(t, a \o (<<x>> \o b)),
         Without(a, x.what), Without(b, x.what)
  PROVE  /\ Len(a) \in Nat /\ Len(a) + 1 \in DOMAIN t /\ t[Len(a) + 1] = x
         /\ \A k \in DOMAIN t : t[k].what = x.what <=> k = Len(a) + 1
         /\ SubSeq(t, 1, Len(a)) = a
<1> DEFINE u == <<x>> \o b
           n == Len(a)
           m == Len(b)
<1>1. n \in Nat /\ m \in Nat
  BY PiecesOfText
<1>2. u \in Text /\ Len(u) = m + 1 /\ u[1] = x /\ \A i \in 1..m : u[i + 1] = b[i]
  BY PutFirst
<1> HIDE DEF u
<1>3. Len(a \o u) = Len(a) + Len(u)
      /\ \A i \in 1..(Len(a) + Len(u)) : (a \o u)[i] = IF i <= Len(a) THEN a[i] ELSE u[i - Len(a)]
  BY <1>2, ConcatProperties DEF Text
<1>4. t = a \o u
  BY DEF SameText, u
<1> HIDE DEF n, m
<1>5. /\ Len(t) = n + (m + 1) /\ DOMAIN t = 1..Len(t)
      /\ \A i \in 1..(n + (m + 1)) : t[i] = IF i <= n THEN a[i] ELSE u[i - n]
  <2>1. DOMAIN t = 1..Len(t)
    BY PiecesOfText
  <2>2. Len(a) = n
    BY DEF n
  <2> QED
    BY <1>2, <1>3, <1>4, <2>1, <2>2
<1>6. n + 1 \in DOMAIN t /\ t[n + 1] = x
  <2> DEFINE k == n + 1
  <2>1. k \in 1..(n + (m + 1)) /\ ~(k <= n) /\ k - n = 1
    BY <1>1
  <2> HIDE DEF k
  <2>2. t[k] = u[k - n]
    BY <2>1, <1>5
  <2>3. k \in DOMAIN t /\ t[k] = x
    BY <2>1, <2>2, <1>2, <1>5
  <2> QED
    BY <2>3 DEF k
<1>7. ASSUME NEW k \in DOMAIN t, k # n + 1 PROVE t[k].what # x.what
  <2>1. k \in 1..(n + (m + 1)) /\ k \in Nat
    BY <1>1, <1>5
  <2>2. CASE k <= n
    <3>1. k \in 1..n /\ t[k] = a[k]
      BY <2>1, <2>2, <1>1, <1>5
    <3> QED
      BY <3>1 DEF Without, n
  <2>3. CASE ~(k <= n)
    <3> DEFINE i == k - n - 1
    <3>1. i \in 1..m /\ i + 1 = k - n
      BY <2>1, <2>3, <1>1, <1>7
    <3>2. t[k] = u[k - n]
      BY <2>1, <2>3, <1>5
    <3> HIDE DEF i
    <3>3. t[k] = b[i]
      BY <3>1, <3>2, <1>2
    <3> QED
      BY <3>1, <3>3 DEF Without, m
  <2> QED
    BY <2>2, <2>3
<1>8. SubSeq(t, 1, n) = a
  <2> DEFINE s == SubSeq(t, 1, n)
  <2>1. s = [i \in 1..n |-> t[i]]
    <3>1. n = Len(a) /\ n <= Len(t)
      BY <1>1, <1>5 DEF n
    <3>2. t \in Seq(Piece)
      BY DEF Text
    <3>3. SubSeq(t, 1, n) = [i \in 1..n |-> t[1 + i - 1]]
      BY <1>1, <3>1, <3>2
    <3>4. \A i \in 1..n : t[1 + i - 1] = t[i]
      BY <1>1
    <3> QED
      BY <3>3, <3>4
  <2>2. \A i \in 1..n : t[i] = a[i]
    <3> SUFFICES ASSUME NEW i \in 1..n PROVE t[i] = a[i]
      OBVIOUS
    <3>1. i \in 1..(n + (m + 1)) /\ i <= n
      BY <1>1
    <3> QED
      BY <3>1, <1>5
  <2>3. a = [i \in 1..n |-> a[i]]
    <3>1. a \in Seq(Piece)
      BY DEF Text
    <3>2. a \in [1..n -> Piece]
      BY <3>1 DEF n
    <3> QED
      BY <3>2
  <2> HIDE DEF s
  <2>4. s = a
    BY <2>1, <2>2, <2>3
  <2> QED
    BY <2>4 DEF s
<1> QED
  BY <1>1, <1>6, <1>7, <1>8 DEF n

\* A needle that is placed is whole and starts where it is deep enough.
LEMMA PlacedIsWhole ==
  ASSUME TextTypes, Valid(asked.needles), NEW i \in DOMAIN asked.needles, Placed(i, pieces, 0, Lengths(pieces))
  PROVE  Whole(i) /\ Start(i) \in Nat /\ Deep(i, Start(i), Lengths(pieces))
<1>1. PICK a \in Text, b \in Text :
        /\ pieces = a \o (<<NeedleAt(i)>> \o b) /\ Without(a, i) /\ Without(b, i)
        /\ Deep(i, 0 + Lengths(a), Lengths(pieces))
  BY DEF Placed
<1> DEFINE x == NeedleAt(i)
           n == Len(a)
<1>2. x \in Piece /\ x.what = i /\ x = [what |-> i, length |-> asked.needles[i].length]
  BY NeedlesArePieces DEF NeedleAt
<1>3. pieces \in Text
  BY DEF TextTypes
<1>4. SameText(pieces, a \o (<<x>> \o b))
  BY <1>1 DEF SameText
<1> HIDE DEF x
<1>5. /\ n \in Nat /\ n + 1 \in DOMAIN pieces /\ pieces[n + 1] = x
      /\ \A k \in DOMAIN pieces : pieces[k].what = x.what <=> k = n + 1
      /\ SubSeq(pieces, 1, n) = a
  <2>1. Without(a, x.what) /\ Without(b, x.what)
    BY <1>1, <1>2
  <2> QED
    BY <1>2, <1>3, <1>4, <2>1, PlaceOfPiece
<1> HIDE DEF n
<1>6. Whole(i)
  BY <1>2, <1>5 DEF Whole
<1>7. (CHOOSE p \in DOMAIN pieces : pieces[p].what = i) = n + 1
  BY <1>2, <1>5
<1>8. Start(i) = Lengths(a)
  <2>1. (n + 1) - 1 = n
    BY <1>5
  <2> QED
    BY <1>5, <1>7, <2>1 DEF Start
<1>9. Lengths(a) \in Nat /\ 0 + Lengths(a) = Lengths(a)
  <2>1. Lengths(a) \in Nat
    BY LengthsAdd
  <2> QED
    BY <2>1
<1> QED
  BY <1>1, <1>6, <1>8, <1>9

\* Four fifths of the size, the blank lines and the rest of a paragraph.
LEMMA FewTokens ==
  ASSUME NEW size \in Nat, NEW f \in Nat, NEW tq \in Int, NEW q \in Nat, NEW e \in Nat, NEW t \in Nat,
         NEW n \in Nat, NEW over \in 0..79, NEW room \in Nat, NEW length \in Nat,
         room = (5 * f + 1) \div 2 + over, f = (size * 4) \div 5 - (tq + t),
         2 * q <= 5 * tq, 2 * e <= 5 * t + 8 * n, length = room + e + 2 + q, size >= 163 + 8 * n
  PROVE  Tokens(length) <= size
<1> DEFINE w == (size * 4) \div 5
           h == (5 * f + 1) \div 2
           z == 2 * length + 4
<1>1. w \in Nat /\ 5 * w <= 4 * size
  OBVIOUS
<1>2. h \in Nat /\ 2 * h <= 5 * f + 1
  OBVIOUS
<1>3. f = w - (tq + t) /\ room = h + over
  OBVIOUS
<1> HIDE DEF w, h
<1>4. z \in Nat /\ z < 5 * size + 5
  BY <1>1, <1>2, <1>3
<1>5. Tokens(length) = z \div 5
  BY DEF Tokens
<1> HIDE DEF z
<1> QED
  BY <1>4, <1>5

\* The prompt is as long as its parts, so that it is in its context.
LEMMA BuiltIsInContext ==
  ASSUME TextAssumption, TextTypes, AskedInv, LengthInv PROVE PromptIsInContext
<1> SUFFICES ASSUME asked.at = "built", FillerTokens(asked.size, asked.needles, asked.question) > 64,
                    asked.size >= 163 + 8 * Len(asked.needles)
             PROVE  Tokens(Lengths(pieces)) <= asked.size
  BY DEF PromptIsInContext
<1> DEFINE needles == asked.needles
           size == asked.size
           q == asked.question
           n == Len(needles)
           f == FillerTokens(size, needles, q)
           taken == [i \in DOMAIN needles |-> Tokens(needles[i].length)]
           len == [i \in 1..n |-> needles[i].length]
           e == Total(Extra)
           t == Total(taken)
           l == Lengths(pieces)
           room == asked.room
           tq == Tokens(q)
<1>1. /\ n \in Nat /\ DOMAIN needles = 1..n /\ size \in Nat /\ q \in Nat /\ room \in Nat
      /\ needles \in Seq(Needle) /\ \A i \in 1..n : needles[i].length \in Nat
  BY AskedFields
<1>2. PICK over \in Overshoot : room = (5 * f + 1) \div 2 + over
  BY DEF AskedInv
<1>3. l \in Nat /\ l = room + e + 2 + q
  <2>1. pieces \in Text
    BY DEF TextTypes
  <2>2. l \in Nat
    BY <2>1, LengthsAdd
  <2> QED
    BY <2>2 DEF LengthInv
<1>4. f \in Nat /\ f > 64
  <2> HIDE DEF needles, size, q
  <2>1. f \in Nat
    BY <1>1, FillerIsNat
  <2> QED
    BY <2>1 DEF needles, size, q
<1>5. f = (size * 4) \div 5 - (tq + t)
  <2> DEFINE w == (size * 4) \div 5
             tk == tq + t
  <2>1. f = IF w - tk < 64 THEN 64 ELSE w - tk
    BY DEF FillerTokens
  <2> HIDE DEF w, tk, f
  <2>2. f = w - tk
    BY <1>4, <2>1
  <2> QED
    BY <2>2 DEF w, tk
<1>6. e \in Nat /\ t \in Nat /\ 2 * e <= 5 * t + 8 * n
  <2> DEFINE s1 == [i \in 1..n |-> len[i] + 4]
             t1 == [i \in 1..n |-> Tokens(len[i])]
  <2>1. len \in [1..n -> Nat]
    BY <1>1
  <2>2. Extra = s1 /\ taken = t1
    BY <1>1 DEF Extra
  <2>3. Total(s1) \in Nat /\ Total(t1) \in Nat /\ 2 * Total(s1) <= 5 * Total(t1) + 8 * n
    <3> HIDE DEF len, n
    <3> QED
      BY <1>1, <2>1, TokensAreEnough
  <2> HIDE DEF s1, t1, taken
  <2> QED
    BY <2>2, <2>3
<1>7. tq \in Int /\ 2 * q <= 5 * tq
  <2> DEFINE z == 2 * q + 4
  <2>1. z \in Nat /\ tq = z \div 5
    BY <1>1 DEF Tokens
  <2> HIDE DEF z, tq
  <2>2. tq \in Int /\ z < 5 * tq + 5
    BY <2>1
  <2> HIDE DEF q
  <2> QED
    BY <1>1, <2>2 DEF z
<1>8. over \in 0..79
  BY DEF TextAssumption
<1>9. size >= 163 + 8 * n
  OBVIOUS
<1> HIDE DEF f, e, t, l, room, tq, q, n, size, needles
<1>10. Tokens(l) <= size
  BY <1>1, <1>2, <1>3, <1>4, <1>5, <1>6, <1>7, <1>8, <1>9, FewTokens
<1> QED
  BY <1>10 DEF l, size

\* What holds of the text while it is put together makes the prompt and the marks right.
LEMMA TextInvIsRight ==
  ASSUME TextAssumption, TextInv PROVE PromptIsRight
<1>1. TextTypes /\ AskedInv /\ LeftInv /\ LengthInv /\ ShapeInv /\ MarkedInv
  BY DEF TextInv
<1>2. marked # NoMark =>
        /\ marked.mark \in 0..100
        /\ Total(marked.weights) < 200 =>
             /\ marked.mark = 100 <=> \A i \in DOMAIN marked.weights : marked.weights[i] > 0 => i \in marked.found
             /\ marked.mark = 0 <=> \A i \in marked.found : marked.weights[i] = 0
  <2> SUFFICES ASSUME marked # NoMark
               PROVE  /\ marked.mark \in 0..100
                      /\ Total(marked.weights) < 200 =>
                           /\ marked.mark = 100 <=> \A i \in DOMAIN marked.weights : marked.weights[i] > 0 => i \in marked.found
                           /\ marked.mark = 0 <=> \A i \in marked.found : marked.weights[i] = 0
    OBVIOUS
  <2> DEFINE weights == marked.weights
             found == marked.found
             mark == marked.mark
  <2>1. weights \in Seq(Nat) /\ Scorable(weights) /\ found \subseteq DOMAIN weights /\ mark = KeywordMark(weights, found)
    BY <1>1 DEF MarkedInv
  <2> HIDE DEF weights, found, mark
  <2>2. /\ mark \in 0..100
        /\ Total(weights) < 200 =>
             /\ mark = 100 <=> \A i \in DOMAIN weights : weights[i] > 0 => i \in found
             /\ mark = 0 <=> \A i \in DOMAIN weights : i \in found => weights[i] = 0
    <3>1. IsShare(weights, found, mark)
      BY <2>1, MarkIsShare
    <3> QED
      BY <3>1 DEF IsShare
  <2>3. (\A i \in DOMAIN weights : i \in found => weights[i] = 0) <=> \A i \in found : weights[i] = 0
    BY <2>1
  <2>4. /\ mark \in 0..100
        /\ Total(weights) < 200 =>
             /\ mark = 100 <=> \A i \in DOMAIN weights : weights[i] > 0 => i \in found
             /\ mark = 0 <=> \A i \in found : weights[i] = 0
    BY <2>2, <2>3
  <2> QED
    BY <2>4 DEF weights, found, mark
<1>3. TextTypeOK
  <2>1. asked.at \in {"rest", "refused", "inserting", "built"}
    BY <1>1, AskedFields
  <2>2. \A i \in DOMAIN pieces : pieces[i].length \in Nat
    <3>1. pieces \in Text
      BY <1>1 DEF TextTypes
    <3> QED
      BY <3>1, PiecesOfText
  <2>3. marked.mark \in 0..100
    <3>1. CASE marked = NoMark
      <4>1. marked.mark = 0
        BY <3>1 DEF NoMark
      <4> QED
        BY <4>1
    <3> QED
      BY <1>2, <3>1
  <2> QED
    BY <2>1, <2>2, <2>3 DEF TextTypeOK
<1>4. MarksAreEarned
  BY <1>2 DEF MarksAreEarned
<1>5. PromptIsInContext
  BY <1>1, BuiltIsInContext
<1>6. PromptIsAll
  BY <1>1 DEF LengthInv, Extra, PromptIsAll
<1>7. ASSUME asked.at = "built", Separate, NEW i \in DOMAIN asked.needles
      PROVE  Whole(i) /\ Start(i) \in Nat /\ Deep(i, Start(i), Lengths(pieces))
  <2>1. Placed(i, pieces, 0, Lengths(pieces)) /\ Valid(asked.needles)
    BY <1>1, <1>7 DEF ShapeInv, LeftInv, AskedInv
  <2> QED
    BY <1>1, <2>1, PlacedIsWhole
<1>8. NeedlesAreWhole
  BY <1>7 DEF NeedlesAreWhole
<1>9. NeedlesAreDeep
  <2> SUFFICES ASSUME asked.at = "built", Separate, NEW i \in DOMAIN asked.needles
               PROVE  LET off == 100 * Start(i) - asked.needles[i].depth * Lengths(pieces)
                          slack == Lengths(pieces) + 100 * (Lengths(pieces) - asked.room)
                      IN  off <= slack /\ -off <= slack
    BY DEF NeedlesAreDeep
  <2>1. Start(i) \in Nat /\ Deep(i, Start(i), Lengths(pieces))
    BY <1>7
  <2>2. asked.needles[i].depth \in Nat /\ asked.room \in Nat /\ Lengths(pieces) \in Nat
    <3>1. pieces \in Text
      BY <1>1 DEF TextTypes
    <3> QED
      BY <1>1, <3>1, AskedFields, LengthsAdd
  <2> DEFINE s == Start(i)
             l == Lengths(pieces)
             d == asked.needles[i].depth
             room == asked.room
             p == d * l
  <2>3. 100 * s - d * l <= 100 * (l - room) /\ d * l - 100 * s <= 100 * (l - room)
    BY <2>1 DEF Deep
  <2>4. s \in Nat /\ l \in Nat /\ d \in Nat /\ room \in Nat
    BY <2>1, <2>2
  <2> HIDE DEF s, l, d, room
  <2>5. p \in Int
    BY <2>4
  <2>6. 100 * s - p <= 100 * (l - room) /\ p - 100 * s <= 100 * (l - room)
    BY <2>3
  <2> HIDE DEF p
  <2>7. 100 * s - p <= l + 100 * (l - room) /\ -(100 * s - p) <= l + 100 * (l - room)
    BY <2>4, <2>5, <2>6
  <2> QED
    BY <2>7 DEF p, s, l, d, room
<1> QED
  BY <1>3, <1>4, <1>5, <1>6, <1>8, <1>9 DEF PromptIsRight

\* The needles of a prompt are whole and where they were asked for, and its size and
\* the marks are what was agreed.
THEOREM PromptsAreRight == TextSpec => []PromptIsRight
<1>1. TextInv => PromptIsRight
  BY TextAssumption, TextInvIsRight
<1> QED
  BY <1>1, TextInvHolds, PTL
=============================================================================
