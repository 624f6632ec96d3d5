---------------------------- MODULE CommonLemmas ----------------------------
(***************************************************************************)
(* What the proofs about plugins and parts need of division, of finite     *)
(* sets and of positions.                                                  *)
(***************************************************************************)
EXTENDS Integers, FiniteSets, FiniteSetTheorems, WellFoundedInduction, TLAPS

LEMMA Quotients ==
    ASSUME NEW r \in Nat \ {0}, NEW x \in Nat
    PROVE  /\ x \div r \in Nat /\ x % r \in 0 .. (r - 1)
           /\ x = (r * (x \div r)) + (x % r)
  OBVIOUS

LEMMA MultipleGrows ==
    ASSUME NEW r \in Nat \ {0}, NEW a \in Nat, NEW b \in Nat, a < b
    PROVE  r * a + r <= r * b
<1>1. PICK d \in Nat : b = a + 1 + d
  <2>1. b - a - 1 \in Nat /\ b = a + 1 + (b - a - 1)
    OBVIOUS
  <2> QED
    BY <2>1
<1>2. r * b = r * a + r + r * d
  BY <1>1
<1>3. r * d \in Nat /\ r * a \in Nat
  OBVIOUS
<1> QED
  BY <1>2, <1>3

-----------------------------------------------------------------------------
\* Induction over a finite set: of the subsets with some property one has it and
\* loses it with any element that is taken out.
LEMMA SmallestSubset ==
    ASSUME NEW D, IsFiniteSet(D), NEW A, A \subseteq SUBSET D, A # {}
    PROVE  \E s \in A : \A x \in s : s \ {x} \notin A
<1>1. IsWellFoundedOn(StrictSubsetOrdering(D), SUBSET D)
  BY FS_StrictSubsetOrderingWellFounded, FS_FiniteSubsetsOfFinite
<1>2. PICK s \in A : \A t \in A : ~ (<<t, s>> \in StrictSubsetOrdering(D))
  BY <1>1, WFMin, Zenon
<1>3. ASSUME NEW x \in s, s \ {x} \in A
      PROVE  FALSE
  <2>1. <<s \ {x}, s>> \in StrictSubsetOrdering(D)
    BY <1>3 DEF StrictSubsetOrdering
  <2> QED
    BY <1>2, <1>3, <2>1
<1> QED
  BY <1>2, <1>3

\* The last of some positions, as the fold takes it.
Last(s) == CHOOSE x \in s : \A y \in s : x >= y

LEMMA LastExists ==
    ASSUME NEW n \in Nat, NEW s \in SUBSET (1 .. n), s # {}
    PROVE  Last(s) \in s /\ \A y \in s : y <= Last(s)
<1> DEFINE A == {t \in SUBSET (1 .. n) :
                   t # {} /\ ~ \E x \in t : \A y \in t : x >= y}
<1>1. A \subseteq SUBSET (1 .. n)
      /\ \A t \in SUBSET (1 .. n) : t \in A <=> (t # {} /\ ~ \E x \in t : \A y \in t : x >= y)
  OBVIOUS
<1> HIDE DEF A
<1>2. ASSUME A # {} PROVE FALSE
  <2>1. IsFiniteSet(1 .. n)
    BY FS_Interval
  <2>2. PICK t \in A : \A x \in t : t \ {x} \notin A
    BY <1>1, <1>2, <2>1, SmallestSubset, Zenon
  <2>3. PICK x \in t : TRUE
    BY <1>1, <2>2
  <2>4. t \ {x} # {}
    BY <1>1, <2>2, <2>3
  <2>5. PICK z \in t \ {x} : \A y \in t \ {x} : z >= y
    BY <1>1, <2>2, <2>3, <2>4
  <2>6. x \in Nat /\ z \in Nat
    BY <1>1, <2>2, <2>3, <2>5
  <2>7. CASE z >= x
    BY <1>1, <2>2, <2>5, <2>7
  <2>8. CASE x > z
    <3>1. \A y \in t : x >= y
      <4> SUFFICES ASSUME NEW y \in t, y # x PROVE x >= y
        BY <2>6
      <4>1. z >= y /\ y \in Nat
        BY <1>1, <2>2, <2>5
      <4> QED
        BY <2>6, <2>8, <4>1
    <3> QED
      BY <1>1, <2>2, <2>3, <3>1
  <2> QED
    BY <2>6, <2>7, <2>8
<1>3. \E x \in s : \A y \in s : x >= y
  BY <1>1, <1>2
<1>4. Last(s) \in s /\ \A y \in s : Last(s) >= y
  BY <1>3 DEF Last
<1> QED
  BY <1>4

\* The positions without the last.
Rest(s) == s \ {Last(s)}
=============================================================================
