----------------------------- MODULE SumProofs -----------------------------
(***************************************************************************)
(* Lemmas about the totals of Sums, for every finite set.  Induction over  *)
(* data is an argument by a least counterexample: the provers cannot       *)
(* instantiate an induction theorem, but they can the theorem that a       *)
(* well-founded order has minima.                                          *)
(***************************************************************************)
EXTENDS Sums, FiniteSetTheorems, WellFoundedInduction, TLAPS

(* A set of numbers that is not empty has a least one ...                  *)
LEMMA LeastNumber ==
    ASSUME NEW T, T \subseteq Nat, T # {}
    PROVE  \E x \in T : \A y \in T : x <= y
<1>1. PICK x \in T : \A y \in T : ~ (<<y, x>> \in OpToRel(<, Nat))
  BY NatLessThanWellFounded, WFMin
<1>2. \A y \in T : ~ (y < x) BY <1>1 DEF OpToRel
<1> QED BY <1>2

(* ... and one of subsets of a finite set has one that loses no element.   *)
LEMMA LeastSet ==
    ASSUME NEW S, IsFiniteSet(S), NEW B, B \subseteq SUBSET S, B # {}
    PROVE  \E s \in B : \A x \in s : s \ {x} \notin B
<1>1. PICK s \in B : \A t \in B : ~ (<<t, s>> \in StrictSubsetOrdering(S))
  BY FS_StrictSubsetOrderingWellFounded, FS_FiniteSubsetsOfFinite, WFMin
<1>2. \A x \in s : s \ {x} \notin B BY <1>1 DEF StrictSubsetOrdering
<1> QED BY <1>2

(* The total of w over S is the value at S of the function Iter, which     *)
(* takes one element after the other off its argument.                     *)
Chosen(s) == CHOOSE x \in s : TRUE

OneOff(w, f, s) == IF s = {} THEN 0 ELSE w[Chosen(s)] + f[s \ {Chosen(s)}]

Iter(w, S) == CHOOSE f : f = [s \in SUBSET S |-> OneOff(w, f, s)]

(* What the fold of the community modules unfolds to.                      *)
LEMMA TotalIsIter == ASSUME NEW w, NEW S PROVE Total(w, S) = Iter(w, S)[S]
BY DEF Total, MapThenSumSet, MapThenFoldSet, Iter, OneOff, Chosen

(* The element taken off is one of the set.                                *)
LEMMA ChosenIn == ASSUME NEW s, s # {} PROVE Chosen(s) \in s
BY DEF Chosen

(* There is such a function on the subsets of a finite set.                *)
LEMMA IterExists ==
    ASSUME NEW w, NEW S, IsFiniteSet(S)
    PROVE  \E f : f = [s \in SUBSET S |-> OneOff(w, f, s)]
<1> DEFINE Upto(n) == {s \in SUBSET S : Cardinality(s) <= n}
           Bad == {n \in Nat : ~ \E f : f = [s \in Upto(n) |-> OneOff(w, f, s)]}
<1>f. \A s \in SUBSET S : IsFiniteSet(s) /\ Cardinality(s) \in Nat
  BY FS_Subset, FS_CardinalityType
<1>1. Bad = {}
  <2> SUFFICES ASSUME Bad # {} PROVE FALSE
    OBVIOUS
  <2>1. PICK n \in Bad : \A m \in Bad : n <= m
    <3>1. Bad \subseteq Nat OBVIOUS
    <3> HIDE DEF Bad
    <3> QED BY <3>1, LeastNumber
  <2>2. CASE n = 0
    <3> DEFINE f == [s \in Upto(0) |-> 0]
    <3>1. \A s \in Upto(0) : s = {}
      BY <1>f, FS_EmptySet
    <3>2. f = [s \in Upto(0) |-> OneOff(w, f, s)] BY <3>1 DEF OneOff
    <3> QED BY <2>1, <2>2, <3>2
  <2>3. CASE n # 0
    <3>1. n - 1 \in Nat /\ n - 1 \notin Bad
      <4>1. n \in Nat OBVIOUS
      <4> HIDE DEF Bad
      <4> QED BY <4>1, <2>1, <2>3
    <3>2. PICK g : g = [s \in Upto(n - 1) |-> OneOff(w, g, s)] BY <3>1
    <3> DEFINE f == [s \in Upto(n) |-> OneOff(w, g, s)]
    <3>3. ASSUME NEW s \in Upto(n) PROVE OneOff(w, g, s) = OneOff(w, f, s)
      <4>1. CASE s = {} BY <4>1 DEF OneOff
      <4>2. CASE s # {}
        <5> DEFINE t == s \ {Chosen(s)}
        <5>1. t \in Upto(n - 1)
          BY <4>2, <1>f, ChosenIn, FS_RemoveElement, <2>1
        <5>2. t \in Upto(n) BY <5>1, <1>f, <2>1
        <5>3. g[t] = OneOff(w, g, t) BY <5>1, <3>2
        <5>4. f[t] = OneOff(w, g, t) BY <5>2
        <5> HIDE DEF f
        <5> QED BY <4>2, <5>3, <5>4 DEF OneOff
      <4> QED BY <4>1, <4>2
    <3>4. f = [s \in Upto(n) |-> OneOff(w, f, s)] BY <3>3
    <3> QED BY <2>1, <3>4
  <2> QED BY <2>2, <2>3
<1>2. Cardinality(S) \in Nat /\ Upto(Cardinality(S)) = SUBSET S
  BY FS_Subset, FS_CardinalityType
<1>3. \A n \in Nat : \E f : f = [s \in Upto(n) |-> OneOff(w, f, s)]
  BY <1>1
<1> HIDE DEF Upto
<1>4. \E f : f = [s \in Upto(Cardinality(S)) |-> OneOff(w, f, s)]
  BY <1>2, <1>3
<1> QED BY <1>2, <1>4

(* So Iter is one.                                                         *)
LEMMA IterStep ==
    ASSUME NEW w, NEW S, IsFiniteSet(S), NEW s \in SUBSET S
    PROVE  Iter(w, S)[s] = OneOff(w, Iter(w, S), s)
<1>1. Iter(w, S) = [t \in SUBSET S |-> OneOff(w, Iter(w, S), t)]
  BY IterExists DEF Iter
<1> QED BY <1>1

(* Its values depend on the weights of the elements only.                  *)
LEMMA IterAgree ==
    ASSUME NEW w, NEW v, NEW S, NEW T, IsFiniteSet(S), IsFiniteSet(T),
           S \subseteq T, \A x \in S : w[x] = v[x]
    PROVE  \A s \in SUBSET S : Iter(w, S)[s] = Iter(v, T)[s]
<1> DEFINE B == {s \in SUBSET S : Iter(w, S)[s] # Iter(v, T)[s]}
<1> SUFFICES ASSUME B # {} PROVE FALSE
  OBVIOUS
<1>1. PICK s \in B : \A x \in s : s \ {x} \notin B
  <2>1. B \subseteq SUBSET S OBVIOUS
  <2> HIDE DEF B
  <2> QED BY <2>1, LeastSet
<1>2. /\ Iter(w, S)[s] = OneOff(w, Iter(w, S), s)
      /\ Iter(v, T)[s] = OneOff(v, Iter(v, T), s)
  BY IterStep
<1>3. CASE s = {} BY <1>1, <1>2, <1>3 DEF OneOff
<1>4. CASE s # {}
  <2>1. Chosen(s) \in s BY <1>4, ChosenIn
  <2>2. Iter(w, S)[s \ {Chosen(s)}] = Iter(v, T)[s \ {Chosen(s)}]
    BY <2>1, <1>1
  <2>3. w[Chosen(s)] = v[Chosen(s)] BY <2>1, <1>1
  <2> QED BY <1>1, <1>2, <1>4, <2>2, <2>3 DEF OneOff
<1> QED BY <1>3, <1>4

(* Weights that agree have the same total.                                 *)
LEMMA TotalSame ==
    ASSUME NEW w, NEW v, NEW S, IsFiniteSet(S), \A x \in S : w[x] = v[x]
    PROVE  Total(w, S) = Total(v, S)
BY IterAgree, TotalIsIter

(* Nothing adds up to 0.                                                   *)
LEMMA TotalEmpty == ASSUME NEW w PROVE Total(w, {}) = 0
<1>1. Iter(w, {})[{}] = OneOff(w, Iter(w, {}), {}) BY IterStep, FS_EmptySet
<1> QED BY <1>1, TotalIsIter DEF OneOff

(* What is left after the chosen element has a total of its own.           *)
LEMMA TotalChosen ==
    ASSUME NEW w, NEW S, IsFiniteSet(S), S # {}
    PROVE  Total(w, S) = w[Chosen(S)] + Total(w, S \ {Chosen(S)})
<1> DEFINE R == S \ {Chosen(S)}
<1>1. Iter(w, S)[S] = w[Chosen(S)] + Iter(w, S)[R] BY IterStep DEF OneOff
<1>2. IsFiniteSet(R) /\ R \subseteq S BY FS_RemoveElement
<1>3. Iter(w, R)[R] = Iter(w, S)[R] BY <1>2, IterAgree
<1> QED BY <1>1, <1>3, TotalIsIter

(* Totals of natural numbers are natural numbers.                          *)
LEMMA TotalType ==
    ASSUME NEW w, NEW S, IsFiniteSet(S), \A x \in S : w[x] \in Nat
    PROVE  Total(w, S) \in Nat
<1> DEFINE B == {s \in SUBSET S : Total(w, s) \notin Nat}
<1> SUFFICES ASSUME B # {} PROVE FALSE
  OBVIOUS
<1>1. PICK s \in B : \A x \in s : s \ {x} \notin B
  <2>1. B \subseteq SUBSET S OBVIOUS
  <2> HIDE DEF B
  <2> QED BY <2>1, LeastSet
<1>2. IsFiniteSet(s) BY <1>1, FS_Subset
<1>3. s # {} BY <1>1, TotalEmpty
<1>4. Chosen(s) \in s BY <1>3, ChosenIn
<1>5. Total(w, s \ {Chosen(s)}) \in Nat BY <1>1, <1>4
<1>6. w[Chosen(s)] \in Nat BY <1>1, <1>4
<1> QED BY <1>1, <1>2, <1>3, <1>5, <1>6, TotalChosen

(* Any element may be taken off first.                                     *)
LEMMA TotalTakes ==
    ASSUME NEW w, NEW S, IsFiniteSet(S), \A x \in S : w[x] \in Nat, NEW e \in S
    PROVE  Total(w, S) = w[e] + Total(w, S \ {e})
<1> DEFINE Off(s, x) == Total(w, s) = w[x] + Total(w, s \ {x})
           B == {s \in SUBSET S : \E x \in s : ~ Off(s, x)}
<1>0. B = {}
  <2> SUFFICES ASSUME B # {} PROVE FALSE
    OBVIOUS
  <2>1. PICK s \in B : \A x \in s : s \ {x} \notin B
    <3>1. B \subseteq SUBSET S OBVIOUS
    <3> HIDE DEF B
    <3> QED BY <3>1, LeastSet
  <2>2. PICK x \in s : ~ Off(s, x) BY <2>1
  <2> DEFINE c == Chosen(s)
  <2>3. /\ IsFiniteSet(s) /\ s \subseteq S /\ c \in s
        /\ Total(w, s) = w[c] + Total(w, s \ {c})
    BY <2>1, <2>2, FS_Subset, ChosenIn, TotalChosen
  <2>4. x # c BY <2>2, <2>3
  <2>5. Off(s \ {c}, x) BY <2>1, <2>3, <2>4
  <2>6. Off(s \ {x}, c) BY <2>1, <2>2, <2>3, <2>4
  <2>7. (s \ {c}) \ {x} = (s \ {x}) \ {c} OBVIOUS
  <2>8. /\ w[c] \in Nat /\ w[x] \in Nat
        /\ Total(w, (s \ {x}) \ {c}) \in Nat
    <3>1. IsFiniteSet((s \ {x}) \ {c}) BY <2>3, FS_RemoveElement
    <3> QED BY <3>1, <2>3, TotalType
  <2> HIDE DEF c, B
  <2> QED BY <2>2, <2>3, <2>5, <2>6, <2>7, <2>8
<1> QED BY <1>0


(* A set with more elements has a greater total, by any of the elements    *)
(* that the other one lacks.                                               *)
LEMMA TotalGrows ==
    ASSUME NEW w, NEW S, NEW T, IsFiniteSet(T), S \subseteq T,
           \A x \in T : w[x] \in Nat, NEW e \in T, e \notin S
    PROVE  Total(w, T) >= w[e] + Total(w, S)
<1> DEFINE B == {s \in SUBSET T : S \subseteq s /\ ~ Total(w, s) >= Total(w, S)}
<1>1. B = {}
  <2> SUFFICES ASSUME B # {} PROVE FALSE
    OBVIOUS
  <2>1. PICK s \in B : \A x \in s : s \ {x} \notin B
    <3>1. B \subseteq SUBSET T OBVIOUS
    <3> HIDE DEF B
    <3> QED BY <3>1, LeastSet
  <2>2. IsFiniteSet(s) /\ IsFiniteSet(S) BY <2>1, FS_Subset
  <2>3. Total(w, s) \in Nat /\ Total(w, S) \in Nat BY <2>1, <2>2, TotalType
  <2>4. PICK x \in s : x \notin S BY <2>1, <2>3
  <2>5. IsFiniteSet(s \ {x}) BY <2>2, FS_RemoveElement
  <2>6. Total(w, s) = w[x] + Total(w, s \ {x}) BY <2>1, <2>2, TotalTakes
  <2>7. Total(w, s \ {x}) \in Nat BY <2>1, <2>5, TotalType
  <2>8. Total(w, s \ {x}) >= Total(w, S) BY <2>1, <2>4
  <2>9. w[x] \in Nat BY <2>1
  <2> QED BY <2>1, <2>3, <2>6, <2>7, <2>8, <2>9
<1>2. Total(w, T \ {e}) >= Total(w, S) BY <1>1
<1>3. IsFiniteSet(T \ {e}) /\ IsFiniteSet(S) BY FS_RemoveElement, FS_Subset
<1>4. Total(w, T \ {e}) \in Nat /\ Total(w, S) \in Nat BY <1>3, TotalType
<1> HIDE DEF B
<1> QED BY <1>2, <1>4, TotalTakes
=============================================================================
