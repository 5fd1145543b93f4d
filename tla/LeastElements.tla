---------------------------- MODULE LeastElements ----------------------------
(* Least and greatest elements of sets of naturals, for the modules that      *)
(* choose one                                                                 *)
EXTENDS Integers, FiniteSetTheorems, WellFoundedInduction, TLAPS

(* Every nonempty set of naturals has a least element. *)
LEMMA LeastNatural ==
  ASSUME NEW S, S \subseteq Nat, S # {}
  PROVE  \E x \in S : \A y \in S : x <= y
<1>1. PICK x \in S : \A y \in S : ~ (<<y, x>> \in OpToRel(<, Nat))
  BY NatLessThanWellFounded, WFMin, Zenon
<1>2. \A y \in S : ~ (y < x)
  <2>. TAKE y \in S
  <2>1. x \in Nat /\ y \in Nat
    OBVIOUS
  <2>. QED  BY <1>1, <2>1, Zenon DEF OpToRel
<1>. QED  BY <1>2

(* Every nonempty finite set of naturals has a greatest element: a smallest  *)
(* set without one would have one with one element less, which with that     *)
(* element decides it.                                                       *)
LEMMA GreatestNatural ==
  ASSUME NEW S, S \subseteq Nat, S # {}, IsFiniteSet(S)
  PROVE  \E x \in S : \A y \in S : x >= y
<1>. DEFINE HasGreatest(T) == \E x \in T : \A y \in T : x >= y
            Without == {T \in FiniteSubsetsOf(S) : T # {} /\ ~ HasGreatest(T)}
<1>1. SUFFICES ASSUME ~ HasGreatest(S)  PROVE FALSE
  OBVIOUS
<1>2. S \in Without
  BY <1>1 DEF FiniteSubsetsOf
<1>3. PICK T \in Without : \A U \in Without : ~ (<<U, T>> \in StrictSubsetOrdering(S))
  <2>1. Without \subseteq FiniteSubsetsOf(S) /\ Without # {}
    BY <1>2
  <2>. HIDE DEF Without
  <2>. QED  BY <2>1, FS_StrictSubsetOrderingWellFounded, WFMin, Zenon
<1>4. /\ T \in SUBSET S /\ IsFiniteSet(T) /\ T # {} /\ ~ HasGreatest(T)
      /\ T \subseteq Nat
  BY <1>3 DEF FiniteSubsetsOf
<1>5. PICK t \in T : TRUE
  BY <1>4
<1>. DEFINE U == T \ {t}
<1>6. U \in SUBSET S /\ IsFiniteSet(U) /\ U \subseteq Nat /\ t \notin U /\ T = U \cup {t} /\ t \in Nat
  BY <1>4, <1>5, FS_RemoveElement
<1>7. <<U, T>> \in StrictSubsetOrdering(S)
  BY <1>4, <1>5 DEF StrictSubsetOrdering
<1>8. U = {} \/ HasGreatest(U)
  BY <1>3, <1>6, <1>7 DEF FiniteSubsetsOf
<1>. HIDE DEF U
<1>9. CASE U = {}
  <2>1. T = {t}
    BY <1>6, <1>9
  <2>2. \A y \in T : t >= y
    BY <1>6, <2>1
  <2>. QED  BY <1>4, <1>5, <2>2
<1>10. CASE HasGreatest(U)
  <2>1. PICK u \in U : \A y \in U : u >= y
    BY <1>10
  <2>2. u \in Nat /\ u \in T
    BY <1>6
  <2>3. (\A y \in T : u >= y) \/ (\A y \in T : t >= y)
    BY <1>6, <2>1, <2>2
  <2>. QED  BY <1>4, <1>5, <2>2, <2>3
<1>. QED  BY <1>8, <1>9, <1>10
==============================================================================
