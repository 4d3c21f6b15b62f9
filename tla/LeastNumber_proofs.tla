------------------------- MODULE LeastNumber_proofs -------------------------
(***************************************************************************)
(* What the proofs about rows chosen by their number rest on: the job that *)
(* was created first, the next row of a table.                             *)
(***************************************************************************)
EXTENDS Naturals, FiniteSetTheorems, WellFoundedInduction, TLAPS

\* Among some numbers there is a least one: that of the down-set none of the others is smaller than.
LEMMA LeastNumber ==
    ASSUME NEW Q \in SUBSET Nat, Q # {}
    PROVE  \E j \in Q : \A k \in Q : j <= k
<1> DEFINE UpTo(j) == {k \in Nat : k <= j}
           D == {UpTo(j) : j \in Q}
<1>1. D \subseteq FiniteSubsetsOf(Nat) /\ D # {}
  <2>1. ASSUME NEW j \in Nat PROVE IsFiniteSet(UpTo(j))
    <3>1. UpTo(j) \in SUBSET Nat /\ \A k \in UpTo(j) : k <= j
      OBVIOUS
    <3> QED BY <3>1, FS_BoundedSetOfNaturals
  <2> QED BY <2>1 DEF FiniteSubsetsOf
<1>2. PICK S \in D : \A T \in D : ~(<<T, S>> \in StrictSubsetOrdering(Nat))
  <2>1. IsWellFoundedOn(StrictSubsetOrdering(Nat), FiniteSubsetsOf(Nat))
    BY FS_StrictSubsetOrderingWellFounded
  <2> QED BY <1>1, <2>1, WFMin
<1>3. PICK j \in Q : S = UpTo(j)
  BY <1>2
<1>4. ASSUME NEW k \in Q, ~(j <= k) PROVE FALSE
  <2>1. UpTo(k) \subseteq UpTo(j) /\ j \notin UpTo(k) /\ j \in UpTo(j)
    BY <1>4
  <2>2. <<UpTo(k), UpTo(j)>> \in StrictSubsetOrdering(Nat)
    BY <2>1 DEF StrictSubsetOrdering
  <2> QED BY <1>2, <1>3, <2>2
<1> QED BY <1>4
=============================================================================
