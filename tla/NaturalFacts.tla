----------------------------- MODULE NaturalFacts -----------------------------
(* Facts about natural numbers that several proofs cite.                   *)
EXTENDS Naturals, TLAPS, WellFoundedInduction

\* Every set of natural numbers has a least one.
LEMMA LeastNatural ==
    ASSUME NEW S \in SUBSET Nat, S # {}
    PROVE  \E n \in S : \A m \in S : n <= m
<1> DEFINE Less == {ss \in Nat \X Nat : ss[1] < ss[2]}
<1>1. IsWellFoundedOn(Less, Nat)
      BY NatLessThanWellFounded DEF OpToRel
<1>2. PICK n \in S : \A m \in S : ~ (<<m, n>> \in Less)
      <2> HIDE DEF Less
      <2> QED BY <1>1, WFMin, Zenon
<1>3. ASSUME NEW m \in S PROVE n <= m
      <2>1. <<m, n>> \in Nat \X Nat /\ <<m, n>>[1] = m /\ <<m, n>>[2] = n
            OBVIOUS
      <2>2. ~ (m < n)
            BY <1>2, <2>1
      <2>3. QED BY <2>2
<1>4. QED BY <1>3
===============================================================================
