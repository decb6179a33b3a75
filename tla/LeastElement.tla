---------------------------- MODULE LeastElement ----------------------------
(* That the naturals are well-ordered, in the form the proofs use it: what   *)
(* the code finds by scanning upwards exists.                                *)
EXTENDS Integers, WellFoundedInduction, TLAPS

(* A nonempty set of naturals has a least element. *)
LEMMA LeastNatural ==
    ASSUME NEW T, T \subseteq Nat, T # {}
    PROVE  \E x \in T : \A y \in T : x <= y
<1>1. PICK x \in T : \A y \in T : ~(<<y, x>> \in OpToRel(<, Nat))
      BY NatLessThanWellFounded, WFMin
<1>2. \A y \in T : ~(y < x)
      BY <1>1 DEF OpToRel
<1>3. \A y \in T : x <= y
      BY <1>2
<1> QED  BY <1>3

(* A nonempty bounded set of naturals has a greatest element. *)
LEMMA GreatestNatural ==
    ASSUME NEW N \in Nat, NEW T, T \subseteq 0..N, T # {}
    PROVE  \E x \in T : \A y \in T : y <= x
<1> DEFINE U == {k \in 0..N : N - k \in T}
<1>1. \A x \in T : N - x \in U
      OBVIOUS
<1>2. U \subseteq Nat /\ U # {}
  <2>1. U \subseteq Nat
        OBVIOUS
  <2>2. PICK x : x \in T
        OBVIOUS
  <2> QED  BY <2>1, <2>2, <1>1
<1>3. PICK k \in U : \A y \in U : k <= y
      BY <1>2, LeastNatural
<1>4. N - k \in T /\ \A y \in T : k <= N - y
      BY <1>1, <1>3
<1>5. \A y \in T : y <= N - k
      BY <1>3, <1>4
<1> QED  BY <1>4, <1>5
=============================================================================
