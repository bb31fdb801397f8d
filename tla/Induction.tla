----------------------------- MODULE Induction -----------------------------
(***************************************************************************)
(* Induction over the natural numbers for a set, in a form the provers can *)
(* instantiate: the set stands for the predicate.                          *)
(***************************************************************************)
EXTENDS WellFoundedInduction, SequenceTheorems, TLAPS

\* A set that has 0, and n + 1 with every n, has every natural number.
LEMMA SetInduction ==
  ASSUME NEW S, 0 \in S, \A n \in Nat : n \in S => n + 1 \in S
  PROVE  \A n \in Nat : n \in S
<1> SUFFICES ASSUME NEW n \in Nat, n \notin S PROVE FALSE
  OBVIOUS
<1> DEFINE Missing == {m \in Nat : m \notin S}
           Less == {p \in Nat \X Nat : p[1] < p[2]}
<1>1. IsWellFoundedOn(Less, Nat)
  BY NatLessThanWellFounded, Zenon DEF OpToRel
<1>2. ASSUME NEW x \in Nat, NEW y \in Nat, y < x
      PROVE  <<y, x>> \in Less
  <2> DEFINE p == <<y, x>>
  <2>1. p \in Nat \X Nat /\ p[1] = y /\ p[2] = x
    OBVIOUS
  <2> HIDE DEF p
  <2>2. p \in Less
    BY <1>2, <2>1
  <2> QED BY <2>2 DEF p
<1>3. Missing \subseteq Nat /\ Missing # {}
  OBVIOUS
<1> HIDE DEF Less
<1>4. PICK x \in Missing : \A y \in Missing : <<y, x>> \notin Less
  BY <1>1, <1>3, WFMin
<1>5. x \in Nat /\ x # 0 /\ x \notin S
  OBVIOUS
<1>6. x - 1 \in Nat /\ x = (x - 1) + 1 /\ x - 1 < x
  BY <1>5
<1>7. x - 1 \notin S
  BY <1>5, <1>6
<1> QED BY <1>2, <1>4, <1>5, <1>6, <1>7

\* So does a set that has <<>>, and every sequence with its tail, for sequences.
LEMMA TextInduction ==
  ASSUME NEW T, NEW S, <<>> \in S,
         \A t \in T, rest \in Seq(T) : rest \in S => <<t>> \o rest \in S
  PROVE  \A text \in Seq(T) : text \in S
<1> DEFINE Lengths == {n \in Nat : \A text \in Seq(T) : Len(text) = n => text \in S}
<1>1. 0 \in Lengths
  <2>1. \A text \in Seq(T) : Len(text) = 0 => text = <<>>
    OBVIOUS
  <2> QED BY <2>1
<1>2. ASSUME NEW n \in Nat, n \in Lengths
      PROVE  n + 1 \in Lengths
  <2> SUFFICES ASSUME NEW text \in Seq(T), Len(text) = n + 1 PROVE text \in S
    OBVIOUS
  <2>1. text # <<>>
    OBVIOUS
  <2>2. /\ Head(text) \in T /\ Tail(text) \in Seq(T) /\ Len(Tail(text)) = n
        /\ text = <<Head(text)>> \o Tail(text)
    BY <2>1
  <2> QED BY <1>2, <2>2
<1>3. \A n \in Nat : n \in Lengths
  <2> HIDE DEF Lengths
  <2> QED BY <1>1, <1>2, SetInduction
<1>4. \A text \in Seq(T) : Len(text) \in Nat
  OBVIOUS
<1> QED BY <1>3, <1>4

=============================================================================
