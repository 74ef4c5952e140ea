--------------------------- MODULE CountingProofs ---------------------------
(***************************************************************************)
(* What the proofs need to know of sums: an element adds its quantity, a   *)
(* sum over less, or of less, is no greater, and a sum over two parts is   *)
(* no greater than the two sums.                                           *)
(***************************************************************************)
EXTENDS Counting, Integers, FiniteSetTheorems, TLAPS

\* What is summed: natural numbers over a finite set.
Summable(q) == IsFiniteSet(DOMAIN q) /\ \A x \in DOMAIN q : q[x] \in Nat

-----------------------------------------------------------------------------
\* The units of one element are as many as its quantity.
LEMMA UnitsOfCount ==
  ASSUME NEW x, NEW n \in Nat
  PROVE  IsFiniteSet(UnitsOf(x, n)) /\ Cardinality(UnitsOf(x, n)) = n
<1>1. IsFiniteSet(1..n) /\ Cardinality(1..n) = n
  BY FS_Interval
<1>2. IsFiniteSet({x}) /\ Cardinality({x}) = 1
  BY FS_Singleton
<1>3. IsFiniteSet({x} \X (1..n)) /\ Cardinality({x} \X (1..n)) = Cardinality({x}) * Cardinality(1..n)
  BY <1>1, <1>2, FS_Product
<1> QED BY <1>1, <1>2, <1>3 DEF UnitsOf

\* What is a unit.
LEMMA UnitsMember ==
  ASSUME NEW q, NEW u
  PROVE  u \in Units(q) <=> \E x \in DOMAIN q : u \in UnitsOf(x, q[x])
BY DEF Units

\* There are finitely many units, so a sum is a number.
LEMMA SumType ==
  ASSUME NEW q, Summable(q)
  PROVE  IsFiniteSet(Units(q)) /\ SumOf(q) \in Nat
<1> DEFINE parts == {UnitsOf(x, q[x]) : x \in DOMAIN q}
<1>1. IsFiniteSet(parts)
  <2> DEFINE f == [x \in DOMAIN q |-> UnitsOf(x, q[x])]
  <2>1. f \in Surjection(DOMAIN q, parts)
    BY DEF Surjection
  <2> HIDE DEF f, parts
  <2> QED BY <2>1, FS_Surjection DEF Summable
<1>2. \A T \in parts : IsFiniteSet(T)
  BY UnitsOfCount DEF Summable
<1> HIDE DEF parts
<1>3. IsFiniteSet(UNION parts)
  BY <1>1, <1>2, FS_UNION
<1> QED BY <1>3, FS_CardinalityType DEF parts, Units, SumOf

\* A sum over nothing is zero.
LEMMA SumEmpty ==
  ASSUME NEW q, DOMAIN q = {}
  PROVE  SumOf(q) = 0
<1>1. Units(q) = {}
  BY DEF Units
<1> QED BY <1>1, FS_EmptySet DEF SumOf

\* A sum over less, or of less, is no greater.
LEMMA SumMonotone ==
  ASSUME NEW p, NEW q, Summable(p), Summable(q),
         DOMAIN p \subseteq DOMAIN q, \A x \in DOMAIN p : p[x] <= q[x]
  PROVE  SumOf(p) <= SumOf(q)
<1>1. ASSUME NEW x \in DOMAIN p PROVE UnitsOf(x, p[x]) \subseteq UnitsOf(x, q[x])
  <2>1. 1..p[x] \subseteq 1..q[x]
    BY DEF Summable
  <2> QED BY <2>1 DEF UnitsOf
<1>2. Units(p) \subseteq Units(q)
  BY <1>1, UnitsMember
<1>3. IsFiniteSet(Units(q))
  BY SumType
<1> QED BY <1>2, <1>3, FS_Subset DEF SumOf

\* Sums of the same quantities are the same.
LEMMA SumSame ==
  ASSUME NEW p, NEW q, DOMAIN p = DOMAIN q, \A x \in DOMAIN p : p[x] = q[x]
  PROVE  SumOf(p) = SumOf(q)
<1>1. Units(p) = Units(q)
  BY UnitsMember
<1> QED BY <1>1 DEF SumOf

\* One more element adds its quantity.
LEMMA SumAdd ==
  ASSUME NEW p, NEW q, NEW x, Summable(p), x \notin DOMAIN p, DOMAIN q = DOMAIN p \cup {x},
         \A y \in DOMAIN p : q[y] = p[y], q[x] \in Nat
  PROVE  SumOf(q) = SumOf(p) + q[x] /\ Summable(q)
<1>1. Units(q) = Units(p) \cup UnitsOf(x, q[x])
  <2>1. ASSUME NEW u PROVE u \in Units(q) <=> u \in Units(p) \/ u \in UnitsOf(x, q[x])
    BY UnitsMember
  <2> QED BY <2>1
<1>2. Units(p) \cap UnitsOf(x, q[x]) = {}
  BY DEF Units, UnitsOf
<1>3. IsFiniteSet(Units(p)) /\ SumOf(p) \in Nat
  BY SumType
<1>4. IsFiniteSet(UnitsOf(x, q[x])) /\ Cardinality(UnitsOf(x, q[x])) = q[x]
  BY UnitsOfCount
<1>5. Cardinality({}) = 0
  BY FS_EmptySet
<1>6. SumOf(q) = SumOf(p) + q[x] - 0
  BY <1>1, <1>2, <1>3, <1>4, <1>5, FS_Union DEF SumOf
<1>7. Summable(q)
  <2>1. IsFiniteSet(DOMAIN q)
    BY FS_AddElement DEF Summable
  <2> QED BY <2>1 DEF Summable
<1> QED BY <1>3, <1>6, <1>7

\* An element whose quantity grows adds what it grows by.
LEMMA SumBump ==
  ASSUME NEW p, NEW q, NEW x \in DOMAIN p, NEW n \in Nat, Summable(p), DOMAIN q = DOMAIN p,
         \A y \in DOMAIN p : y # x => q[y] = p[y], q[x] = p[x] + n
  PROVE  SumOf(q) = SumOf(p) + n
<1>1. PICK D : D = DOMAIN p \ {x}
  OBVIOUS
<1>2. PICK f : f = [y \in D |-> p[y]]
  OBVIOUS
<1>3. DOMAIN f = D /\ x \notin DOMAIN f /\ DOMAIN p = DOMAIN f \cup {x}
      /\ \A y \in D : f[y] = p[y] /\ y # x
  BY <1>1, <1>2
<1>4. IsFiniteSet(D) /\ p[x] \in Nat /\ q[x] \in Nat
  <2>1. IsFiniteSet(DOMAIN p) /\ D \subseteq DOMAIN p
    BY <1>1 DEF Summable
  <2>2. p[x] \in Nat
    BY DEF Summable
  <2> QED BY <2>1, <2>2, FS_Subset
<1>5. Summable(f)
  BY <1>1, <1>3, <1>4 DEF Summable
<1>6. SumOf(p) = SumOf(f) + p[x]
  BY <1>3, <1>4, <1>5, SumAdd
<1>7. SumOf(q) = SumOf(f) + q[x]
  BY <1>1, <1>3, <1>4, <1>5, SumAdd
<1>8. SumOf(f) \in Nat
  BY <1>5, SumType
<1> QED BY <1>4, <1>6, <1>7, <1>8

\* A sum over two parts is no greater than the sums over them.
LEMMA SumParts ==
  ASSUME NEW q, NEW p1, NEW p2, Summable(q), Summable(p1), Summable(p2),
         DOMAIN q \subseteq DOMAIN p1 \cup DOMAIN p2,
         \A x \in DOMAIN p1 : x \in DOMAIN q => p1[x] = q[x],
         \A x \in DOMAIN p2 : x \in DOMAIN q => p2[x] = q[x]
  PROVE  SumOf(q) <= SumOf(p1) + SumOf(p2)
<1>1. Units(q) \subseteq Units(p1) \cup Units(p2)
  <2> SUFFICES ASSUME NEW u \in Units(q) PROVE u \in Units(p1) \/ u \in Units(p2)
    OBVIOUS
  <2>1. PICK x \in DOMAIN q : u \in UnitsOf(x, q[x])
    BY UnitsMember
  <2>2. CASE x \in DOMAIN p1
    BY <2>1, <2>2, UnitsMember
  <2>3. CASE x \in DOMAIN p2
    BY <2>1, <2>3, UnitsMember
  <2> QED BY <2>2, <2>3
<1>2. /\ IsFiniteSet(Units(q)) /\ IsFiniteSet(Units(p1)) /\ IsFiniteSet(Units(p2))
      /\ SumOf(q) \in Nat /\ SumOf(p1) \in Nat /\ SumOf(p2) \in Nat
  BY SumType
<1>3. PICK A, B : A = Units(p1) /\ B = Units(p2)
  OBVIOUS
<1>4. /\ IsFiniteSet(A \cup B)
      /\ Cardinality(A \cup B) = Cardinality(A) + Cardinality(B) - Cardinality(A \cap B)
  BY <1>2, <1>3, FS_Union
<1>5. Cardinality(A \cap B) \in Nat
  <2>1. IsFiniteSet(A \cap B)
    BY <1>2, <1>3, FS_Subset
  <2> QED BY <2>1, FS_CardinalityType
<1>6. SumOf(q) <= Cardinality(A \cup B)
  BY <1>1, <1>3, <1>4, FS_Subset DEF SumOf
<1>7. SumOf(p1) = Cardinality(A) /\ SumOf(p2) = Cardinality(B)
  BY <1>3 DEF SumOf
<1> QED BY <1>2, <1>4, <1>5, <1>6, <1>7
=============================================================================
