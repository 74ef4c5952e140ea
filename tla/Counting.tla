------------------------------ MODULE Counting ------------------------------
(***************************************************************************)
(* Sums as numbers of units: the sum of the quantities of a function is    *)
(* the number of its units, each unit being an element of the domain with  *)
(* its place among that element's.  A sum by recursion over a set has the  *)
(* same value, but no proof could reason about it.                         *)
(***************************************************************************)
EXTENDS Naturals, FiniteSets

UnitsOf(x, n) == {x} \X (1..n)
Units(q) == UNION {UnitsOf(x, q[x]) : x \in DOMAIN q}
SumOf(q) == Cardinality(Units(q))
=============================================================================
