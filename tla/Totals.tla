------------------------------- MODULE Totals -------------------------------
(***************************************************************************)
(* The sum of a natural-valued function over its finite domain, which is   *)
(* what the SUM() aggregates of the inventory queries compute.  The sum is *)
(* the number of units a function counts, so that its laws follow from the *)
(* library's cardinality theorems and need no induction (TotalsProofs).    *)
(***************************************************************************)
EXTENDS Integers, FiniteSets

\* One pair per unit counted by f at x.
UnitsAt(f, x) == {x} \X (1..f[x])
Units(f) == UNION {UnitsAt(f, x) : x \in DOMAIN f}

\* The sum of f[x] over the domain of f.
Total(f) == Cardinality(Units(f))

AtMost(a, b) == IF a <= b THEN a ELSE b
AtLeast(a, b) == IF a >= b THEN a ELSE b
=============================================================================
