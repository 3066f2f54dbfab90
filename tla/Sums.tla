--------------------------------- MODULE Sums ---------------------------------
(***************************************************************************)
(* What a function with natural values adds up to: the number of units it  *)
(* gives to the members of its domain.  A count is no fold and no          *)
(* recursion, so that the laws of sums follow from those of finite sets.   *)
(***************************************************************************)
EXTENDS Naturals, FiniteSets

\* The units that f gives, each with the member it is given to.
Units(f) == UNION {{x} \X (1 .. f[x]) : x \in DOMAIN f}

SumOf(f) == Cardinality(Units(f))
=============================================================================
