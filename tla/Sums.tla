--------------------------------- MODULE Sums ---------------------------------
(***************************************************************************)
(* The sum of the numbers a function has, as the number of the units that  *)
(* are summed: what is known of the sizes of finite sets holds of it.      *)
(***************************************************************************)
EXTENDS Integers, FiniteSets

Units(f) == UNION {{x} \X (1 .. f[x]) : x \in DOMAIN f}

SumOf(f) == Cardinality(Units(f))
===============================================================================
