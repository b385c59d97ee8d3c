-------------------------------- MODULE Sums --------------------------------
(***************************************************************************)
(* The sum of a function of naturals over a finite domain, written as the  *)
(* number of its units: f[r] units labelled r for every r in the domain.   *)
(* A fold would compute the same number, but what a fold returns cannot be *)
(* proved here for every domain, whereas a cardinality can.                *)
(***************************************************************************)
EXTENDS Integers, FiniteSets

Units(f) == UNION {{r} \X (1 .. f[r]) : r \in DOMAIN f}

Total(f) == Cardinality(Units(f))
=============================================================================
