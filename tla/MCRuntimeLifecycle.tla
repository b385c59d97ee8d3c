------------------------- MODULE MCRuntimeLifecycle -------------------------
(***************************************************************************)
(* Two processes contend for the KR and US leases.                         *)
(***************************************************************************)
EXTENDS RuntimeLifecycle, TLC

CONSTANTS p1, p2, KR, US

MCOrder == <<KR, US>>
ProcSymmetry == Permutations({p1, p2})
=============================================================================
