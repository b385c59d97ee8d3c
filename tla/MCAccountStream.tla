-------------------------- MODULE MCAccountStream --------------------------
(***************************************************************************)
(* One session, one runner and one or two paper-api processes.             *)
(***************************************************************************)
EXTENDS AccountStream

CONSTANTS p1, p2

ProcessSymmetry == Permutations({p1, p2})
=============================================================================
