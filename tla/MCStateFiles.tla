---------------------------- MODULE MCStateFiles ----------------------------
(***************************************************************************)
(* One runner's files through a few account events and failures.           *)
(***************************************************************************)
EXTENDS StateFiles
=============================================================================
