-------------------------- MODULE MCStrategyRunner --------------------------
(***************************************************************************)
(* One runner against one ledger, two sweeps at a time.                    *)
(***************************************************************************)
EXTENDS StrategyRunner
=============================================================================
