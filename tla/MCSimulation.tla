---------------------------- MODULE MCSimulation ----------------------------
(***************************************************************************)
(* The simulator, with its invariant and what it reports.                  *)
(***************************************************************************)
EXTENDS SimulationInvariant, StatisticsReport
=============================================================================
