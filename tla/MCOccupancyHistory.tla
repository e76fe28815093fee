-------------------------- MODULE MCOccupancyHistory --------------------------
(* Instances of OccupancyHistory for TLC: those of MCOccupancy.              *)
EXTENDS MCOccupancy, OccupancyHistory
=============================================================================
