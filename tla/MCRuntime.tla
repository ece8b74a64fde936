----------------------------- MODULE MCRuntime -----------------------------
(***************************************************************************)
(* An instance of AppManager, on top of StoreCatalogue, for TLC.  Bound: a *)
(* start waits for a slot; with two of them for an application, a process  *)
(* is started over one that runs.                                          *)
(***************************************************************************)
EXTENDS AppManager, TLC

ASSUME RoomForADouble == Cardinality(Procs) >= 2 * Cardinality(Apps)

Symmetry == Permutations(Procs) \cup Permutations(Callers)
=============================================================================
