--------------------------- MODULE MCRoutineList ---------------------------
(***************************************************************************)
(* Instances of RoutineList for TLC: the events a run allows.  The runs    *)
(* check liveness, so they use no symmetry.                                *)
(***************************************************************************)
EXTENDS RoutineList

Everything == AllEvents
=============================================================================
