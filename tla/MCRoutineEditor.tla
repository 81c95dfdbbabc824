-------------------------- MODULE MCRoutineEditor --------------------------
(***************************************************************************)
(* Instances of RoutineEditor for TLC: the events a run allows.  Exercises *)
(* are ordered, so they have no symmetry.                                  *)
(***************************************************************************)
EXTENDS RoutineEditor

Everything == AllEvents
=============================================================================
