------------------------- MODULE MCPatientRoutines -------------------------
(***************************************************************************)
(* Instances of PatientRoutines for TLC: the events a run allows.          *)
(* Exercises are ordered and the run checks liveness, so there is no       *)
(* symmetry.                                                               *)
(***************************************************************************)
EXTENDS PatientRoutines

Everything == AllEvents
=============================================================================
