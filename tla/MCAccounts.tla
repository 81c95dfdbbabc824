----------------------------- MODULE MCAccounts -----------------------------
(***************************************************************************)
(* Instances of Accounts for TLC: the events a run allows.  The run checks *)
(* liveness, so it uses no symmetry.                                       *)
(***************************************************************************)
EXTENDS Accounts

Everything == AllEvents
=============================================================================
