-------------------------- MODULE MCPatientRoster --------------------------
(***************************************************************************)
(* Instances of PatientRoster for TLC: the events a run allows, and the    *)
(* symmetry of the phones.  Accounts are ordered, so they have none.       *)
(***************************************************************************)
EXTENDS PatientRoster, TLC

Connected == AllEvents \ {"resend"}
Removals  == {"delete", "remove", "resend"}
Deletions == {"delete"}

NobodyAtAll == 0

Symmetry == Permutations(Device)
=============================================================================
