------------------------- MODULE MCExerciseRecords -------------------------
(***************************************************************************)
(* Instances of ExerciseRecords for TLC: the events a run allows, and the  *)
(* symmetry of the catalogue's exercises and of the patient's devices.     *)
(***************************************************************************)
EXTENDS ExerciseRecords, TLC

NoEvents       == {}
Interference   == {"delete", "resave", "kill", "hasty"}
SheetsNoDelete == {"dismiss", "resave", "kill", "resend"}
Deletions      == {"delete"}
Edits          == {"delete", "resave", "resend"}

Buttons   == {"Good", "Hard"}
OneButton == {"Good"}

Symmetry == Permutations(PatientDevice) \cup Permutations(PhysioDevice)
              \cup Permutations(Exercise)
=============================================================================
