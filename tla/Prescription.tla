--------------------------- MODULE Prescription ---------------------------
(***************************************************************************)
(* What the physiotherapist may believe about the exercises of one routine *)
(* of one patient.  A prescribed exercise carries a completion count and a *)
(* feedback.  Only the physiotherapist prescribes and withdraws; the count *)
(* a report brings in is one the patient had really reached by pressing    *)
(* Done for THAT exercise, and the feedback one the patient really gave    *)
(* for it.  Reports may be late, repeated or lost, and may arrive for an   *)
(* exercise already withdrawn: how they travel is left to ExerciseRecords. *)
(***************************************************************************)
EXTENDS Integers

CONSTANTS Exercise, Feedback

VARIABLES record,   \* what the server holds for each exercise
          pressed,  \* how often the patient has completed each exercise
          told      \* the feedback the patient has given for each exercise

abstractVars == <<record, pressed, told>>

NoCount    == -1      \* the key patientdone is missing
NoFeedback == "none"  \* the key patientfeedback is missing

Record == [prescribed : BOOLEAN,
           done       : Nat \cup {NoCount},
           feedback   : Feedback \cup {NoFeedback}]

NoRecord  == [prescribed |-> FALSE, done |-> NoCount, feedback |-> NoFeedback]
NewRecord == [prescribed |-> TRUE,  done |-> 0,       feedback |-> "Good"]

Init == /\ record  = [e \in Exercise |-> NoRecord]
        /\ pressed = [e \in Exercise |-> 0]
        /\ told    = [e \in Exercise |-> {}]

Prescribe(e) == /\ record' = [record EXCEPT ![e] = NewRecord]
                /\ UNCHANGED <<pressed, told>>

Withdraw(e) == /\ record' = [record EXCEPT ![e] = NoRecord]
               /\ UNCHANGED <<pressed, told>>

Complete(e) == /\ pressed' = [pressed EXCEPT ![e] = @ + 1]
               /\ UNCHANGED <<record, told>>

Tell(e, f) == /\ told' = [told EXCEPT ![e] = @ \cup {f}]
              /\ UNCHANGED <<record, pressed>>

ReportCount(e) == /\ \E n \in 1 .. pressed[e] :
                        record' = [record EXCEPT ![e].done = n]
                  /\ UNCHANGED <<pressed, told>>

ReportFeedback(e) == /\ \E f \in told[e] :
                           record' = [record EXCEPT ![e].feedback = f]
                     /\ UNCHANGED <<pressed, told>>

Next == \E e \in Exercise :
          \/ Prescribe(e)
          \/ Withdraw(e)
          \/ Complete(e)
          \/ \E f \in Feedback : Tell(e, f)
          \/ ReportCount(e)
          \/ ReportFeedback(e)

Spec == Init /\ [][Next]_abstractVars
=============================================================================
