---------------------------- MODULE SharedList ----------------------------
(***************************************************************************)
(* What a physiotherapist with several phones may believe about the list   *)
(* of patients.  There is one list; a phone shows it with its own unsaved  *)
(* changes made.  A change is shown at once and saved later, what others   *)
(* save shows everywhere but where it would hide an unsaved change, and a  *)
(* phone that forgets its changes shows the list again.  Only the invited  *)
(* get onto it.  A saved change may be saved again, and an older one after *)
(* it: how they travel is left to PatientRoster.                           *)
(***************************************************************************)

CONSTANTS Device, Account

VARIABLES stored,   \* the list
          list,     \* the list as each phone shows it
          unsaved,  \* the accounts each phone has an unsaved change of
          invited   \* the accounts that may get onto the list

sharedVars == <<stored, list, unsaved, invited>>

Put(S, x, there) == IF there THEN S \cup {x} ELSE S \ {x}

Init == /\ stored  = {}
        /\ list    = [d \in Device |-> {}]
        /\ unsaved = [d \in Device |-> {}]
        /\ invited = {}

Invite(x) == /\ invited' = invited \cup {x}
             /\ UNCHANGED <<stored, unsaved, list>>

Change(d, x) == /\ unsaved' = [unsaved EXCEPT ![d] = @ \cup {x}]
                /\ \/ x \in invited /\ list' = [list EXCEPT ![d] = Put(@, x, TRUE)]
                   \/ list' = [list EXCEPT ![d] = Put(@, x, FALSE)]
                /\ UNCHANGED <<stored, invited>>

(* The last change of an entry to be saved is the one the phone shows. *)
Save(d, x, there) == /\ x \in unsaved[d]
                     /\ there => x \in invited
                     /\ stored' = Put(stored, x, there)
                     /\ \/ UNCHANGED unsaved
                        \/ /\ x \in list[d] <=> there
                           /\ unsaved' = [unsaved EXCEPT ![d] = @ \ {x}]
                     /\ list' = [o \in Device |-> IF x \in unsaved[o]
                                                    THEN list[o]
                                                    ELSE Put(list[o], x, there)]
                     /\ UNCHANGED invited

Forget(d) == /\ unsaved[d] # {}
             /\ unsaved' = [unsaved EXCEPT ![d] = {}]
             /\ list'    = [list    EXCEPT ![d] = stored]
             /\ UNCHANGED <<stored, invited>>

Next ==
  \/ \E x \in Account : Invite(x)
  \/ \E d \in Device, x \in Account : Change(d, x)
  \/ \E d \in Device, x \in Account, there \in BOOLEAN : Save(d, x, there)
  \/ \E d \in Device : Forget(d)

Spec == Init /\ [][Next]_sharedVars
=============================================================================
