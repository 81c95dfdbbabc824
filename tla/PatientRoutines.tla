-------------------------- MODULE PatientRoutines --------------------------
(***************************************************************************)
(* A patient goes from one routine to another on one phone: the table of   *)
(* routines (PatientRoutineTableScreen), the exercises of the one tapped   *)
(* (PatientExecuteRoutineScreen), one exercise (PatientViewExercise), the  *)
(* feedback (PatientGiveFeedback).                                         *)
(*                                                                         *)
(* Every page that lists exercises observes its routine and is never let   *)
(* go; all of them refill one global array, patientAssignedExercises, in   *)
(* which the row tapped is looked up, but each reloads its own table only. *)
(* Merges go to the routine and the exercise of two more globals.  What    *)
(* the records hold is left to ExerciseRecords; here they are whole,       *)
(* nameless or missing.                                                    *)
(***************************************************************************)
EXTENDS Integers, FiniteSets

CONSTANTS Routine,   \* names of routines
          Exercise,  \* names of exercises, in the order of the keys
          Nothing,   \* the empty string of the globals
          Events     \* what else may happen, see AllEvents

(***************************************************************************)
(* prescribe: the physiotherapist saves an exercise                        *)
(* withdraw:  the physiotherapist removes one                              *)
(* touch:     another phone changes what a record holds                    *)
(* kill:      the operating system or the user ends the app                *)
(***************************************************************************)
AllEvents == {"prescribe", "withdraw", "touch", "kill"}

ASSUME ExerciseKeys == Exercise \subseteq Nat /\ IsFiniteSet(Exercise)
ASSUME NothingElse  == Nothing \notin Routine \cup Exercise
ASSUME EventNames   == Events \subseteq AllEvents

VARIABLES
  named,     \* the whole records of each routine, as the phone is told
  nameless,  \* its records without exercisename
  app,       \* is the app running
  page,      \* the page on top
  routine,   \* patientRoutineTapped, while a page above the table is open
  exercise,  \* patientTapsExercise, while a page for it is open
  read,      \* the single read of a PatientViewExercise on top
  table,     \* allAssignedPatientRoutines
  cells,     \* the rows of a PatientRoutineTableScreen on top
  tableDue,  \* an event for its observers is to come
  listed,    \* patientAssignedExercises
  rows,      \* the rows of a PatientExecuteRoutineScreen on top
  marked,    \* its table is to be laid out again
  observed,  \* the routines observed by it and by all before it
  due,       \* the routines whose observers have an event to come
  source,    \* history: the routine listed was filled for
  risks      \* history, each routine: what happened to it, see Risks

serverVars == <<named, nameless>>
pageVars   == <<page, routine, exercise, read>>
tableVars  == <<table, cells, tableDue>>
listVars   == <<listed, rows, marked, source>>
watchVars  == <<observed, due>>
vars == <<serverVars, app, pageVars, tableVars, listVars, watchVars, risks>>

(* withdrawn: an exercise was removed from it                              *)
(* strayed:   a row was tapped while the array was another routine's       *)
Risks == {"withdrawn", "strayed"}

Mark(r, x) == risks' = [risks EXCEPT ![r] = @ \cup {x}]

Children(r) == named[r] \cup nameless[r]

(* A routine is there as long as it has children. *)
Assigned == {r \in Routine : Children(r) # {}}

---------------------------------------------------------------------------
Stop(how) ==
  /\ app'      = how
  /\ page'     = "none"
  /\ routine'  = Nothing
  /\ exercise' = Nothing
  /\ read'     = "none"
  /\ table'    = {}
  /\ cells'    = {}
  /\ tableDue' = FALSE
  /\ listed'   = {}
  /\ rows'     = {}
  /\ marked'   = FALSE
  /\ source'   = Nothing
  /\ observed' = {}
  /\ due'      = {}

(* A new PatientRoutineTableScreen first shows what the global holds. *)
NewTable ==
  /\ page'     = "table"
  /\ cells'    = table
  /\ tableDue' = TRUE
  /\ UNCHANGED table

(* The home page keeps nothing. *)
OpenApp ==
  /\ app # "running"
  /\ app' = "running"
  /\ NewTable
  /\ UNCHANGED <<serverVars, routine, exercise, read, listVars, watchVars, risks>>

Kill ==
  /\ "kill" \in Events
  /\ app = "running"
  /\ Stop("closed")
  /\ UNCHANGED <<serverVars, risks>>

(* All observers of the table run one after the other on the same answer;  *)
(* the table is reloaded inside the loop over the routines.                *)
TableChanged ==
  /\ tableDue
  /\ tableDue' = FALSE
  /\ table'    = Assigned
  /\ cells'    = IF page = "table" /\ Assigned # {} THEN Assigned ELSE cells
  /\ UNCHANGED <<serverVars, app, pageVars, listVars, watchVars, risks>>

(* A new PatientExecuteRoutineScreen lists the array as it is, and         *)
(* observes routine r.                                                     *)
NewList(r) ==
  /\ page'     = "list"
  /\ rows'     = {}
  /\ marked'   = TRUE
  /\ observed' = observed \cup {r}
  /\ due'      = due \cup {r}
  /\ UNCHANGED <<listed, source>>

TapRoutine(r) ==
  /\ page = "table"
  /\ r \in cells
  /\ table # {}
  /\ routine' = r
  /\ cells'   = {}
  /\ NewList(r)
  /\ UNCHANGED <<serverVars, app, exercise, read, table, tableDue, risks>>

(* allAssignedPatientRoutines[indexPath.row] *)
TableCrash ==
  /\ page = "table"
  /\ cells # {}
  /\ table = {}
  /\ Stop("crashed")
  /\ UNCHANGED <<serverVars, risks>>

---------------------------------------------------------------------------
(* PatientExecuteRoutineScreen. *)

(* Faults kept for the checks, as all that are named ...Fault: the table   *)
(* is never reloaded; the array is not emptied.                            *)
ListSilentFault(r) ==
  /\ r \in due
  /\ nameless[r] = {}
  /\ due'    = due \ {r}
  /\ listed' = named[r]
  /\ source' = r
  /\ UNCHANGED <<serverVars, app, pageVars, tableVars, rows, marked, observed, risks>>

ListAppendsFault(r) ==
  /\ r \in due
  /\ nameless[r] = {}
  /\ due'    = due \ {r}
  /\ listed' = listed \cup named[r]
  /\ source' = r
  /\ marked' = (marked \/ (page = "list" /\ routine = r /\ named[r] # {}))
  /\ UNCHANGED <<serverVars, app, pageVars, tableVars, rows, observed, risks>>

(* The observers of a routine, of this page and of those left behind.  The *)
(* table is reloaded inside the loop over the children.                    *)
ListChanged(r) ==
  /\ r \in due
  /\ nameless[r] = {}
  /\ due'    = due \ {r}
  /\ listed' = named[r]
  /\ source' = r
  /\ marked' = (marked \/ (page = "list" /\ routine = r /\ named[r] # {}))
  /\ UNCHANGED <<serverVars, app, pageVars, tableVars, rows, observed, risks>>

(* name! *)
ListChangedCrash(r) ==
  /\ r \in due
  /\ nameless[r] # {}
  /\ Stop("crashed")
  /\ UNCHANGED <<serverVars, risks>>

(* The run loop lays a reloaded table out before it handles a touch. *)
Layout ==
  /\ page = "list"
  /\ marked
  /\ rows'   = listed
  /\ marked' = FALSE
  /\ UNCHANGED <<serverVars, app, pageVars, tableVars, listed, source, watchVars, risks>>

Index(S, x) == Cardinality({z \in S : z < x})

(* x is the exercise in the row, y the one in the array. *)
SameIndex(x, y) ==
  /\ page = "list"
  /\ ~marked
  /\ x \in rows
  /\ y \in listed
  /\ Index(listed, y) = Index(rows, x)

Strayed == IF source = routine THEN UNCHANGED risks ELSE Mark(routine, "strayed")

(* PatientViewExercise reads the record once. *)
NewView ==
  /\ page' = "view"
  /\ read' = "asked"

TapExercise(x) ==
  /\ \E y \in Exercise : SameIndex(x, y) /\ exercise' = y
  /\ Strayed
  /\ NewView
  /\ rows' = {}
  /\ UNCHANGED <<serverVars, app, routine, tableVars, listed, marked, source, watchVars>>

(* patientAssignedExercises[indexPath.row] *)
RowCrash ==
  /\ page = "list"
  /\ ~marked
  /\ Cardinality(listed) < Cardinality(rows)
  /\ Strayed
  /\ Stop("crashed")
  /\ UNCHANGED serverVars

(* The page is no longer on top; its observer stays. *)
LeaveRoutine ==
  /\ page = "list"
  /\ NewTable
  /\ routine' = Nothing
  /\ rows'    = {}
  /\ marked'  = FALSE
  /\ UNCHANGED <<serverVars, app, exercise, read, listed, source, watchVars, risks>>

---------------------------------------------------------------------------
(* PatientViewExercise and PatientGiveFeedback. *)

(* The record is found, or there is none and the count stays empty.  An    *)
(* answer after the page was left changes nothing, and what it would crash *)
(* on, the observers of the list crash on too.                             *)
CountLoaded ==
  /\ page = "view"
  /\ read = "asked"
  /\ exercise \notin nameless[routine]
  /\ read' = IF exercise \in named[routine] THEN "found" ELSE "missing"
  /\ UNCHANGED <<serverVars, app, page, routine, exercise, tableVars, listVars,
                 watchVars, risks>>

(* as! String on a record that lacks the keys of a save. *)
CountLoadedCrash ==
  /\ page = "view"
  /\ read = "asked"
  /\ exercise \in nameless[routine]
  /\ Stop("crashed")
  /\ UNCHANGED <<serverVars, risks>>

(* updateChildValues at the path the globals spell makes a missing record. *)
Merge ==
  /\ nameless' = [nameless EXCEPT ![routine] = @ \cup ({exercise} \ named[routine])]
  /\ tableDue' = TRUE
  /\ UNCHANGED named

DoneButtonPressed ==
  /\ page = "view"
  /\ read = "found"
  /\ exercise' = Nothing
  /\ read'     = "none"
  /\ Merge
  /\ NewList(routine)
  /\ UNCHANGED <<app, routine, table, cells, risks>>

(* Int(count)! *)
DoneButtonCrash ==
  /\ page = "view"
  /\ read = "missing"
  /\ Stop("crashed")
  /\ UNCHANGED <<serverVars, risks>>

ViewBack ==
  /\ page = "view"
  /\ exercise' = Nothing
  /\ read'     = "none"
  /\ NewList(routine)
  /\ UNCHANGED <<serverVars, app, routine, tableVars, risks>>

OpenFeedback ==
  /\ page = "view"
  /\ page' = "feedback"
  /\ read' = "none"
  /\ UNCHANGED <<serverVars, app, routine, exercise, tableVars, listVars, watchVars, risks>>

(* The same feedback once more changes nothing: no event then. *)
FeedbackPressed ==
  /\ page = "feedback"
  /\ Merge
  /\ NewView
  /\ due' \in {due, due \cup {routine}}
  /\ exercise \notin Children(routine) => routine \in due'
  /\ UNCHANGED <<app, routine, exercise, table, cells, listVars, observed, risks>>

FeedbackBack ==
  /\ page = "feedback"
  /\ NewView
  /\ UNCHANGED <<serverVars, app, routine, exercise, tableVars, listVars, watchVars, risks>>

---------------------------------------------------------------------------
(* Other phones. *)

Told(r) ==
  /\ due'      = due \cup (observed \cap {r})
  /\ tableDue' = (app = "running")
  /\ UNCHANGED <<app, pageVars, table, cells, listVars, observed>>

(* Fault: a removed or nameless child stays beside the new record. *)
PrescribeBesideFault(r, e) ==
  /\ "prescribe" \in Events
  /\ e \notin named[r]
  /\ named' = [named EXCEPT ![r] = @ \cup {e}]
  /\ Told(r)
  /\ UNCHANGED <<nameless, risks>>

Prescribe(r, e) ==
  /\ "prescribe" \in Events
  /\ e \notin named[r]
  /\ named'    = [named    EXCEPT ![r] = @ \cup {e}]
  /\ nameless' = [nameless EXCEPT ![r] = @ \ {e}]
  /\ Told(r)
  /\ UNCHANGED risks

Withdraw(r, e) ==
  /\ "withdraw" \in Events
  /\ e \in Children(r)
  /\ named'    = [named    EXCEPT ![r] = @ \ {e}]
  /\ nameless' = [nameless EXCEPT ![r] = @ \ {e}]
  /\ Told(r)
  /\ Mark(r, "withdrawn")

(* A re-save, or progress on another phone of the patient. *)
Touch(r) ==
  /\ "touch" \in Events
  /\ Children(r) # {}
  /\ Told(r)
  /\ UNCHANGED <<serverVars, risks>>

---------------------------------------------------------------------------
Init ==
  /\ named    \in [Routine -> SUBSET Exercise]
  /\ nameless = [r \in Routine |-> {}]
  /\ app      = "closed"
  /\ page     = "none"
  /\ routine  = Nothing
  /\ exercise = Nothing
  /\ read     = "none"
  /\ table    = {}
  /\ cells    = {}
  /\ tableDue = FALSE
  /\ listed   = {}
  /\ rows     = {}
  /\ marked   = FALSE
  /\ observed = {}
  /\ due      = {}
  /\ source   = Nothing
  /\ risks    = [r \in Routine |-> {}]

Next ==
  \/ OpenApp
  \/ Kill
  \/ TableChanged
  \/ \E r \in Routine : TapRoutine(r)
  \/ TableCrash
  \/ \E r \in Routine : ListChanged(r)
  \/ \E r \in Routine : ListChangedCrash(r)
  \/ Layout
  \/ \E x \in Exercise : TapExercise(x)
  \/ RowCrash
  \/ LeaveRoutine
  \/ CountLoaded
  \/ CountLoadedCrash
  \/ DoneButtonPressed
  \/ DoneButtonCrash
  \/ ViewBack
  \/ OpenFeedback
  \/ FeedbackPressed
  \/ FeedbackBack
  \/ \E r \in Routine, e \in Exercise : Prescribe(r, e)
  \/ \E r \in Routine, e \in Exercise : Withdraw(r, e)
  \/ \E r \in Routine : Touch(r)

Spec == Init /\ [][Next]_vars

(* Events are delivered and tables laid out; what the patient taps is not  *)
(* forced.                                                                 *)
Fairness ==
  /\ WF_vars(Layout)
  /\ \A r \in Routine : WF_vars(ListChanged(r) \/ ListChangedCrash(r))

FairSpec == Spec /\ Fairness

---------------------------------------------------------------------------
(* Properties. *)

(* Every state is well formed: a page's globals always spell a path, and   *)
(* no record is both whole and nameless.                                   *)
TypeOK ==
  /\ named    \in [Routine -> SUBSET Exercise]
  /\ nameless \in [Routine -> SUBSET Exercise]
  /\ \A r \in Routine : named[r] \cap nameless[r] = {}
  /\ app      \in {"closed", "running", "crashed"}
  /\ page     \in {"none", "table", "list", "view", "feedback"}
  /\ page     \in {"list", "view", "feedback"} <=> routine \in Routine
  /\ routine  \in observed \cup {Nothing}
  /\ exercise \in Exercise \cup {Nothing}
  /\ page     \in {"view", "feedback"} <=> exercise \in Exercise
  /\ read     \in {"none", "asked", "found", "missing"}
  /\ table    \in SUBSET Routine
  /\ cells    \in SUBSET Routine
  /\ tableDue \in BOOLEAN
  /\ listed   \in SUBSET Exercise
  /\ rows     \in SUBSET Exercise
  /\ marked   \in BOOLEAN
  /\ observed \in SUBSET Routine
  /\ due      \in SUBSET observed
  /\ source   \in observed \cup {Nothing}
  /\ risks    \in [Routine -> SUBSET Risks]

(* The exercise opened is the one in the row, as long as the array was     *)
(* last filled for the routine that is open, however many pages for other  *)
(* routines were left behind before.                                       *)
TapMeansRow ==
  [][\A x \in Exercise : TapExercise(x) /\ source = routine => exercise' = x]_vars

(* A record is only ever nameless in a routine from which an exercise was  *)
(* withdrawn, or in which a row was tapped that was looked up in another's *)
(* array: every other merge finds its record.                              *)
OrphansHaveCause == \A r \in Routine : nameless[r] # {} => risks[r] # {}

(* Nothing but these makes the patient's app crash, although its tables    *)
(* are reloaded inside a loop and Int(count)! and name! are unwrapped.     *)
CrashHasCause == app = "crashed" => \E r \in Routine : risks[r] # {}

(* If a routine stays as it is and is not empty, its page comes to list    *)
(* exactly that, or another routine's observer has filled the array.       *)
ListShowsRoutine ==
  \A r \in Routine : \A S \in SUBSET Exercise \ {{}} :
    <>[](named[r] = S /\ nameless[r] = {}) =>
      []<>(page = "list" /\ routine = r => rows = S \/ source # r)
=============================================================================
