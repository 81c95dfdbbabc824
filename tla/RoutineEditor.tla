--------------------------- MODULE RoutineEditor ---------------------------
(***************************************************************************)
(* How a physiotherapist writes a routine: a patient's page is opened      *)
(* (PhysioPatientInfo), the routine is named (NewRoutineName), an exercise *)
(* is picked from the catalogue (ExerciseNameList) and saved               *)
(* (ExerciseList), the routine so far is listed (ExerciseHomePage), where  *)
(* exercises are removed or more are picked.                               *)
(*                                                                         *)
(* The pages share globals, every save is written by a callback that reads *)
(* them when it runs, and no page ever removes its observer.  The home     *)
(* page that follows the editor is a sheet over it.                        *)
(***************************************************************************)
EXTENDS Integers, FiniteSets

CONSTANTS Patient,     \* uids of the patients
          Routine,     \* names that can be typed, compared untrimmed
          Unkeyable,   \* those with a character a database key may not have
          Exercise,    \* the catalogue, by name
          Nothing,     \* the empty string of the globals
          Events,      \* what else may happen, see AllEvents
          MaxSaves     \* bound: unanswered saves

(***************************************************************************)
(* colleague: another phone of a physiotherapist changes a routine         *)
(* progress:  a patient's phone changes a record of a routine              *)
(* orphan:    it merges into a record that was removed: one without a name *)
(* fault:     a Firestore query fails                                      *)
(* offline:   the query for the catalogue is answered from an empty cache  *)
(* kill:      the operating system or the user ends the app                *)
(***************************************************************************)
AllEvents == {"colleague", "progress", "orphan", "fault", "offline", "kill"}

(* The records of a routine are ordered by name, their key. *)
ASSUME ExerciseKeys == Exercise \subseteq Nat /\ IsFiniteSet(Exercise)
ASSUME NameKinds    == Unkeyable \subseteq Routine
ASSUME NothingElse  == Nothing \notin Patient \cup Routine \cup Exercise
ASSUME EventNames   == Events \subseteq AllEvents
ASSUME SaveBound    == MaxSaves \in Nat

VARIABLES
  seen,       \* the routines as the phone is told, own writes applied
  app,        \* is the app running
  page,       \* the page on top
  patient,    \* currentPatient
  routine,    \* currentRoutine
  edited,     \* the routine the editor's pages were opened for
  under,      \* is the editor below the home page, a sheet
  exercise,   \* exerciseID while ExerciseList is open
  catalogue,  \* allExercises: how often it holds the catalogue
  listing,    \* unanswered queries for the catalogue
  listed,     \* newRoutine
  rows,       \* the rows of the ExerciseHomePage on top, or below the sheet
  marked,     \* its table is to be laid out again
  observed,   \* the routines observed by it and by all before it
  due,        \* the routines whose observers have an event to come
  saving,     \* the saves not yet answered
  risks       \* history: what happened since the app was opened

editVars == <<edited, under>>
tableVars == <<listed, rows, marked>>
watchVars == <<observed, due>>
vars == <<seen, app, page, patient, routine, exercise, editVars, catalogue,
          listing, tableVars, watchVars, saving, risks>>

(* The routines there can be. *)
Target == Patient \X (Routine \ Unkeyable)

(* The path the globals spell now. *)
Now == <<patient, routine>>

Pages == {"none", "home", "info", "catalogue", "exercise", "editor"}

(* strayed: another routine was opened while a save was unanswered, or     *)
(*          another patient before the home page was swiped away           *)
(* resaved: a save that changed nothing emptied newRoutine, and no event   *)
(*          has filled it since                                            *)
(* failed:  a query failed since a save was tapped                         *)
Risks == {"strayed", "resaved", "failed"}

(* Observers of more than one routine are alive. *)
Mixed == \E s, t \in observed : s # t

Slot    == 1 .. MaxSaves
Idle    == [exercise |-> Nothing, target |-> <<Nothing, Nothing>>]
Request == [exercise : Exercise, target : Target]

Unanswered == \E s \in Slot : saving[s] # Idle

---------------------------------------------------------------------------
Stop(how) ==
  /\ app'       = how
  /\ page'      = "none"
  /\ patient'   = Nothing
  /\ routine'   = Nothing
  /\ edited'    = <<Nothing, Nothing>>
  /\ under'     = FALSE
  /\ exercise'  = Nothing
  /\ catalogue' = 0
  /\ listing'   = 0
  /\ listed'    = {}
  /\ rows'      = {}
  /\ marked'    = FALSE
  /\ observed'  = {}
  /\ due'       = {}
  /\ saving'    = [s \in Slot |-> Idle]

OpenApp ==
  /\ app # "running"
  /\ app'   = "running"
  /\ page'  = "home"
  /\ risks' = {}
  /\ UNCHANGED <<seen, patient, routine, exercise, editVars, catalogue,
                 listing, tableVars, watchVars, saving>>

Kill ==
  /\ "kill" \in Events
  /\ app = "running"
  /\ Stop("closed")
  /\ UNCHANGED <<seen, risks>>

(* The globals are to spell p and r while saves may be unanswered. *)
Spell(p, r) ==
  /\ patient' = p
  /\ routine' = r
  /\ risks'   = risks \cup {x \in {"strayed"} : Unanswered /\ <<p, r>> # Now}

OpenPatient(p) ==
  /\ page = "home"
  /\ page' = "info"
  /\ Spell(p, routine)
  /\ UNCHANGED <<seen, app, exercise, editVars, catalogue, listing,
                 tableVars, watchVars, saving>>

LeavePatient ==
  /\ page = "info"
  /\ page' = "home"
  /\ UNCHANGED <<seen, app, patient, routine, exercise, editVars,
                 catalogue, listing, tableVars, watchVars, saving, risks>>

(* The page is no longer on top; its observer stays. *)
Covered ==
  /\ rows'   = {}
  /\ marked' = FALSE
  /\ UNCHANGED listed

(* A patient was added or removed, or the adding was cancelled: a new home *)
(* page takes the place of all pages.                                      *)
NewHome ==
  /\ page \in {"home", "info"}
  /\ page'   = "home"
  /\ edited' = <<Nothing, Nothing>>
  /\ under'  = FALSE
  /\ Covered
  /\ UNCHANGED <<seen, app, patient, routine, exercise, catalogue,
                 listing, watchVars, saving, risks>>

---------------------------------------------------------------------------
(* ExerciseNameList: a new page empties the catalogue and asks for it. *)
NewCatalogue ==
  /\ page'      = "catalogue"
  /\ catalogue' = 0
  /\ listing'   = listing + 1

(* Savetapped of NewRoutineName; an empty name is refused.  The catalogue  *)
(* takes the place of all pages.                                           *)
NameRoutine(r) ==
  /\ page = "info"
  /\ NewCatalogue
  /\ Spell(patient, r)
  /\ edited' = <<patient, r>>
  /\ under'  = FALSE
  /\ Covered
  /\ UNCHANGED <<seen, app, exercise, watchVars, saving>>

CatalogueLoaded ==
  /\ listing > 0
  /\ listing'   = listing - 1
  /\ catalogue' = catalogue + 1
  /\ UNCHANGED <<seen, app, page, patient, routine, exercise, editVars,
                 tableVars, watchVars, saving, risks>>

(* Then the page has no row to tap, and no other way out. *)
CatalogueMissing ==
  /\ "offline" \in Events
  /\ listing > 0
  /\ listing' = listing - 1
  /\ UNCHANGED <<seen, app, page, patient, routine, exercise, editVars,
                 catalogue, tableVars, watchVars, saving, risks>>

(* snapshot! after an error. *)
CatalogueCrash ==
  /\ "fault" \in Events
  /\ listing > 0
  /\ Stop("crashed")
  /\ risks' = risks \cup {"failed"}
  /\ UNCHANGED seen

(* Fault: the page can be left before the query is answered. *)
TapEarlyFault(e) ==
  /\ page = "catalogue"
  /\ page'     = "exercise"
  /\ exercise' = e
  /\ UNCHANGED <<seen, app, patient, routine, editVars, catalogue,
                 listing, tableVars, watchVars, saving, risks>>

TapExercise(e) ==
  /\ page = "catalogue"
  /\ listing = 0
  /\ catalogue > 0
  /\ page'     = "exercise"
  /\ exercise' = e
  /\ UNCHANGED <<seen, app, patient, routine, editVars, catalogue,
                 listing, tableVars, watchVars, saving, risks>>

ExerciseBack ==
  /\ page = "exercise"
  /\ NewCatalogue
  /\ exercise' = Nothing
  /\ UNCHANGED <<seen, app, patient, routine, editVars, tableVars,
                 watchVars, saving, risks>>

---------------------------------------------------------------------------
(* ExerciseList.  The query is for the exercise shown; the page goes on to *)
(* a new ExerciseHomePage at once.  That page lists newRoutine as it is,   *)
(* and observes the routine the globals spell.  The target is the routine  *)
(* whose pages the physiotherapist has before them.                        *)
SaveTapped(s) ==
  /\ page = "exercise"
  /\ routine \notin Unkeyable
  /\ saving[s] = Idle
  /\ saving'   = [saving EXCEPT ![s] = [exercise |-> exercise, target |-> edited]]
  /\ page'     = "editor"
  /\ edited'   = Now
  /\ exercise' = Nothing
  /\ rows'     = {}
  /\ marked'   = TRUE
  /\ observed' = observed \cup {Now}
  /\ due'      = due \cup {Now}
  /\ risks'    = risks \ {"failed"}
  /\ UNCHANGED <<seen, app, patient, routine, under, catalogue, listing,
                 listed>>

(* child() of a string that cannot be a key raises an exception. *)
UnkeyableCrash ==
  /\ routine \in Unkeyable
  /\ page = "exercise" \/ Unanswered
  /\ Stop("crashed")
  /\ UNCHANGED <<seen, risks>>

(* Faults kept for the checks, as all that are named ...Fault: a callback  *)
(* that runs although nothing was saved; one that writes nothing; one that *)
(* puts its record in the place of the whole routine.                      *)
SaveNobodyFault(s) ==
  /\ listed' = {}
  /\ saving' = [saving EXCEPT ![s] = Idle]
  /\ Now \in Target
  /\ seen'   = [seen EXCEPT ![Now] = @ \cup {saving[s].exercise}]
  /\ due'    = due \cup (observed \cap {Now})
  /\ UNCHANGED <<app, page, patient, routine, exercise, editVars,
                 catalogue, listing, rows, marked, observed, risks>>

SaveDroppedFault(s) ==
  /\ saving[s] # Idle
  /\ listed' = {}
  /\ saving' = [saving EXCEPT ![s] = Idle]
  /\ UNCHANGED <<seen, app, page, patient, routine, exercise, editVars,
                 catalogue, listing, rows, marked, watchVars, risks>>

SaveReplacesFault(s) ==
  /\ saving[s] # Idle
  /\ routine \notin Unkeyable
  /\ listed' = {}
  /\ saving' = [saving EXCEPT ![s] = Idle]
  /\ seen'   = [seen EXCEPT ![Now] = {saving[s].exercise}]
  /\ due'    = due \cup (observed \cap {Now})
  /\ UNCHANGED <<app, page, patient, routine, exercise, editVars,
                 catalogue, listing, rows, marked, observed, risks>>

(* The callback of the query writes under what the globals spell by then.  *)
(* A record written again may be what it was: no event then.               *)
SaveAnswered(s) ==
  LET e == saving[s].exercise
  IN /\ saving[s] # Idle
     /\ routine \notin Unkeyable
     /\ listed' = {}
     /\ saving' = [saving EXCEPT ![s] = Idle]
     /\ seen'   = [seen EXCEPT ![Now] = @ \cup {e}]
     /\ \/ due' = due \cup (observed \cap {Now}) /\ UNCHANGED risks
        \/ e \in seen[Now] /\ risks' = risks \cup {"resaved"} /\ UNCHANGED due
     /\ UNCHANGED <<app, page, patient, routine, exercise, editVars, catalogue,
                    listing, rows, marked, observed>>

(* The physiotherapist is not told. *)
SaveFailed(s) ==
  /\ "fault" \in Events
  /\ saving[s] # Idle
  /\ saving' = [saving EXCEPT ![s] = Idle]
  /\ risks'  = risks \cup {"failed"}
  /\ UNCHANGED <<seen, app, page, patient, routine, exercise, editVars,
                 catalogue, listing, tableVars, watchVars>>

---------------------------------------------------------------------------
(* ExerciseHomePage: on top, or below a home page that it presented as a   *)
(* sheet.                                                                  *)
Shown == page = "editor" \/ under

(* Fault: the table is never reloaded. *)
EditorSilentFault(t) ==
  /\ t \in due
  /\ due'    = due \ {t}
  /\ listed' = seen[t]
  /\ UNCHANGED <<seen, app, page, patient, routine, exercise, editVars,
                 catalogue, listing, rows, marked, observed, saving, risks>>

(* The observers of a routine, of this page and of those left behind.  The *)
(* table is reloaded inside the loop over the records.                     *)
EditorChanged(t) ==
  /\ t \in due
  /\ due'    = due \ {t}
  /\ listed' = seen[t]
  /\ marked' = (marked \/ (Shown /\ t = edited /\ seen[t] # {}))
  /\ risks'  = risks \ {"resaved"}
  /\ UNCHANGED <<seen, app, page, patient, routine, exercise, editVars,
                 catalogue, listing, rows, observed, saving>>

(* name! of a record that has none; whether there is one is left open. *)
EditorChangedCrash(t) ==
  /\ "orphan" \in Events
  /\ t \in due
  /\ Stop("crashed")
  /\ UNCHANGED <<seen, risks>>

(* The run loop lays a reloaded table out before it handles a touch. *)
Layout ==
  /\ Shown
  /\ marked
  /\ rows'   = listed
  /\ marked' = FALSE
  /\ UNCHANGED <<seen, app, page, patient, routine, exercise, editVars,
                 catalogue, listing, listed, watchVars, saving, risks>>

Index(S, x) == Cardinality({z \in S : z < x})

(* x is the exercise in the row, y the one in the array. *)
SameIndex(x, y) ==
  /\ page = "editor"
  /\ ~marked
  /\ x \in rows
  /\ y \in listed
  /\ Index(listed, y) = Index(rows, x)

Removed(t, y) == [seen EXCEPT ![t] = @ \ {y}]

DeleteRow(x) ==
  /\ Cardinality(rows) = Cardinality(listed)
  /\ \E y \in Exercise :
       /\ SameIndex(x, y)
       /\ seen'   = Removed(Now, y)
       /\ due'    = due \cup {t \in observed \cap {Now} : y \in seen[t]}
       /\ listed' = listed \ {y}
  /\ rows' = rows \ {x}
  /\ UNCHANGED <<app, page, patient, routine, exercise, editVars, catalogue,
                 listing, marked, observed, saving, risks>>

(* An index out of range, or, after the write, a table whose count does    *)
(* not fit the deletion.                                                   *)
RowCrash ==
  /\ page = "editor"
  /\ ~marked
  /\ rows # {}
  /\ Cardinality(rows) # Cardinality(listed)
  /\ \/ UNCHANGED seen
     \/ \E x, y \in Exercise : SameIndex(x, y) /\ seen' = Removed(Now, y)
  /\ Stop("crashed")
  /\ UNCHANGED risks

AddMore ==
  /\ page = "editor"
  /\ NewCatalogue
  /\ Covered
  /\ UNCHANGED <<seen, app, patient, routine, exercise, editVars,
                 watchVars, saving, risks>>

(* A new home page is presented over everything before it, as a sheet. *)
Done ==
  /\ page = "editor"
  /\ page'  = "home"
  /\ under' = TRUE
  /\ UNCHANGED <<seen, app, patient, routine, exercise, edited,
                 catalogue, listing, tableVars, watchVars, saving, risks>>

(* The sheet is swiped away. *)
Dismiss ==
  /\ page = "home"
  /\ under
  /\ page'  = "editor"
  /\ under' = FALSE
  /\ risks' = risks \cup {x \in {"strayed"} : edited # Now}
  /\ UNCHANGED <<seen, app, patient, routine, exercise, edited,
                 catalogue, listing, tableVars, watchVars, saving>>

---------------------------------------------------------------------------
(* A record of t is removed, or all are. *)
Taken(t) ==
  \/ \E e \in seen[t] : seen' = Removed(t, e)
  \/ seen[t] # {} /\ seen' = [seen EXCEPT ![t] = {}]

Told(t) ==
  /\ due' = due \cup (observed \cap {t})
  /\ UNCHANGED <<app, page, patient, routine, exercise, editVars, catalogue,
                 listing, tableVars, observed, saving, risks>>

(* On the page of the patient, or on that of a routine before it. *)
RemoveOnInfo(t) ==
  /\ page = "info"
  /\ t[1] = patient
  /\ Taken(t)
  /\ Told(t)

(* Other phones. *)

Colleague(t) ==
  /\ "colleague" \in Events
  /\ \/ Taken(t)
     \/ \E e \in Exercise \ seen[t] : seen' = [seen EXCEPT ![t] = @ \cup {e}]
  /\ Told(t)

Progress(t) ==
  /\ "progress" \in Events
  /\ t \in observed
  /\ seen[t] # {} \/ "orphan" \in Events
  /\ UNCHANGED seen
  /\ Told(t)

---------------------------------------------------------------------------
Init ==
  /\ seen      = [t \in Target |-> {}]
  /\ app       = "closed"
  /\ page      = "none"
  /\ patient   = Nothing
  /\ routine   = Nothing
  /\ edited    = <<Nothing, Nothing>>
  /\ under     = FALSE
  /\ exercise  = Nothing
  /\ catalogue = 0
  /\ listing   = 0
  /\ listed    = {}
  /\ rows      = {}
  /\ marked    = FALSE
  /\ observed  = {}
  /\ due       = {}
  /\ saving    = [s \in Slot |-> Idle]
  /\ risks     = {}

Next ==
  \/ OpenApp
  \/ Kill
  \/ \E p \in Patient : OpenPatient(p)
  \/ LeavePatient
  \/ NewHome
  \/ \E r \in Routine : NameRoutine(r)
  \/ CatalogueLoaded
  \/ CatalogueMissing
  \/ CatalogueCrash
  \/ \E e \in Exercise : TapExercise(e)
  \/ ExerciseBack
  \/ \E s \in Slot : SaveTapped(s)
  \/ UnkeyableCrash
  \/ \E s \in Slot : SaveAnswered(s)
  \/ \E s \in Slot : SaveFailed(s)
  \/ \E t \in Target : EditorChanged(t)
  \/ \E t \in Target : EditorChangedCrash(t)
  \/ Layout
  \/ \E x \in Exercise : DeleteRow(x)
  \/ RowCrash
  \/ AddMore
  \/ Done
  \/ Dismiss
  \/ \E t \in Target : RemoveOnInfo(t)
  \/ \E t \in Target : Colleague(t)
  \/ \E t \in Target : Progress(t)

Spec == Init /\ [][Next]_vars

(* Queries are answered, events delivered and tables laid out; what the    *)
(* physiotherapist taps is not forced.                                     *)
Fairness ==
  /\ WF_vars(Layout)
  /\ \A t \in Target : WF_vars(EditorChanged(t) \/ EditorChangedCrash(t))
  /\ \A s \in Slot : WF_vars(SaveAnswered(s))

FairSpec == Spec /\ Fairness

---------------------------------------------------------------------------
(* Properties. *)

(* Every state is well formed: in particular no save is ever written under *)
(* an empty patient, routine or exercise name.                             *)
TypeOK ==
  /\ seen      \in [Target -> SUBSET Exercise]
  /\ app       \in {"closed", "running", "crashed"}
  /\ page      \in Pages
  /\ patient   \in Patient \cup {Nothing}
  /\ routine   \in Routine \cup {Nothing}
  /\ edited    \in (Patient \cup {Nothing}) \X (Routine \cup {Nothing})
  /\ under     \in BOOLEAN
  /\ exercise  \in Exercise \cup {Nothing}
  /\ catalogue \in Nat
  /\ listing   \in Nat
  /\ listed    \in SUBSET Exercise
  /\ rows      \in SUBSET Exercise
  /\ marked    \in BOOLEAN
  /\ observed  \in SUBSET Target
  /\ due       \in SUBSET observed
  /\ saving    \in [Slot -> Request \cup {Idle}]
  /\ risks     \in SUBSET Risks

(* Although every page of the catalogue appends to one global that only    *)
(* the opening of a page empties, no exercise is ever offered twice.       *)
CatalogueOnce == catalogue + listing <= 1

(* An exercise lands in the routine in whose editor Save was tapped,       *)
(* unless the physiotherapist had opened another before the answer came,   *)
(* or swiped a home page with another patient opened off the editor.       *)
SavedWhereTapped ==
  [][\A s \in Slot : SaveAnswered(s) =>
       \/ "strayed" \in risks
       \/ seen' = [seen EXCEPT ![saving[s].target] = @ \cup {saving[s].exercise}]]_vars

(* A deleted row removes the exercise it shows, from the routine it was    *)
(* read from, as long as one routine only has been edited since the app    *)
(* was opened and its editor is not that of another patient than the one   *)
(* opened last: the observers left behind read no other routine.           *)
SwipeMeansRow ==
  [][\A x \in Exercise : DeleteRow(x) =>
       \/ Mixed \/ edited # Now
       \/ seen' = Removed(Now, x) /\ observed = {Now}]_vars

(* A saved exercise gets into the routine it was saved for. *)
SaveLands ==
  \A t \in Target : \A e \in Exercise :
    (\E s \in Slot : saving[s] = [exercise |-> e, target |-> t])
      ~> (\/ e \in seen[t]
          \/ risks \cap {"strayed", "failed"} # {}
          \/ app # "running")

(* If a routine stays as it is and is not empty, its page comes to list    *)
(* exactly that, with the exceptions below: another routine was edited     *)
(* before, an exercise saved that the routine had, or another patient      *)
(* opened before a save was answered or the page come back to.             *)
TableShowsRoutine ==
  \A t \in Target :
    <>[][seen'[t] = seen[t]]_vars =>
      []<>(page = "editor" /\ Now = t =>
             \/ rows = seen[t] \/ seen[t] = {}
             \/ Mixed
             \/ risks \cap {"resaved", "strayed"} # {})
=============================================================================
