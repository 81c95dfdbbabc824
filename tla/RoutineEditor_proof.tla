----------------------- MODULE RoutineEditor_proof -----------------------
(***************************************************************************)
(* For any patients, routines, catalogue and number of unanswered saves,   *)
(* with every event allowed: the editor's states are well formed, no       *)
(* exercise is offered twice, a save lands where it was tapped, a swipe    *)
(* removes the exercise of its row, and an editor with nothing under way   *)
(* lists the routine as the server holds it.                               *)
(***************************************************************************)
EXTENDS RoutineEditor, FiniteSetTheorems, TLAPS

(***************************************************************************)
(* TypeOK alone is not inductive: the observers are those of paths that    *)
(* are keys, so the globals must spell one on the pages that observe, and  *)
(* that they do because NameRoutine and Save come before.  Another patient *)
(* may be opened above the editor, never another routine: what names one   *)
(* takes the editor away.                                                  *)
(***************************************************************************)
Spelled ==
  /\ page # "none" => app = "running"
  /\ app # "running" => \A s \in Slot : saving[s] = Idle
  /\ page \in {"info", "catalogue", "exercise", "editor"} \/ under => patient \in Patient
  /\ page \in {"catalogue", "exercise", "editor"} \/ under =>
       routine \in Routine /\ edited \in Patient \X {routine}
  /\ under => page \in {"home", "info"}
  /\ page = "exercise" => exercise \in Exercise
  /\ Shown => edited \in observed
  /\ (\E s \in Slot : saving[s] # Idle) => patient \in Patient /\ routine \in Routine

TypeInv == TypeOK /\ Spelled

---------------------------------------------------------------------------
(* Type correctness. *)

LEMMA SavesAreRequests ==
  ASSUME TypeOK, NEW s \in Slot, saving[s] # Idle
  PROVE  /\ saving[s].exercise \in Exercise
         /\ saving[s].target \in Target
BY DEF TypeOK, Request

LEMMA NowIsTarget ==
  ASSUME patient \in Patient, routine \in Routine, routine \notin Unkeyable
  PROVE  Now \in Target
BY DEF Now, Target

(* Where a page of the editor is, it was opened for a routine; where the   *)
(* table is, for one that can be a key.                                    *)
LEMMA EditedIsTarget ==
  ASSUME TypeInv
  PROVE  /\ page \in {"catalogue", "exercise"} /\ routine \notin Unkeyable => edited \in Target
         /\ Shown => edited \in Target /\ Now \in Target
BY DEF TypeInv, TypeOK, Spelled, Shown, Now, Target

LEMMA StopType ==
  ASSUME TypeInv, NEW how \in {"closed", "crashed"}, Stop(how)
  PROVE  /\ app' \in {"closed", "running", "crashed"}
         /\ page' \in Pages
         /\ patient' \in Patient \cup {Nothing}
         /\ routine' \in Routine \cup {Nothing}
         /\ edited' \in (Patient \cup {Nothing}) \X (Routine \cup {Nothing})
         /\ under' \in BOOLEAN
         /\ exercise' \in Exercise \cup {Nothing}
         /\ catalogue' \in Nat
         /\ listing' \in Nat
         /\ listed' \in SUBSET Exercise
         /\ rows' \in SUBSET Exercise
         /\ marked' \in BOOLEAN
         /\ observed' \in SUBSET Target
         /\ due' \in SUBSET observed'
         /\ saving' \in [Slot -> Request \cup {Idle}]
         /\ Spelled'
BY DEF Stop, Pages, Spelled, TypeInv, TypeOK, Shown

LEMMA InitType == Init => TypeInv
<1> SUFFICES ASSUME Init
             PROVE  TypeInv
  OBVIOUS
<1>1. seen \in [Target -> SUBSET Exercise] /\ saving \in [Slot -> Request \cup {Idle}]
  BY DEF Init
<1>2. TypeOK
  BY <1>1 DEF Init, TypeOK, Pages
<1>3. Spelled
  BY DEF Init, Spelled, Shown
<1>4. QED
  BY <1>2, <1>3 DEF TypeInv

LEMMA StepType ==
  ASSUME TypeInv, [Next]_vars
  PROVE  TypeInv'
<1> USE DEF TypeInv, editVars, tableVars, watchVars, Shown
<1>1. CASE UNCHANGED vars
  BY <1>1 DEF vars, TypeOK, Spelled, Now
<1>2. CASE OpenApp
  BY <1>2 DEF OpenApp, TypeOK, Spelled, Pages, Now
<1>3. CASE Kill
  BY <1>3, StopType DEF Kill, TypeOK
<1>4. CASE \E p \in Patient : OpenPatient(p)
  <2>1. TypeOK'
    BY <1>4 DEF OpenPatient, Spell, TypeOK, Pages, Risks
  <2>2. Spelled'
    BY <1>4 DEF OpenPatient, Spell, TypeOK, Spelled, Now
  <2>3. QED
    BY <2>1, <2>2
<1>5. CASE LeavePatient
  BY <1>5 DEF LeavePatient, TypeOK, Spelled, Pages, Now
<1>6. CASE \E r \in Routine : NameRoutine(r)
  <2>0. PICK r \in Routine : NameRoutine(r)
    BY <1>6
  <2>1. listing' \in Nat /\ catalogue' \in Nat
    BY <1>6 DEF NameRoutine, NewCatalogue, TypeOK
  <2>2. risks' \in SUBSET Risks
    BY <1>6 DEF NameRoutine, Spell, TypeOK, Risks
  <2>a. patient \in Patient /\ edited' = <<patient, r>> /\ patient' = patient /\ routine' = r
    BY <2>0 DEF NameRoutine, Spell, Spelled
  <2>b. edited' \in (Patient \cup {Nothing}) \X (Routine \cup {Nothing})
    BY <2>a
  <2>c. rows' \in SUBSET Exercise /\ marked' \in BOOLEAN /\ listed' \in SUBSET Exercise
    BY <2>0 DEF NameRoutine, Covered, TypeOK
  <2>3. TypeOK'
    BY <2>0, <2>1, <2>2, <2>b, <2>c DEF NameRoutine, NewCatalogue, Spell, TypeOK, Pages
  <2>4. Spelled'
    BY <2>0, <2>a DEF NameRoutine, NewCatalogue, Spell, TypeOK, Spelled
  <2>5. QED
    BY <2>3, <2>4
<1>7. CASE CatalogueLoaded \/ CatalogueMissing
  BY <1>7 DEF CatalogueLoaded, CatalogueMissing, TypeOK, Spelled, Pages, Now
<1>8. CASE CatalogueCrash
  BY <1>8, StopType DEF CatalogueCrash, TypeOK, Risks
<1>9. CASE \E e \in Exercise : TapExercise(e)
  BY <1>9 DEF TapExercise, TypeOK, Spelled, Pages, Now
<1>10. CASE ExerciseBack
  BY <1>10 DEF ExerciseBack, NewCatalogue, TypeOK, Spelled, Pages, Now
<1>11. CASE \E s \in Slot : SaveTapped(s)
  <2>1. PICK s \in Slot : SaveTapped(s)
    BY <1>11
  <2>2. /\ Now \in Target /\ edited \in Target /\ exercise \in Exercise
        /\ patient \in Patient /\ routine \in Routine
    BY <2>1, NowIsTarget, EditedIsTarget DEF SaveTapped, Spelled
  <2>3. [exercise |-> exercise, target |-> edited] \in Request
    BY <2>2 DEF Request
  <2>4. saving' \in [Slot -> Request \cup {Idle}]
    BY <2>1, <2>3 DEF SaveTapped, TypeOK
  <2>a. edited' \in Patient \X {routine}
    BY <2>1, <2>2 DEF SaveTapped, Now
  <2>b. edited' \in (Patient \cup {Nothing}) \X (Routine \cup {Nothing})
    BY <2>2, <2>a
  <2>c. risks' \in SUBSET Risks
    BY <2>1 DEF SaveTapped, TypeOK
  <2>5. TypeOK'
    BY <2>1, <2>2, <2>4, <2>b, <2>c DEF SaveTapped, TypeOK, Pages
  <2>6. Now' = Now
    BY <2>1 DEF SaveTapped, Now
  <2>7. Spelled'
    BY <2>1, <2>2, <2>6, <2>a DEF SaveTapped, Spelled
  <2>8. QED
    BY <2>5, <2>7
<1>12. CASE UnkeyableCrash
  BY <1>12, StopType DEF UnkeyableCrash, TypeOK
<1>13. CASE \E s \in Slot : SaveAnswered(s)
  <2>1. PICK s \in Slot : SaveAnswered(s)
    BY <1>13
  <2>2. Now \in Target /\ saving[s].exercise \in Exercise
    BY <2>1, NowIsTarget, SavesAreRequests DEF SaveAnswered, Spelled
  <2>3. seen' \in [Target -> SUBSET Exercise]
    BY <2>1, <2>2 DEF SaveAnswered, TypeOK
  <2>4. saving' \in [Slot -> Request \cup {Idle}]
    BY <2>1 DEF SaveAnswered, TypeOK
  <2>5. TypeOK'
    BY <2>1, <2>3, <2>4 DEF SaveAnswered, TypeOK, Risks
  <2>6. Now' = Now
    BY <2>1 DEF SaveAnswered, Now
  <2>7. Spelled'
    BY <2>1, <2>6 DEF SaveAnswered, Spelled, TypeOK
  <2>8. QED
    BY <2>5, <2>7
<1>14. CASE \E s \in Slot : SaveFailed(s)
  BY <1>14 DEF SaveFailed, TypeOK, Spelled, Risks, Now
<1>15. CASE \E t \in Target : EditorChanged(t)
  <2>1. TypeOK'
    BY <1>15 DEF EditorChanged, TypeOK
  <2>2. Spelled'
    BY <1>15 DEF EditorChanged, TypeOK, Spelled, Now
  <2>3. QED
    BY <2>1, <2>2
<1>16. CASE Layout
  BY <1>16 DEF Layout, TypeOK, Spelled, Now
<1>17. CASE \E x \in Exercise : DeleteRow(x)
  <2>0. PICK x \in Exercise, y \in Exercise :
          /\ seen' = Removed(Now, y)
          /\ due' = due \cup {t \in observed \cap {Now} : y \in seen[t]}
          /\ listed' = listed \ {y}
          /\ rows' = rows \ {x}
    BY <1>17 DEF DeleteRow
  <2>a. seen' \in [Target -> SUBSET Exercise]
    BY <2>0 DEF Removed, TypeOK
  <2>b. due' \in SUBSET observed
    BY <2>0 DEF TypeOK
  <2>1. TypeOK'
    BY <1>17, <2>0, <2>a, <2>b DEF DeleteRow, TypeOK
  <2>2. Spelled'
    BY <1>17 DEF DeleteRow, Removed, TypeOK, Spelled, Now
  <2>3. QED
    BY <2>1, <2>2
<1>18. CASE RowCrash
  <2>1. seen' \in [Target -> SUBSET Exercise]
    BY <1>18 DEF RowCrash, Removed, TypeOK
  <2>2. QED
    BY <1>18, <2>1, StopType DEF RowCrash, TypeOK
<1>19. CASE AddMore
  <2>a. /\ page' = "catalogue" /\ catalogue' = 0 /\ listing' = listing + 1
        /\ rows' = {} /\ marked' = FALSE /\ listed' = listed
    BY <1>19 DEF AddMore, NewCatalogue, Covered
  <2>0. listing' \in Nat /\ catalogue' \in Nat
    BY <2>a DEF TypeOK
  <2>b. listed' \in SUBSET Exercise /\ rows' \in SUBSET Exercise
    BY <2>a DEF TypeOK
  <2>c. marked' \in BOOLEAN
    BY <2>a
  <2>1. TypeOK'
    BY <1>19, <2>0, <2>a, <2>b, <2>c DEF AddMore, TypeOK, Pages
  <2>2. Spelled'
    BY <1>19 DEF AddMore, NewCatalogue, Covered, TypeOK, Spelled, Now
  <2>3. QED
    BY <2>1, <2>2
<1>20. CASE Done \/ Dismiss
  BY <1>20 DEF Done, Dismiss, TypeOK, Spelled, Pages, Risks
<1>21. CASE \E t \in Target : RemoveOnInfo(t) \/ Colleague(t)
  <2>1. PICK t \in Target : Told(t) /\ (Taken(t) \/ \E e \in Exercise : seen' = [seen EXCEPT ![t] = @ \cup {e}])
    BY <1>21 DEF RemoveOnInfo, Colleague
  <2>2. seen' \in [Target -> SUBSET Exercise]
    BY <2>1 DEF Taken, Removed, TypeOK
  <2>3. QED
    BY <2>1, <2>2 DEF Told, TypeOK, Spelled
<1>22. CASE \E t \in Target : Progress(t)
  BY <1>22 DEF Progress, Told, TypeOK, Spelled
<1>23. CASE NewHome
  <2>1. edited' \in (Patient \cup {Nothing}) \X (Routine \cup {Nothing})
    BY <1>23 DEF NewHome
  <2>2. QED
    BY <1>23, <2>1 DEF NewHome, Covered, TypeOK, Spelled, Pages
<1>24. CASE \E t \in Target : EditorChangedCrash(t)
  BY <1>24, StopType DEF EditorChangedCrash, TypeOK
<1>25. QED
  BY <1>1, <1>2, <1>3, <1>4, <1>5, <1>6, <1>7, <1>8, <1>9, <1>10, <1>11, <1>12, <1>13,
     <1>14, <1>15, <1>16, <1>17, <1>18, <1>19, <1>20, <1>21, <1>22, <1>23, <1>24 DEF Next

(* Wherever a page reads the globals they spell what it needs, whatever    *)
(* order pages, callbacks, crashes and other phones come in.               *)
THEOREM EditorTypesCorrect == Spec => []TypeInv
BY InitType, StepType, PTL DEF Spec

(* Every reachable state is well formed: no save is ever written under an  *)
(* empty patient, routine or exercise name.                                *)
THEOREM EditorTypeOK == Spec => []TypeOK
BY EditorTypesCorrect, PTL DEF TypeInv

---------------------------------------------------------------------------
(* A page other than the catalogue's is only reached with the catalogue    *)
(* there, and no query for it under way.                                   *)
CatalogueInv ==
  /\ catalogue + listing <= 1
  /\ page # "catalogue" => listing = 0

LEMMA InitCatalogue == Init => CatalogueInv
BY DEF Init, CatalogueInv

LEMMA StepCatalogue ==
  ASSUME TypeInv, CatalogueInv, [Next]_vars
  PROVE  CatalogueInv'
<1> USE DEF CatalogueInv, TypeInv, TypeOK
<1>1. CASE UNCHANGED vars
  BY <1>1 DEF vars
<1>2. CASE \/ OpenApp \/ Kill \/ CatalogueCrash \/ UnkeyableCrash \/ RowCrash
           \/ \E t \in Target : EditorChangedCrash(t)
  BY <1>2 DEF OpenApp, Kill, CatalogueCrash, UnkeyableCrash, RowCrash, EditorChangedCrash,
     Stop, Spelled
<1>3. CASE (\E p \in Patient : OpenPatient(p)) \/ LeavePatient \/ NewHome
  BY <1>3 DEF OpenPatient, LeavePatient, NewHome
<1>4. CASE (\E r \in Routine : NameRoutine(r)) \/ ExerciseBack \/ AddMore
  BY <1>4 DEF NameRoutine, ExerciseBack, AddMore, NewCatalogue
<1>5. CASE CatalogueLoaded \/ CatalogueMissing
  BY <1>5 DEF CatalogueLoaded, CatalogueMissing
<1>6. CASE \E e \in Exercise : TapExercise(e)
  BY <1>6 DEF TapExercise
<1>7. CASE \E s \in Slot : SaveTapped(s) \/ SaveAnswered(s) \/ SaveFailed(s)
  BY <1>7 DEF SaveTapped, SaveAnswered, SaveFailed
<1>8. CASE (\E t \in Target : EditorChanged(t)) \/ Layout
  BY <1>8 DEF EditorChanged, Layout
<1>9. CASE (\E x \in Exercise : DeleteRow(x)) \/ Done \/ Dismiss
  BY <1>9 DEF DeleteRow, Done, Dismiss
<1>10. CASE \E t \in Target : RemoveOnInfo(t) \/ Colleague(t) \/ Progress(t)
  BY <1>10 DEF RemoveOnInfo, Colleague, Progress, Told
<1>11. QED
  BY <1>1, <1>2, <1>3, <1>4, <1>5, <1>6, <1>7, <1>8, <1>9, <1>10 DEF Next

(* No exercise is ever offered twice, although every page of the catalogue *)
(* appends to one global.                                                  *)
THEOREM ExercisesOfferedOnce == Spec => []CatalogueOnce
<1>1. CatalogueInv => CatalogueOnce
  BY DEF CatalogueInv, CatalogueOnce
<1>2. QED
  BY <1>1, InitType, StepType, InitCatalogue, StepCatalogue, PTL DEF Spec

---------------------------------------------------------------------------
(* As long as nobody strayed, the globals spell the path every unanswered  *)
(* save was tapped for, and the editor on top or with a save to come was   *)
(* opened for.                                                             *)
EditorPage == page \in {"catalogue", "exercise", "editor"}

SaveInv ==
  "strayed" \notin risks =>
    /\ \A s \in Slot : saving[s] # Idle => saving[s].target = Now
    /\ EditorPage \/ (under /\ Unanswered) => edited = Now

LEMMA InitSaves == Init => SaveInv
BY DEF Init, SaveInv, EditorPage, Unanswered

LEMMA StopSaves ==
  ASSUME NEW how, Stop(how)
  PROVE  SaveInv'
BY DEF Stop, SaveInv, EditorPage, Unanswered

LEMMA StepSaves ==
  ASSUME TypeInv, SaveInv, [Next]_vars
  PROVE  SaveInv'
<1> USE DEF SaveInv, EditorPage, editVars
<1>a. ASSUME UNCHANGED <<patient, routine, edited, saving>>,
             "strayed" \in risks => "strayed" \in risks',
             EditorPage' => EditorPage, under' => under
      PROVE  SaveInv'
  BY <1>a DEF Now, Unanswered
<1>1. CASE UNCHANGED vars
  BY <1>1, <1>a DEF vars
<1>2. CASE OpenApp
  BY <1>2 DEF OpenApp, TypeInv, Spelled, Unanswered
<1>3. CASE \/ Kill \/ CatalogueCrash \/ UnkeyableCrash \/ RowCrash
           \/ \E t \in Target : EditorChangedCrash(t)
  BY <1>3, StopSaves DEF Kill, CatalogueCrash, UnkeyableCrash, RowCrash, EditorChangedCrash
<1>4. ASSUME NEW p, NEW r, Spell(p, r), UNCHANGED saving, "strayed" \notin risks'
      PROVE  /\ "strayed" \notin risks
             /\ Unanswered => Now' = Now
             /\ \A s \in Slot : saving'[s] # Idle => saving'[s].target = Now'
  BY <1>4 DEF Spell, Unanswered, Now
<1>5. CASE \E p \in Patient : OpenPatient(p)
  <2>1. PICK p \in Patient : OpenPatient(p)
    BY <1>5
  <2>2. UNCHANGED <<saving, edited, under>> /\ Spell(p, routine) /\ ~EditorPage'
    BY <2>1 DEF OpenPatient
  <2>3. Unanswered' = Unanswered
    BY <2>2 DEF Unanswered
  <2>4. QED
    BY <2>2, <2>3, <1>4
<1>6. CASE \E r \in Routine : NameRoutine(r)
  <2>1. PICK r \in Routine : NameRoutine(r)
    BY <1>6
  <2>2. UNCHANGED saving /\ Spell(patient, r) /\ edited' = Now'
    BY <2>1 DEF NameRoutine, Spell, Now
  <2>3. QED
    BY <2>2, <1>4
<1>7. CASE \/ LeavePatient \/ CatalogueLoaded \/ CatalogueMissing
           \/ \E e \in Exercise : TapExercise(e)
           \/ ExerciseBack
  BY <1>7, <1>a DEF LeavePatient, CatalogueLoaded, CatalogueMissing, TapExercise, ExerciseBack,
     NewCatalogue
<1>8. CASE NewHome
  BY <1>8 DEF NewHome, Now
<1>9. CASE \E s \in Slot : SaveTapped(s)
  BY <1>9 DEF SaveTapped, Now, TypeInv, TypeOK
<1>10. CASE \E s \in Slot : SaveAnswered(s) \/ SaveFailed(s)
  BY <1>10 DEF SaveAnswered, SaveFailed, Now, TypeInv, TypeOK, Unanswered
<1>11. CASE \/ \E t \in Target : EditorChanged(t)
            \/ Layout
            \/ \E x \in Exercise : DeleteRow(x)
            \/ AddMore
            \/ \E t \in Target : RemoveOnInfo(t) \/ Colleague(t) \/ Progress(t)
  BY <1>11, <1>a DEF EditorChanged, Layout, DeleteRow, AddMore, NewCatalogue,
     RemoveOnInfo, Colleague, Progress, Told
<1>12. CASE Done
  BY <1>12 DEF Done, Now, Unanswered
<1>13. CASE Dismiss
  BY <1>13 DEF Dismiss, Now, Unanswered
<1>14. QED
  BY <1>1, <1>2, <1>3, <1>5, <1>6, <1>7, <1>8, <1>9, <1>10, <1>11, <1>12, <1>13 DEF Next

(* A save lands in the routine in whose editor it was tapped, unless the   *)
(* physiotherapist has opened another meanwhile or swiped a home page with *)
(* another patient opened off the editor, with any number of saves         *)
(* unanswered.                                                             *)
THEOREM SavesLandWhereTapped == Spec => SavedWhereTapped
<1>1. ASSUME SaveInv, NEW s \in Slot, SaveAnswered(s), "strayed" \notin risks
      PROVE  seen' = [seen EXCEPT ![saving[s].target] = @ \cup {saving[s].exercise}]
  BY <1>1 DEF SaveInv, SaveAnswered
<1>2. SaveInv /\ [Next]_vars =>
        [\A s \in Slot : SaveAnswered(s) =>
           \/ "strayed" \in risks
           \/ seen' = [seen EXCEPT ![saving[s].target] = @ \cup {saving[s].exercise}]]_vars
  BY <1>1
<1>3. QED
  BY <1>2, InitType, StepType, InitSaves, StepSaves, PTL DEF Spec, SavedWhereTapped

---------------------------------------------------------------------------
(* As long as one routine only has been edited, the array is what the      *)
(* table of the page shows, or nothing, once the table is laid out.        *)
RowsInv == Shown /\ ~Mixed /\ ~marked => listed = rows \/ listed = {}

LEMMA IndexGrows ==
  ASSUME NEW S \in SUBSET Exercise, NEW x \in S, NEW y \in S, x < y
  PROVE  Index(S, x) # Index(S, y)
<1> DEFINE Below(e) == {z \in S : z < e}
<1>1. S \subseteq Nat /\ IsFiniteSet(S)
  BY ExerciseKeys, FS_Subset
<1>2. IsFiniteSet(Below(y)) /\ Below(x) \in SUBSET Below(y)
  <2>1. Below(y) \in SUBSET S
    OBVIOUS
  <2>2. ASSUME NEW z \in S, z < x
        PROVE  z < y
    BY <1>1, <2>2
  <2>3. QED
    BY <1>1, <2>1, <2>2, FS_Subset
<1>3. x \in Below(y) /\ x \notin Below(x)
  BY <1>1
<1>4. Cardinality(Below(y)) = Cardinality(Below(x)) => Below(y) = Below(x)
  BY <1>2, FS_Subset
<1>5. QED
  BY <1>3, <1>4 DEF Index

LEMMA RowIsExercise ==
  ASSUME TypeOK, RowsInv, ~Mixed, NEW x, NEW y, SameIndex(x, y)
  PROVE  x = y
<1>1. listed = rows /\ x \in rows /\ y \in rows /\ Index(rows, y) = Index(rows, x)
  BY DEF RowsInv, SameIndex, Shown
<1>2. rows \in SUBSET Exercise /\ x \in Nat /\ y \in Nat
  BY <1>1, ExerciseKeys DEF TypeOK
<1>3. ~(x < y) /\ ~(y < x)
  BY <1>1, <1>2, IndexGrows
<1>4. QED
  BY <1>2, <1>3

LEMMA InitRows == Init => RowsInv
BY DEF Init, RowsInv, Shown

LEMMA StepRows ==
  ASSUME TypeInv, RowsInv, [Next]_vars
  PROVE  RowsInv'
<1> USE DEF editVars, tableVars, watchVars, Shown
<1>a. ASSUME ~Shown'
      PROVE  RowsInv'
  BY <1>a DEF RowsInv
<1>b. ASSUME Shown' => Shown, UNCHANGED <<observed, listed, rows, marked>>
      PROVE  RowsInv'
  BY <1>b DEF RowsInv, Mixed
<1>c. page \in {"catalogue", "exercise", "editor"} => ~under
  BY DEF TypeInv, Spelled
<1>d. app # "running" => ~under
  BY DEF TypeInv, Spelled
<1>1. CASE UNCHANGED vars
  BY <1>1, <1>b DEF vars
<1>2. CASE \/ OpenApp \/ Kill \/ CatalogueCrash \/ UnkeyableCrash \/ RowCrash
           \/ \E t \in Target : EditorChangedCrash(t)
           \/ NewHome
           \/ \E r \in Routine : NameRoutine(r)
           \/ \E e \in Exercise : TapExercise(e)
           \/ ExerciseBack \/ AddMore
  BY <1>2, <1>a, <1>c, <1>d DEF OpenApp, Kill, CatalogueCrash, UnkeyableCrash, RowCrash,
     EditorChangedCrash, Stop, NewHome, NameRoutine, TapExercise, ExerciseBack, AddMore,
     NewCatalogue
<1>3. CASE \/ CatalogueLoaded \/ CatalogueMissing
           \/ \E p \in Patient : OpenPatient(p)
           \/ LeavePatient \/ Done \/ Dismiss
           \/ \E s \in Slot : SaveFailed(s)
           \/ \E t \in Target : RemoveOnInfo(t) \/ Colleague(t) \/ Progress(t)
  BY <1>3, <1>b DEF CatalogueLoaded, CatalogueMissing, OpenPatient, LeavePatient, Done,
     Dismiss, SaveFailed, RemoveOnInfo, Colleague, Progress, Told
<1>4. CASE \E s \in Slot : SaveTapped(s)
  BY <1>4 DEF SaveTapped, RowsInv
<1>5. CASE \E s \in Slot : SaveAnswered(s)
  BY <1>5 DEF SaveAnswered, RowsInv
<1>6. CASE \E t \in Target : EditorChanged(t)
  <2>1. PICK t \in Target : EditorChanged(t)
    BY <1>6
  <2>2. CASE Shown /\ t = edited /\ seen[t] # {}
    BY <2>1, <2>2 DEF EditorChanged, RowsInv
  <2>3. CASE seen[t] = {}
    BY <2>1, <2>3 DEF EditorChanged, RowsInv
  <2>4. CASE Shown /\ t # edited
    BY <2>1, <2>4 DEF EditorChanged, RowsInv, Mixed, TypeInv, TypeOK, Spelled
  <2>5. CASE ~Shown
    BY <2>1, <2>5, <1>a DEF EditorChanged
  <2>6. QED
    BY <2>2, <2>3, <2>4, <2>5
<1>7. CASE Layout
  BY <1>7 DEF Layout, RowsInv
<1>8. CASE \E x \in Exercise : DeleteRow(x)
  <2>1. PICK x \in Exercise, y \in Exercise :
          /\ SameIndex(x, y)
          /\ listed' = listed \ {y}
          /\ rows' = rows \ {x}
    BY <1>8 DEF DeleteRow
  <2>2. Mixed' = Mixed
    BY <1>8 DEF DeleteRow, Mixed
  <2>3. ~Mixed => x = y /\ listed = rows
    BY <2>1, RowIsExercise DEF TypeInv, RowsInv, SameIndex
  <2>4. QED
    BY <2>1, <2>2, <2>3 DEF RowsInv
<1>9. QED
  BY <1>1, <1>2, <1>3, <1>4, <1>5, <1>6, <1>7, <1>8 DEF Next

(* A deleted row removes the exercise it shows from the routine it was     *)
(* read from, as long as one routine only has been edited since the app    *)
(* was opened, and no other patient was opened before the editor was come  *)
(* back to.                                                                *)
THEOREM SwipesMeanRows == Spec => SwipeMeansRow
<1>1. ASSUME TypeInv, RowsInv, NEW x \in Exercise, DeleteRow(x), ~Mixed, edited = Now
      PROVE  seen' = Removed(Now, x) /\ observed = {Now}
  <2>1. PICK y \in Exercise : SameIndex(x, y) /\ seen' = Removed(Now, y)
    BY <1>1 DEF DeleteRow
  <2>2. x = y
    BY <1>1, <2>1, RowIsExercise DEF TypeInv
  <2>3. Now \in observed
    BY <1>1, <2>1 DEF TypeInv, Spelled, SameIndex, Shown
  <2>4. QED
    BY <1>1, <2>1, <2>2, <2>3 DEF Mixed
<1>2. TypeInv /\ RowsInv /\ [Next]_vars =>
        [\A x \in Exercise : DeleteRow(x) =>
           \/ Mixed \/ edited # Now
           \/ seen' = Removed(Now, x) /\ observed = {Now}]_vars
  BY <1>1
<1>3. QED
  BY <1>2, InitType, StepType, InitRows, StepRows, PTL DEF Spec, SwipeMeansRow

---------------------------------------------------------------------------
(* As long as one routine only has been edited, the array is what the      *)
(* server holds of it, unless the event that refills it is to come.  A     *)
(* save of what is there already empties the array, and may have no event; *)
(* one written for another patient has none for this routine.              *)
ArrayCurrent ==
  Shown /\ ~Mixed /\ risks \cap {"resaved", "strayed"} = {} =>
    edited \in due \/ listed = seen[edited]

LEMMA StepArray ==
  ASSUME TypeInv, SaveInv, ArrayCurrent, [Next]_vars
  PROVE  ArrayCurrent'
<1> USE DEF editVars, tableVars, watchVars, Shown
<1>a. ASSUME ~Shown'
      PROVE  ArrayCurrent'
  BY <1>a DEF ArrayCurrent
<1>b. ASSUME Shown' => Shown, UNCHANGED <<edited, observed, listed, seen, due>>,
             risks \subseteq risks'
      PROVE  ArrayCurrent'
  BY <1>b DEF ArrayCurrent, Mixed
<1>c. page \in {"catalogue", "exercise", "editor"} => ~under
  BY DEF TypeInv, Spelled
<1>d. app # "running" => ~under
  BY DEF TypeInv, Spelled
<1>1. CASE UNCHANGED vars
  BY <1>1, <1>b DEF vars
<1>2. CASE \/ OpenApp \/ Kill \/ CatalogueCrash \/ UnkeyableCrash \/ RowCrash
           \/ \E t \in Target : EditorChangedCrash(t)
           \/ NewHome
           \/ \E r \in Routine : NameRoutine(r)
           \/ \E e \in Exercise : TapExercise(e)
           \/ ExerciseBack \/ AddMore
  BY <1>2, <1>a, <1>c, <1>d DEF OpenApp, Kill, CatalogueCrash, UnkeyableCrash, RowCrash,
     EditorChangedCrash, Stop, NewHome, NameRoutine, TapExercise, ExerciseBack, AddMore,
     NewCatalogue
<1>3. CASE \/ CatalogueLoaded \/ CatalogueMissing \/ Layout
           \/ \E p \in Patient : OpenPatient(p)
           \/ LeavePatient \/ Done \/ Dismiss
           \/ \E s \in Slot : SaveFailed(s)
  BY <1>3, <1>b DEF CatalogueLoaded, CatalogueMissing, Layout, OpenPatient, Spell,
     LeavePatient, Done, Dismiss, SaveFailed
<1>4. CASE \E s \in Slot : SaveTapped(s)
  BY <1>4 DEF SaveTapped, ArrayCurrent, Now
(* Where the table is, its page observes the routine it was opened for.    *)
<1>5. Shown => edited \in Target /\ edited \in observed
  BY EditedIsTarget DEF TypeInv, Spelled
<1>6. ASSUME NEW s \in Slot, SaveAnswered(s)
      PROVE  ArrayCurrent'
  <2>1. UNCHANGED <<page, edited, under, observed>> /\ Unanswered /\ risks \subseteq risks'
    BY <1>6 DEF SaveAnswered, Unanswered
  <2>2. CASE ~Shown \/ "strayed" \in risks \/ "resaved" \in risks'
    BY <2>1, <2>2 DEF ArrayCurrent
  <2>3. CASE Shown /\ "strayed" \notin risks /\ "resaved" \notin risks'
    <3>1. edited = Now
      BY <2>1, <2>3 DEF SaveInv, EditorPage
    <3>2. due' = due \cup (observed \cap {Now})
      BY <1>6, <2>3 DEF SaveAnswered
    <3>3. edited' \in due'
      BY <1>5, <2>1, <2>3, <3>1, <3>2
    <3>4. QED
      BY <3>3 DEF ArrayCurrent
  <2>4. QED
    BY <2>2, <2>3
<1>7. ASSUME NEW t \in Target, EditorChanged(t)
      PROVE  ArrayCurrent'
  <2>1. /\ listed' = seen[t] /\ t \in observed
        /\ UNCHANGED <<page, edited, under, observed, seen>>
    BY <1>7 DEF EditorChanged, TypeInv, TypeOK
  <2>2. Shown /\ ~Mixed => t = edited
    BY <1>5, <2>1 DEF Mixed
  <2>3. QED
    BY <2>1, <2>2 DEF ArrayCurrent, Mixed
<1>8. ASSUME NEW x \in Exercise, DeleteRow(x)
      PROVE  ArrayCurrent'
  <2>1. PICK y \in Exercise :
          /\ y \in listed /\ seen' = Removed(Now, y)
          /\ due' = due \cup {t \in observed \cap {Now} : y \in seen[t]}
          /\ listed' = listed \ {y}
    BY <1>8 DEF DeleteRow, SameIndex
  <2>2. UNCHANGED <<page, edited, under, observed, risks>> /\ page = "editor"
    BY <1>8 DEF DeleteRow, SameIndex
  <2>3. CASE "strayed" \in risks \/ edited \in due'
    BY <2>2, <2>3 DEF ArrayCurrent
  <2>4. CASE "strayed" \notin risks /\ edited \notin due'
    <3>1. edited = Now /\ edited \in observed
      BY <1>5, <2>2, <2>4 DEF SaveInv, EditorPage
    <3>2. edited \notin due /\ y \notin seen[edited]
      BY <2>1, <2>4, <3>1
    <3>3. ~(~Mixed /\ risks \cap {"resaved", "strayed"} = {})
      BY <2>1, <2>2, <3>2 DEF ArrayCurrent
    <3>4. QED
      BY <2>2, <3>3 DEF ArrayCurrent, Mixed
  <2>5. QED
    BY <2>3, <2>4
<1>9. ASSUME NEW t \in Target, RemoveOnInfo(t) \/ Colleague(t) \/ Progress(t)
      PROVE  ArrayCurrent'
  <2>1. /\ due' = due \cup (observed \cap {t})
        /\ \A s \in Target : s # t => seen'[s] = seen[s]
        /\ UNCHANGED <<page, edited, under, observed, listed, risks>>
    BY <1>9 DEF RemoveOnInfo, Colleague, Progress, Told, Taken, Removed, TypeInv, TypeOK
  <2>2. CASE t = edited
    BY <1>5, <2>1, <2>2 DEF ArrayCurrent
  <2>3. CASE t # edited
    BY <1>5, <2>1, <2>3 DEF ArrayCurrent, Mixed
  <2>4. QED
    BY <2>2, <2>3
<1>10. QED
  BY <1>1, <1>2, <1>3, <1>4, <1>6, <1>7, <1>8, <1>9 DEF Next

(* An editor at rest lists the routine as the server holds it.             *)
RestingEditor ==
  /\ page = "editor" /\ ~marked /\ Now \notin due
  /\ ~Mixed /\ risks \cap {"resaved", "strayed"} = {}
  => rows = seen[Now] \/ seen[Now] = {}

(* No event of the routine is lost on the way to the table, through saves, *)
(* swipes, failed queries, colleagues, restarts and the ways back from a   *)
(* home page; two routines since the app was opened, another patient       *)
(* opened before a save was answered or the editor come back to, a         *)
(* repeated save without an event since, and an emptied routine are the    *)
(* only exceptions.                                                        *)
THEOREM RestingEditorShowsRoutine == Spec => []RestingEditor
<1>1. Init => ArrayCurrent
  BY DEF Init, ArrayCurrent, Shown
<1>2. SaveInv /\ RowsInv /\ ArrayCurrent => RestingEditor
  BY DEF SaveInv, EditorPage, RowsInv, ArrayCurrent, RestingEditor, Shown
<1>3. QED
  BY <1>1, <1>2, InitType, StepType, InitSaves, StepSaves, InitRows, StepRows, StepArray,
     PTL DEF Spec
=============================================================================
