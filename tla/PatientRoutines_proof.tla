----------------------- MODULE PatientRoutines_proof -----------------------
(***************************************************************************)
(* For any routines and exercises, with every event allowed: the states of *)
(* the patient's phone are well formed, a row means its exercise as long   *)
(* as the array is that of the routine open, without a withdrawal or a     *)
(* stray tap no record loses its name and nothing crashes, and a page with *)
(* nothing to come shows what the server holds.                            *)
(***************************************************************************)
EXTENDS PatientRoutines, FiniteSetTheorems, TLAPS

(***************************************************************************)
(* TypeOK alone is not inductive: events and taps need an app that runs.   *)
(***************************************************************************)
Alive ==
  /\ page # "none" <=> app = "running"
  /\ app # "running" => observed = {} /\ ~tableDue

TypeInv == TypeOK /\ Alive

LEMMA InitType == Init => TypeInv
<1> SUFFICES ASSUME Init
             PROVE  TypeInv
  OBVIOUS
<1>1. named \in [Routine -> SUBSET Exercise] /\ nameless \in [Routine -> SUBSET Exercise]
  BY DEF Init
<1>2. risks \in [Routine -> SUBSET Risks]
  BY DEF Init
<1>3. Nothing \notin Routine /\ Nothing \notin Exercise
  BY NothingElse
<1>4. QED
  BY <1>1, <1>2, <1>3 DEF Init, TypeInv, TypeOK, Alive

LEMMA StopType ==
  ASSUME NEW how \in {"closed", "crashed"}, Stop(how),
         TypeInv, UNCHANGED serverVars, risks' \in [Routine -> SUBSET Risks]
  PROVE  TypeInv'
BY NothingElse DEF Stop, TypeInv, TypeOK, Alive, serverVars

LEMMA MarkType ==
  ASSUME TypeInv, NEW r \in Routine, NEW x \in Risks, Mark(r, x)
  PROVE  risks' \in [Routine -> SUBSET Risks]
BY DEF Mark, TypeInv, TypeOK

LEMMA StrayedType ==
  ASSUME TypeInv, page = "list", Strayed
  PROVE  risks' \in [Routine -> SUBSET Risks]
<1>1. routine \in Routine /\ "strayed" \in Risks
  BY DEF TypeInv, TypeOK, Risks
<1>2. CASE source = routine
  BY <1>2 DEF Strayed, TypeInv, TypeOK
<1>3. CASE source # routine
  BY <1>1, <1>3, MarkType DEF Strayed
<1>4. QED
  BY <1>2, <1>3

LEMMA ToldType ==
  ASSUME TypeInv, NEW r \in Routine, Told(r),
         named' \in [Routine -> SUBSET Exercise],
         nameless' \in [Routine -> SUBSET Exercise],
         \A q \in Routine : named'[q] \cap nameless'[q] = {},
         risks' \in [Routine -> SUBSET Risks]
  PROVE  TypeInv'
<1>1. due' \in SUBSET observed' /\ tableDue' \in BOOLEAN
  BY DEF Told, TypeInv, TypeOK
<1>2. TypeOK'
  BY <1>1 DEF Told, TypeInv, TypeOK, pageVars, listVars
<1>3. Alive'
  BY DEF Told, TypeInv, Alive, pageVars
<1>4. QED
  BY <1>2, <1>3 DEF TypeInv

LEMMA MergeType ==
  ASSUME TypeInv, page \in {"view", "feedback"}, Merge
  PROVE  /\ named' \in [Routine -> SUBSET Exercise]
         /\ nameless' \in [Routine -> SUBSET Exercise]
         /\ \A q \in Routine : named'[q] \cap nameless'[q] = {}
<1>1. routine \in Routine /\ exercise \in Exercise
  BY DEF TypeInv, TypeOK
<1>2. QED
  BY <1>1 DEF Merge, TypeInv, TypeOK

LEMMA StepType ==
  ASSUME TypeInv, [Next]_vars
  PROVE  TypeInv'
<1> USE DEF TypeInv
<1>0. Nothing \notin Routine /\ Nothing \notin Exercise
  BY NothingElse
<1> USE DEF serverVars, pageVars, tableVars, listVars, watchVars
<1>1. CASE UNCHANGED vars
  BY <1>1 DEF vars, TypeOK, Alive
<1>2. CASE OpenApp
  BY <1>0, <1>2 DEF OpenApp, NewTable, TypeOK, Alive
<1>3. CASE Kill
  BY <1>3, StopType DEF Kill, TypeOK
<1>4. CASE TableChanged
  BY <1>4 DEF TableChanged, Assigned, TypeOK, Alive
<1>5. CASE \E r \in Routine : TapRoutine(r)
  BY <1>0, <1>5 DEF TapRoutine, NewList, TypeOK, Alive
<1>6. CASE TableCrash
  BY <1>6, StopType DEF TableCrash, TypeOK
<1>7. CASE \E r \in Routine : ListChanged(r)
  BY <1>7 DEF ListChanged, TypeOK, Alive
<1>8. CASE \E r \in Routine : ListChangedCrash(r)
  BY <1>8, StopType DEF ListChangedCrash, TypeOK
<1>9. CASE Layout
  BY <1>9 DEF Layout, TypeOK, Alive
<1>10. CASE \E x \in Exercise : TapExercise(x)
  <2>1. PICK x \in Exercise : TapExercise(x)
    BY <1>10
  <2>2. page = "list" /\ exercise' \in Exercise
    BY <2>1 DEF TapExercise, SameIndex
  <2>3. risks' \in [Routine -> SUBSET Risks]
    BY <2>1, <2>2, StrayedType DEF TapExercise
  <2>4. QED
    BY <2>1, <2>2, <2>3 DEF TapExercise, NewView, TypeOK, Alive
<1>11. CASE RowCrash
  <2>1. risks' \in [Routine -> SUBSET Risks]
    BY <1>11, StrayedType DEF RowCrash
  <2>2. QED
    BY <1>11, <2>1, StopType DEF RowCrash
<1>12. CASE LeaveRoutine
  BY <1>0, <1>12 DEF LeaveRoutine, NewTable, TypeOK, Alive
<1>13. CASE CountLoaded
  BY <1>13 DEF CountLoaded, TypeOK, Alive
<1>14. CASE CountLoadedCrash \/ DoneButtonCrash
  BY <1>14, StopType DEF CountLoadedCrash, DoneButtonCrash, TypeOK
<1>15. CASE DoneButtonPressed
  <2>1. /\ named' \in [Routine -> SUBSET Exercise]
        /\ nameless' \in [Routine -> SUBSET Exercise]
        /\ \A q \in Routine : named'[q] \cap nameless'[q] = {}
    BY <1>15, MergeType DEF DoneButtonPressed
  <2>2. QED
    BY <1>0, <1>15, <2>1 DEF DoneButtonPressed, Merge, NewList, TypeOK, Alive
<1>16. CASE ViewBack
  BY <1>0, <1>16 DEF ViewBack, NewList, TypeOK, Alive
<1>17. CASE OpenFeedback
  BY <1>17 DEF OpenFeedback, TypeOK, Alive
<1>18. CASE FeedbackPressed
  <2>1. /\ named' \in [Routine -> SUBSET Exercise]
        /\ nameless' \in [Routine -> SUBSET Exercise]
        /\ \A q \in Routine : named'[q] \cap nameless'[q] = {}
    BY <1>18, MergeType DEF FeedbackPressed
  <2>a. routine \in observed /\ due \in SUBSET observed
    BY <1>0, <1>18 DEF FeedbackPressed, TypeOK
  <2>b. due' = due \/ due' = due \cup {routine}
    BY <1>18 DEF FeedbackPressed
  <2>2. due' \in SUBSET observed' /\ tableDue' = TRUE
    BY <1>18, <2>a, <2>b DEF FeedbackPressed, Merge
  <2>3. TypeOK'
    BY <1>18, <2>1, <2>2 DEF FeedbackPressed, NewView, TypeOK
  <2>4. Alive'
    BY <1>18 DEF FeedbackPressed, NewView, Alive
  <2>5. QED
    BY <2>3, <2>4
<1>19. CASE FeedbackBack
  BY <1>19 DEF FeedbackBack, NewView, TypeOK, Alive
<1>20. CASE \E r \in Routine, e \in Exercise : Prescribe(r, e)
  <2>1. PICK r \in Routine, e \in Exercise : Prescribe(r, e)
    BY <1>20
  <2>2. /\ named' \in [Routine -> SUBSET Exercise]
        /\ nameless' \in [Routine -> SUBSET Exercise]
        /\ \A q \in Routine : named'[q] \cap nameless'[q] = {}
    BY <2>1 DEF Prescribe, TypeOK
  <2>3. QED
    BY <2>1, <2>2, ToldType DEF Prescribe, TypeOK
<1>21. CASE \E r \in Routine, e \in Exercise : Withdraw(r, e)
  <2>1. PICK r \in Routine, e \in Exercise : Withdraw(r, e)
    BY <1>21
  <2>2. /\ named' \in [Routine -> SUBSET Exercise]
        /\ nameless' \in [Routine -> SUBSET Exercise]
        /\ \A q \in Routine : named'[q] \cap nameless'[q] = {}
    BY <2>1 DEF Withdraw, TypeOK
  <2>3. risks' \in [Routine -> SUBSET Risks]
    BY <2>1, MarkType DEF Withdraw, Risks
  <2>4. QED
    BY <2>1, <2>2, <2>3, ToldType DEF Withdraw
<1>22. CASE \E r \in Routine : Touch(r)
  BY <1>22, ToldType DEF Touch, TypeOK
<1>23. QED
  BY <1>1, <1>2, <1>3, <1>4, <1>5, <1>6, <1>7, <1>8, <1>9, <1>10, <1>11, <1>12,
     <1>13, <1>14, <1>15, <1>16, <1>17, <1>18, <1>19, <1>20, <1>21, <1>22 DEF Next

(* Every reachable state of the patient's phone is well formed, whatever   *)
(* order pages, events, crashes and other phones come in.                  *)
THEOREM RoutinesTypeOK == Spec => []TypeOK
<1>1. TypeInv => TypeOK
  BY DEF TypeInv
<1>2. QED
  BY <1>1, InitType, StepType, PTL DEF Spec

---------------------------------------------------------------------------
(* Once laid out, a table over the array of its own routine shows that     *)
(* array, or the array has been emptied since.                             *)
RowsInv == page = "list" /\ ~marked /\ source = routine => rows = listed \/ listed = {}

LEMMA InitRows == Init => RowsInv
BY DEF Init, RowsInv

LEMMA StepRows ==
  ASSUME TypeInv, RowsInv, [Next]_vars
  PROVE  RowsInv'
<1> USE DEF serverVars, pageVars, tableVars, listVars, watchVars
<1>a. ASSUME page' # "list" \/ marked'
      PROVE  RowsInv'
  BY <1>a DEF RowsInv
<1>b. ASSUME UNCHANGED <<pageVars, listVars>>
      PROVE  RowsInv'
  BY <1>b DEF RowsInv
<1>1. CASE UNCHANGED vars
  BY <1>1, <1>b DEF vars
<1>2. CASE OpenApp \/ Kill \/ TableCrash \/ RowCrash \/ LeaveRoutine \/ CountLoadedCrash
  BY <1>2, <1>a DEF OpenApp, Kill, TableCrash, RowCrash, LeaveRoutine, CountLoadedCrash,
     NewTable, Stop
<1>3. CASE \/ DoneButtonCrash \/ CountLoaded \/ OpenFeedback \/ FeedbackPressed \/ FeedbackBack
           \/ \E r \in Routine : ListChangedCrash(r)
           \/ \E x \in Exercise : TapExercise(x)
  BY <1>3, <1>a DEF DoneButtonCrash, CountLoaded, OpenFeedback, FeedbackPressed,
     FeedbackBack, ListChangedCrash, TapExercise, NewView, Stop
<1>4. CASE \/ \E r \in Routine : TapRoutine(r)
           \/ DoneButtonPressed \/ ViewBack
  BY <1>4, <1>a DEF TapRoutine, DoneButtonPressed, ViewBack, NewList
<1>5. CASE TableChanged
  BY <1>5, <1>b DEF TableChanged
<1>6. CASE \E r \in Routine : ListChanged(r)
  <2>1. PICK r \in Routine : ListChanged(r)
    BY <1>6
  <2>2. CASE named[r] = {} \/ routine # r
    BY <2>1, <2>2 DEF ListChanged, RowsInv
  <2>3. CASE named[r] # {} /\ routine = r
    BY <2>1, <2>3 DEF ListChanged, RowsInv
  <2>4. QED
    BY <2>2, <2>3
<1>7. CASE Layout
  BY <1>7 DEF Layout, RowsInv
<1>8. CASE \/ \E r \in Routine, e \in Exercise : Prescribe(r, e) \/ Withdraw(r, e)
           \/ \E r \in Routine : Touch(r)
  BY <1>8, <1>b DEF Prescribe, Withdraw, Touch, Told
<1>9. QED
  BY <1>1, <1>2, <1>3, <1>4, <1>5, <1>6, <1>7, <1>8 DEF Next

LEMMA IndexGrows ==
  ASSUME NEW S \in SUBSET Exercise, NEW x \in S, NEW y \in S, x < y
  PROVE  Index(S, x) # Index(S, y)
<1> DEFINE Below(e) == {z \in S : z < e}
<1>1. S \subseteq Nat /\ IsFiniteSet(S)
  BY ExerciseKeys, FS_Subset
<1>2. IsFiniteSet(Below(y)) /\ Below(x) \in SUBSET Below(y)
  <2>1. Below(y) \in SUBSET S
    OBVIOUS
  <2>2. ASSUME NEW z \in S, z < x
        PROVE  z < y
    BY <1>1, <2>2
  <2>3. QED
    BY <1>1, <2>1, <2>2, FS_Subset
<1>3. x \in Below(y) /\ x \notin Below(x)
  BY <1>1
<1>4. Cardinality(Below(y)) = Cardinality(Below(x)) => Below(y) = Below(x)
  BY <1>2, FS_Subset
<1>5. QED
  BY <1>3, <1>4 DEF Index

LEMMA RowIsExercise ==
  ASSUME TypeOK, RowsInv, source = routine, NEW x, NEW y, SameIndex(x, y)
  PROVE  x = y
<1>1. listed = rows /\ x \in rows /\ y \in rows /\ Index(rows, y) = Index(rows, x)
  BY DEF RowsInv, SameIndex
<1>2. rows \in SUBSET Exercise /\ x \in Nat /\ y \in Nat
  BY <1>1, ExerciseKeys DEF TypeOK
<1>3. ~(x < y) /\ ~(y < x)
  BY <1>1, <1>2, IndexGrows
<1>4. QED
  BY <1>2, <1>3

(* The exercise opened is the one of the row, as long as the array was     *)
(* last filled for the routine that is open.                               *)
THEOREM TapsMeanRows == Spec => TapMeansRow
<1>1. ASSUME TypeInv, RowsInv, NEW x \in Exercise, TapExercise(x), source = routine
      PROVE  exercise' = x
  <2>1. PICK y \in Exercise : SameIndex(x, y) /\ exercise' = y
    BY <1>1 DEF TapExercise
  <2>2. QED
    BY <1>1, <2>1, RowIsExercise DEF TypeInv
<1>2. TypeInv /\ RowsInv /\ [Next]_vars =>
        [\A x \in Exercise : TapExercise(x) /\ source = routine => exercise' = x]_vars
  BY <1>1
<1>3. QED
  BY <1>2, InitType, StepType, InitRows, StepRows, PTL DEF Spec, TapMeansRow

---------------------------------------------------------------------------
(***************************************************************************)
(* As long as nothing was withdrawn from a routine and no tap went astray  *)
(* in it: its records are whole, it has some once the phone knows of it,   *)
(* the array filled for it holds some of them only, and the exercise open  *)
(* is one of them.                                                         *)
(***************************************************************************)
Sound(r) ==
  risks[r] = {} =>
    /\ nameless[r] = {}
    /\ r \in table \cup cells \cup observed => named[r] # {}
    /\ source = r => listed # {} /\ listed \subseteq named[r]
    /\ page \in {"view", "feedback"} /\ routine = r => exercise \in named[r] /\ read # "missing"

Caused == \E r \in Routine : risks[r] # {}

CauseInv ==
  /\ \A r \in Routine : Sound(r)
  /\ cells # {} /\ table = {} => Caused
  /\ app = "crashed" => Caused

LEMMA InitCause == Init => CauseInv
<1> SUFFICES ASSUME Init
             PROVE  CauseInv
  OBVIOUS
<1>1. ASSUME NEW r \in Routine
      PROVE  Sound(r)
  BY <1>1, NothingElse DEF Init, Sound
<1>2. QED
  BY <1>1 DEF Init, CauseInv

(* Nothing of what a routine was sound for changes when the app ends.      *)
LEMMA StopCause ==
  ASSUME TypeInv, CauseInv, NEW how, Stop(how), UNCHANGED serverVars,
         \A r \in Routine : risks[r] \subseteq risks'[r],
         how = "crashed" => Caused'
  PROVE  CauseInv'
<1>1. ASSUME NEW r \in Routine
      PROVE  Sound(r)'
  BY NothingElse DEF Stop, Sound, CauseInv, serverVars
<1>2. QED
  BY <1>1 DEF Stop, CauseInv

LEMMA StrayedGrows ==
  ASSUME TypeInv, page = "list", Strayed
  PROVE  /\ \A r \in Routine : risks[r] \subseteq risks'[r]
         /\ source # routine => risks'[routine] # {}
         /\ source = routine => risks' = risks
<1>1. routine \in Routine
  BY DEF TypeInv, TypeOK
<1>2. CASE source = routine
  BY <1>2 DEF Strayed
<1>3. CASE source # routine
  BY <1>1, <1>3 DEF Strayed, Mark, TypeInv, TypeOK
<1>4. QED
  BY <1>2, <1>3

LEMMA StepCause ==
  ASSUME TypeInv, RowsInv, CauseInv, [Next]_vars
  PROVE  CauseInv'
<1> USE DEF serverVars, pageVars, tableVars, listVars, watchVars
<1>a. \A r \in Routine : Sound(r)
  BY DEF CauseInv
<1>t. TypeOK /\ Alive
  BY DEF TypeInv
<1>c. ASSUME \A r \in Routine : Sound(r)', UNCHANGED <<app, cells, table, risks>>
      PROVE  CauseInv'
  BY <1>c DEF CauseInv, Caused
<1>1. CASE UNCHANGED vars
  BY <1>1 DEF vars, CauseInv, Caused, Sound
<1>2. CASE OpenApp
  <2>1. ASSUME NEW r \in Routine
        PROVE  Sound(r)'
    BY <1>2, <1>a DEF OpenApp, NewTable, Sound
  <2>2. QED
    BY <1>2, <2>1 DEF OpenApp, NewTable, CauseInv, Caused
<1>3. CASE Kill
  BY <1>3, StopCause DEF Kill
<1>4. CASE TableChanged
  <2>1. ASSUME NEW r \in Routine
        PROVE  Sound(r)'
    BY <1>4, <1>a DEF TableChanged, Assigned, Children, Sound
  <2>2. ASSUME cells' # {}, table' = {}
        PROVE  Caused
    <3>1. cells' = cells /\ Assigned = {}
      BY <1>4, <2>2 DEF TableChanged
    <3>2. PICK r \in Routine : r \in cells
      BY <2>2, <3>1, <1>t DEF TypeOK
    <3>3. named[r] = {}
      BY <3>1 DEF Assigned, Children
    <3>4. QED
      BY <1>a, <3>2, <3>3 DEF Sound, Caused
  <2>3. QED
    BY <1>4, <2>1, <2>2 DEF TableChanged, CauseInv, Caused
<1>5. CASE \E r \in Routine : TapRoutine(r)
  <2>1. PICK q \in Routine : TapRoutine(q)
    BY <1>5
  <2>2. ASSUME NEW r \in Routine
        PROVE  Sound(r)'
    BY <2>1, <1>a DEF TapRoutine, NewList, Sound
  <2>3. QED
    BY <2>1, <2>2 DEF TapRoutine, NewList, CauseInv, Caused
<1>6. CASE TableCrash
  <2>1. Caused'
    BY <1>6 DEF TableCrash, CauseInv, Caused
  <2>2. QED
    BY <1>6, <2>1, StopCause DEF TableCrash
<1>7. CASE \E r \in Routine : ListChanged(r)
  <2>1. PICK q \in Routine : ListChanged(q)
    BY <1>7
  <2>2. q \in observed
    BY <2>1, <1>t DEF ListChanged, TypeOK
  <2>3. ASSUME NEW r \in Routine
        PROVE  Sound(r)'
    BY <2>1, <2>2, <1>a DEF ListChanged, Sound
  <2>4. QED
    BY <2>1, <2>3, <1>c DEF ListChanged
<1>8. CASE \E r \in Routine : ListChangedCrash(r)
  <2>1. PICK q \in Routine : ListChangedCrash(q)
    BY <1>8
  <2>2. Caused'
    BY <2>1, <1>a DEF ListChangedCrash, Sound, Caused
  <2>3. QED
    BY <2>1, <2>2, StopCause DEF ListChangedCrash
<1>9. CASE Layout
  <2>1. ASSUME NEW r \in Routine
        PROVE  Sound(r)'
    BY <1>9, <1>a DEF Layout, Sound
  <2>2. QED
    BY <1>9, <2>1, <1>c DEF Layout
<1>10. CASE \E x \in Exercise : TapExercise(x)
  <2>1. PICK x \in Exercise, y \in Exercise : TapExercise(x) /\ SameIndex(x, y) /\ exercise' = y
    BY <1>10 DEF TapExercise
  <2>2. page = "list" /\ y \in listed /\ Strayed
    BY <2>1 DEF TapExercise, SameIndex
  <2>3. /\ \A r \in Routine : risks[r] \subseteq risks'[r]
        /\ source # routine => risks'[routine] # {}
    BY <2>2, StrayedGrows
  <2>4. ASSUME NEW r \in Routine
        PROVE  Sound(r)'
    <3>1. SUFFICES ASSUME risks'[r] = {}
                   PROVE  Sound(r)'
      BY DEF Sound
    <3>2. risks[r] = {}
      BY <2>3, <3>1
    <3>3. routine = r => source = r
      BY <2>3, <3>1
    <3>4. QED
      BY <1>a, <2>1, <2>2, <3>2, <3>3 DEF TapExercise, NewView, Sound
  <2>5. Caused => Caused'
    BY <2>3 DEF Caused
  <2>6. QED
    BY <2>1, <2>4, <2>5 DEF TapExercise, NewView, CauseInv
<1>11. CASE RowCrash
  <2>1. page = "list" /\ Strayed /\ routine \in Routine
    BY <1>11, <1>t DEF RowCrash, TypeOK
  <2>2. /\ \A r \in Routine : risks[r] \subseteq risks'[r]
        /\ source # routine => risks'[routine] # {}
        /\ source = routine => risks' = risks
    BY <2>1, StrayedGrows
  <2>3. CASE source # routine
    BY <1>11, <2>1, <2>2, <2>3, StopCause DEF RowCrash, Caused
  <2>4. CASE source = routine
    <3>1. Cardinality(listed) < Cardinality(rows) /\ ~marked
      BY <1>11 DEF RowCrash
    <3>2. IsFiniteSet(rows)
      BY <1>t, ExerciseKeys, FS_Subset DEF TypeOK
    <3>3. rows # listed
      <4>1. Cardinality(rows) \in Nat
        BY <3>2, FS_CardinalityType
      <4>2. QED
        BY <3>1, <4>1
    <3>4. listed = {}
      BY <2>1, <2>4, <3>1, <3>3 DEF RowsInv
    <3>5. risks[routine] # {}
      BY <1>a, <2>1, <2>4, <3>4 DEF Sound
    <3>6. Caused'
      BY <2>1, <2>2, <2>4, <3>5 DEF Caused
    <3>7. QED
      BY <1>11, <2>2, <3>6, StopCause DEF RowCrash
  <2>5. QED
    BY <2>3, <2>4
<1>12. CASE LeaveRoutine
  <2>1. ASSUME NEW r \in Routine
        PROVE  Sound(r)'
    BY <1>12, <1>a DEF LeaveRoutine, NewTable, Sound
  <2>2. QED
    BY <1>12, <2>1 DEF LeaveRoutine, NewTable, CauseInv, Caused
<1>13. CASE CountLoaded
  <2>1. ASSUME NEW r \in Routine
        PROVE  Sound(r)'
    BY <1>13, <1>a DEF CountLoaded, Sound
  <2>2. QED
    BY <1>13, <2>1, <1>c DEF CountLoaded
<1>14. CASE CountLoadedCrash \/ DoneButtonCrash
  <2>1. routine \in Routine
    BY <1>14, <1>t DEF CountLoadedCrash, DoneButtonCrash, TypeOK
  <2>2. risks[routine] # {} /\ UNCHANGED risks
    BY <1>14, <1>a, <2>1 DEF CountLoadedCrash, DoneButtonCrash, Sound
  <2>3. Caused'
    BY <2>1, <2>2 DEF Caused
  <2>4. QED
    BY <1>14, <2>3, StopCause DEF CountLoadedCrash, DoneButtonCrash
<1>15. CASE DoneButtonPressed
  <2>1. ASSUME NEW r \in Routine
        PROVE  Sound(r)'
    <3>1. CASE routine = r
      BY <1>15, <1>a, <1>t, <3>1 DEF DoneButtonPressed, Merge, NewList, Sound, TypeOK
    <3>2. CASE routine # r
      BY <1>15, <1>a, <1>t, <3>2 DEF DoneButtonPressed, Merge, NewList, Sound, TypeOK
    <3>3. QED
      BY <3>1, <3>2
  <2>2. QED
    BY <1>15, <2>1, <1>c DEF DoneButtonPressed
<1>16. CASE ViewBack
  <2>1. ASSUME NEW r \in Routine
        PROVE  Sound(r)'
    BY <1>16, <1>a, <1>t DEF ViewBack, NewList, Sound, TypeOK
  <2>2. QED
    BY <1>16, <2>1, <1>c DEF ViewBack
<1>17. CASE OpenFeedback
  <2>1. ASSUME NEW r \in Routine
        PROVE  Sound(r)'
    BY <1>17, <1>a DEF OpenFeedback, Sound
  <2>2. QED
    BY <1>17, <2>1, <1>c DEF OpenFeedback
<1>18. CASE FeedbackPressed
  <2>1. ASSUME NEW r \in Routine
        PROVE  Sound(r)'
    <3>1. CASE routine = r
      BY <1>18, <1>a, <1>t, <3>1 DEF FeedbackPressed, Merge, NewView, Sound, TypeOK
    <3>2. CASE routine # r
      BY <1>18, <1>a, <1>t, <3>2 DEF FeedbackPressed, Merge, NewView, Sound, TypeOK
    <3>3. QED
      BY <3>1, <3>2
  <2>2. QED
    BY <1>18, <2>1, <1>c DEF FeedbackPressed
<1>19. CASE FeedbackBack
  <2>1. ASSUME NEW r \in Routine
        PROVE  Sound(r)'
    BY <1>19, <1>a DEF FeedbackBack, NewView, Sound
  <2>2. QED
    BY <1>19, <2>1, <1>c DEF FeedbackBack
<1>20. CASE \E r \in Routine, e \in Exercise : Prescribe(r, e)
  <2>1. PICK q \in Routine, e \in Exercise : Prescribe(q, e)
    BY <1>20
  <2>2. ASSUME NEW r \in Routine
        PROVE  Sound(r)'
    BY <2>1, <1>a, <1>t DEF Prescribe, Told, Sound, TypeOK
  <2>3. QED
    BY <2>1, <2>2, <1>c DEF Prescribe, Told
<1>21. CASE \E r \in Routine, e \in Exercise : Withdraw(r, e)
  <2>1. PICK q \in Routine, e \in Exercise : Withdraw(q, e)
    BY <1>21
  <2>2. risks' = [risks EXCEPT ![q] = @ \cup {"withdrawn"}]
    BY <2>1 DEF Withdraw, Mark
  <2>3. risks'[q] # {} /\ Caused'
    BY <2>2, <1>t DEF TypeOK, Caused
  <2>4. ASSUME NEW r \in Routine
        PROVE  Sound(r)'
    <3>1. CASE r = q
      BY <2>3, <3>1 DEF Sound
    <3>2. CASE r # q
      BY <2>1, <2>2, <1>a, <1>t, <3>2 DEF Withdraw, Told, Sound, TypeOK
    <3>3. QED
      BY <3>1, <3>2
  <2>5. QED
    BY <2>3, <2>4 DEF CauseInv
<1>22. CASE \E r \in Routine : Touch(r)
  <2>1. ASSUME NEW r \in Routine
        PROVE  Sound(r)'
    BY <1>22, <1>a DEF Touch, Told, Sound
  <2>2. QED
    BY <1>22, <2>1, <1>c DEF Touch, Told
<1>23. QED
  BY <1>1, <1>2, <1>3, <1>4, <1>5, <1>6, <1>7, <1>8, <1>9, <1>10, <1>11, <1>12,
     <1>13, <1>14, <1>15, <1>16, <1>17, <1>18, <1>19, <1>20, <1>21, <1>22 DEF Next

(* A record is only ever nameless in a routine from which an exercise was  *)
(* withdrawn, or in which a row was tapped that was looked up in another   *)
(* routine's array.                                                        *)
THEOREM OrphansCaused == Spec => []OrphansHaveCause
<1>1. CauseInv => OrphansHaveCause
  BY DEF CauseInv, Sound, OrphansHaveCause
<1>2. QED
  BY <1>1, InitType, StepType, InitRows, StepRows, InitCause, StepCause, PTL DEF Spec

(* Without a withdrawal and a stray tap no index, unwrapping or cast of    *)
(* the patient's pages fails.                                              *)
THEOREM CrashesCaused == Spec => []CrashHasCause
<1>1. CauseInv => CrashHasCause
  BY DEF CauseInv, Caused, CrashHasCause
<1>2. QED
  BY <1>1, InitType, StepType, InitRows, StepRows, InitCause, StepCause, PTL DEF Spec

---------------------------------------------------------------------------
(* The two global arrays hold what the server holds, for the routine the   *)
(* one was filled for, unless an event that refills them is to come.       *)
ListCurrent == source = Nothing \/ source \in due \/ listed = named[source]

TableCurrent ==
  /\ app = "running" => tableDue \/ table = Assigned
  /\ page = "table" /\ ~tableDue => cells = Assigned \/ Assigned = {}

LEMMA StepList ==
  ASSUME TypeInv, ListCurrent, [Next]_vars
  PROVE  ListCurrent'
<1> USE DEF serverVars, pageVars, tableVars, listVars, watchVars
<1>a. ASSUME source' = Nothing
      PROVE  ListCurrent'
  BY <1>a DEF ListCurrent
<1>b. ASSUME UNCHANGED <<source, listed, named>>, due \subseteq due'
      PROVE  ListCurrent'
  BY <1>b DEF ListCurrent
<1>1. CASE \/ Kill \/ TableCrash \/ RowCrash \/ CountLoadedCrash \/ DoneButtonCrash
           \/ \E r \in Routine : ListChangedCrash(r)
  BY <1>1, <1>a DEF Kill, TableCrash, RowCrash, CountLoadedCrash, DoneButtonCrash,
     ListChangedCrash, Stop
<1>2. CASE \/ OpenApp \/ TableChanged \/ LeaveRoutine \/ Layout \/ CountLoaded \/ OpenFeedback
           \/ FeedbackBack \/ UNCHANGED vars
           \/ \E x \in Exercise : TapExercise(x)
  BY <1>2, <1>b DEF vars, OpenApp, TableChanged, LeaveRoutine, Layout, CountLoaded,
     OpenFeedback, FeedbackBack, TapExercise
<1>3. CASE DoneButtonPressed \/ ViewBack \/ \E r \in Routine : TapRoutine(r)
  BY <1>3, <1>b DEF DoneButtonPressed, ViewBack, TapRoutine, NewList, Merge
<1>4. CASE FeedbackPressed
  <2>1. due \subseteq due' /\ UNCHANGED <<source, listed, named>>
    BY <1>4 DEF FeedbackPressed, Merge
  <2>2. QED
    BY <2>1, <1>b
<1>5. CASE \E r \in Routine : ListChanged(r)
  BY <1>5, NothingElse DEF ListChanged, ListCurrent, TypeInv, TypeOK
<1>6. ASSUME NEW r \in Routine, Told(r), \A q \in Routine : q # r => named'[q] = named[q]
      PROVE  ListCurrent'
  <2>1. /\ due' = due \cup (observed \cap {r}) /\ UNCHANGED <<source, listed>>
        /\ source \in observed \cup {Nothing} /\ observed \in SUBSET Routine
    BY <1>6 DEF Told, TypeInv, TypeOK
  <2>2. CASE source = r /\ source \in observed
    BY <2>1, <2>2 DEF ListCurrent
  <2>3. CASE source # r /\ source \in observed
    BY <1>6, <2>1, <2>3 DEF ListCurrent
  <2>4. QED
    BY <1>a, <2>1, <2>2, <2>3
<1>7. CASE \/ \E r \in Routine, e \in Exercise : Prescribe(r, e) \/ Withdraw(r, e)
           \/ \E r \in Routine : Touch(r)
  BY <1>6, <1>7 DEF Prescribe, Withdraw, Touch, TypeInv, TypeOK
<1>8. QED
  BY <1>1, <1>2, <1>3, <1>4, <1>5, <1>7 DEF Next

LEMMA StepTable ==
  ASSUME TypeInv, TableCurrent, [Next]_vars
  PROVE  TableCurrent'
<1> USE DEF serverVars, pageVars, tableVars, listVars, watchVars
<1>a. ASSUME page' # "table", app' # "running"
      PROVE  TableCurrent'
  BY <1>a DEF TableCurrent
<1>b. ASSUME tableDue'
      PROVE  TableCurrent'
  BY <1>b DEF TableCurrent
<1>c. ASSUME UNCHANGED <<named, nameless, app, table, tableDue>>, page' # "table" \/ UNCHANGED <<page, cells>>
      PROVE  TableCurrent'
  BY <1>c DEF TableCurrent, Assigned, Children
<1>1. CASE \/ Kill \/ TableCrash \/ RowCrash \/ CountLoadedCrash \/ DoneButtonCrash
           \/ \E r \in Routine : ListChangedCrash(r)
  BY <1>1, <1>a DEF Kill, TableCrash, RowCrash, CountLoadedCrash, DoneButtonCrash,
     ListChangedCrash, Stop
<1>2. CASE OpenApp \/ LeaveRoutine \/ DoneButtonPressed \/ FeedbackPressed
  BY <1>2, <1>b DEF OpenApp, LeaveRoutine, NewTable, DoneButtonPressed, FeedbackPressed, Merge
<1>3. CASE TableChanged
  <2>1. /\ table' = Assigned' /\ Assigned' = Assigned
        /\ page = "table" /\ Assigned # {} => cells' = Assigned'
        /\ page' = page
    BY <1>3 DEF TableChanged, Assigned, Children
  <2>2. QED
    BY <2>1 DEF TableCurrent
<1>4. CASE \/ CountLoaded \/ OpenFeedback \/ FeedbackBack \/ ViewBack
           \/ \E r \in Routine : TapRoutine(r)
           \/ \E x \in Exercise : TapExercise(x)
  BY <1>4, <1>c DEF CountLoaded, OpenFeedback, FeedbackBack, ViewBack, TapRoutine, TapExercise,
     NewList, NewView
<1>5. CASE Layout \/ UNCHANGED vars \/ \E r \in Routine : ListChanged(r)
  BY <1>5, <1>c DEF Layout, ListChanged, vars
<1>6. ASSUME NEW r \in Routine, Told(r)
      PROVE  TableCurrent'
  <2>1. CASE app = "running"
    BY <1>6, <2>1, <1>b DEF Told
  <2>2. CASE app # "running"
    BY <1>6, <2>2, <1>a DEF Told, TypeInv, Alive
  <2>3. QED
    BY <2>1, <2>2
<1>7. CASE \/ \E r \in Routine, e \in Exercise : Prescribe(r, e) \/ Withdraw(r, e)
           \/ \E r \in Routine : Touch(r)
  BY <1>6, <1>7 DEF Prescribe, Withdraw, Touch
<1>8. QED
  BY <1>1, <1>2, <1>3, <1>4, <1>5, <1>7 DEF Next

(* A page with no event to come and nothing to lay out shows what the      *)
(* server holds.  An empty answer reloads no table, and a list is only     *)
(* looked after while the array is that of its own routine.                *)
RestingPages ==
  /\ page = "table" /\ ~tableDue => cells = Assigned \/ Assigned = {}
  /\ page = "list" /\ ~marked /\ routine \notin due /\ source = routine =>
       rows = named[routine] \/ named[routine] = {}

(* No event is lost between the server, the two global arrays and the      *)
(* tables, whatever pages are left and opened again, whatever other phones *)
(* do, and however often the app restarts.                                 *)
THEOREM RestingPagesShowServer == Spec => []RestingPages
<1>1. Init => ListCurrent /\ TableCurrent
  BY DEF Init, ListCurrent, TableCurrent
<1>2. TypeInv /\ RowsInv /\ ListCurrent /\ TableCurrent => RestingPages
  BY NothingElse DEF TypeInv, TypeOK, RowsInv, ListCurrent, TableCurrent, RestingPages
<1>3. QED
  BY <1>1, <1>2, InitType, StepType, InitRows, StepRows, StepList, StepTable, PTL DEF Spec
=============================================================================
