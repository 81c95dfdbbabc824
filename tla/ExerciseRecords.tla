-------------------------- MODULE ExerciseRecords --------------------------
(***************************************************************************)
(* The exercise records of one routine of one patient:                     *)
(*   users/{patient}/routines/{routine}/{exercise} in the Realtime         *)
(* Database, written by the physiotherapist's app (ExerciseList saves a    *)
(* whole record, PhysioRoutineInformation removes one) and by the          *)
(* patient's app (PatientViewExercise merges patientdone,                  *)
(* PatientGiveFeedback merges patientfeedback), and read by both.          *)
(*                                                                         *)
(* The database SDK applies a write to the device's own copy at once and   *)
(* sends it later, in order (outbox).  Nothing is persisted on the device, *)
(* so what is unsent when the app dies is lost.                            *)
(***************************************************************************)
EXTENDS Integers, Sequences, FiniteSets

CONSTANTS PatientDevice,  \* phones signed in as the patient
          PhysioDevice,   \* phones signed in as the physiotherapist
          Exercise,       \* catalogue exercises of the routine
          NoExercise,     \* patientTapsExercise before the first tap
          Feedback,       \* the buttons of PatientGiveFeedback
          Events,         \* what else may happen, see AllEvents
          MaxPresses,     \* bound: Done presses per exercise
          MaxFeedback,    \* bound: feedback given per exercise
          MaxOutbox,      \* bound: unsent writes per device
          MaxPages,       \* bound: sheets on top of each other
          MaxReads        \* bound: unanswered reads of a physio device

(***************************************************************************)
(* dismiss: a presented page is swiped away (iOS 13 sheets)                *)
(* delete:  the physiotherapist deletes an exercise                        *)
(* resave:  the physiotherapist saves an exercise the routine already has  *)
(* kill:    the operating system or the user ends an app                   *)
(* hasty:   Done is pressed before the page has loaded its count           *)
(* resend:  the connection is lost between a write and its acknowledgement *)
(***************************************************************************)
AllEvents == {"dismiss", "delete", "resave", "kill", "hasty", "resend"}

ASSUME DevicesDiffer   == PatientDevice \cap PhysioDevice = {}
ASSUME ExerciseNames   == NoExercise \notin Exercise
ASSUME FeedbackButtons == "Good" \in Feedback /\ "none" \notin Feedback
ASSUME EventNames      == Events \subseteq AllEvents
ASSUME Bounds          == {MaxPresses, MaxFeedback, MaxOutbox, MaxPages, MaxReads}
                             \subseteq Nat

Device == PatientDevice \cup PhysioDevice

VARIABLES
  db,       \* the server's records
  app,      \* each device: is the app running
  outbox,   \* each device: writes not yet acknowledged, oldest first
  local,    \* each device: the SDK's copy, own unsent writes applied
  listed,   \* each device: patientAssignedExercises / routineExercises
  rows,     \* each device: the rows its exercise table shows
  synced,   \* each patient device: the routine's observer has fired
  pages,    \* each patient device: the pages presented, topmost last
  tapped,   \* each patient device: the global patientTapsExercise
  screen,   \* each physio device: is PhysioRoutineInformation on top
  reading,  \* each physio device: single reads not yet answered
  presses,  \* history: Done presses on the page of each exercise
  said      \* history: feedback given from the page of each exercise

serverVars  == <<db>>
deviceVars  == <<app, outbox, local, listed, rows>>
patientVars == <<synced, pages, tapped>>
physioVars  == <<screen, reading>>
historyVars == <<presses, said>>
vars == <<db, app, outbox, local, listed, rows, synced, pages, tapped,
          screen, reading, presses, said>>

---------------------------------------------------------------------------
(* Records and writes.  prescribed stands for the keys exercisename,       *)
(* physioset and physioreps, which only a save writes, all together.       *)

NoCount    == -1
NoFeedback == "none"

Record == [prescribed : BOOLEAN,
           done       : Nat \cup {NoCount},
           feedback   : Feedback \cup {NoFeedback}]

NoRecord  == [prescribed |-> FALSE, done |-> NoCount, feedback |-> NoFeedback]
(* Faults kept for the checks, named ...Fault: a save that starts the count *)
(* at one, and a save that forgets the key patientdone.                    *)
NewRecordOneFault     == [prescribed |-> TRUE, done |-> 1, feedback |-> "Good"]
NewRecordCountFault   == [prescribed |-> TRUE, done |-> NoCount, feedback |-> "Good"]

NewRecord == [prescribed |-> TRUE,  done |-> 0,       feedback |-> "Good"]

Records == [Exercise -> Record]
Empty   == [e \in Exercise |-> NoRecord]

Write == [op : {"save", "remove", "done", "feedback"},
          ex : Exercise, count : Nat, text : Feedback]

Save(e)              == [op |-> "save",     ex |-> e, count |-> 0, text |-> "Good"]
Remove(e)            == [op |-> "remove",   ex |-> e, count |-> 0, text |-> "Good"]
MergeDone(e, n)      == [op |-> "done",     ex |-> e, count |-> n, text |-> "Good"]
MergeFeedback(e, f)  == [op |-> "feedback", ex |-> e, count |-> 0, text |-> f]

Written(r, w) ==
  CASE w.op = "save"     -> NewRecord
    [] w.op = "remove"   -> NoRecord
    [] w.op = "done"     -> [r EXCEPT !.done = w.count]
    [] w.op = "feedback" -> [r EXCEPT !.feedback = w.text]

Apply(records, w) == [records EXCEPT ![w.ex] = Written(@, w)]

Pending(queue, e, ops) ==
  \E i \in DOMAIN queue : queue[i].ex = e /\ queue[i].op \in ops

(* The device's copy after news from the server: every key a write of its  *)
(* own still waits to set keeps the value of that write.                   *)
Overlay(base, queue, own) ==
  [e \in Exercise |->
     [prescribed |-> IF Pending(queue, e, {"save", "remove"})
                       THEN own[e].prescribed ELSE base[e].prescribed,
      done       |-> IF Pending(queue, e, {"save", "remove", "done"})
                       THEN own[e].done ELSE base[e].done,
      feedback   |-> IF Pending(queue, e, {"save", "remove", "feedback"})
                       THEN own[e].feedback ELSE base[e].feedback]]

Named(records)     == {e \in Exercise : records[e].prescribed}
Children(records)  == {e \in Exercise : records[e] # NoRecord}
(* A child without the key exercisename: the `name!` of every list crashes. *)
Unnamed(records)   == Children(records) \ Named(records)

Send(d, w) ==
  /\ Len(outbox[d]) < MaxOutbox
  /\ outbox' = [outbox EXCEPT ![d] = Append(@, w)]
  /\ local' = [local EXCEPT ![d] = Apply(@, w)]

Receive(d) == local' = [local EXCEPT ![d] = Overlay(db, outbox[d], @)]

---------------------------------------------------------------------------
(* The app of a device ends: its unsent writes, its copy and its globals   *)
(* are gone.  how is "closed" or "crashed".                                *)
Stop(d, how) ==
  /\ app'    = [app    EXCEPT ![d] = how]
  /\ outbox' = [outbox EXCEPT ![d] = << >>]
  /\ local'  = [local  EXCEPT ![d] = Empty]
  /\ listed' = [listed EXCEPT ![d] = {}]
  /\ rows'   = [rows   EXCEPT ![d] = {}]

StopPatient(p, how) ==
  /\ Stop(p, how)
  /\ synced' = [synced EXCEPT ![p] = FALSE]
  /\ pages'  = [pages  EXCEPT ![p] = << >>]
  /\ tapped' = [tapped EXCEPT ![p] = NoExercise]
  /\ UNCHANGED <<serverVars, physioVars, historyVars>>

StopPhysio(q, how) ==
  /\ Stop(q, how)
  /\ screen'  = [screen  EXCEPT ![q] = "other"]
  /\ reading' = [reading EXCEPT ![q] = {}]
  /\ UNCHANGED <<serverVars, patientVars, historyVars>>

(* A callback refills the global array; the table is reloaded inside the   *)
(* loop over the children only, so an empty snapshot leaves the old rows.  *)
Refill(d, names) ==
  /\ listed' = [listed EXCEPT ![d] = names]
  /\ rows'   = [rows   EXCEPT ![d] = IF names = {} THEN @ ELSE names]

---------------------------------------------------------------------------
(* The patient's pages: PatientExecuteRoutineScreen (Exec),                *)
(* PatientViewExercise (View), PatientGiveFeedback (Feedback).  ex is the  *)
(* exercise a page was opened for, which it shows; its buttons use tapped. *)
Page ==
  [kind : {"Exec"}, ex : {NoExercise}, count : {NoCount}, reading : {FALSE}]
    \cup
  [kind : {"View", "Feedback"}, ex : Exercise,
   count : Nat \cup {NoCount}, reading : BOOLEAN]

ExecPage        == [kind |-> "Exec", ex |-> NoExercise,
                    count |-> NoCount, reading |-> FALSE]
ViewPage(e)     == [kind |-> "View", ex |-> e,
                    count |-> NoCount, reading |-> TRUE]
FeedbackPage(e) == [kind |-> "Feedback", ex |-> e,
                    count |-> NoCount, reading |-> FALSE]

Top(p)      == pages[p][Len(pages[p])]
On(p, kind) == app[p] = "running" /\ pages[p] # << >> /\ Top(p).kind = kind

(* Every segue presents a NEW page on top of the old one.  A full-screen   *)
(* page never comes back, so without dismissal only the top page is kept.  *)
Present(p, page) ==
  IF "dismiss" \in Events
    THEN /\ Len(pages[p]) < MaxPages
         /\ pages' = [pages EXCEPT ![p] = Append(@, page)]
    ELSE pages' = [pages EXCEPT ![p] = <<page>>]

(* The patient taps the routine, possibly after starting the app again.    *)
OpenRoutine(p) ==
  /\ pages[p] = << >>
  /\ app'   = [app   EXCEPT ![p] = "running"]
  /\ rows'  = [rows  EXCEPT ![p] = listed[p]]
  /\ pages' = [pages EXCEPT ![p] = <<ExecPage>>]
  /\ UNCHANGED <<serverVars, outbox, local, listed, synced, tapped,
                 physioVars, historyVars>>

(* The observer of PatientExecuteRoutineScreen, never removed: it fires on *)
(* news from the server and on the device's own writes.                    *)
RoutineChanged(p) ==
  /\ app[p] = "running"
  /\ \/ Receive(p)
     \/ synced[p] /\ UNCHANGED local
  /\ Unnamed(local'[p]) = {}
  /\ Refill(p, Children(local'[p]))
  /\ synced' = [synced EXCEPT ![p] = TRUE]
  /\ UNCHANGED <<serverVars, app, outbox, pages, tapped, physioVars, historyVars>>

(* ... and crashes on a child without exercisename. *)
RoutineChangedCrash(p) ==
  /\ app[p] = "running"
  /\ \/ Unnamed(Overlay(db, outbox[p], local[p])) # {}
     \/ synced[p] /\ Unnamed(local[p]) # {}
  /\ StopPatient(p, "crashed")

(* Fault: the page is opened without setting patientTapsExercise. *)
TapExerciseGlobalFault(p, e) ==
  /\ On(p, "Exec")
  /\ e \in rows[p]
  /\ listed[p] # {}
  /\ Present(p, ViewPage(e))
  /\ UNCHANGED <<serverVars, deviceVars, synced, tapped, physioVars, historyVars>>

(* Fault: the table lists the whole catalogue, not the routine. *)
TapExerciseCatalogueFault(p, e) ==
  /\ On(p, "Exec")
  /\ tapped' = [tapped EXCEPT ![p] = e]
  /\ Present(p, ViewPage(e))
  /\ UNCHANGED <<serverVars, deviceVars, synced, physioVars, historyVars>>

TapExercise(p, e) ==
  /\ On(p, "Exec")
  /\ e \in rows[p]
  /\ listed[p] # {}
  /\ tapped' = [tapped EXCEPT ![p] = e]
  /\ Present(p, ViewPage(e))
  /\ UNCHANGED <<serverVars, deviceVars, synced, physioVars, historyVars>>

(* A row outlived the emptied array: index out of range. *)
TapExerciseCrash(p) ==
  /\ On(p, "Exec")
  /\ rows[p] # {}
  /\ listed[p] = {}
  /\ StopPatient(p, "crashed")

(* The single read of PatientViewExercise; served from the device's copy,  *)
(* which the observer keeps complete.                                      *)
CountLoaded(p, i) ==
  LET r == local[p][pages[p][i].ex]
  IN /\ pages[p][i].reading
     /\ \/ r = NoRecord
        \/ r.prescribed /\ r.done # NoCount
     /\ pages' = [pages EXCEPT ![p][i].count = r.done, ![p][i].reading = FALSE]
     /\ UNCHANGED <<serverVars, deviceVars, synced, tapped, physioVars, historyVars>>

(* as! String on a missing key. *)
CountLoadedCrash(p, i) ==
  LET r == local[p][pages[p][i].ex]
  IN /\ pages[p][i].reading
     /\ r # NoRecord
     /\ ~r.prescribed \/ r.done = NoCount
     /\ StopPatient(p, "crashed")

(* Fault: the page stays after the press, with the count it had read. *)
DoneButtonStaysFault(p) ==
  LET page == Top(p)
  IN /\ On(p, "View")
     /\ page.count # NoCount
     /\ presses[page.ex] < MaxPresses
     /\ Send(p, MergeDone(tapped[p], page.count + 1))
     /\ presses' = [presses EXCEPT ![page.ex] = @ + 1]
     /\ UNCHANGED <<serverVars, app, listed, rows, patientVars, physioVars, said>>

(* Fault: the page leaves without writing. *)
DoneButtonSilentFault(p) ==
  LET page == Top(p)
  IN /\ On(p, "View")
     /\ page.count # NoCount
     /\ presses[page.ex] < MaxPresses
     /\ Present(p, ExecPage)
     /\ rows' = [rows EXCEPT ![p] = listed[p]]
     /\ presses' = [presses EXCEPT ![page.ex] = @ + 1]
     /\ UNCHANGED <<serverVars, app, outbox, local, listed, synced, tapped, physioVars, said>>

(* The press counts for the exercise the page shows; the write goes to the *)
(* exercise tapped last.                                                   *)
DoneButtonPressed(p) ==
  LET page == Top(p)
  IN /\ On(p, "View")
     /\ page.count # NoCount
     /\ presses[page.ex] < MaxPresses
     /\ Send(p, MergeDone(tapped[p], page.count + 1))
     /\ Present(p, ExecPage)
     /\ rows' = [rows EXCEPT ![p] = listed[p]]
     /\ presses' = [presses EXCEPT ![page.ex] = @ + 1]
     /\ UNCHANGED <<serverVars, app, listed, synced, tapped, physioVars, said>>

(* Int(count)! with count still "". *)
DoneButtonCrash(p) ==
  /\ On(p, "View")
  /\ Top(p).count = NoCount
  /\ Top(p).reading => "hasty" \in Events
  /\ StopPatient(p, "crashed")

OpenFeedback(p) ==
  /\ On(p, "View")
  /\ Present(p, FeedbackPage(Top(p).ex))
  /\ UNCHANGED <<serverVars, deviceVars, synced, tapped, physioVars, historyVars>>

(* Fault: all three buttons save "Good". *)
FeedbackCopiedFault(p, f) ==
  LET page == Top(p)
  IN /\ On(p, "Feedback")
     /\ Len(said[page.ex]) < MaxFeedback
     /\ Send(p, MergeFeedback(tapped[p], "Good"))
     /\ Present(p, ViewPage(tapped[p]))
     /\ said' = [said EXCEPT ![page.ex] = Append(@, f)]
     /\ UNCHANGED <<serverVars, app, listed, rows, synced, tapped, physioVars, presses>>

(* Fault: the buttons save the whole record, not its feedback alone. *)
FeedbackWholeFault(p, f) ==
  LET page == Top(p)
  IN /\ On(p, "Feedback")
     /\ Len(said[page.ex]) < MaxFeedback
     /\ Send(p, [Save(tapped[p]) EXCEPT !.text = f])
     /\ Present(p, ViewPage(tapped[p]))
     /\ said' = [said EXCEPT ![page.ex] = Append(@, f)]
     /\ UNCHANGED <<serverVars, app, listed, rows, synced, tapped, physioVars, presses>>

FeedbackPressed(p, f) ==
  LET page == Top(p)
  IN /\ On(p, "Feedback")
     /\ Len(said[page.ex]) < MaxFeedback
     /\ Send(p, MergeFeedback(tapped[p], f))
     /\ Present(p, ViewPage(tapped[p]))
     /\ said' = [said EXCEPT ![page.ex] = Append(@, f)]
     /\ UNCHANGED <<serverVars, app, listed, rows, synced, tapped, physioVars, presses>>

FeedbackBack(p) ==
  /\ On(p, "Feedback")
  /\ Present(p, ViewPage(tapped[p]))
  /\ UNCHANGED <<serverVars, deviceVars, synced, tapped, physioVars, historyVars>>

ViewBack(p) ==
  /\ On(p, "View")
  /\ Present(p, ExecPage)
  /\ rows' = [rows EXCEPT ![p] = listed[p]]
  /\ UNCHANGED <<serverVars, app, outbox, local, listed, synced, tapped,
                 physioVars, historyVars>>

(* Back to PatientRoutineTableScreen, a new full-screen page. *)
LeaveRoutine(p) ==
  /\ On(p, "Exec")
  /\ pages' = [pages EXCEPT ![p] = << >>]
  /\ UNCHANGED <<serverVars, deviceVars, synced, tapped, physioVars, historyVars>>

(* The top sheet is swiped away: the page below it is as it was left. *)
Dismiss(p) ==
  /\ "dismiss" \in Events
  /\ pages[p] # << >>
  /\ pages' = [pages EXCEPT ![p] = SubSeq(@, 1, Len(@) - 1)]
  /\ UNCHANGED <<serverVars, deviceVars, synced, tapped, physioVars, historyVars>>

KillPatient(p) ==
  /\ "kill" \in Events
  /\ app[p] = "running"
  /\ StopPatient(p, "closed")

---------------------------------------------------------------------------
(* The physiotherapist's pages. *)
Read == [page : {"routine", "exercise", "statistics"},
         ex : Exercise \cup {NoExercise}]

RoutineRead    == [page |-> "routine", ex |-> NoExercise]
ExerciseRead(e) == [page |-> "exercise", ex |-> e]
StatisticsRead == [page |-> "statistics", ex |-> NoExercise]

Ask(q, r) ==
  /\ Cardinality(reading[q]) < MaxReads
  /\ reading' = [reading EXCEPT ![q] = @ \cup {r}]

(* A row of PhysioPatientInfo is tapped, or a page above goes back; the    *)
(* new table first shows what the global array still holds.                *)
OpenRoutineInformation(q) ==
  /\ screen[q] = "other"
  /\ app'     = [app     EXCEPT ![q] = "running"]
  /\ screen'  = [screen  EXCEPT ![q] = "routine"]
  /\ rows'    = [rows    EXCEPT ![q] = listed[q]]
  /\ Ask(q, RoutineRead)
  /\ UNCHANGED <<serverVars, outbox, local, listed, patientVars, historyVars>>

Answered(q, r) ==
  /\ r \in reading[q]
  /\ reading' = [reading EXCEPT ![q] = @ \ {r}]
  /\ Receive(q)
  /\ UNCHANGED <<serverVars, app, outbox, patientVars, screen, historyVars>>

RoutineLoaded(q) ==
  /\ Answered(q, RoutineRead)
  /\ Unnamed(local'[q]) = {}
  /\ Refill(q, Children(local'[q]))

ExerciseLoaded(q, e) ==
  /\ Answered(q, ExerciseRead(e))
  /\ LET r == local'[q][e]
     IN r = NoRecord \/ (r.prescribed /\ r.feedback # NoFeedback)
  /\ UNCHANGED <<listed, rows>>

StatisticsLoaded(q) ==
  /\ Answered(q, StatisticsRead)
  /\ \A e \in Children(local'[q]) :
       local'[q][e].prescribed /\ local'[q][e].done # NoCount
  /\ UNCHANGED <<listed, rows>>

(* The `!` and `as!` of those three callbacks. *)
PhysioReadCrash(q) ==
  LET copy == Overlay(db, outbox[q], local[q])
  IN /\ \/ RoutineRead \in reading[q] /\ Unnamed(copy) # {}
        \/ \E e \in Children(copy) :
             /\ ExerciseRead(e) \in reading[q]
             /\ ~copy[e].prescribed \/ copy[e].feedback = NoFeedback
        \/ \E e \in Children(copy) :
             /\ StatisticsRead \in reading[q]
             /\ ~copy[e].prescribed \/ copy[e].done = NoCount
     /\ StopPhysio(q, "crashed")

TapRow(q, e) ==
  /\ screen[q] = "routine"
  /\ e \in rows[q]
  /\ listed[q] # {}
  /\ screen'  = [screen  EXCEPT ![q] = "other"]
  /\ Ask(q, ExerciseRead(e))
  /\ UNCHANGED <<serverVars, deviceVars, patientVars, historyVars>>

TapStatistics(q) ==
  /\ screen[q] = "routine"
  /\ screen'  = [screen  EXCEPT ![q] = "other"]
  /\ Ask(q, StatisticsRead)
  /\ UNCHANGED <<serverVars, deviceVars, patientVars, historyVars>>

DeleteRow(q, e) ==
  /\ "delete" \in Events
  /\ screen[q] = "routine"
  /\ e \in rows[q]
  /\ listed[q] # {}
  /\ Send(q, Remove(e))
  /\ listed' = [listed EXCEPT ![q] = @ \ {e}]
  /\ rows'   = [rows   EXCEPT ![q] = @ \ {e}]
  /\ UNCHANGED <<serverVars, app, patientVars, physioVars, historyVars>>

(* A row is tapped or deleted after an empty answer emptied the array. *)
RowCrash(q) ==
  /\ screen[q] = "routine"
  /\ rows[q] # {}
  /\ listed[q] = {}
  /\ StopPhysio(q, "crashed")

(* saveButtonTapped's callback, the catalogue having found the exercise:   *)
(* the whole record is written, progress included.                         *)
SaveExercise(q, e) ==
  /\ "resave" \in Events \/ (db[e] = NoRecord /\ local[q][e] = NoRecord)
  /\ Send(q, Save(e))
  /\ app' = [app EXCEPT ![q] = "running"]
  /\ UNCHANGED <<serverVars, listed, rows, patientVars, physioVars, historyVars>>

KillPhysio(q) ==
  /\ "kill" \in Events
  /\ app[q] = "running"
  /\ StopPhysio(q, "closed")

---------------------------------------------------------------------------
(* The server takes the oldest write of a device; the device's copy is up  *)
(* to date with the server when the acknowledgement arrives.               *)
Flush(d) ==
  /\ outbox[d] # << >>
  /\ db' = Apply(db, Head(outbox[d]))
  /\ outbox' = [outbox EXCEPT ![d] = Tail(@)]
  /\ local' = [local EXCEPT ![d] = Overlay(db', Tail(outbox[d]), @)]
  /\ UNCHANGED <<app, listed, rows, patientVars, physioVars, historyVars>>

(* The server takes a write, but the connection is lost before its answer: *)
(* the write stays in the queue and is sent again on the next connection.  *)
AnswerLost(d) ==
  /\ "resend" \in Events
  /\ \E i \in DOMAIN outbox[d] : db' = Apply(db, outbox[d][i])
  /\ UNCHANGED <<deviceVars, patientVars, physioVars, historyVars>>

---------------------------------------------------------------------------
Init ==
  /\ db     = Empty
  /\ app    = [d \in Device |-> "closed"]
  /\ outbox = [d \in Device |-> << >>]
  /\ local  = [d \in Device |-> Empty]
  /\ listed = [d \in Device |-> {}]
  /\ rows   = [d \in Device |-> {}]
  /\ synced = [p \in PatientDevice |-> FALSE]
  /\ pages  = [p \in PatientDevice |-> << >>]
  /\ tapped = [p \in PatientDevice |-> NoExercise]
  /\ screen  = [q \in PhysioDevice |-> "other"]
  /\ reading = [q \in PhysioDevice |-> {}]
  /\ presses = [e \in Exercise |-> 0]
  /\ said    = [e \in Exercise |-> << >>]

PatientNext(p) ==
  \/ OpenRoutine(p)
  \/ RoutineChanged(p)
  \/ RoutineChangedCrash(p)
  \/ \E e \in Exercise : TapExercise(p, e)
  \/ TapExerciseCrash(p)
  \/ \E i \in DOMAIN pages[p] : CountLoaded(p, i)
  \/ \E i \in DOMAIN pages[p] : CountLoadedCrash(p, i)
  \/ DoneButtonPressed(p)
  \/ DoneButtonCrash(p)
  \/ OpenFeedback(p)
  \/ \E f \in Feedback : FeedbackPressed(p, f)
  \/ FeedbackBack(p)
  \/ ViewBack(p)
  \/ LeaveRoutine(p)
  \/ Dismiss(p)
  \/ KillPatient(p)

PhysioNext(q) ==
  \/ OpenRoutineInformation(q)
  \/ RoutineLoaded(q)
  \/ \E e \in Exercise : ExerciseLoaded(q, e)
  \/ StatisticsLoaded(q)
  \/ PhysioReadCrash(q)
  \/ \E e \in Exercise : TapRow(q, e)
  \/ TapStatistics(q)
  \/ \E e \in Exercise : DeleteRow(q, e)
  \/ RowCrash(q)
  \/ \E e \in Exercise : SaveExercise(q, e)
  \/ KillPhysio(q)

Next ==
  \/ \E p \in PatientDevice : PatientNext(p)
  \/ \E q \in PhysioDevice : PhysioNext(q)
  \/ \E d \in Device : Flush(d)
  \/ \E d \in Device : AnswerLost(d)

Spec == Init /\ [][Next]_vars

(* A phone that stays alive and connected answers reads and sends writes;  *)
(* what people tap is not forced.                                          *)
Fairness ==
  /\ \A p \in PatientDevice : WF_vars(RoutineChanged(p))
  /\ \A d \in Device : WF_vars(Flush(d))

FairSpec == Spec /\ Fairness

---------------------------------------------------------------------------
(* Properties. *)

(* Every state is well formed: in particular no write is ever sent for an  *)
(* exercise the global patientTapsExercise does not hold.                  *)
TypeOK ==
  /\ db      \in Records
  /\ app     \in [Device -> {"closed", "running", "crashed"}]
  /\ outbox  \in [Device -> Seq(Write)]
  /\ local   \in [Device -> Records]
  /\ listed  \in [Device -> SUBSET Exercise]
  /\ rows    \in [Device -> SUBSET Exercise]
  /\ synced  \in [PatientDevice -> BOOLEAN]
  /\ pages   \in [PatientDevice -> Seq(Page)]
  /\ tapped  \in [PatientDevice -> Exercise \cup {NoExercise}]
  /\ screen  \in [PhysioDevice -> {"routine", "other"}]
  /\ reading \in [PhysioDevice -> SUBSET Read]
  /\ presses \in [Exercise -> Nat]
  /\ said    \in [Exercise -> Seq(Feedback)]

Told == [e \in Exercise |-> {said[e][i] : i \in DOMAIN said[e]}]

(* What reaches the server is what Prescription promises, whatever the     *)
(* devices, the physiotherapist and the network do, as long as pages are   *)
(* not swiped away: only a save prescribes, only a removal withdraws, and  *)
(* every count and feedback merged in comes from that very exercise.       *)
Promise == INSTANCE Prescription
             WITH record <- db, pressed <- presses, told <- Told

PrescriptionHolds == Promise!Spec

(* No screen of any device and no record of the server shows progress the  *)
(* patient did not make: a count never exceeds the presses on that         *)
(* exercise, a feedback other than the saved "Good" was given for it.      *)
Genuine(records, reached, given) ==
  \A e \in Exercise :
    /\ records[e].done <= reached[e]
    /\ records[e].feedback \in {NoFeedback, "Good"} \cup given[e]

NothingInvented ==
  /\ Genuine(db, presses, Told)
  /\ \A d \in Device : Genuine(local[d], presses, Told)

(* Every child of the routine has its name: the lists' `name!` is safe. *)
EveryChildNamed == Unnamed(db) = {}

(* No interleaving of saves, reads, merges and restarts brings an app down *)
(* by a forced unwrap, a forced cast or an index out of range.             *)
NeverCrashes == \A d \in Device : app[d] # "crashed"

(* The feedback given last, or what a save starts with.                    *)
Latest(e) == IF said[e] = << >> THEN "Good" ELSE said[e][Len(said[e])]

(* Once every write has arrived the count of a prescribed exercise is the  *)
(* number of times the patient completed it, and its feedback is the last  *)
(* one given: none is lost, counted twice or overtaken by an older one.    *)
ProgressAgrees ==
  (\A d \in Device : outbox[d] = << >>)
    => \A e \in Exercise :
         db[e].prescribed => db[e].done = presses[e] /\ db[e].feedback = Latest(e)

(* Progress the server has is not taken back, by no save and by no report  *)
(* that was made before it.                                                *)
ProgressStays ==
  [][\A e \in Exercise :
       db[e].prescribed => db'[e].prescribed /\ db'[e].done >= db[e].done]_vars

(* Every completion, and the feedback given last, reaches the server and   *)
(* stays there: no older report overtakes it.                              *)
ProgressArrives ==
  \A e \in Exercise :
    /\ \A n \in 1 .. MaxPresses :
         (presses[e] = n) ~> [](db[e].prescribed /\ db[e].done >= n)
    /\ \A n \in 1 .. MaxFeedback :
         (Len(said[e]) = n) ~> [](Len(said[e]) > n \/ db[e].feedback = Latest(e))
=============================================================================
