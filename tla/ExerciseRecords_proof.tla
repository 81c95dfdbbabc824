----------------------- MODULE ExerciseRecords_proof -----------------------
(***************************************************************************)
(* Proofs about ExerciseRecords, for every set of devices and exercises    *)
(* and every value of the bounds.                                          *)
(***************************************************************************)
EXTENDS ExerciseRecords, TLAPS

---------------------------------------------------------------------------
(* Lemmas about records, writes and the device's copy. *)

(* A write leaves the records well formed. *)
LEMMA ApplyType ==
  ASSUME NEW records \in Records, NEW w \in Write
  PROVE  Apply(records, w) \in Records
<1>1. Written(records[w.ex], w) \in Record
  BY FeedbackButtons DEF Written, Records, Record, Write, NewRecord, NoRecord,
                         NoCount, NoFeedback
<1>2. QED
  BY <1>1 DEF Apply, Records, Write

(* The device's copy stays well formed when the server's news come in. *)
LEMMA OverlayType ==
  ASSUME NEW base \in Records, NEW own \in Records, NEW queue
  PROVE  Overlay(base, queue, own) \in Records
BY DEF Overlay, Records, Record

LEMMA EmptyType == Empty \in Records
BY DEF Empty, Records, Record, NoRecord, NoCount, NoFeedback

LEMMA WriteType ==
  ASSUME NEW e \in Exercise, NEW n \in Nat, NEW f \in Feedback
  PROVE  /\ Save(e) \in Write /\ Remove(e) \in Write
         /\ MergeDone(e, n) \in Write /\ MergeFeedback(e, f) \in Write
BY FeedbackButtons DEF Save, Remove, MergeDone, MergeFeedback, Write

LEMMA PageType ==
  ASSUME NEW e \in Exercise
  PROVE  ExecPage \in Page /\ ViewPage(e) \in Page /\ FeedbackPage(e) \in Page
BY DEF ExecPage, ViewPage, FeedbackPage, Page, NoCount

(* The topmost page, its kind and its fields. *)
LEMMA TopType ==
  ASSUME TypeOK, NEW p \in PatientDevice, pages[p] # << >>
  PROVE  /\ Top(p) \in Page
         /\ Len(pages[p]) \in DOMAIN pages[p]
BY DEF TypeOK, Top

---------------------------------------------------------------------------
(* Building blocks of the actions keep the types.  A View or Feedback page *)
(* is only ever above a tap, so its buttons have an exercise to write to.  *)

TapsRecorded ==
  \A p \in PatientDevice : \A i \in DOMAIN pages[p] :
    pages[p][i].kind # "Exec" => tapped[p] \in Exercise

TypeInv == TypeOK /\ TapsRecorded

LEMMA SendType ==
  ASSUME TypeOK, NEW d \in Device, NEW w \in Write, Send(d, w)
  PROVE  /\ outbox' \in [Device -> Seq(Write)]
         /\ local' \in [Device -> Records]
<1>1. Apply(local[d], w) \in Records
  BY ApplyType DEF TypeOK
<1>2. QED
  BY <1>1 DEF TypeOK, Send

LEMMA ReceiveType ==
  ASSUME TypeOK, NEW d \in Device, Receive(d)
  PROVE  local' \in [Device -> Records]
<1>1. Overlay(db, outbox[d], local[d]) \in Records
  BY OverlayType DEF TypeOK
<1>2. QED
  BY <1>1 DEF TypeOK, Receive

LEMMA PresentType ==
  ASSUME TypeInv, NEW p \in PatientDevice, NEW page \in Page,
         Present(p, page),
         page.kind # "Exec" => tapped'[p] \in Exercise,
         tapped' = tapped \/ (tapped' \in [PatientDevice -> Exercise \cup {NoExercise}]
                              /\ tapped'[p] \in Exercise
                              /\ \A o \in PatientDevice \ {p} : tapped'[o] = tapped[o])
  PROVE  /\ pages' \in [PatientDevice -> Seq(Page)]
         /\ TapsRecorded'
<1>1. Append(pages[p], page) \in Seq(Page) /\ <<page>> \in Seq(Page)
  BY DEF TypeInv, TypeOK
<1>2. pages' \in [PatientDevice -> Seq(Page)]
  BY <1>1 DEF TypeInv, TypeOK, Present
<1>3. ASSUME NEW i \in DOMAIN pages'[p], pages'[p][i].kind # "Exec"
      PROVE  tapped'[p] \in Exercise
  <2>1. pages'[p][i] = page \/ (i \in DOMAIN pages[p] /\ pages'[p][i] = pages[p][i])
    <3>1. CASE pages' = [pages EXCEPT ![p] = Append(@, page)]
      BY <3>1, <1>1, <1>3 DEF TypeInv, TypeOK
    <3>2. CASE pages' = [pages EXCEPT ![p] = <<page>>]
      BY <3>2, <1>3 DEF TypeInv, TypeOK
    <3>3. QED
      BY <3>1, <3>2 DEF Present
  <2>2. QED
    BY <1>3, <2>1 DEF TypeInv, TapsRecorded
<1>4. ASSUME NEW o \in PatientDevice, o # p
      PROVE  pages'[o] = pages[o] /\ tapped'[o] = tapped[o]
  BY <1>4 DEF TypeInv, TypeOK, Present
<1>5. QED
  BY <1>2, <1>3, <1>4 DEF TypeInv, TapsRecorded

LEMMA StopType ==
  ASSUME TypeOK, NEW d \in Device, NEW how \in {"closed", "crashed"}, Stop(d, how)
  PROVE  /\ app'    \in [Device -> {"closed", "running", "crashed"}]
         /\ outbox' \in [Device -> Seq(Write)]
         /\ local'  \in [Device -> Records]
         /\ listed' \in [Device -> SUBSET Exercise]
         /\ rows'   \in [Device -> SUBSET Exercise]
BY EmptyType DEF TypeOK, Stop

LEMMA StopPatientType ==
  ASSUME TypeInv, NEW p \in PatientDevice, NEW how \in {"closed", "crashed"},
         StopPatient(p, how)
  PROVE  TypeInv'
<1>1. p \in Device
  BY DEF Device
<1>2. QED
  BY <1>1, StopType
  DEF TypeInv, TypeOK, TapsRecorded, StopPatient, serverVars, physioVars, historyVars

LEMMA StopPhysioType ==
  ASSUME TypeInv, NEW q \in PhysioDevice, NEW how \in {"closed", "crashed"},
         StopPhysio(q, how)
  PROVE  TypeInv'
<1>1. q \in Device
  BY DEF Device
<1>2. QED
  BY <1>1, StopType
  DEF TypeInv, TypeOK, TapsRecorded, StopPhysio, serverVars, patientVars, historyVars

---------------------------------------------------------------------------
(* Type correctness, one lemma per actor. *)

LEMMA PatientTypeOK ==
  ASSUME TypeInv, NEW p \in PatientDevice, PatientNext(p)
  PROVE  TypeInv'
<1> USE DEF serverVars, deviceVars, patientVars, physioVars, historyVars
<1>d. p \in Device
  BY DEF Device
<1>1. CASE OpenRoutine(p)
  <2>1. <<ExecPage>> \in Seq(Page) /\ \A i \in DOMAIN <<ExecPage>> : <<ExecPage>>[i].kind = "Exec"
    BY DEF ExecPage, Page, NoCount
  <2>2. pages' \in [PatientDevice -> Seq(Page)] /\ TapsRecorded'
    BY <2>1, <1>1 DEF OpenRoutine, TypeInv, TypeOK, TapsRecorded
  <2>3. QED
    BY <1>1, <1>d, <2>2 DEF OpenRoutine, TypeInv, TypeOK
<1>2. CASE RoutineChanged(p)
  <2>1. local' \in [Device -> Records]
    BY <1>2, <1>d, ReceiveType DEF RoutineChanged, TypeInv, TypeOK
  <2>2. listed' \in [Device -> SUBSET Exercise] /\ rows' \in [Device -> SUBSET Exercise]
    BY <1>2, <1>d DEF RoutineChanged, Refill, Children, TypeInv, TypeOK
  <2>3. synced' \in [PatientDevice -> BOOLEAN]
    BY <1>2 DEF RoutineChanged, TypeInv, TypeOK
  <2>4. QED
    BY <1>2, <2>1, <2>2, <2>3 DEF RoutineChanged, TypeInv, TypeOK, TapsRecorded
<1>3. CASE RoutineChangedCrash(p)
  BY <1>3, StopPatientType DEF RoutineChangedCrash
<1>4. CASE \E e \in Exercise : TapExercise(p, e)
  <2> PICK e \in Exercise : TapExercise(p, e)
    BY <1>4
  <2>1. /\ tapped' \in [PatientDevice -> Exercise \cup {NoExercise}]
        /\ tapped'[p] \in Exercise
        /\ \A o \in PatientDevice \ {p} : tapped'[o] = tapped[o]
    BY DEF TapExercise, TypeInv, TypeOK
  <2>2. pages' \in [PatientDevice -> Seq(Page)] /\ TapsRecorded'
    BY <2>1, PageType, PresentType DEF TapExercise
  <2>3. QED
    BY <2>1, <2>2 DEF TapExercise, TypeInv, TypeOK
<1>5. CASE TapExerciseCrash(p)
  BY <1>5, StopPatientType DEF TapExerciseCrash
<1>6. CASE \E i \in DOMAIN pages[p] : CountLoaded(p, i)
  <2> PICK i \in DOMAIN pages[p] : CountLoaded(p, i)
    BY <1>6
  <2> DEFINE r    == local[p][pages[p][i].ex]
             page == [pages[p][i] EXCEPT !.count = r.done, !.reading = FALSE]
  <2>1. pages[p][i] \in Page /\ pages[p][i].reading
    BY DEF CountLoaded, TypeInv, TypeOK
  <2>2. pages[p][i].ex \in Exercise
    BY <2>1 DEF Page
  <2>3. r.done \in Nat \cup {NoCount}
    BY <2>2, <1>d DEF TypeInv, TypeOK, Records, Record
  <2>4. page \in Page /\ page.kind = pages[p][i].kind
    BY <2>1, <2>3 DEF Page
  <2> HIDE DEF r, page
  <2>5. [pages[p] EXCEPT ![i] = page] \in Seq(Page)
    BY <2>4 DEF TypeInv, TypeOK
  <2>6. pages' = [pages EXCEPT ![p] = [@ EXCEPT ![i] = page]]
    BY DEF CountLoaded, page, r, TypeInv, TypeOK
  <2>7. pages' \in [PatientDevice -> Seq(Page)]
    BY <2>5, <2>6 DEF TypeInv, TypeOK
  <2>8. TapsRecorded'
    <3>1. /\ \A o \in PatientDevice \ {p} : pages'[o] = pages[o]
          /\ DOMAIN pages'[p] = DOMAIN pages[p]
          /\ \A j \in DOMAIN pages[p] : pages'[p][j].kind = pages[p][j].kind
      BY <2>4, <2>6 DEF TypeInv, TypeOK
    <3>2. UNCHANGED tapped
      BY DEF CountLoaded
    <3>3. QED
      BY <3>1, <3>2 DEF TypeInv, TapsRecorded
  <2>9. QED
    BY <2>7, <2>8 DEF CountLoaded, TypeInv, TypeOK
<1>7. CASE \E i \in DOMAIN pages[p] : CountLoadedCrash(p, i)
  BY <1>7, StopPatientType DEF CountLoadedCrash
<1>8. CASE DoneButtonPressed(p)
  <2>1. Top(p) \in Page /\ Top(p).kind = "View" /\ tapped[p] \in Exercise
    BY <1>8, TopType DEF DoneButtonPressed, On, TypeInv, TapsRecorded, Top
  <2>2. Top(p).ex \in Exercise /\ Top(p).count + 1 \in Nat
    <3>1. Top(p).ex \in Exercise /\ Top(p).count \in Nat \cup {NoCount}
      BY <2>1 DEF Page
    <3>2. Top(p).count # NoCount
      BY <1>8 DEF DoneButtonPressed
    <3>3. QED
      BY <3>1, <3>2 DEF NoCount
  <2>3. MergeDone(tapped[p], Top(p).count + 1) \in Write
    BY <2>1, <2>2, WriteType, FeedbackButtons
  <2>4. outbox' \in [Device -> Seq(Write)] /\ local' \in [Device -> Records]
    BY <1>8, <1>d, <2>3, SendType DEF DoneButtonPressed, TypeInv
  <2>5. pages' \in [PatientDevice -> Seq(Page)] /\ TapsRecorded'
    BY <1>8, <2>2, PageType, PresentType DEF DoneButtonPressed, ExecPage
  <2>6. presses' \in [Exercise -> Nat] /\ rows' \in [Device -> SUBSET Exercise]
    BY <1>8, <1>d, <2>2 DEF DoneButtonPressed, TypeInv, TypeOK
  <2>7. QED
    BY <1>8, <2>4, <2>5, <2>6 DEF DoneButtonPressed, TypeInv, TypeOK
<1>9. CASE DoneButtonCrash(p)
  BY <1>9, StopPatientType DEF DoneButtonCrash
<1>10. CASE OpenFeedback(p)
  <2>1. Top(p) \in Page /\ Top(p).kind = "View" /\ tapped[p] \in Exercise
    BY <1>10, TopType DEF OpenFeedback, On, TypeInv, TapsRecorded, Top
  <2>2. Top(p).ex \in Exercise
    BY <2>1 DEF Page
  <2>3. pages' \in [PatientDevice -> Seq(Page)] /\ TapsRecorded'
    BY <1>10, <2>1, <2>2, PageType, PresentType DEF OpenFeedback
  <2>4. QED
    BY <1>10, <2>3 DEF OpenFeedback, TypeInv, TypeOK
<1>11. CASE \E f \in Feedback : FeedbackPressed(p, f)
  <2> PICK f \in Feedback : FeedbackPressed(p, f)
    BY <1>11
  <2>1. Top(p) \in Page /\ Top(p).kind = "Feedback" /\ tapped[p] \in Exercise
    BY TopType DEF FeedbackPressed, On, TypeInv, TapsRecorded, Top
  <2>2. Top(p).ex \in Exercise
    BY <2>1 DEF Page
  <2>3. MergeFeedback(tapped[p], f) \in Write
    BY <2>1, WriteType
  <2>4. outbox' \in [Device -> Seq(Write)] /\ local' \in [Device -> Records]
    BY <1>d, <2>3, SendType DEF FeedbackPressed, TypeInv
  <2>5. pages' \in [PatientDevice -> Seq(Page)] /\ TapsRecorded'
    BY <2>1, PageType, PresentType DEF FeedbackPressed
  <2>6. said' \in [Exercise -> Seq(Feedback)]
    <3>1. Append(said[Top(p).ex], f) \in Seq(Feedback)
      BY <2>2 DEF TypeInv, TypeOK
    <3>2. QED
      BY <2>2, <3>1 DEF FeedbackPressed, TypeInv, TypeOK
  <2>7. QED
    BY <2>4, <2>5, <2>6 DEF FeedbackPressed, TypeInv, TypeOK
<1>12. CASE FeedbackBack(p)
  <2>1. tapped[p] \in Exercise
    BY <1>12, TopType DEF FeedbackBack, On, TypeInv, TapsRecorded, Top
  <2>2. pages' \in [PatientDevice -> Seq(Page)] /\ TapsRecorded'
    BY <1>12, <2>1, PageType, PresentType DEF FeedbackBack
  <2>3. QED
    BY <1>12, <2>2 DEF FeedbackBack, TypeInv, TypeOK
<1>13. CASE ViewBack(p)
  <2>1. tapped[p] \in Exercise
    BY <1>13, TopType DEF ViewBack, On, TypeInv, TapsRecorded, Top
  <2>2. pages' \in [PatientDevice -> Seq(Page)] /\ TapsRecorded'
    BY <1>13, <2>1, PageType, PresentType DEF ViewBack
  <2>3. QED
    BY <1>13, <1>d, <2>2 DEF ViewBack, TypeInv, TypeOK
<1>14. CASE LeaveRoutine(p)
  <2>1. pages' \in [PatientDevice -> Seq(Page)] /\ TapsRecorded'
    BY <1>14 DEF LeaveRoutine, TypeInv, TypeOK, TapsRecorded
  <2>2. QED
    BY <1>14, <2>1 DEF LeaveRoutine, TypeInv, TypeOK
<1>15. CASE Dismiss(p)
  <2> DEFINE below == SubSeq(pages[p], 1, Len(pages[p]) - 1)
  <2>1. pages[p] \in Seq(Page) /\ pages[p] # << >>
    BY <1>15 DEF Dismiss, TypeInv, TypeOK
  <2>2. /\ below \in Seq(Page)
        /\ \A i \in DOMAIN below : i \in DOMAIN pages[p] /\ below[i] = pages[p][i]
    BY <2>1
  <2>3. pages' = [pages EXCEPT ![p] = below]
    BY <1>15 DEF Dismiss
  <2> HIDE DEF below
  <2>4. pages' \in [PatientDevice -> Seq(Page)] /\ TapsRecorded'
    BY <1>15, <2>2, <2>3 DEF Dismiss, TypeInv, TypeOK, TapsRecorded
  <2>5. QED
    BY <1>15, <2>4 DEF Dismiss, TypeInv, TypeOK
<1>16. CASE KillPatient(p)
  BY <1>16, StopPatientType DEF KillPatient
<1>17. QED
  BY <1>1, <1>2, <1>3, <1>4, <1>5, <1>6, <1>7, <1>8, <1>9, <1>10, <1>11,
     <1>12, <1>13, <1>14, <1>15, <1>16 DEF PatientNext

LEMMA PhysioTypeOK ==
  ASSUME TypeInv, NEW q \in PhysioDevice, PhysioNext(q)
  PROVE  TypeInv'
<1> USE DEF serverVars, deviceVars, patientVars, physioVars, historyVars
<1>d. q \in Device
  BY DEF Device
<1>r. ASSUME NEW r \in Read, Answered(q, r)
      PROVE  /\ reading' \in [PhysioDevice -> SUBSET Read]
             /\ local' \in [Device -> Records]
  BY <1>r, <1>d, ReceiveType DEF Answered, TypeInv, TypeOK
<1>1. CASE OpenRoutineInformation(q)
  BY <1>1, <1>d DEF OpenRoutineInformation, Ask, RoutineRead, Read,
                    TypeInv, TypeOK, TapsRecorded
<1>2. CASE RoutineLoaded(q)
  <2>1. listed' \in [Device -> SUBSET Exercise] /\ rows' \in [Device -> SUBSET Exercise]
    BY <1>2, <1>d DEF RoutineLoaded, Refill, Children, TypeInv, TypeOK
  <2>2. RoutineRead \in Read /\ Answered(q, RoutineRead)
    BY <1>2 DEF RoutineLoaded, RoutineRead, Read
  <2>3. QED
    BY <1>r, <2>1, <2>2 DEF Answered, TypeInv, TypeOK, TapsRecorded
<1>3. CASE \E e \in Exercise : ExerciseLoaded(q, e)
  <2> PICK e \in Exercise : ExerciseLoaded(q, e)
    BY <1>3
  <2>1. ExerciseRead(e) \in Read /\ Answered(q, ExerciseRead(e))
    BY DEF ExerciseLoaded, ExerciseRead, Read
  <2>2. QED
    BY <1>r, <2>1 DEF ExerciseLoaded, Answered, TypeInv, TypeOK, TapsRecorded
<1>4. CASE StatisticsLoaded(q)
  <2>1. StatisticsRead \in Read /\ Answered(q, StatisticsRead)
    BY <1>4 DEF StatisticsLoaded, StatisticsRead, Read
  <2>2. QED
    BY <1>4, <1>r, <2>1 DEF StatisticsLoaded, Answered, TypeInv, TypeOK, TapsRecorded
<1>5. CASE PhysioReadCrash(q)
  BY <1>5, StopPhysioType DEF PhysioReadCrash
<1>6. CASE \E e \in Exercise : TapRow(q, e)
  BY <1>6 DEF TapRow, Ask, ExerciseRead, Read, TypeInv, TypeOK, TapsRecorded
<1>7. CASE TapStatistics(q)
  BY <1>7 DEF TapStatistics, Ask, StatisticsRead, Read, TypeInv, TypeOK, TapsRecorded
<1>8. CASE \E e \in Exercise : DeleteRow(q, e)
  <2> PICK e \in Exercise : DeleteRow(q, e)
    BY <1>8
  <2>1. Remove(e) \in Write
    BY WriteType, FeedbackButtons
  <2>2. outbox' \in [Device -> Seq(Write)] /\ local' \in [Device -> Records]
    BY <1>d, <2>1, SendType DEF DeleteRow, TypeInv
  <2>3. QED
    BY <1>d, <2>2 DEF DeleteRow, TypeInv, TypeOK, TapsRecorded
<1>9. CASE RowCrash(q)
  BY <1>9, StopPhysioType DEF RowCrash
<1>10. CASE \E e \in Exercise : SaveExercise(q, e)
  <2> PICK e \in Exercise : SaveExercise(q, e)
    BY <1>10
  <2>1. Save(e) \in Write
    BY WriteType, FeedbackButtons
  <2>2. outbox' \in [Device -> Seq(Write)] /\ local' \in [Device -> Records]
    BY <1>d, <2>1, SendType DEF SaveExercise, TypeInv
  <2>3. QED
    BY <1>d, <2>2 DEF SaveExercise, TypeInv, TypeOK, TapsRecorded
<1>11. CASE KillPhysio(q)
  BY <1>11, StopPhysioType DEF KillPhysio
<1>12. QED
  BY <1>1, <1>2, <1>3, <1>4, <1>5, <1>6, <1>7, <1>8, <1>9, <1>10, <1>11
  DEF PhysioNext

LEMMA FlushTypeOK ==
  ASSUME TypeInv, NEW d \in Device, Flush(d)
  PROVE  TypeInv'
<1> USE DEF serverVars, patientVars, physioVars, historyVars
<1>1. /\ Head(outbox[d]) \in Write
      /\ Tail(outbox[d]) \in Seq(Write)
  BY DEF Flush, TypeInv, TypeOK
<1>2. db' \in Records
  BY <1>1, ApplyType DEF Flush, TypeInv, TypeOK
<1>3. Overlay(db', Tail(outbox[d]), local[d]) \in Records
  BY <1>2, OverlayType DEF TypeInv, TypeOK
<1>4. QED
  BY <1>1, <1>2, <1>3 DEF Flush, TypeInv, TypeOK, TapsRecorded

LEMMA AnswerLostTypeOK ==
  ASSUME TypeInv, NEW d \in Device, AnswerLost(d)
  PROVE  TypeInv'
<1> USE DEF deviceVars, patientVars, physioVars, historyVars
<1>1. PICK i \in DOMAIN outbox[d] : db' = Apply(db, outbox[d][i])
  BY DEF AnswerLost
<1>2. outbox[d][i] \in Write
  BY DEF TypeInv, TypeOK
<1>3. db' \in Records
  BY <1>1, <1>2, ApplyType DEF TypeInv, TypeOK
<1>4. QED
  BY <1>3 DEF AnswerLost, TypeInv, TypeOK, TapsRecorded

LEMMA StepTypeOK == TypeInv /\ [Next]_vars => TypeInv'
<1> SUFFICES ASSUME TypeInv, [Next]_vars
             PROVE  TypeInv'
  OBVIOUS
<1>1. CASE \E p \in PatientDevice : PatientNext(p)
  BY <1>1, PatientTypeOK
<1>2. CASE \E q \in PhysioDevice : PhysioNext(q)
  BY <1>2, PhysioTypeOK
<1>3. CASE \E d \in Device : Flush(d)
  BY <1>3, FlushTypeOK
<1>4. CASE \E d \in Device : AnswerLost(d)
  BY <1>4, AnswerLostTypeOK
<1>5. CASE UNCHANGED vars
  BY <1>5 DEF vars, TypeInv, TypeOK, TapsRecorded
<1>6. QED
  BY <1>1, <1>2, <1>3, <1>4, <1>5 DEF Next

LEMMA InitTypeOK == Init => TypeInv
BY EmptyType DEF Init, TypeInv, TypeOK, TapsRecorded, Read

(* Every reachable state is well formed, and whatever page of the patient  *)
(* is on top, its buttons have an exercise to write to.                    *)
THEOREM TypesCorrect == Spec => []TypeInv
BY InitTypeOK, StepTypeOK, PTL DEF Spec

THEOREM TypeOKAlways == Spec => []TypeOK
<1>1. TypeInv => TypeOK
  BY DEF TypeInv
<1>2. QED
  BY <1>1, TypesCorrect, PTL

---------------------------------------------------------------------------
(* A phone shows its own writes.                                           *)

(* The write i is the last in the queue, of those with an operation in     *)
(* ops, to its exercise.                                                   *)
NewestOf(queue, i, ops) ==
  /\ queue[i].op \in ops
  /\ \A j \in DOMAIN queue : i < j /\ queue[j].op \in ops => queue[j].ex # queue[i].ex

(* The record r has what the write i makes of each key it is the last for. *)
ShownIn(queue, i, r) ==
  LET w == Written(NoRecord, queue[i])
  IN /\ NewestOf(queue, i, {"save", "remove"})             => r.prescribed = w.prescribed
     /\ NewestOf(queue, i, {"save", "remove", "done"})     => r.done = w.done
     /\ NewestOf(queue, i, {"save", "remove", "feedback"}) => r.feedback = w.feedback

OwnShown(queue, own) ==
  \A i \in DOMAIN queue : ShownIn(queue, i, own[queue[i].ex])

OwnWritesShown == \A d \in Device : OwnShown(outbox[d], local[d])

LEMMA QueueFacts ==
  ASSUME NEW queue \in Seq(Write), NEW i \in DOMAIN queue
  PROVE  /\ queue[i] \in Write /\ queue[i].ex \in Exercise
         /\ queue[i].op \in {"save", "remove", "done", "feedback"}
<1>1. queue[i] \in Write
  OBVIOUS
<1>2. QED
  BY <1>1 DEF Write

LEMMA OverlayShown ==
  ASSUME NEW base, NEW own, NEW queue \in Seq(Write), OwnShown(queue, own)
  PROVE  OwnShown(queue, Overlay(base, queue, own))
<1> DEFINE new == Overlay(base, queue, own)
<1> SUFFICES ASSUME NEW i \in DOMAIN queue
             PROVE  ShownIn(queue, i, new[queue[i].ex])
  BY DEF OwnShown
<1>1. queue[i].ex \in Exercise
  BY QueueFacts
<1>2. \A ops : NewestOf(queue, i, ops) => Pending(queue, queue[i].ex, ops)
  BY DEF NewestOf, Pending
<1>3. /\ Pending(queue, queue[i].ex, {"save", "remove"}) => new[queue[i].ex].prescribed = own[queue[i].ex].prescribed
      /\ Pending(queue, queue[i].ex, {"save", "remove", "done"}) => new[queue[i].ex].done = own[queue[i].ex].done
      /\ Pending(queue, queue[i].ex, {"save", "remove", "feedback"}) => new[queue[i].ex].feedback = own[queue[i].ex].feedback
  BY <1>1 DEF Overlay
<1> HIDE DEF new
<1>4. QED
  BY <1>2, <1>3 DEF OwnShown, ShownIn

LEMMA TailShown ==
  ASSUME NEW own, NEW queue \in Seq(Write), queue # << >>, OwnShown(queue, own)
  PROVE  OwnShown(Tail(queue), own)
<1> DEFINE rest == Tail(queue)
<1> SUFFICES ASSUME NEW i \in DOMAIN rest
             PROVE  ShownIn(rest, i, own[rest[i].ex])
  BY DEF OwnShown
<1>1. /\ \A j \in DOMAIN rest : j \in Nat /\ j + 1 \in DOMAIN queue /\ rest[j] = queue[j + 1]
      /\ \A j \in DOMAIN queue : j \in Nat /\ (j = 1 \/ (j - 1 \in DOMAIN rest /\ rest[j - 1] = queue[j]))
  OBVIOUS
<1> HIDE DEF rest
<1>2. ASSUME NEW ops, NewestOf(rest, i, ops)
      PROVE  NewestOf(queue, i + 1, ops)
  <2>1. ASSUME NEW j \in DOMAIN queue, i + 1 < j, queue[j].op \in ops
        PROVE  queue[j].ex # queue[i + 1].ex
    <3>1. j \in Nat /\ i \in Nat /\ j # 1
      BY <1>1, <2>1
    <3>2. j - 1 \in DOMAIN rest /\ rest[j - 1] = queue[j] /\ i < j - 1
      BY <1>1, <2>1, <3>1
    <3>3. QED
      BY <1>1, <1>2, <2>1, <3>2 DEF NewestOf
  <2>2. QED
    BY <1>1, <1>2, <2>1 DEF NewestOf
<1>3. i + 1 \in DOMAIN queue /\ rest[i] = queue[i + 1]
  BY <1>1
<1>4. QED
  BY <1>2, <1>3 DEF OwnShown, ShownIn

LEMMA AppendShown ==
  ASSUME NEW own \in Records, NEW queue \in Seq(Write), NEW w \in Write, OwnShown(queue, own)
  PROVE  OwnShown(Append(queue, w), Apply(own, w))
<1> DEFINE new  == Apply(own, w)
           more == Append(queue, w)
<1>1. w.ex \in Exercise /\ w.op \in {"save", "remove", "done", "feedback"}
  BY DEF Write
<1>2. /\ DOMAIN more = 1 .. Len(queue) + 1 /\ DOMAIN queue = 1 .. Len(queue) /\ Len(queue) \in Nat
      /\ more[Len(queue) + 1] = w
      /\ \A i \in DOMAIN queue : i \in DOMAIN more /\ more[i] = queue[i] /\ queue[i].ex \in Exercise
  BY QueueFacts
<1>3. \A e \in Exercise : e # w.ex => new[e] = own[e]
  BY <1>1 DEF Apply, Records
<1>4. /\ w.op \in {"save", "remove"} => new[w.ex].prescribed = Written(NoRecord, w).prescribed
      /\ w.op \in {"save", "remove", "done"} => new[w.ex].done = Written(NoRecord, w).done
      /\ w.op \in {"save", "remove", "feedback"} => new[w.ex].feedback = Written(NoRecord, w).feedback
  BY <1>1 DEF Apply, Written, Records, Record, NoRecord, NewRecord
<1>5. /\ w.op \notin {"save", "remove"} => new[w.ex].prescribed = own[w.ex].prescribed
      /\ w.op \notin {"save", "remove", "done"} => new[w.ex].done = own[w.ex].done
      /\ w.op \notin {"save", "remove", "feedback"} => new[w.ex].feedback = own[w.ex].feedback
  BY <1>1 DEF Apply, Written, Records, Record
<1> HIDE DEF new, more
<1> SUFFICES ASSUME NEW i \in DOMAIN more
             PROVE  ShownIn(more, i, new[more[i].ex])
  BY DEF OwnShown, new, more
<1>6. CASE i = Len(queue) + 1
  BY <1>2, <1>4, <1>6 DEF NewestOf, ShownIn
<1>7. CASE i \in DOMAIN queue
  <2>1. more[i] = queue[i] /\ queue[i].ex \in Exercise
    BY <1>2, <1>7
  <2>2. i < Len(queue) + 1 /\ Len(queue) + 1 \in DOMAIN more
    BY <1>2, <1>7
  <2>3. ASSUME NEW ops, NewestOf(more, i, ops)
        PROVE  NewestOf(queue, i, ops) /\ (w.ex = queue[i].ex => w.op \notin ops)
    BY <1>2, <1>7, <2>1, <2>2, <2>3 DEF NewestOf
  <2>4. w.ex # queue[i].ex => new[queue[i].ex] = own[queue[i].ex]
    BY <1>3, <2>1
  <2>5. QED
    BY <1>5, <1>7, <2>1, <2>3, <2>4 DEF OwnShown, ShownIn
<1>8. QED
  BY <1>2, <1>6, <1>7

LEMMA NothingShown ==
  ASSUME NEW own
  PROVE  OwnShown(<< >>, own)
BY DEF OwnShown

LEMMA ShownElsewhere ==
  ASSUME OwnWritesShown, NEW d \in Device, OwnShown(outbox'[d], local'[d]),
         \A o \in Device \ {d} : outbox'[o] = outbox[o] /\ local'[o] = local[o]
  PROVE  OwnWritesShown'
BY DEF OwnWritesShown

LEMMA SendShown ==
  ASSUME TypeInv, OwnWritesShown, NEW d \in Device, NEW w \in Write, Send(d, w)
  PROVE  OwnWritesShown'
<1>1. outbox'[d] = Append(outbox[d], w) /\ local'[d] = Apply(local[d], w)
  BY DEF Send, TypeInv, TypeOK
<1>2. OwnShown(outbox'[d], local'[d])
  BY <1>1, AppendShown DEF OwnWritesShown, TypeInv, TypeOK
<1>3. \A o \in Device \ {d} : outbox'[o] = outbox[o] /\ local'[o] = local[o]
  BY DEF Send, TypeInv, TypeOK
<1>4. QED
  BY <1>2, <1>3, ShownElsewhere

LEMMA ReceiveShown ==
  ASSUME TypeInv, OwnWritesShown, NEW d \in Device, Receive(d), UNCHANGED outbox
  PROVE  OwnWritesShown'
<1>1. local'[d] = Overlay(db, outbox[d], local[d])
  BY DEF Receive, TypeInv, TypeOK
<1>2. OwnShown(outbox'[d], local'[d])
  BY <1>1, OverlayShown DEF OwnWritesShown, TypeInv, TypeOK
<1>3. \A o \in Device \ {d} : outbox'[o] = outbox[o] /\ local'[o] = local[o]
  BY DEF Receive, TypeInv, TypeOK
<1>4. QED
  BY <1>2, <1>3, ShownElsewhere

LEMMA StopShown ==
  ASSUME TypeInv, OwnWritesShown, NEW d \in Device, NEW how, Stop(d, how)
  PROVE  OwnWritesShown'
<1>1. outbox'[d] = << >> /\ \A o \in Device \ {d} : outbox'[o] = outbox[o] /\ local'[o] = local[o]
  BY DEF Stop, TypeInv, TypeOK
<1>2. QED
  BY <1>1, NothingShown, ShownElsewhere

LEMMA FlushShown ==
  ASSUME TypeInv, OwnWritesShown, NEW d \in Device, Flush(d)
  PROVE  OwnWritesShown'
<1>1. /\ outbox[d] \in Seq(Write) /\ outbox[d] # << >> /\ Tail(outbox[d]) \in Seq(Write)
      /\ outbox'[d] = Tail(outbox[d])
      /\ local'[d] = Overlay(db', Tail(outbox[d]), local[d])
  BY DEF Flush, TypeInv, TypeOK
<1>2. OwnShown(outbox'[d], local'[d])
  BY <1>1, TailShown, OverlayShown DEF OwnWritesShown
<1>3. \A o \in Device \ {d} : outbox'[o] = outbox[o] /\ local'[o] = local[o]
  BY DEF Flush, TypeInv, TypeOK
<1>4. QED
  BY <1>2, <1>3, ShownElsewhere

LEMMA StepShown == TypeInv /\ OwnWritesShown /\ [Next]_vars => OwnWritesShown'
<1> SUFFICES ASSUME TypeInv, OwnWritesShown, [Next]_vars
             PROVE  OwnWritesShown'
  OBVIOUS
<1> USE DEF serverVars, deviceVars, patientVars, physioVars, historyVars
<1>u. ASSUME UNCHANGED <<outbox, local>>
      PROVE  OwnWritesShown'
  BY <1>u DEF OwnWritesShown
<1>1. ASSUME NEW p \in PatientDevice, PatientNext(p)
      PROVE  OwnWritesShown'
  <2>d. p \in Device
    BY DEF Device
  <2>1. CASE RoutineChanged(p)
    BY <1>u, <2>d, <2>1, ReceiveShown DEF RoutineChanged
  <2>2. CASE DoneButtonPressed(p)
    <3>1. Top(p) \in Page /\ tapped[p] \in Exercise /\ Top(p).count \in Nat
      <4>1. Top(p) \in Page /\ Len(pages[p]) \in DOMAIN pages[p]
        BY <2>2, TopType DEF DoneButtonPressed, On, TypeInv
      <4>2. tapped[p] \in Exercise
        BY <2>2, <4>1 DEF DoneButtonPressed, On, Top, TypeInv, TapsRecorded
      <4>3. QED
        BY <2>2, <4>1, <4>2 DEF DoneButtonPressed, On, Page
    <3>2. MergeDone(tapped[p], Top(p).count + 1) \in Write
      BY <3>1, WriteType, FeedbackButtons
    <3>3. QED
      BY <2>2, <2>d, <3>2, SendShown DEF DoneButtonPressed
  <2>3. CASE \E f \in Feedback : FeedbackPressed(p, f)
    <3> PICK f \in Feedback : FeedbackPressed(p, f)
      BY <2>3
    <3>1. tapped[p] \in Exercise
      BY TopType DEF FeedbackPressed, On, Top, TypeInv, TapsRecorded
    <3>2. MergeFeedback(tapped[p], f) \in Write
      BY <3>1, WriteType
    <3>3. QED
      BY <2>d, <3>2, SendShown DEF FeedbackPressed
  <2>4. CASE \E how : StopPatient(p, how)
    BY <2>4, <2>d, StopShown DEF StopPatient
  <2>5. CASE UNCHANGED <<outbox, local>>
    BY <1>u, <2>5
  <2>6. QED
    BY <1>1, <2>1, <2>2, <2>3, <2>4, <2>5
    DEF PatientNext, OpenRoutine, RoutineChangedCrash, TapExercise, TapExerciseCrash, CountLoaded,
        CountLoadedCrash, DoneButtonCrash, OpenFeedback, FeedbackBack, ViewBack,
        LeaveRoutine, Dismiss, KillPatient
<1>2. ASSUME NEW q \in PhysioDevice, PhysioNext(q)
      PROVE  OwnWritesShown'
  <2>d. q \in Device
    BY DEF Device
  <2>1. CASE \E r : Answered(q, r)
    BY <2>1, <2>d, ReceiveShown DEF Answered
  <2>2. CASE \E e \in Exercise : DeleteRow(q, e) \/ SaveExercise(q, e)
    <3>1. PICK e \in Exercise : Send(q, Remove(e)) \/ Send(q, Save(e))
      BY <2>2 DEF DeleteRow, SaveExercise
    <3>2. Remove(e) \in Write /\ Save(e) \in Write
      BY WriteType, FeedbackButtons
    <3>3. QED
      BY <2>d, <3>1, <3>2, SendShown
  <2>3. CASE \E how : StopPhysio(q, how)
    BY <2>3, <2>d, StopShown DEF StopPhysio
  <2>4. CASE UNCHANGED <<outbox, local>>
    BY <1>u, <2>4
  <2>5. QED
    BY <1>2, <2>1, <2>2, <2>3, <2>4
    DEF PhysioNext, OpenRoutineInformation, RoutineLoaded, ExerciseLoaded, StatisticsLoaded,
        PhysioReadCrash, TapRow, TapStatistics, RowCrash, KillPhysio
<1>3. ASSUME NEW d \in Device, Flush(d)
      PROVE  OwnWritesShown'
  BY <1>3, FlushShown
<1>4. ASSUME NEW d \in Device, AnswerLost(d)
      PROVE  OwnWritesShown'
  BY <1>4, <1>u DEF AnswerLost
<1>5. CASE UNCHANGED vars
  BY <1>5, <1>u DEF vars
<1>6. QED
  BY <1>1, <1>2, <1>3, <1>4, <1>5 DEF Next

(* Whatever arrives from the server, and in whatever order writes are      *)
(* acknowledged, or sent again after a lost connection: a phone shows of   *)
(* every key what its own last unsent write makes of it.                   *)
THEOREM PhonesShowOwnWrites == Spec => []OwnWritesShown
<1>1. Init => OwnWritesShown
  BY NothingShown DEF Init, OwnWritesShown, OwnShown
<1>2. QED
  BY <1>1, StepShown, TypesCorrect, PTL DEF Spec
=============================================================================
