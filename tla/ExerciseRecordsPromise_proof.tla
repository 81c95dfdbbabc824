-------------------- MODULE ExerciseRecordsPromise_proof -------------------
(***************************************************************************)
(* ExerciseRecords implements Prescription as long as pages cannot be      *)
(* swiped away: whatever deletions, re-saves, restarts, impatient presses  *)
(* and second phones do, what reaches the server for an exercise is        *)
(* progress the patient made, and feedback the patient gave, for it.       *)
(*                                                                         *)
(* The count of a merge is computed from a page that read it some time     *)
(* earlier, so the invariant bounds the counts at every place they rest:   *)
(* server, copies, pages and unsent writes; and it says that the page on   *)
(* top shows the exercise its buttons write to.                            *)
(***************************************************************************)
EXTENDS ExerciseRecords_proof

(* An unsent merge carries progress reached, or feedback given. *)
GenuineWrite(w, reached, given) ==
  /\ w.op = "done" => w.count \in 1 .. reached[w.ex]
  /\ w.op = "feedback" => w.text \in given[w.ex]

(* A page shows the exercise tapped last and a count once reached. *)
GenuinePage(page, last, reached) ==
  page.kind # "Exec" => page.ex = last /\ page.count <= reached[last]

GenuineQueues ==
  \A d \in Device : \A i \in DOMAIN outbox[d] :
    GenuineWrite(outbox[d][i], presses, Told)

GenuinePages ==
  \A p \in PatientDevice : \A i \in DOMAIN pages[p] :
    GenuinePage(pages[p][i], tapped[p], presses)

GenuineInv == NothingInvented /\ GenuineQueues /\ GenuinePages

---------------------------------------------------------------------------
(* Progress is only ever added, so what was genuine stays genuine. *)

Reached == [Exercise -> Nat]
Given   == [Exercise -> SUBSET Feedback]

LEMMA HistoryType == TypeInv => presses \in Reached /\ Told \in Given
<1> SUFFICES ASSUME TypeInv
             PROVE  presses \in Reached /\ Told \in Given
  OBVIOUS
<1>1. ASSUME NEW e \in Exercise
      PROVE  {said[e][i] : i \in DOMAIN said[e]} \subseteq Feedback
  BY DEF TypeInv, TypeOK
<1>2. QED
  BY <1>1 DEF TypeInv, TypeOK, Reached, Given, Told

LEMMA HistoryTypeNext == TypeInv' => presses' \in Reached /\ Told' \in Given
<1> SUFFICES ASSUME TypeInv'
             PROVE  presses' \in Reached /\ Told' \in Given
  OBVIOUS
<1>1. ASSUME NEW e \in Exercise
      PROVE  {said'[e][i] : i \in DOMAIN said'[e]} \subseteq Feedback
  BY DEF TypeInv, TypeOK
<1>2. QED
  BY <1>1 DEF TypeInv, TypeOK, Reached, Given, Told

Grow(reached, more, given, fuller) ==
  \A e \in Exercise : reached[e] <= more[e] /\ given[e] \subseteq fuller[e]

LEMMA StaysGenuine ==
  ASSUME NEW reached \in Reached, NEW more \in Reached,
         NEW given \in Given, NEW fuller \in Given, Grow(reached, more, given, fuller)
  PROVE  /\ \A records \in Records :
              Genuine(records, reached, given) => Genuine(records, more, fuller)
         /\ \A w \in Write :
              GenuineWrite(w, reached, given) => GenuineWrite(w, more, fuller)
         /\ \A page \in Page : \A last \in Exercise :
              GenuinePage(page, last, reached) => GenuinePage(page, last, more)
<1>1. \A e \in Exercise : reached[e] \in Nat /\ more[e] \in Nat
  BY DEF Reached
<1>2. ASSUME NEW records \in Records, Genuine(records, reached, given)
      PROVE  Genuine(records, more, fuller)
  <2>1. \A e \in Exercise : records[e].done \in Nat \cup {NoCount}
    BY DEF Records, Record
  <2>2. QED
    BY <1>1, <1>2, <2>1 DEF Genuine, Grow, NoCount
<1>3. ASSUME NEW w \in Write, GenuineWrite(w, reached, given)
      PROVE  GenuineWrite(w, more, fuller)
  <2>1. w.ex \in Exercise /\ w.count \in Nat
    BY DEF Write
  <2>2. QED
    BY <1>1, <1>3, <2>1 DEF GenuineWrite, Grow
<1>4. ASSUME NEW page \in Page, NEW last \in Exercise, GenuinePage(page, last, reached)
      PROVE  GenuinePage(page, last, more)
  <2>1. page.count \in Nat \cup {NoCount}
    BY DEF Page
  <2>2. QED
    BY <1>1, <1>4, <2>1 DEF GenuinePage, Grow, NoCount
<1>5. QED
  BY <1>2, <1>3, <1>4

(* The data steps: a write applied, the server's news merged. *)
LEMMA ApplyGenuine ==
  ASSUME NEW reached \in Reached, NEW given \in Given, NEW records \in Records,
         NEW w \in Write, Genuine(records, reached, given), GenuineWrite(w, reached, given)
  PROVE  Genuine(Apply(records, w), reached, given)
<1>1. w.ex \in Exercise /\ w.op \in {"save", "remove", "done", "feedback"} /\ w.count \in Nat
  BY DEF Write
<1>2. \A e \in Exercise : Apply(records, w)[e] = IF e = w.ex THEN Written(records[e], w) ELSE records[e]
  BY <1>1 DEF Apply, Records
<1>3. reached[w.ex] \in Nat
  BY <1>1 DEF Reached
<1>4. /\ Written(records[w.ex], w).done <= reached[w.ex]
      /\ Written(records[w.ex], w).feedback \in {NoFeedback, "Good"} \cup given[w.ex]
  <2>1. CASE w.op = "save"
    BY <2>1, <1>3 DEF Written, NewRecord
  <2>2. CASE w.op = "remove"
    BY <2>2, <1>3 DEF Written, NoRecord, NoCount
  <2>3. CASE w.op = "done"
    <3>1. Written(records[w.ex], w) = [records[w.ex] EXCEPT !.done = w.count]
      BY <2>3 DEF Written
    <3>2. records[w.ex] \in Record
      BY <1>1 DEF Records
    <3>3. QED
      BY <2>3, <3>1, <3>2, <1>1, <1>3 DEF Record, Genuine, GenuineWrite
  <2>4. CASE w.op = "feedback"
    <3>1. Written(records[w.ex], w) = [records[w.ex] EXCEPT !.feedback = w.text]
      BY <2>4 DEF Written
    <3>2. records[w.ex] \in Record
      BY <1>1 DEF Records
    <3>3. QED
      BY <2>4, <3>1, <3>2, <1>1 DEF Record, Genuine, GenuineWrite
  <2>5. QED
    BY <1>1, <2>1, <2>2, <2>3, <2>4
<1>5. QED
  BY <1>2, <1>4 DEF Genuine

LEMMA OverlayGenuine ==
  ASSUME NEW reached, NEW given, NEW base, NEW own, NEW queue,
         Genuine(base, reached, given), Genuine(own, reached, given)
  PROVE  Genuine(Overlay(base, queue, own), reached, given)
BY DEF Genuine, Overlay

---------------------------------------------------------------------------
(* The building blocks of the actions. *)

LEMMA GenuineType ==
  ASSUME TypeInv
  PROVE  /\ db \in Records /\ presses \in Reached /\ Told \in Given
         /\ \A d \in Device : local[d] \in Records /\ outbox[d] \in Seq(Write)
         /\ \A d \in Device : \A i \in DOMAIN outbox[d] : outbox[d][i] \in Write
         /\ \A p \in PatientDevice : pages[p] \in Seq(Page)
         /\ \A p \in PatientDevice : \A i \in DOMAIN pages[p] : pages[p][i] \in Page
<1>1. ASSUME NEW d \in Device
      PROVE  /\ local[d] \in Records /\ outbox[d] \in Seq(Write)
             /\ \A i \in DOMAIN outbox[d] : outbox[d][i] \in Write
  BY DEF TypeInv, TypeOK
<1>2. ASSUME NEW p \in PatientDevice
      PROVE  pages[p] \in Seq(Page) /\ \A i \in DOMAIN pages[p] : pages[p][i] \in Page
  BY DEF TypeInv, TypeOK
<1>3. QED
  BY <1>1, <1>2, HistoryType DEF TypeInv, TypeOK

GenuineData == NothingInvented /\ GenuineQueues

(* No write leaves or enters a device, but it may hear news or stop. *)
LEMMA QuietGenuine ==
  ASSUME TypeInv, GenuineInv, UNCHANGED <<db, presses, said>>,
         \A d \in Device :
           \/ outbox'[d] = outbox[d] /\ local'[d] = local[d]
           \/ outbox'[d] = outbox[d] /\ local'[d] = Overlay(db, outbox[d], local[d])
           \/ outbox'[d] = << >> /\ local'[d] = Empty
  PROVE  GenuineData'
<1>1. Told' = Told
  BY DEF Told
<1>2. Genuine(db, presses, Told) /\ \A d \in Device : Genuine(local[d], presses, Told)
  BY DEF GenuineInv, NothingInvented
<1>3. Genuine(Empty, presses, Told)
  BY GenuineType DEF Genuine, Empty, NoRecord, NoCount, Reached
<1>4. ASSUME NEW d \in Device
      PROVE  /\ Genuine(local'[d], presses, Told)
             /\ \A i \in DOMAIN outbox'[d] : GenuineWrite(outbox'[d][i], presses, Told)
  <2>1. CASE outbox'[d] = outbox[d] /\ local'[d] = local[d]
    BY <2>1, <1>2 DEF GenuineInv, GenuineQueues
  <2>2. CASE outbox'[d] = outbox[d] /\ local'[d] = Overlay(db, outbox[d], local[d])
    BY <2>2, <1>2, OverlayGenuine DEF GenuineInv, GenuineQueues
  <2>3. CASE outbox'[d] = << >> /\ local'[d] = Empty
    BY <2>3, <1>3
  <2>4. QED
    BY <2>1, <2>2, <2>3
<1>5. QED
  BY <1>1, <1>2, <1>4 DEF GenuineData, NothingInvented, GenuineQueues

(* A device writes. *)
LEMMA SendGenuine ==
  ASSUME TypeInv, TypeInv', GenuineInv, NEW d \in Device, NEW w \in Write, Send(d, w),
         UNCHANGED db, Grow(presses, presses', Told, Told'),
         GenuineWrite(w, presses', Told')
  PROVE  GenuineData'
<1>t. presses' \in Reached /\ Told' \in Given
  BY HistoryTypeNext
<1>1. \A records \in Records :
        Genuine(records, presses, Told) => Genuine(records, presses', Told')
  BY <1>t, GenuineType, StaysGenuine
<1>2. \A v \in Write :
        GenuineWrite(v, presses, Told) => GenuineWrite(v, presses', Told')
  BY <1>t, GenuineType, StaysGenuine
<1>3. ASSUME NEW o \in Device
      PROVE  Genuine(local'[o], presses', Told')
  <2>1. local[o] \in Records /\ Genuine(local[o], presses', Told')
    BY <1>1, GenuineType DEF GenuineInv, NothingInvented
  <2>2. local'[o] = local[o] \/ local'[o] = Apply(local[o], w)
    BY DEF Send, TypeInv, TypeOK
  <2>3. QED
    BY <1>t, <2>1, <2>2, ApplyGenuine
<1>4. ASSUME NEW o \in Device, NEW i \in DOMAIN outbox'[o]
      PROVE  GenuineWrite(outbox'[o][i], presses', Told')
  <2>1. outbox[o] \in Seq(Write) /\ (outbox'[o] = outbox[o] \/ outbox'[o] = Append(outbox[o], w))
    BY DEF Send, TypeInv, TypeOK
  <2>2. outbox'[o][i] = w \/ (i \in DOMAIN outbox[o] /\ outbox'[o][i] = outbox[o][i])
    BY <2>1
  <2>3. QED
    BY <1>2, <2>2, GenuineType DEF GenuineInv, GenuineQueues
<1>5. Genuine(db, presses', Told')
  BY <1>1, GenuineType DEF GenuineInv, NothingInvented
<1>6. QED
  BY <1>3, <1>4, <1>5 DEF GenuineData, NothingInvented, GenuineQueues

(* The pages a patient does not touch stay genuine. *)
LEMMA PagesStay ==
  ASSUME TypeInv, TypeInv', GenuineInv, Grow(presses, presses', Told, Told'),
         NEW p \in PatientDevice, pages'[p] = pages[p], tapped'[p] = tapped[p]
  PROVE  \A i \in DOMAIN pages'[p] : GenuinePage(pages'[p][i], tapped'[p], presses')
<1>t. presses' \in Reached /\ Told' \in Given
  BY HistoryTypeNext
<1>1. \A page \in Page : \A last \in Exercise :
        GenuinePage(page, last, presses) => GenuinePage(page, last, presses')
  BY <1>t, GenuineType, StaysGenuine
<1>2. ASSUME NEW i \in DOMAIN pages[p]
      PROVE  GenuinePage(pages[p][i], tapped[p], presses')
  <2>1. pages[p][i] \in Page /\ GenuinePage(pages[p][i], tapped[p], presses)
    BY GenuineType DEF GenuineInv, GenuinePages
  <2>2. pages[p][i].kind = "Exec" \/ tapped[p] \in Exercise
    BY DEF TypeInv, TapsRecorded
  <2>3. QED
    BY <1>1, <2>1, <2>2 DEF GenuinePage
<1>3. QED
  BY <1>2

(* Without sheets, what is presented replaces what was there. *)
LEMMA PresentGenuine ==
  ASSUME "dismiss" \notin Events, TypeInv, TypeInv', GenuineInv,
         Grow(presses, presses', Told, Told'),
         NEW p \in PatientDevice, NEW page \in Page, Present(p, page),
         GenuinePage(page, tapped'[p], presses'),
         \A o \in PatientDevice \ {p} : tapped'[o] = tapped[o]
  PROVE  GenuinePages'
<1>1. pages'[p] = <<page>> /\ \A o \in PatientDevice \ {p} : pages'[o] = pages[o]
  BY DEF Present, TypeInv, TypeOK
<1>2. ASSUME NEW o \in PatientDevice
      PROVE  \A i \in DOMAIN pages'[o] : GenuinePage(pages'[o][i], tapped'[o], presses')
  <2>1. CASE o = p
    BY <2>1, <1>1
  <2>2. CASE o # p
    BY <2>2, <1>1, PagesStay
  <2>3. QED
    BY <2>1, <2>2
<1>3. QED
  BY <1>2 DEF GenuinePages

LEMMA StopGenuine ==
  ASSUME TypeInv, TypeInv', GenuineInv, NEW d \in Device, NEW how, Stop(d, how),
         UNCHANGED <<db, presses, said>>,
         \A p \in PatientDevice :
           \/ pages'[p] = pages[p] /\ tapped'[p] = tapped[p]
           \/ pages'[p] = << >>
  PROVE  GenuineInv'
<1>1. GenuineData'
  <2>1. ASSUME NEW o \in Device
        PROVE  \/ outbox'[o] = outbox[o] /\ local'[o] = local[o]
               \/ outbox'[o] = << >> /\ local'[o] = Empty
    BY DEF Stop, TypeInv, TypeOK
  <2>2. QED
    BY <2>1, QuietGenuine
<1>2. Grow(presses, presses', Told, Told')
  BY GenuineType DEF Grow, Reached, Told
<1>3. GenuinePages'
  BY <1>2, PagesStay DEF GenuinePages
<1>4. QED
  BY <1>1, <1>3 DEF GenuineInv, GenuineData

(* Feedback given is feedback told, and nothing else changes. *)
LEMMA ToldAppend ==
  ASSUME TypeInv, NEW e \in Exercise, NEW f \in Feedback,
         said' = [said EXCEPT ![e] = Append(@, f)]
  PROVE  Told' = [Told EXCEPT ![e] = @ \cup {f}]
<1> DEFINE Set(s) == {s[i] : i \in DOMAIN s}
<1>1. said[e] \in Seq(Feedback)
  BY DEF TypeInv, TypeOK
<1>2. Set(Append(said[e], f)) = Set(said[e]) \cup {f}
  <2>1. DOMAIN Append(said[e], f) = DOMAIN said[e] \cup {Len(said[e]) + 1}
    BY <1>1
  <2>2. /\ \A i \in DOMAIN said[e] : Append(said[e], f)[i] = said[e][i]
        /\ Append(said[e], f)[Len(said[e]) + 1] = f
    BY <1>1
  <2>3. QED
    BY <2>1, <2>2
<1>3. \A x \in Exercise : said'[x] = IF x = e THEN Append(said[e], f) ELSE said[x]
  BY DEF TypeInv, TypeOK
<1>4. \A x \in Exercise : Told[x] = Set(said[x]) /\ Told'[x] = Set(said'[x])
  BY DEF Told
<1> HIDE DEF Set
<1>5. \A x \in Exercise : Told'[x] = IF x = e THEN Told[e] \cup {f} ELSE Told[x]
  BY <1>2, <1>3, <1>4
<1>6. QED
  BY <1>5 DEF Told

(* Pages opened for the exercise just tapped, or for none, are genuine. *)
LEMMA NewPagesGenuine ==
  ASSUME NEW reached \in Reached, NEW e \in Exercise, NEW last
  PROVE  /\ GenuinePage(ExecPage, last, reached)
         /\ GenuinePage(ViewPage(e), e, reached)
         /\ GenuinePage(FeedbackPage(e), e, reached)
BY DEF GenuinePage, ExecPage, ViewPage, FeedbackPage, NoCount, Reached

(* The page on top: its exercise is the one its buttons write to. *)
LEMMA TopGenuine ==
  ASSUME TypeInv, GenuineInv, NEW p \in PatientDevice, pages[p] # << >>,
         Top(p).kind # "Exec"
  PROVE  /\ Top(p) \in Page /\ tapped[p] \in Exercise
         /\ Top(p).ex = tapped[p]
         /\ Top(p).count \in Nat \cup {NoCount} /\ Top(p).count <= presses[tapped[p]]
<1>1. Top(p) \in Page /\ Len(pages[p]) \in DOMAIN pages[p]
  BY TopType DEF TypeInv
<1>2. tapped[p] \in Exercise /\ GenuinePage(Top(p), tapped[p], presses)
  BY <1>1 DEF Top, TypeInv, TapsRecorded, GenuineInv, GenuinePages
<1>3. Top(p).count \in Nat \cup {NoCount}
  BY <1>1 DEF Page
<1>4. QED
  BY <1>1, <1>2, <1>3 DEF GenuinePage

(* The server and the devices did not write, the patient did not report. *)
LEMMA StillGenuine ==
  ASSUME TypeInv, GenuineInv, UNCHANGED <<db, presses, said, outbox>>,
         \A d \in Device :
           local'[d] = local[d] \/ local'[d] = Overlay(db, outbox[d], local[d])
  PROVE  GenuineData' /\ Grow(presses, presses', Told, Told')
<1>1. GenuineData'
  BY QuietGenuine
<1>2. Grow(presses, presses', Told, Told')
  BY HistoryType DEF Grow, Reached, Told
<1>3. QED
  BY <1>1, <1>2

---------------------------------------------------------------------------
(* One lemma per kind of step. *)

LEMMA CountLoadedGenuine ==
  ASSUME TypeInv, TypeInv', GenuineInv, NEW p \in PatientDevice,
         NEW i \in DOMAIN pages[p], CountLoaded(p, i)
  PROVE  GenuineInv'
<1> USE DEF serverVars, deviceVars, physioVars, historyVars
<1> DEFINE r    == local[p][pages[p][i].ex]
           page == [pages[p][i] EXCEPT !.count = r.done, !.reading = FALSE]
<1>1. GenuineData' /\ Grow(presses, presses', Told, Told')
  BY StillGenuine DEF CountLoaded
<1>2. pages[p][i] \in Page /\ pages[p][i].reading
  BY GenuineType DEF CountLoaded
<1>3. pages[p][i].ex \in Exercise /\ pages[p][i].kind # "Exec"
  BY <1>2 DEF Page
<1>4. pages[p][i].ex = tapped[p]
  BY <1>3 DEF GenuineInv, GenuinePages, GenuinePage
<1>5. r.done <= presses[tapped[p]]
  BY <1>3, <1>4 DEF GenuineInv, NothingInvented, Genuine, Device
<1>6. page.kind = pages[p][i].kind /\ page.ex = pages[p][i].ex /\ page.count = r.done
  BY <1>2 DEF Page
<1>7. UNCHANGED <<presses, tapped>>
  BY DEF CountLoaded
<1> HIDE DEF r, page
<1>8. GenuinePage(page, tapped'[p], presses')
  BY <1>4, <1>5, <1>6, <1>7 DEF GenuinePage
<1>9. pages' = [pages EXCEPT ![p] = [@ EXCEPT ![i] = page]]
  BY DEF CountLoaded, page, r, TypeInv, TypeOK
<1>10. ASSUME NEW o \in PatientDevice, NEW j \in DOMAIN pages'[o]
       PROVE  GenuinePage(pages'[o][j], tapped'[o], presses')
  <2>1. j \in DOMAIN pages[o] /\ (pages'[o][j] = pages[o][j] \/ (o = p /\ pages'[o][j] = page))
    BY <1>9 DEF TypeInv, TypeOK
  <2>2. QED
    BY <1>7, <1>8, <2>1 DEF GenuineInv, GenuinePages
<1>11. QED
  BY <1>1, <1>10 DEF GenuineInv, GenuineData, GenuinePages

LEMMA DoneGenuine ==
  ASSUME "dismiss" \notin Events, TypeInv, TypeInv', GenuineInv,
         NEW p \in PatientDevice, DoneButtonPressed(p)
  PROVE  GenuineInv'
<1> USE DEF serverVars, physioVars
<1> DEFINE e == Top(p).ex
           w == MergeDone(tapped[p], Top(p).count + 1)
<1>1. /\ e = tapped[p] /\ e \in Exercise
      /\ Top(p).count \in Nat /\ Top(p).count <= presses[e]
  BY TopGenuine DEF DoneButtonPressed, On
<1>2. presses \in Reached /\ Told \in Given
  BY HistoryType
<1>3. presses' = [presses EXCEPT ![e] = @ + 1] /\ Told' = Told
  BY DEF DoneButtonPressed, Told
<1>4. w \in Write /\ w.op = "done" /\ w.ex = e /\ w.count = Top(p).count + 1
  BY <1>1, WriteType, FeedbackButtons DEF MergeDone
<1> HIDE DEF e, w
<1>5. Grow(presses, presses', Told, Told')
  BY <1>1, <1>2, <1>3 DEF Grow, Reached
<1>6. GenuineWrite(w, presses', Told')
  <2>1. presses'[e] = presses[e] + 1 /\ presses[e] \in Nat
    BY <1>1, <1>2, <1>3 DEF Reached
  <2>2. QED
    BY <1>1, <1>4, <2>1 DEF GenuineWrite
<1>7. GenuineData'
  <2>1. p \in Device /\ Send(p, w) /\ UNCHANGED db
    BY DEF Device, DoneButtonPressed, w
  <2>2. QED
    BY <1>4, <1>5, <1>6, <2>1, SendGenuine
<1>8. GenuinePages'
  <2>1. ExecPage \in Page /\ GenuinePage(ExecPage, tapped'[p], presses')
    BY <1>1, PageType DEF GenuinePage, ExecPage
  <2>2. Present(p, ExecPage) /\ tapped' = tapped
    BY DEF DoneButtonPressed
  <2>3. QED
    BY <1>5, <2>1, <2>2, PresentGenuine
<1>9. QED
  BY <1>7, <1>8 DEF GenuineInv, GenuineData

LEMMA FeedbackGenuine ==
  ASSUME "dismiss" \notin Events, TypeInv, TypeInv', GenuineInv,
         NEW p \in PatientDevice, NEW f \in Feedback, FeedbackPressed(p, f)
  PROVE  GenuineInv'
<1> USE DEF serverVars, physioVars
<1> DEFINE e == Top(p).ex
           w == MergeFeedback(tapped[p], f)
<1>1. e = tapped[p] /\ e \in Exercise
  BY TopGenuine DEF FeedbackPressed, On
<1>2. presses \in Reached /\ Told \in Given
  BY HistoryType
<1>3. said' = [said EXCEPT ![e] = Append(@, f)] /\ presses' = presses
  BY DEF FeedbackPressed
<1>4. w \in Write /\ w.op = "feedback" /\ w.ex = e /\ w.text = f
  BY <1>1, WriteType, FeedbackButtons DEF MergeFeedback
<1>v. ViewPage(tapped[p]) \in Page
  BY <1>1, PageType
<1> HIDE DEF e, w
<1>5. Told' = [Told EXCEPT ![e] = @ \cup {f}]
  BY <1>1, <1>3, ToldAppend
<1>6. Grow(presses, presses', Told, Told') /\ f \in Told'[e]
  BY <1>1, <1>2, <1>3, <1>5 DEF Grow, Reached, Given
<1>7. GenuineWrite(w, presses', Told')
  BY <1>4, <1>6 DEF GenuineWrite
<1>8. GenuineData'
  <2>1. p \in Device /\ Send(p, w) /\ UNCHANGED db
    BY DEF Device, FeedbackPressed, w
  <2>2. QED
    BY <1>4, <1>6, <1>7, <2>1, SendGenuine
<1>9. GenuinePages'
  <2>1. Present(p, ViewPage(tapped[p])) /\ tapped' = tapped
    BY DEF FeedbackPressed
  <2>2. GenuinePage(ViewPage(tapped[p]), tapped'[p], presses')
    BY <1>1, <1>2, <1>3, <2>1, NewPagesGenuine
  <2>3. QED
    BY <1>v, <1>6, <2>1, <2>2, PresentGenuine
<1>10. QED
  BY <1>8, <1>9 DEF GenuineInv, GenuineData

LEMMA PatientGenuine ==
  ASSUME "dismiss" \notin Events, TypeInv, TypeInv', GenuineInv,
         NEW p \in PatientDevice, PatientNext(p)
  PROVE  GenuineInv'
<1> USE DEF serverVars, deviceVars, physioVars, historyVars
<1>d. p \in Device /\ presses \in Reached
  BY HistoryType DEF Device
<1>s. ASSUME NEW how, StopPatient(p, how)
      PROVE  GenuineInv'
  <2>1. ASSUME NEW o \in PatientDevice
        PROVE  (pages'[o] = pages[o] /\ tapped'[o] = tapped[o]) \/ pages'[o] = << >>
    BY <1>s DEF StopPatient, TypeInv, TypeOK
  <2>2. QED
    BY <1>s, <1>d, <2>1, StopGenuine DEF StopPatient
<1>p. ASSUME NEW page \in Page, Present(p, page), GenuinePage(page, tapped'[p], presses'),
             UNCHANGED <<db, presses, said, outbox, local>>,
             \A o \in PatientDevice \ {p} : tapped'[o] = tapped[o]
      PROVE  GenuineInv'
  <2>1. GenuineData' /\ Grow(presses, presses', Told, Told')
    BY <1>p, StillGenuine
  <2>2. GenuinePages'
    BY <1>p, <2>1, PresentGenuine
  <2>3. QED
    BY <2>1, <2>2 DEF GenuineInv, GenuineData
<1>x. ExecPage \in Page /\ GenuinePage(ExecPage, tapped'[p], presses')
  BY DEF Page, ExecPage, NoCount, GenuinePage
<1>1. CASE OpenRoutine(p)
  <2>1. GenuineData'
    BY <1>1, StillGenuine DEF OpenRoutine
  <2>2. \A o \in PatientDevice : pages'[o] = IF o = p THEN <<ExecPage>> ELSE pages[o]
    BY <1>1 DEF OpenRoutine, TypeInv, TypeOK
  <2>3. UNCHANGED <<tapped, presses>>
    BY <1>1 DEF OpenRoutine
  <2>4. GenuinePages'
    BY <1>x, <2>2, <2>3 DEF GenuineInv, GenuinePages
  <2>5. QED
    BY <2>1, <2>4 DEF GenuineInv, GenuineData
<1>2. CASE RoutineChanged(p)
  <2>1. \A d \in Device :
          local'[d] = local[d] \/ local'[d] = Overlay(db, outbox[d], local[d])
    BY <1>2 DEF RoutineChanged, Receive, TypeInv, TypeOK
  <2>2. UNCHANGED <<db, presses, said, outbox, pages, tapped>>
    BY <1>2 DEF RoutineChanged
  <2>3. GenuineData'
    BY <2>1, <2>2, StillGenuine
  <2>4. QED
    BY <2>2, <2>3 DEF GenuineInv, GenuineData, GenuinePages
<1>3. CASE RoutineChangedCrash(p)
  BY <1>3, <1>s DEF RoutineChangedCrash
<1>4. CASE \E e \in Exercise : TapExercise(p, e)
  <2> PICK e \in Exercise : TapExercise(p, e)
    BY <1>4
  <2>1. tapped'[p] = e /\ \A o \in PatientDevice \ {p} : tapped'[o] = tapped[o]
    BY DEF TapExercise, TypeInv, TypeOK
  <2>2. Present(p, ViewPage(e)) /\ UNCHANGED <<db, presses, said, outbox, local>>
    BY DEF TapExercise
  <2>3. ViewPage(e) \in Page /\ GenuinePage(ViewPage(e), tapped'[p], presses')
    BY <1>d, <2>1, <2>2, PageType, NewPagesGenuine
  <2>4. QED
    BY <1>p, <2>1, <2>2, <2>3
<1>5. CASE TapExerciseCrash(p)
  BY <1>5, <1>s DEF TapExerciseCrash
<1>6. CASE \E i \in DOMAIN pages[p] : CountLoaded(p, i)
  BY <1>6, CountLoadedGenuine
<1>7. CASE \E i \in DOMAIN pages[p] : CountLoadedCrash(p, i)
  BY <1>7, <1>s DEF CountLoadedCrash
<1>8. CASE DoneButtonPressed(p)
  BY <1>8, DoneGenuine
<1>9. CASE DoneButtonCrash(p)
  BY <1>9, <1>s DEF DoneButtonCrash
<1>10. CASE OpenFeedback(p)
  <2>1. Top(p).ex = tapped[p] /\ tapped[p] \in Exercise
    BY <1>10, TopGenuine DEF OpenFeedback, On
  <2>2. Present(p, FeedbackPage(Top(p).ex)) /\ UNCHANGED <<db, presses, said, outbox, local, tapped>>
    BY <1>10 DEF OpenFeedback
  <2>3. /\ FeedbackPage(Top(p).ex) \in Page
        /\ GenuinePage(FeedbackPage(Top(p).ex), tapped'[p], presses')
    BY <1>d, <2>1, <2>2, PageType, NewPagesGenuine
  <2>4. QED
    BY <1>p, <2>2, <2>3
<1>11. CASE \E f \in Feedback : FeedbackPressed(p, f)
  BY <1>11, FeedbackGenuine
<1>12. CASE FeedbackBack(p)
  <2>1. tapped[p] \in Exercise
    BY <1>12, TopGenuine DEF FeedbackBack, On
  <2>2. Present(p, ViewPage(tapped[p])) /\ UNCHANGED <<db, presses, said, outbox, local, tapped>>
    BY <1>12 DEF FeedbackBack
  <2>3. /\ ViewPage(tapped[p]) \in Page
        /\ GenuinePage(ViewPage(tapped[p]), tapped'[p], presses')
    BY <1>d, <2>1, <2>2, PageType, NewPagesGenuine
  <2>4. QED
    BY <1>p, <2>2, <2>3
<1>13. CASE ViewBack(p)
  BY <1>13, <1>p, <1>x DEF ViewBack
<1>14. CASE LeaveRoutine(p)
  <2>1. GenuineData'
    BY <1>14, StillGenuine DEF LeaveRoutine
  <2>2. GenuinePages'
    BY <1>14 DEF LeaveRoutine, GenuineInv, GenuinePages, TypeInv, TypeOK
  <2>3. QED
    BY <2>1, <2>2 DEF GenuineInv, GenuineData
<1>15. CASE Dismiss(p)
  BY <1>15 DEF Dismiss
<1>16. CASE KillPatient(p)
  BY <1>16, <1>s DEF KillPatient
<1>17. QED
  BY <1>1, <1>2, <1>3, <1>4, <1>5, <1>6, <1>7, <1>8, <1>9, <1>10, <1>11,
     <1>12, <1>13, <1>14, <1>15, <1>16 DEF PatientNext

LEMMA PhysioGenuine ==
  ASSUME TypeInv, TypeInv', GenuineInv, NEW q \in PhysioDevice, PhysioNext(q)
  PROVE  GenuineInv'
<1> USE DEF serverVars, deviceVars, patientVars, physioVars, historyVars
<1>d. q \in Device /\ presses \in Reached
  BY HistoryType DEF Device
<1>s. ASSUME NEW how, StopPhysio(q, how)
      PROVE  GenuineInv'
  BY <1>s, <1>d, StopGenuine DEF StopPhysio
<1>k. ASSUME UNCHANGED <<db, presses, said, outbox, local, pages, tapped>>
      PROVE  GenuineInv'
  <2>1. GenuineData'
    BY <1>k, StillGenuine
  <2>2. QED
    BY <1>k, <2>1 DEF GenuineInv, GenuineData, GenuinePages
<1>a. ASSUME NEW r, Answered(q, r)
      PROVE  GenuineInv'
  <2>1. \A d \in Device :
          local'[d] = local[d] \/ local'[d] = Overlay(db, outbox[d], local[d])
    BY <1>a DEF Answered, Receive, TypeInv, TypeOK
  <2>2. UNCHANGED <<db, presses, said, outbox, pages, tapped>>
    BY <1>a DEF Answered
  <2>3. GenuineData'
    BY <2>1, <2>2, StillGenuine
  <2>4. QED
    BY <2>2, <2>3 DEF GenuineInv, GenuineData, GenuinePages
<1>w. ASSUME NEW w \in Write, Send(q, w), w.op \in {"save", "remove"},
             UNCHANGED <<db, presses, said, pages, tapped>>
      PROVE  GenuineInv'
  <2>1. Grow(presses, presses', Told, Told') /\ Told' = Told
    BY <1>w, <1>d DEF Grow, Reached, Told
  <2>2. GenuineWrite(w, presses', Told')
    BY <1>w DEF GenuineWrite
  <2>3. GenuineData'
    BY <1>w, <1>d, <2>1, <2>2, SendGenuine
  <2>4. QED
    BY <1>w, <2>3 DEF GenuineInv, GenuineData, GenuinePages
<1>1. CASE OpenRoutineInformation(q)
  BY <1>1, <1>k DEF OpenRoutineInformation
<1>2. CASE RoutineLoaded(q)
  BY <1>2, <1>a DEF RoutineLoaded
<1>3. CASE \E e \in Exercise : ExerciseLoaded(q, e)
  BY <1>3, <1>a DEF ExerciseLoaded
<1>4. CASE StatisticsLoaded(q)
  BY <1>4, <1>a DEF StatisticsLoaded
<1>5. CASE PhysioReadCrash(q)
  BY <1>5, <1>s DEF PhysioReadCrash
<1>6. CASE \E e \in Exercise : TapRow(q, e)
  BY <1>6, <1>k DEF TapRow
<1>7. CASE TapStatistics(q)
  BY <1>7, <1>k DEF TapStatistics
<1>8. CASE \E e \in Exercise : DeleteRow(q, e)
  <2> PICK e \in Exercise : DeleteRow(q, e)
    BY <1>8
  <2>1. Remove(e) \in Write /\ Remove(e).op = "remove"
    BY WriteType, FeedbackButtons DEF Remove
  <2>2. QED
    BY <1>w, <2>1 DEF DeleteRow
<1>9. CASE RowCrash(q)
  BY <1>9, <1>s DEF RowCrash
<1>10. CASE \E e \in Exercise : SaveExercise(q, e)
  <2> PICK e \in Exercise : SaveExercise(q, e)
    BY <1>10
  <2>1. Save(e) \in Write /\ Save(e).op = "save"
    BY WriteType, FeedbackButtons DEF Save
  <2>2. QED
    BY <1>w, <2>1 DEF SaveExercise
<1>11. CASE KillPhysio(q)
  BY <1>11, <1>s DEF KillPhysio
<1>12. QED
  BY <1>1, <1>2, <1>3, <1>4, <1>5, <1>6, <1>7, <1>8, <1>9, <1>10, <1>11
  DEF PhysioNext

LEMMA FlushGenuine ==
  ASSUME TypeInv, GenuineInv, NEW d \in Device, Flush(d)
  PROVE  GenuineInv'
<1> USE DEF patientVars, physioVars, historyVars
<1> DEFINE w == Head(outbox[d])
<1>1. w = outbox[d][1] /\ 1 \in DOMAIN outbox[d] /\ w \in Write
  BY GenuineType DEF Flush
<1>2. presses \in Reached /\ Told \in Given /\ db \in Records
  BY GenuineType
<1>3. UNCHANGED <<presses, said, pages, tapped>> /\ Told' = Told
  BY DEF Flush, Told
<1>4. Genuine(db', presses, Told)
  <2>1. Genuine(db, presses, Told) /\ GenuineWrite(w, presses, Told)
    BY <1>1 DEF GenuineInv, NothingInvented, GenuineQueues
  <2>2. db' = Apply(db, w)
    BY DEF Flush
  <2>3. QED
    BY <1>1, <1>2, <2>1, <2>2, ApplyGenuine
<1>5. ASSUME NEW o \in Device
      PROVE  Genuine(local'[o], presses, Told)
  <2>1. Genuine(local[o], presses, Told)
    BY DEF GenuineInv, NothingInvented
  <2>2. local'[o] = local[o] \/ local'[o] = Overlay(db', Tail(outbox[d]), local[o])
    BY DEF Flush, TypeInv, TypeOK
  <2>3. QED
    BY <1>4, <2>1, <2>2, OverlayGenuine
<1>6. ASSUME NEW o \in Device, NEW i \in DOMAIN outbox'[o]
      PROVE  GenuineWrite(outbox'[o][i], presses, Told)
  <2>1. outbox[o] \in Seq(Write) /\ outbox[d] # << >>
        /\ outbox'[o] = IF o = d THEN Tail(outbox[d]) ELSE outbox[o]
    BY DEF Flush, TypeInv, TypeOK
  <2>2. \E j \in DOMAIN outbox[o] : outbox'[o][i] = outbox[o][j]
    <3>1. CASE o = d
      <4>1. i + 1 \in DOMAIN outbox[d] /\ Tail(outbox[d])[i] = outbox[d][i + 1]
        BY <2>1, <3>1
      <4>2. QED
        BY <2>1, <3>1, <4>1
    <3>2. CASE o # d
      BY <2>1, <3>2
    <3>3. QED
      BY <3>1, <3>2
  <2>3. QED
    BY <2>2 DEF GenuineInv, GenuineQueues
<1>7. QED
  BY <1>3, <1>4, <1>5, <1>6 DEF GenuineInv, NothingInvented, GenuineQueues, GenuinePages

LEMMA AnswerLostGenuine ==
  ASSUME TypeInv, GenuineInv, NEW d \in Device, AnswerLost(d)
  PROVE  GenuineInv'
<1> USE DEF deviceVars, patientVars, physioVars, historyVars
<1>1. PICK i \in DOMAIN outbox[d] : db' = Apply(db, outbox[d][i])
  BY DEF AnswerLost
<1>2. /\ outbox[d][i] \in Write /\ GenuineWrite(outbox[d][i], presses, Told)
      /\ Genuine(db, presses, Told)
  BY DEF TypeInv, TypeOK, GenuineInv, GenuineQueues, NothingInvented
<1>3. presses \in Reached /\ Told \in Given /\ db \in Records
  BY GenuineType
<1>4. Genuine(db', presses, Told)
  BY <1>1, <1>2, <1>3, ApplyGenuine
<1>5. UNCHANGED <<local, outbox, presses, said, pages, tapped>> /\ Told' = Told
  BY DEF AnswerLost, Told
<1>6. QED
  BY <1>4, <1>5 DEF GenuineInv, NothingInvented, GenuineQueues, GenuinePages

LEMMA InitGenuine == Init => GenuineInv
<1> SUFFICES ASSUME Init
             PROVE  GenuineInv
  OBVIOUS
<1>1. \A e \in Exercise : presses[e] = 0
  BY DEF Init
<1>2. Genuine(Empty, presses, Told)
  BY <1>1 DEF Genuine, Empty, NoRecord, NoCount
<1>3. QED
  BY <1>2 DEF Init, GenuineInv, NothingInvented, GenuineQueues, GenuinePages

LEMMA StepGenuine ==
  ASSUME "dismiss" \notin Events, TypeInv, TypeInv', GenuineInv, [Next]_vars
  PROVE  GenuineInv'
<1>1. CASE \E p \in PatientDevice : PatientNext(p)
  BY <1>1, PatientGenuine
<1>2. CASE \E q \in PhysioDevice : PhysioNext(q)
  BY <1>2, PhysioGenuine
<1>3. CASE \E d \in Device : Flush(d)
  BY <1>3, FlushGenuine
<1>4. CASE \E d \in Device : AnswerLost(d)
  BY <1>4, AnswerLostGenuine
<1>5. CASE UNCHANGED vars
  BY <1>5 DEF vars, GenuineInv, NothingInvented, GenuineQueues, GenuinePages, Told
<1>6. QED
  BY <1>1, <1>2, <1>3, <1>4, <1>5 DEF Next

LEMMA GenuineAlways ==
  ASSUME "dismiss" \notin Events
  PROVE  Spec => []GenuineInv
<1>1. TypeInv /\ TypeInv' /\ GenuineInv /\ [Next]_vars => GenuineInv'
  BY StepGenuine
<1>2. QED
  BY <1>1, InitGenuine, TypesCorrect, PTL DEF Spec

(* No record and no copy of any device shows a count the patient did not   *)
(* reach on that exercise, or a feedback not given for it: a tap, a late   *)
(* answer, a second phone or a restart never credits another exercise.     *)
THEOREM NothingIsInvented ==
  ASSUME "dismiss" \notin Events
  PROVE  Spec => []NothingInvented
<1>1. GenuineInv => NothingInvented
  BY DEF GenuineInv
<1>2. QED
  BY <1>1, GenuineAlways, PTL

---------------------------------------------------------------------------
(* Every step is one of Prescription, or none. *)

LEMMA PatientPromise ==
  ASSUME "dismiss" \notin Events, TypeInv, GenuineInv,
         NEW p \in PatientDevice, PatientNext(p)
  PROVE  [Promise!Next]_Promise!abstractVars
<1> USE DEF serverVars, deviceVars, physioVars, historyVars
<1>1. CASE DoneButtonPressed(p)
  <2>1. Top(p).ex \in Exercise
    BY <1>1, TopGenuine DEF DoneButtonPressed, On
  <2>2. Promise!Complete(Top(p).ex)
    BY <1>1 DEF DoneButtonPressed, Promise!Complete, Told
  <2>3. QED
    BY <2>1, <2>2 DEF Promise!Next
<1>2. CASE \E f \in Feedback : FeedbackPressed(p, f)
  <2> PICK f \in Feedback : FeedbackPressed(p, f)
    BY <1>2
  <2>1. Top(p).ex \in Exercise
    BY TopGenuine DEF FeedbackPressed, On
  <2>2. said' = [said EXCEPT ![Top(p).ex] = Append(@, f)] /\ UNCHANGED <<db, presses>>
    BY DEF FeedbackPressed
  <2>3. Told' = [Told EXCEPT ![Top(p).ex] = @ \cup {f}]
    BY <2>1, <2>2, ToldAppend
  <2>4. Promise!Tell(Top(p).ex, f)
    BY <2>2, <2>3 DEF Promise!Tell
  <2>5. QED
    BY <2>1, <2>4 DEF Promise!Next
<1>3. CASE ~DoneButtonPressed(p) /\ ~(\E f \in Feedback : FeedbackPressed(p, f))
  <2>1. UNCHANGED <<db, presses, said>>
    BY <1>3 DEF PatientNext, OpenRoutine, RoutineChanged, RoutineChangedCrash, TapExercise,
         TapExerciseCrash, CountLoaded, CountLoadedCrash, DoneButtonCrash, OpenFeedback,
         FeedbackBack, ViewBack, LeaveRoutine, Dismiss, KillPatient, StopPatient
  <2>2. QED
    BY <2>1 DEF Promise!abstractVars, Told
<1>4. QED
  BY <1>1, <1>2, <1>3

LEMMA PhysioPromise ==
  ASSUME NEW q \in PhysioDevice, PhysioNext(q)
  PROVE  UNCHANGED Promise!abstractVars
<1>1. UNCHANGED <<db, presses, said>>
  BY DEF PhysioNext, OpenRoutineInformation, RoutineLoaded, ExerciseLoaded, Answered,
         StatisticsLoaded, PhysioReadCrash, TapRow, TapStatistics, DeleteRow, RowCrash,
         SaveExercise, KillPhysio, StopPhysio, serverVars, historyVars
<1>2. QED
  BY <1>1 DEF Promise!abstractVars, Told

(* The write the server takes decides which step of Prescription that is,  *)
(* whether its answer arrives or not.                                      *)
LEMMA TakenPromise ==
  ASSUME TypeInv, GenuineInv, NEW d \in Device, NEW i \in DOMAIN outbox[d],
         db' = Apply(db, outbox[d][i]), UNCHANGED historyVars
  PROVE  Promise!Next
<1> DEFINE w == outbox[d][i]
           e == w.ex
<1>1. w \in Write
  BY DEF TypeInv, TypeOK
<1>2. e \in Exercise /\ w.op \in {"save", "remove", "done", "feedback"}
  BY <1>1 DEF Write
<1>3. GenuineWrite(w, presses, Told)
  BY <1>1 DEF GenuineInv, GenuineQueues
<1>4. UNCHANGED <<presses, Told>>
  BY DEF historyVars, Told
<1>5. db' = [db EXCEPT ![e] = Written(db[e], w)] /\ db \in Records
  BY DEF Apply, TypeInv, TypeOK
<1> HIDE DEF w
<1>6. CASE w.op = "save"
  <2>1. Promise!Prescribe(e)
    BY <1>4, <1>5, <1>6 DEF Written, Promise!Prescribe, NewRecord, Promise!NewRecord
  <2>2. QED
    BY <1>2, <2>1 DEF Promise!Next
<1>7. CASE w.op = "remove"
  <2>1. Promise!Withdraw(e)
    BY <1>4, <1>5, <1>7 DEF Written, Promise!Withdraw, NoRecord, Promise!NoRecord,
         NoCount, Promise!NoCount, NoFeedback, Promise!NoFeedback
  <2>2. QED
    BY <1>2, <2>1 DEF Promise!Next
<1>8. CASE w.op = "done"
  <2>1. db' = [db EXCEPT ![e].done = w.count]
    BY <1>2, <1>5, <1>8 DEF Written, Records
  <2>2. w.count \in 1 .. presses[e]
    BY <1>3, <1>8 DEF GenuineWrite
  <2>3. Promise!ReportCount(e)
    BY <1>4, <2>1, <2>2 DEF Promise!ReportCount
  <2>4. QED
    BY <1>2, <2>3 DEF Promise!Next
<1>9. CASE w.op = "feedback"
  <2>1. db' = [db EXCEPT ![e].feedback = w.text]
    BY <1>2, <1>5, <1>9 DEF Written, Records
  <2>2. w.text \in Told[e]
    BY <1>3, <1>9 DEF GenuineWrite
  <2>3. Promise!ReportFeedback(e)
    BY <1>4, <2>1, <2>2 DEF Promise!ReportFeedback
  <2>4. QED
    BY <1>2, <2>3 DEF Promise!Next
<1>10. QED
  BY <1>2, <1>6, <1>7, <1>8, <1>9

LEMMA FlushPromise ==
  ASSUME TypeInv, GenuineInv, NEW d \in Device, Flush(d)
  PROVE  Promise!Next
<1>1. Head(outbox[d]) = outbox[d][1] /\ 1 \in DOMAIN outbox[d]
  BY DEF Flush, TypeInv, TypeOK
<1>2. QED
  BY <1>1, TakenPromise DEF Flush

LEMMA AnswerLostPromise ==
  ASSUME TypeInv, GenuineInv, NEW d \in Device, AnswerLost(d)
  PROVE  Promise!Next
BY TakenPromise DEF AnswerLost

LEMMA InitPromise == Init => Promise!Init
BY DEF Init, Told, Empty, NoRecord, NoCount, NoFeedback, Promise!Init,
       Promise!NoRecord, Promise!NoCount, Promise!NoFeedback

(* What the server receives is what Prescription promises: only a save     *)
(* prescribes, only a removal withdraws, every count merged in was reached *)
(* on that exercise and every feedback was given for it, whatever other    *)
(* phones, deletions, re-saves, restarts and the network do meanwhile.     *)
THEOREM PrescriptionImplemented ==
  ASSUME "dismiss" \notin Events
  PROVE  Spec => PrescriptionHolds
<1>1. TypeInv /\ GenuineInv /\ [Next]_vars => [Promise!Next]_Promise!abstractVars
  <2> SUFFICES ASSUME TypeInv, GenuineInv, [Next]_vars
               PROVE  [Promise!Next]_Promise!abstractVars
    OBVIOUS
  <2>1. CASE \E p \in PatientDevice : PatientNext(p)
    BY <2>1, PatientPromise
  <2>2. CASE \E q \in PhysioDevice : PhysioNext(q)
    BY <2>2, PhysioPromise
  <2>3. CASE \E d \in Device : Flush(d)
    BY <2>3, FlushPromise
  <2>4. CASE \E d \in Device : AnswerLost(d)
    BY <2>4, AnswerLostPromise
  <2>5. CASE UNCHANGED vars
    BY <2>5 DEF vars, Told, Promise!abstractVars
  <2>6. QED
    BY <2>1, <2>2, <2>3, <2>4, <2>5 DEF Next
<1>2. QED
  BY <1>1, InitPromise, GenuineAlways, TypesCorrect, PTL
  DEF Spec, PrescriptionHolds, Promise!Spec
=============================================================================
