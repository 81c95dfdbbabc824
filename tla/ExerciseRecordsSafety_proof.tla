-------------------- MODULE ExerciseRecordsSafety_proof --------------------
(***************************************************************************)
(* While the physiotherapist deletes nothing, every child of the routine   *)
(* has its name and no forced unwrap can fail: for any number of devices,  *)
(* through saves and re-saves, swiped pages, restarts and lost writes.     *)
(*                                                                         *)
(* That the server's records are whole is not inductive: a merge makes a   *)
(* nameless record out of a missing one, so the invariant follows the name *)
(* of an exercise from the server to the device's copy, its tables, its    *)
(* pages and back into its unsent writes.                                  *)
(*                                                                         *)
(* On top of that, the progress of one phone of each user only grows and   *)
(* is exact once it has arrived.                                           *)
(***************************************************************************)
EXTENDS ExerciseRecords_proof

(* A record is missing or has every key the two apps unwrap. *)
Whole(r) ==
  r = NoRecord \/ (r.prescribed /\ r.done # NoCount /\ r.feedback # NoFeedback)

AllWhole(records) == \A e \in Exercise : Whole(records[e])

(* A device's copy own and unsent writes queue, the server holding base. *)
CopySafe(base, queue, own) ==
  /\ AllWhole(own)
  /\ \A i \in DOMAIN queue :
       /\ queue[i].op # "remove"
       /\ own[queue[i].ex].prescribed
       /\ queue[i].op \in {"done", "feedback"} => base[queue[i].ex].prescribed
  /\ \A e \in Exercise :
       own[e].prescribed => base[e].prescribed \/ Pending(queue, e, {"save"})

TableSafe(d) == rows[d] \subseteq listed[d] /\ listed[d] \subseteq Named(local[d])

(* A page of a phone that knows the exercises known and tapped one last.   *)
PageSafe(known, last, page) ==
  /\ page.kind # "Exec" => {page.ex, last} \subseteq known
  /\ page.kind = "View" /\ ~page.reading => page.count # NoCount

PagesSafe(p) ==
  \A i \in DOMAIN pages[p] : PageSafe(Named(local[p]), tapped[p], pages[p][i])

OnlyMerges(p) ==
  \A i \in DOMAIN outbox[p] : outbox[p][i].op \in {"done", "feedback"}

SafeInv ==
  /\ AllWhole(db)
  /\ \A d \in Device : CopySafe(db, outbox[d], local[d])
  /\ \A d \in Device : TableSafe(d)
  /\ \A p \in PatientDevice : PagesSafe(p) /\ OnlyMerges(p)

---------------------------------------------------------------------------
(* How the two halves of the invariant survive the building blocks. *)

(* News from the server: every name the device knows stays known. *)
LEMMA OverlaySafe ==
  ASSUME NEW base \in Records, NEW own \in Records, NEW queue \in Seq(Write),
         AllWhole(base), CopySafe(base, queue, own)
  PROVE  LET new == Overlay(base, queue, own)
         IN  CopySafe(base, queue, new) /\ Named(own) \subseteq Named(new)
<1> DEFINE new == Overlay(base, queue, own)
<1>1. ASSUME NEW e \in Exercise
      PROVE  /\ Whole(new[e])
             /\ own[e].prescribed => new[e].prescribed
             /\ new[e].prescribed => base[e].prescribed \/ Pending(queue, e, {"save"})
  <2>1. Pending(queue, e, {"save", "remove"}) => Pending(queue, e, {"save"})
    BY DEF CopySafe, Pending
  <2>2. CASE Pending(queue, e, {"save", "remove"})
    <3>1. /\ Pending(queue, e, {"save", "remove", "done"})
          /\ Pending(queue, e, {"save", "remove", "feedback"})
      BY <2>2 DEF Pending
    <3>2. new[e] = own[e]
      BY <2>2, <3>1 DEF Overlay, Records, Record
    <3>3. QED
      BY <2>1, <2>2, <3>2 DEF CopySafe, AllWhole
  <2>3. CASE ~Pending(queue, e, {"save", "remove"})
    <3>1. ~Pending(queue, e, {"save"})
      BY <2>3 DEF Pending
    <3>2. new[e].prescribed = base[e].prescribed
      BY <2>3 DEF Overlay
    <3>3. Pending(queue, e, {"save", "remove", "done"}) \/ Pending(queue, e, {"save", "remove", "feedback"})
            => base[e].prescribed /\ own[e].prescribed
      BY <2>3 DEF Pending, CopySafe
    <3>4. Whole(base[e]) /\ Whole(own[e])
      BY DEF AllWhole, CopySafe
    <3>5. Whole(new[e])
      <4> DEFINE count == Pending(queue, e, {"save", "remove", "done"})
                 text  == Pending(queue, e, {"save", "remove", "feedback"})
      <4>1. new[e] = [prescribed |-> base[e].prescribed,
                      done       |-> IF count THEN own[e].done ELSE base[e].done,
                      feedback   |-> IF text THEN own[e].feedback ELSE base[e].feedback]
        BY <2>3 DEF Overlay
      <4> HIDE DEF count, text, new
      <4>2. CASE base[e].prescribed
        <5>1. base[e].done # NoCount /\ base[e].feedback # NoFeedback
          BY <4>2, <3>4 DEF Whole, NoRecord
        <5>2. count \/ text => own[e].done # NoCount /\ own[e].feedback # NoFeedback
          BY <3>3, <3>4 DEF Whole, NoRecord, count, text
        <5>3. QED
          BY <4>1, <4>2, <5>1, <5>2 DEF Whole
      <4>3. CASE ~base[e].prescribed
        <5>1. base[e] = NoRecord /\ ~count /\ ~text
          BY <4>3, <3>3, <3>4 DEF Whole, count, text
        <5>2. QED
          BY <4>1, <5>1 DEF Whole, NoRecord
      <4>4. QED
        BY <4>2, <4>3
    <3>6. QED
      BY <3>1, <3>2, <3>5 DEF CopySafe
  <2>4. QED
    BY <2>2, <2>3
<1>2. \A i \in DOMAIN queue : queue[i].ex \in Exercise
  BY QueueFacts
<1>3. CopySafe(base, queue, new)
  BY <1>1, <1>2 DEF CopySafe, AllWhole
<1>4. QED
  BY <1>1, <1>3 DEF Named

(* A write of the device itself; a merge needs the exercise to be known.   *)
LEMMA AppendSafe ==
  ASSUME NEW base \in Records, NEW own \in Records, NEW queue \in Seq(Write),
         NEW w \in Write, CopySafe(base, queue, own), w.op # "remove",
         w.op \in {"done", "feedback"}
           => own[w.ex].prescribed /\ base[w.ex].prescribed
  PROVE  /\ CopySafe(base, Append(queue, w), Apply(own, w))
         /\ Named(own) \subseteq Named(Apply(own, w))
<1> DEFINE new  == Apply(own, w)
           more == Append(queue, w)
<1>1. w.ex \in Exercise /\ w.op \in {"save", "done", "feedback"} /\ w.count \in Nat /\ w.text \in Feedback
  BY DEF Write
<1>2. Whole(Written(own[w.ex], w)) /\ Written(own[w.ex], w).prescribed
  BY <1>1, FeedbackButtons
  DEF CopySafe, AllWhole, Whole, Written, Records, Record, NewRecord, NoRecord,
      NoCount, NoFeedback
<1>3. \A e \in Exercise : new[e] = IF e = w.ex THEN Written(own[e], w) ELSE own[e]
  BY <1>1 DEF Apply, Records
<1>4. \A e \in Exercise : Whole(new[e]) /\ (own[e].prescribed => new[e].prescribed)
  BY <1>2, <1>3 DEF CopySafe, AllWhole
<1>5. /\ DOMAIN more = 1 .. Len(queue) + 1
      /\ more[Len(queue) + 1] = w
      /\ \A i \in DOMAIN queue : i \in DOMAIN more /\ more[i] = queue[i] /\ queue[i].ex \in Exercise
  BY QueueFacts
<1>6. \A i \in DOMAIN more : i = Len(queue) + 1 \/ (i \in DOMAIN queue /\ more[i] = queue[i])
  BY <1>5
<1> HIDE DEF new, more
<1>7. ASSUME NEW i \in DOMAIN more
      PROVE  /\ more[i].op # "remove"
             /\ new[more[i].ex].prescribed
             /\ more[i].op \in {"done", "feedback"} => base[more[i].ex].prescribed
  <2>1. CASE i = Len(queue) + 1
    BY <2>1, <1>1, <1>2, <1>3, <1>5
  <2>2. CASE i \in DOMAIN queue /\ more[i] = queue[i]
    BY <2>2, <1>4, <1>5 DEF CopySafe
  <2>3. QED
    BY <1>6, <2>1, <2>2
<1>8. ASSUME NEW e \in Exercise, new[e].prescribed
      PROVE  base[e].prescribed \/ Pending(more, e, {"save"})
  <2>1. CASE own[e].prescribed
    <3>1. Pending(queue, e, {"save"}) => Pending(more, e, {"save"})
      BY <1>5 DEF Pending
    <3>2. QED
      BY <2>1, <3>1 DEF CopySafe
  <2>2. CASE ~own[e].prescribed
    <3>1. e = w.ex /\ w.op = "save"
      BY <2>2, <1>8, <1>1, <1>3
    <3>2. QED
      BY <3>1, <1>5 DEF Pending
  <2>3. QED
    BY <2>1, <2>2
<1>9. CopySafe(base, more, new)
  BY <1>4, <1>7, <1>8 DEF CopySafe, AllWhole
<1>10. QED
  BY <1>4, <1>9 DEF Named, new, more

(* The server naming more exercises disturbs no device. *)
LEMMA BaseGrows ==
  ASSUME NEW base, NEW more, NEW own, NEW queue \in Seq(Write),
         CopySafe(base, queue, own), Named(base) \subseteq Named(more)
  PROVE  CopySafe(more, queue, own)
<1>1. \A i \in DOMAIN queue : queue[i].ex \in Exercise
  BY QueueFacts
<1>2. \A e \in Exercise : base[e].prescribed => more[e].prescribed
  BY DEF Named
<1>3. QED
  BY <1>1, <1>2 DEF CopySafe

(* The server takes a write that stays in the queue. *)
LEMMA TakenSafe ==
  ASSUME NEW base \in Records, NEW own \in Records, NEW queue \in Seq(Write),
         NEW i \in DOMAIN queue, AllWhole(base), CopySafe(base, queue, own)
  PROVE  LET new == Apply(base, queue[i])
         IN  AllWhole(new) /\ Named(base) \subseteq Named(new)
<1> DEFINE w   == queue[i]
           new == Apply(base, w)
<1>1. w \in Write
  BY QueueFacts
<1>2. w.ex \in Exercise /\ w.op \in {"save", "done", "feedback"}
        /\ w.count \in Nat /\ w.text \in Feedback
  BY <1>1 DEF CopySafe, Write
<1>3. w.op \in {"done", "feedback"} => base[w.ex].prescribed
  BY DEF CopySafe
<1>4. Whole(Written(base[w.ex], w)) /\ Written(base[w.ex], w).prescribed
  BY <1>2, <1>3, FeedbackButtons
  DEF AllWhole, Whole, Written, Records, Record, NewRecord, NoRecord,
      NoCount, NoFeedback
<1>5. \A e \in Exercise : new[e] = IF e = w.ex THEN Written(base[e], w) ELSE base[e]
  BY <1>2 DEF Apply, Records
<1> HIDE DEF w, new
<1>6. AllWhole(new) /\ Named(base) \subseteq Named(new)
  BY <1>4, <1>5 DEF AllWhole, Named
<1>7. QED
  BY <1>6 DEF new, w

(* The server takes the oldest write. *)
LEMMA HeadSafe ==
  ASSUME NEW base \in Records, NEW own \in Records, NEW queue \in Seq(Write),
         queue # << >>, AllWhole(base), CopySafe(base, queue, own)
  PROVE  LET new == Apply(base, Head(queue))
         IN  /\ AllWhole(new)
             /\ Named(base) \subseteq Named(new)
             /\ CopySafe(new, Tail(queue), own)
<1> DEFINE w   == Head(queue)
           new == Apply(base, w)
           rest == Tail(queue)
<1>1. /\ w \in Write /\ w = queue[1] /\ 1 \in DOMAIN queue
      /\ rest \in Seq(Write)
      /\ \A i \in DOMAIN rest : i + 1 \in DOMAIN queue /\ rest[i] = queue[i + 1]
      /\ \A i \in DOMAIN queue : i = 1 \/ (i - 1 \in DOMAIN rest /\ rest[i - 1] = queue[i])
  OBVIOUS
<1>2. w.ex \in Exercise /\ w.op \in {"save", "done", "feedback"}
        /\ w.count \in Nat /\ w.text \in Feedback
  BY <1>1 DEF CopySafe, Write
<1>3. w.op \in {"done", "feedback"} => base[w.ex].prescribed
  BY <1>1 DEF CopySafe
<1>4. Whole(Written(base[w.ex], w)) /\ Written(base[w.ex], w).prescribed
  BY <1>2, <1>3, FeedbackButtons
  DEF AllWhole, Whole, Written, Records, Record, NewRecord, NoRecord,
      NoCount, NoFeedback
<1>5. \A e \in Exercise : new[e] = IF e = w.ex THEN Written(base[e], w) ELSE base[e]
  BY <1>2 DEF Apply, Records
<1> HIDE DEF w, new, rest
<1>6. AllWhole(new) /\ Named(base) \subseteq Named(new)
  BY <1>4, <1>5 DEF AllWhole, Named
<1>7. ASSUME NEW e \in Exercise, own[e].prescribed
      PROVE  new[e].prescribed \/ Pending(rest, e, {"save"})
  <2>1. CASE e = w.ex
    BY <2>1, <1>4, <1>5
  <2>2. CASE e # w.ex
    <3>1. Pending(queue, e, {"save"}) => Pending(rest, e, {"save"})
      BY <2>2, <1>1 DEF Pending
    <3>2. base[e].prescribed \/ Pending(queue, e, {"save"})
      BY <1>7 DEF CopySafe
    <3>3. QED
      BY <2>2, <3>1, <3>2, <1>5
  <2>3. QED
    BY <2>1, <2>2
<1>8. ASSUME NEW i \in DOMAIN rest
      PROVE  /\ rest[i].op # "remove"
             /\ own[rest[i].ex].prescribed
             /\ rest[i].op \in {"done", "feedback"} => new[rest[i].ex].prescribed
  <2>1. rest[i].ex \in Exercise
    BY <1>1, QueueFacts
  <2>2. QED
    BY <2>1, <1>1, <1>6 DEF CopySafe, Named
<1>9. CopySafe(new, rest, own)
  BY <1>7, <1>8 DEF CopySafe
<1>10. QED
  BY <1>6, <1>9 DEF new, rest, w

---------------------------------------------------------------------------
(* Every device's copy stays safe, and forgets no name, when one device    *)
(* hears from the server, writes, or is acknowledged.                      *)

LEMMA ReceiveKeepsCopies ==
  ASSUME TypeInv, SafeInv, NEW d \in Device, Receive(d) \/ UNCHANGED local,
         UNCHANGED <<db, outbox>>
  PROVE  /\ \A o \in Device : CopySafe(db', outbox'[o], local'[o])
         /\ \A o \in Device : Named(local[o]) \subseteq Named(local'[o])
<1>1. CASE UNCHANGED local
  BY <1>1 DEF SafeInv
<1>2. CASE Receive(d)
  <2>1. ASSUME NEW o \in Device, o # d
        PROVE  CopySafe(db', outbox'[o], local'[o]) /\ local'[o] = local[o]
    BY <1>2, <2>1 DEF Receive, SafeInv, TypeInv, TypeOK
  <2>2. local'[d] = Overlay(db, outbox[d], local[d])
    BY <1>2 DEF Receive, TypeInv, TypeOK
  <2>3. db \in Records /\ local[d] \in Records /\ outbox[d] \in Seq(Write)
        /\ AllWhole(db) /\ CopySafe(db, outbox[d], local[d])
    BY DEF SafeInv, TypeInv, TypeOK
  <2>4. CopySafe(db, outbox[d], local'[d]) /\ Named(local[d]) \subseteq Named(local'[d])
    BY <2>2, <2>3, OverlaySafe
  <2>5. QED
    BY <2>1, <2>4
<1>3. QED
  BY <1>1, <1>2

LEMMA SendKeepsCopies ==
  ASSUME TypeInv, SafeInv, NEW d \in Device, NEW w \in Write, Send(d, w),
         UNCHANGED db, w.op # "remove",
         w.op \in {"done", "feedback"} => w.ex \in Named(local[d]) \cap Named(db)
  PROVE  /\ \A o \in Device : CopySafe(db', outbox'[o], local'[o])
         /\ \A o \in Device : Named(local[o]) \subseteq Named(local'[o])
<1>1. ASSUME NEW o \in Device, o # d
      PROVE  CopySafe(db', outbox'[o], local'[o]) /\ local'[o] = local[o]
  BY <1>1 DEF Send, SafeInv, TypeInv, TypeOK
<1>2. local'[d] = Apply(local[d], w) /\ outbox'[d] = Append(outbox[d], w)
  BY DEF Send, TypeInv, TypeOK
<1>3. db \in Records /\ local[d] \in Records /\ outbox[d] \in Seq(Write)
      /\ CopySafe(db, outbox[d], local[d])
  BY DEF SafeInv, TypeInv, TypeOK
<1>4. w.op \in {"done", "feedback"} => local[d][w.ex].prescribed /\ db[w.ex].prescribed
  BY DEF Named
<1>5. CopySafe(db, outbox'[d], local'[d]) /\ Named(local[d]) \subseteq Named(local'[d])
  BY <1>2, <1>3, <1>4, AppendSafe
<1>6. QED
  BY <1>1, <1>5

LEMMA FlushKeepsCopies ==
  ASSUME TypeInv, SafeInv, NEW d \in Device, Flush(d)
  PROVE  /\ AllWhole(db')
         /\ \A o \in Device : CopySafe(db', outbox'[o], local'[o])
         /\ \A o \in Device : Named(local[o]) \subseteq Named(local'[o])
<1> DEFINE new == Apply(db, Head(outbox[d]))
           rest == Tail(outbox[d])
<1>1. db \in Records /\ local[d] \in Records /\ outbox[d] \in Seq(Write)
      /\ AllWhole(db) /\ CopySafe(db, outbox[d], local[d]) /\ outbox[d] # << >>
  BY DEF Flush, SafeInv, TypeInv, TypeOK
<1>2. Head(outbox[d]) \in Write /\ rest \in Seq(Write)
  BY <1>1
<1>3. new \in Records
  BY <1>1, <1>2, ApplyType
<1>4. AllWhole(new) /\ Named(db) \subseteq Named(new) /\ CopySafe(new, rest, local[d])
  BY <1>1, HeadSafe
<1>5. /\ CopySafe(new, rest, Overlay(new, rest, local[d]))
      /\ Named(local[d]) \subseteq Named(Overlay(new, rest, local[d]))
  BY <1>1, <1>2, <1>3, <1>4, OverlaySafe
<1>6. db' = new /\ outbox'[d] = rest /\ local'[d] = Overlay(new, rest, local[d])
  BY DEF Flush, TypeInv, TypeOK
<1>7. ASSUME NEW o \in Device, o # d
      PROVE  CopySafe(db', outbox'[o], local'[o]) /\ local'[o] = local[o]
  <2>1. outbox'[o] = outbox[o] /\ local'[o] = local[o]
    BY <1>7 DEF Flush, TypeInv, TypeOK
  <2>2. outbox[o] \in Seq(Write) /\ CopySafe(db, outbox[o], local[o])
    BY DEF SafeInv, TypeInv, TypeOK
  <2>3. QED
    BY <1>4, <1>6, <2>1, <2>2, BaseGrows
<1> HIDE DEF new, rest
<1>8. QED
  BY <1>4, <1>5, <1>6, <1>7

(* Tables and pages that do not change stay safe while names only grow. *)
LEMMA GrowingNames ==
  ASSUME SafeInv, \A o \in Device : Named(local[o]) \subseteq Named(local'[o])
  PROVE  /\ \A o \in Device : listed'[o] = listed[o] /\ rows'[o] = rows[o] => TableSafe(o)'
         /\ \A p \in PatientDevice : pages'[p] = pages[p] /\ tapped'[p] = tapped[p] => PagesSafe(p)'
<1>1. ASSUME NEW o \in Device, listed'[o] = listed[o], rows'[o] = rows[o]
      PROVE  TableSafe(o)'
  BY <1>1 DEF SafeInv, TableSafe
<1>2. ASSUME NEW p \in PatientDevice, pages'[p] = pages[p], tapped'[p] = tapped[p]
      PROVE  PagesSafe(p)'
  BY <1>2 DEF SafeInv, PagesSafe, PageSafe, Device
<1>3. QED
  BY <1>1, <1>2

(* A device that stops forgets everything. *)
LEMMA StopSafe ==
  ASSUME TypeInv, SafeInv, NEW d \in Device, NEW how, Stop(d, how), UNCHANGED db,
         \A p \in PatientDevice :
           \/ pages'[p] = pages[p] /\ tapped'[p] = tapped[p] /\ p # d
           \/ pages'[p] = << >>
  PROVE  SafeInv'
<1>1. ASSUME NEW o \in Device
      PROVE  CopySafe(db', outbox'[o], local'[o]) /\ TableSafe(o)'
  <2>1. CASE o = d
    <3>1. outbox'[o] = << >> /\ local'[o] = Empty /\ listed'[o] = {} /\ rows'[o] = {}
      BY <2>1 DEF Stop, TypeInv, TypeOK
    <3>2. QED
      BY <3>1 DEF CopySafe, TableSafe, AllWhole, Whole, Empty, NoRecord
  <2>2. CASE o # d
    <3>1. /\ outbox'[o] = outbox[o] /\ local'[o] = local[o]
          /\ listed'[o] = listed[o] /\ rows'[o] = rows[o]
      BY <2>2 DEF Stop, TypeInv, TypeOK
    <3>2. QED
      BY <3>1 DEF SafeInv, TableSafe
  <2>3. QED
    BY <2>1, <2>2
<1>2. ASSUME NEW p \in PatientDevice
      PROVE  PagesSafe(p)' /\ OnlyMerges(p)'
  <2>1. p \in Device
    BY DEF Device
  <2>2. OnlyMerges(p)'
    BY <2>1 DEF Stop, SafeInv, OnlyMerges, TypeInv, TypeOK
  <2>3. CASE pages'[p] = << >>
    BY <2>2, <2>3 DEF PagesSafe
  <2>4. CASE pages'[p] = pages[p] /\ tapped'[p] = tapped[p] /\ p # d
    <3>1. local'[p] = local[p]
      BY <2>1, <2>4 DEF Stop, TypeInv, TypeOK
    <3>2. QED
      BY <2>2, <2>4, <3>1 DEF SafeInv, PagesSafe, PageSafe
  <2>5. QED
    BY <2>3, <2>4
<1>3. QED
  BY <1>1, <1>2 DEF SafeInv

LEMMA StopPatientSafe ==
  ASSUME TypeInv, SafeInv, NEW p \in PatientDevice, NEW how, StopPatient(p, how)
  PROVE  SafeInv'
<1>1. p \in Device /\ Stop(p, how) /\ UNCHANGED db
  BY DEF Device, StopPatient, serverVars
<1>2. \A o \in PatientDevice :
        \/ pages'[o] = pages[o] /\ tapped'[o] = tapped[o] /\ o # p
        \/ pages'[o] = << >>
  BY DEF StopPatient, TypeInv, TypeOK
<1>3. QED
  BY <1>1, <1>2, StopSafe

LEMMA StopPhysioSafe ==
  ASSUME TypeInv, SafeInv, NEW q \in PhysioDevice, NEW how, StopPhysio(q, how)
  PROVE  SafeInv'
<1>1. q \in Device /\ Stop(q, how) /\ UNCHANGED db
  BY DEF Device, StopPhysio, serverVars
<1>2. \A o \in PatientDevice : pages'[o] = pages[o] /\ tapped'[o] = tapped[o] /\ o # q
  BY DevicesDiffer DEF StopPhysio, patientVars
<1>3. QED
  BY <1>1, <1>2, StopSafe

---------------------------------------------------------------------------
(* The invariant is inductive. *)

LEMMA PresentSafe ==
  ASSUME TypeInv, SafeInv, NEW p \in PatientDevice, NEW page \in Page,
         Present(p, page), PageSafe(Named(local'[p]), tapped'[p], page),
         \A old \in Page : PageSafe(Named(local[p]), tapped[p], old) => PageSafe(Named(local'[p]), tapped'[p], old)
  PROVE  /\ PagesSafe(p)'
         /\ \A o \in PatientDevice \ {p} : pages'[o] = pages[o]
<1>1. pages[p] \in Seq(Page) /\ PagesSafe(p)
  BY DEF SafeInv, TypeInv, TypeOK
<1>2. pages'[p] = Append(pages[p], page) \/ pages'[p] = <<page>>
  BY DEF Present, TypeInv, TypeOK
<1>3. ASSUME NEW i \in DOMAIN pages'[p]
      PROVE  pages'[p][i] = page \/ \E j \in DOMAIN pages[p] : pages'[p][i] = pages[p][j]
  <2>1. CASE pages'[p] = Append(pages[p], page)
    BY <2>1, <1>1
  <2>2. CASE pages'[p] = <<page>>
    BY <2>2
  <2>3. QED
    BY <1>2, <2>1, <2>2
<1>4. ASSUME NEW i \in DOMAIN pages'[p]
      PROVE  PageSafe(Named(local'[p]), tapped'[p], pages'[p][i])
  <2>1. CASE pages'[p][i] = page
    BY <2>1
  <2>2. CASE \E j \in DOMAIN pages[p] : pages'[p][i] = pages[p][j]
    <3> PICK j \in DOMAIN pages[p] : pages'[p][i] = pages[p][j]
      BY <2>2
    <3>1. pages[p][j] \in Page /\ PageSafe(Named(local[p]), tapped[p], pages[p][j])
      BY <1>1 DEF PagesSafe
    <3>2. QED
      BY <3>1
  <2>3. QED
    BY <1>3, <2>1, <2>2
<1>5. QED
  BY <1>4 DEF PagesSafe, Present, TypeInv, TypeOK

(* What is on top of the patient's pages is backed by the server. *)
LEMMA TopSafe ==
  ASSUME TypeInv, SafeInv, NEW p \in PatientDevice, pages[p] # << >>,
         Top(p).kind # "Exec"
  PROVE  /\ Top(p) \in Page /\ Top(p).ex \in Exercise /\ tapped[p] \in Exercise
         /\ Top(p).ex \in Named(local[p])
         /\ tapped[p] \in Named(local[p]) \cap Named(db)
<1>1. Top(p) \in Page /\ Len(pages[p]) \in DOMAIN pages[p]
  BY TopType DEF TypeInv
<1>2. Top(p).ex \in Exercise /\ tapped[p] \in Exercise
  BY <1>1 DEF Page, TypeInv, TapsRecorded, Top
<1>3. {Top(p).ex, tapped[p]} \subseteq Named(local[p])
  BY <1>1 DEF SafeInv, PagesSafe, PageSafe, Top
<1>4. ~Pending(outbox[p], tapped[p], {"save"})
  BY DEF SafeInv, OnlyMerges, Pending
<1>5. tapped[p] \in Named(db)
  BY <1>2, <1>3, <1>4 DEF SafeInv, CopySafe, Named, Device
<1>6. QED
  BY <1>1, <1>2, <1>3, <1>5

LEMMA PatientSafe ==
  ASSUME TypeInv, SafeInv, NEW p \in PatientDevice, PatientNext(p)
  PROVE  SafeInv'
<1> USE DEF serverVars, deviceVars, patientVars, physioVars, historyVars
<1>d. p \in Device
  BY DEF Device
<1>q. ASSUME UNCHANGED <<db, outbox, local, listed>>,
             rows' = rows \/ rows' = [rows EXCEPT ![p] = listed[p]]
      PROVE  /\ \A o \in Device : CopySafe(db', outbox'[o], local'[o]) /\ TableSafe(o)'
             /\ AllWhole(db') /\ \A o \in PatientDevice : OnlyMerges(o)'
  BY <1>q DEF SafeInv, TableSafe, OnlyMerges, TypeInv, TypeOK
<1>s. ASSUME UNCHANGED <<local, tapped>>
      PROVE  \A o \in PatientDevice : \A old \in Page : PageSafe(Named(local[o]), tapped[o], old) => PageSafe(Named(local'[o]), tapped'[o], old)
  BY <1>s DEF PageSafe
<1>o. ASSUME UNCHANGED local, \A o \in PatientDevice \ {p} : pages'[o] = pages[o] /\ tapped'[o] = tapped[o]
      PROVE  \A o \in PatientDevice \ {p} : PagesSafe(o)'
  BY <1>o DEF SafeInv, PagesSafe, PageSafe
<1>1. CASE OpenRoutine(p)
  <2>1. pages'[p] = <<ExecPage>> /\ \A o \in PatientDevice \ {p} : pages'[o] = pages[o]
    BY <1>1 DEF OpenRoutine, TypeInv, TypeOK
  <2>2. PagesSafe(p)'
    BY <2>1 DEF PagesSafe, PageSafe, ExecPage
  <2>3. QED
    BY <1>1, <1>q, <1>o, <2>1, <2>2 DEF OpenRoutine, SafeInv
<1>2. CASE RoutineChanged(p)
  <2>1. /\ \A o \in Device : CopySafe(db', outbox'[o], local'[o])
        /\ \A o \in Device : Named(local[o]) \subseteq Named(local'[o])
    BY <1>2, <1>d, ReceiveKeepsCopies DEF RoutineChanged
  <2>2. /\ listed'[p] = Named(local'[p])
        /\ rows'[p] = rows[p] \/ rows'[p] = Named(local'[p])
        /\ \A o \in Device \ {p} : listed'[o] = listed[o] /\ rows'[o] = rows[o]
    <3>1. Children(local'[p]) = Named(local'[p])
      <4>1. Children(local'[p]) \subseteq Named(local'[p])
        BY <1>2 DEF RoutineChanged, Unnamed
      <4>2. Named(local'[p]) \subseteq Children(local'[p])
        BY DEF Named, Children, NoRecord
      <4>3. QED
        BY <4>1, <4>2
    <3>2. QED
      BY <1>2, <1>d, <3>1 DEF RoutineChanged, Refill, TypeInv, TypeOK
  <2>3. rows[p] \subseteq Named(local'[p])
    BY <1>d, <2>1 DEF SafeInv, TableSafe
  <2>4. TableSafe(p)'
    BY <2>2, <2>3 DEF TableSafe
  <2>5. \A o \in Device : TableSafe(o)'
    BY <2>1, <2>2, <2>4, GrowingNames
  <2>6. \A o \in PatientDevice : PagesSafe(o)' /\ OnlyMerges(o)'
    BY <1>2, <2>1, GrowingNames DEF RoutineChanged, SafeInv, OnlyMerges
  <2>7. QED
    BY <1>2, <2>1, <2>5, <2>6 DEF RoutineChanged, SafeInv
<1>3. CASE RoutineChangedCrash(p)
  BY <1>3, StopPatientSafe DEF RoutineChangedCrash
<1>4. CASE \E e \in Exercise : TapExercise(p, e)
  <2> PICK e \in Exercise : TapExercise(p, e)
    BY <1>4
  <2>1. e \in Named(local[p])
    BY <1>d DEF TapExercise, SafeInv, TableSafe
  <2>2. /\ tapped'[p] = e /\ \A o \in PatientDevice \ {p} : tapped'[o] = tapped[o]
        /\ UNCHANGED local
    BY DEF TapExercise, TypeInv, TypeOK
  <2>3. /\ ViewPage(e) \in Page /\ Present(p, ViewPage(e))
        /\ PageSafe(Named(local'[p]), tapped'[p], ViewPage(e))
    BY <2>1, <2>2, PageType DEF TapExercise, PageSafe, ViewPage
  <2>4. \A old \in Page : PageSafe(Named(local[p]), tapped[p], old) => PageSafe(Named(local'[p]), tapped'[p], old)
    BY <2>1, <2>2 DEF PageSafe
  <2>5. PagesSafe(p)' /\ \A o \in PatientDevice \ {p} : pages'[o] = pages[o]
    BY <2>3, <2>4, PresentSafe
  <2>6. QED
    BY <1>q, <1>o, <2>2, <2>5 DEF TapExercise, SafeInv
<1>5. CASE TapExerciseCrash(p)
  BY <1>5, StopPatientSafe DEF TapExerciseCrash
<1>6. CASE \E i \in DOMAIN pages[p] : CountLoaded(p, i)
  <2> PICK i \in DOMAIN pages[p] : CountLoaded(p, i)
    BY <1>6
  <2> DEFINE r    == local[p][pages[p][i].ex]
             page == [pages[p][i] EXCEPT !.count = r.done, !.reading = FALSE]
  <2>1. /\ pages[p][i] \in Page /\ pages[p][i].reading /\ PageSafe(Named(local[p]), tapped[p], pages[p][i])
        /\ pages[p] \in Seq(Page)
    BY DEF CountLoaded, TypeInv, TypeOK, SafeInv, PagesSafe
  <2>2. pages[p][i].ex \in Exercise /\ pages[p][i].kind # "Exec"
    BY <2>1 DEF Page
  <2>3. r.done # NoCount
    BY <2>1, <2>2, <1>d DEF CountLoaded, PageSafe, Named, NoRecord
  <2>4. /\ page.kind = pages[p][i].kind /\ page.ex = pages[p][i].ex
        /\ page.count = r.done
    BY <2>1 DEF Page
  <2> HIDE DEF r, page
  <2>5. pages' = [pages EXCEPT ![p] = [@ EXCEPT ![i] = page]]
    BY DEF CountLoaded, page, r, TypeInv, TypeOK
  <2>6. /\ pages'[p] = [pages[p] EXCEPT ![i] = page]
        /\ \A o \in PatientDevice \ {p} : pages'[o] = pages[o]
    BY <2>5 DEF TypeInv, TypeOK
  <2>7. PageSafe(Named(local'[p]), tapped'[p], page)
    BY <2>1, <2>2, <2>3, <2>4 DEF PageSafe, CountLoaded
  <2>8. ASSUME NEW j \in DOMAIN pages'[p]
        PROVE  PageSafe(Named(local'[p]), tapped'[p], pages'[p][j])
    <3>1. CASE j = i
      BY <2>1, <2>6, <2>7, <3>1
    <3>2. CASE j # i
      <4>1. pages'[p][j] = pages[p][j] /\ j \in DOMAIN pages[p]
        BY <2>1, <2>6, <3>2
      <4>2. QED
        BY <4>1 DEF SafeInv, PagesSafe, PageSafe, CountLoaded
    <3>3. QED
      BY <3>1, <3>2
  <2>9. QED
    BY <1>q, <1>o, <2>6, <2>8 DEF CountLoaded, SafeInv, PagesSafe
<1>7. CASE \E i \in DOMAIN pages[p] : CountLoadedCrash(p, i)
  BY <1>7, StopPatientSafe DEF CountLoadedCrash
<1>8. CASE DoneButtonPressed(p)
  <2> DEFINE w == MergeDone(tapped[p], Top(p).count + 1)
  <2>1. Top(p) \in Page /\ Top(p).kind = "View" /\ tapped[p] \in Named(local[p]) \cap Named(db)
    BY <1>8, TopSafe DEF DoneButtonPressed, On
  <2>2. w \in Write /\ w.op = "done" /\ w.ex = tapped[p]
    <3>1. Top(p).count \in Nat \cup {NoCount} /\ Top(p).count # NoCount
      BY <1>8, <2>1 DEF Page, DoneButtonPressed
    <3>2. tapped[p] \in Exercise /\ Top(p).count + 1 \in Nat
      BY <2>1, <3>1 DEF Named, NoCount
    <3>3. QED
      BY <3>2, WriteType, FeedbackButtons DEF MergeDone
  <2>3. Send(p, w)
    BY <1>8 DEF DoneButtonPressed
  <2> HIDE DEF w
  <2>4. /\ \A o \in Device : CopySafe(db', outbox'[o], local'[o])
        /\ \A o \in Device : Named(local[o]) \subseteq Named(local'[o])
    BY <1>8, <1>d, <2>1, <2>2, <2>3, SendKeepsCopies DEF DoneButtonPressed
  <2>5. ExecPage \in Page /\ PageSafe(Named(local'[p]), tapped'[p], ExecPage)
    BY DEF Page, ExecPage, PageSafe
  <2>6. \A o \in PatientDevice : \A old \in Page : PageSafe(Named(local[o]), tapped[o], old) => PageSafe(Named(local'[o]), tapped'[o], old)
    BY <1>8, <2>4 DEF DoneButtonPressed, PageSafe, Device
  <2>7. PagesSafe(p)' /\ \A o \in PatientDevice \ {p} : pages'[o] = pages[o]
    BY <1>8, <2>5, <2>6, PresentSafe DEF DoneButtonPressed
  <2>8. \A o \in PatientDevice : PagesSafe(o)'
    BY <1>8, <2>4, <2>7, GrowingNames DEF DoneButtonPressed
  <2>9. \A o \in PatientDevice : OnlyMerges(o)'
    BY <1>d, <2>2, <2>3 DEF Send, SafeInv, OnlyMerges, TypeInv, TypeOK, Device
  <2>10. \A o \in Device : TableSafe(o)'
    <3>1. \A o \in Device : listed'[o] = listed[o] /\ (rows'[o] = rows[o] \/ rows'[o] = listed[o])
      BY <1>8 DEF DoneButtonPressed, TypeInv, TypeOK
    <3>2. QED
      BY <2>4, <3>1 DEF SafeInv, TableSafe
  <2>11. QED
    BY <1>8, <2>4, <2>8, <2>9, <2>10 DEF DoneButtonPressed, SafeInv
<1>9. CASE DoneButtonCrash(p)
  BY <1>9, StopPatientSafe DEF DoneButtonCrash
<1>10. CASE OpenFeedback(p)
  <2>1. /\ Top(p).ex \in Exercise
        /\ {Top(p).ex, tapped[p]} \subseteq Named(local[p])
    BY <1>10, TopSafe DEF OpenFeedback, On
  <2>2. FeedbackPage(Top(p).ex) \in Page /\ PageSafe(Named(local'[p]), tapped'[p], FeedbackPage(Top(p).ex))
    BY <1>10, <2>1, PageType DEF OpenFeedback, PageSafe, FeedbackPage
  <2>3. PagesSafe(p)' /\ \A o \in PatientDevice \ {p} : pages'[o] = pages[o]
    BY <1>10, <1>s, <2>2, PresentSafe DEF OpenFeedback
  <2>4. QED
    BY <1>10, <1>q, <1>o, <2>3 DEF OpenFeedback, SafeInv
<1>11. CASE \E f \in Feedback : FeedbackPressed(p, f)
  <2> PICK f \in Feedback : FeedbackPressed(p, f)
    BY <1>11
  <2> DEFINE w == MergeFeedback(tapped[p], f)
  <2>1. tapped[p] \in Exercise /\ tapped[p] \in Named(local[p]) \cap Named(db)
    BY TopSafe DEF FeedbackPressed, On
  <2>2. w \in Write /\ w.op = "feedback" /\ w.ex = tapped[p]
    BY <2>1, WriteType DEF MergeFeedback
  <2>3. Send(p, w)
    BY DEF FeedbackPressed
  <2> HIDE DEF w
  <2>4. /\ \A o \in Device : CopySafe(db', outbox'[o], local'[o])
        /\ \A o \in Device : Named(local[o]) \subseteq Named(local'[o])
    BY <1>d, <2>1, <2>2, <2>3, SendKeepsCopies DEF FeedbackPressed
  <2>5. ViewPage(tapped[p]) \in Page /\ PageSafe(Named(local'[p]), tapped'[p], ViewPage(tapped[p]))
    BY <1>d, <2>1, <2>4, PageType DEF ViewPage, PageSafe, FeedbackPressed
  <2>6. \A o \in PatientDevice : \A old \in Page : PageSafe(Named(local[o]), tapped[o], old) => PageSafe(Named(local'[o]), tapped'[o], old)
    BY <2>4 DEF FeedbackPressed, PageSafe, Device
  <2>7. PagesSafe(p)' /\ \A o \in PatientDevice \ {p} : pages'[o] = pages[o]
    BY <2>5, <2>6, PresentSafe DEF FeedbackPressed
  <2>8. /\ \A o \in PatientDevice : PagesSafe(o)'
        /\ \A o \in Device : TableSafe(o)'
    BY <2>4, <2>7, GrowingNames DEF FeedbackPressed
  <2>9. \A o \in PatientDevice : OnlyMerges(o)'
    BY <1>d, <2>2, <2>3 DEF Send, SafeInv, OnlyMerges, TypeInv, TypeOK, Device
  <2>10. QED
    BY <2>4, <2>8, <2>9 DEF FeedbackPressed, SafeInv
<1>12. CASE FeedbackBack(p)
  <2>1. tapped[p] \in Exercise /\ tapped[p] \in Named(local[p])
    BY <1>12, TopSafe DEF FeedbackBack, On
  <2>2. ViewPage(tapped[p]) \in Page /\ PageSafe(Named(local'[p]), tapped'[p], ViewPage(tapped[p]))
    BY <1>12, <2>1, PageType DEF FeedbackBack, PageSafe, ViewPage
  <2>3. PagesSafe(p)' /\ \A o \in PatientDevice \ {p} : pages'[o] = pages[o]
    BY <1>12, <1>s, <2>2, PresentSafe DEF FeedbackBack
  <2>4. QED
    BY <1>12, <1>q, <1>o, <2>3 DEF FeedbackBack, SafeInv
<1>13. CASE ViewBack(p)
  <2>1. ExecPage \in Page /\ PageSafe(Named(local'[p]), tapped'[p], ExecPage)
    BY DEF Page, ExecPage, PageSafe
  <2>2. PagesSafe(p)' /\ \A o \in PatientDevice \ {p} : pages'[o] = pages[o]
    BY <1>13, <1>s, <2>1, PresentSafe DEF ViewBack
  <2>3. QED
    BY <1>13, <1>q, <1>o, <2>2 DEF ViewBack, SafeInv
<1>14. CASE LeaveRoutine(p)
  <2>1. pages'[p] = << >> /\ \A o \in PatientDevice \ {p} : pages'[o] = pages[o]
    BY <1>14 DEF LeaveRoutine, TypeInv, TypeOK
  <2>2. QED
    BY <1>14, <1>q, <1>o, <2>1 DEF LeaveRoutine, SafeInv, PagesSafe
<1>15. CASE Dismiss(p)
  <2>1. pages[p] \in Seq(Page) /\ pages[p] # << >>
    BY <1>15 DEF Dismiss, TypeInv, TypeOK
  <2>2. /\ pages'[p] = SubSeq(pages[p], 1, Len(pages[p]) - 1)
        /\ \A o \in PatientDevice \ {p} : pages'[o] = pages[o]
    BY <1>15 DEF Dismiss, TypeInv, TypeOK
  <2>3. \A i \in DOMAIN pages'[p] : i \in DOMAIN pages[p] /\ pages'[p][i] = pages[p][i]
    BY <2>1, <2>2
  <2>4. PagesSafe(p)'
    BY <1>15, <2>3 DEF Dismiss, SafeInv, PagesSafe, PageSafe
  <2>5. QED
    BY <1>15, <1>q, <1>o, <2>2, <2>4 DEF Dismiss, SafeInv
<1>16. CASE KillPatient(p)
  BY <1>16, StopPatientSafe DEF KillPatient
<1>17. QED
  BY <1>1, <1>2, <1>3, <1>4, <1>5, <1>6, <1>7, <1>8, <1>9, <1>10, <1>11,
     <1>12, <1>13, <1>14, <1>15, <1>16 DEF PatientNext

LEMMA PhysioSafe ==
  ASSUME "delete" \notin Events,
         TypeInv, SafeInv, NEW q \in PhysioDevice, PhysioNext(q)
  PROVE  SafeInv'
<1> USE DEF serverVars, deviceVars, patientVars, physioVars, historyVars
<1>d. q \in Device
  BY DEF Device
<1>q. ASSUME UNCHANGED <<db, outbox, local, listed, pages, tapped>>,
             rows' = rows \/ rows' = [rows EXCEPT ![q] = listed[q]]
      PROVE  SafeInv'
  BY <1>q DEF SafeInv, TableSafe, PagesSafe, OnlyMerges, TypeInv, TypeOK
<1>r. ASSUME NEW r, Answered(q, r)
      PROVE  /\ \A o \in Device : CopySafe(db', outbox'[o], local'[o])
             /\ \A o \in Device : Named(local[o]) \subseteq Named(local'[o])
             /\ AllWhole(db')
             /\ \A o \in PatientDevice : PagesSafe(o)' /\ OnlyMerges(o)'
  <2>1. /\ \A o \in Device : CopySafe(db', outbox'[o], local'[o])
        /\ \A o \in Device : Named(local[o]) \subseteq Named(local'[o])
    BY <1>r, <1>d, ReceiveKeepsCopies DEF Answered
  <2>2. QED
    BY <1>r, <2>1, GrowingNames DEF Answered, SafeInv, OnlyMerges
<1>1. CASE OpenRoutineInformation(q)
  BY <1>1, <1>q DEF OpenRoutineInformation
<1>2. CASE RoutineLoaded(q)
  <2>1. /\ \A o \in Device : CopySafe(db', outbox'[o], local'[o])
        /\ \A o \in Device : Named(local[o]) \subseteq Named(local'[o])
        /\ AllWhole(db')
        /\ \A o \in PatientDevice : PagesSafe(o)' /\ OnlyMerges(o)'
    BY <1>2, <1>r DEF RoutineLoaded
  <2>2. Children(local'[q]) = Named(local'[q])
    <3>1. Children(local'[q]) \subseteq Named(local'[q])
      BY <1>2 DEF RoutineLoaded, Unnamed
    <3>2. Named(local'[q]) \subseteq Children(local'[q])
      BY DEF Named, Children, NoRecord
    <3>3. QED
      BY <3>1, <3>2
  <2>3. /\ listed'[q] = Named(local'[q])
        /\ rows'[q] = rows[q] \/ rows'[q] = Named(local'[q])
        /\ \A o \in Device \ {q} : listed'[o] = listed[o] /\ rows'[o] = rows[o]
    BY <1>2, <1>d, <2>2 DEF RoutineLoaded, Refill, TypeInv, TypeOK
  <2>4. rows[q] \subseteq Named(local'[q])
    BY <1>d, <2>1 DEF SafeInv, TableSafe
  <2>5. TableSafe(q)'
    BY <2>3, <2>4 DEF TableSafe
  <2>6. \A o \in Device : TableSafe(o)'
    BY <2>1, <2>3, <2>5, GrowingNames
  <2>7. QED
    BY <2>1, <2>6 DEF SafeInv
<1>3. CASE \E e \in Exercise : ExerciseLoaded(q, e)
  <2>1. UNCHANGED <<listed, rows>> /\ \E r : Answered(q, r)
    BY <1>3 DEF ExerciseLoaded
  <2>2. QED
    BY <2>1, <1>r, GrowingNames DEF SafeInv
<1>4. CASE StatisticsLoaded(q)
  <2>1. UNCHANGED <<listed, rows>> /\ \E r : Answered(q, r)
    BY <1>4 DEF StatisticsLoaded
  <2>2. QED
    BY <2>1, <1>r, GrowingNames DEF SafeInv
<1>5. CASE PhysioReadCrash(q)
  BY <1>5, StopPhysioSafe DEF PhysioReadCrash
<1>6. CASE \E e \in Exercise : TapRow(q, e)
  BY <1>6, <1>q DEF TapRow
<1>7. CASE TapStatistics(q)
  BY <1>7, <1>q DEF TapStatistics
<1>8. CASE \E e \in Exercise : DeleteRow(q, e)
  BY <1>8 DEF DeleteRow
<1>9. CASE RowCrash(q)
  BY <1>9, StopPhysioSafe DEF RowCrash
<1>10. CASE \E e \in Exercise : SaveExercise(q, e)
  <2> PICK e \in Exercise : SaveExercise(q, e)
    BY <1>10
  <2>1. Save(e) \in Write /\ Save(e).op = "save" /\ Send(q, Save(e))
    BY WriteType, FeedbackButtons DEF Save, SaveExercise
  <2>2. /\ \A o \in Device : CopySafe(db', outbox'[o], local'[o])
        /\ \A o \in Device : Named(local[o]) \subseteq Named(local'[o])
    BY <1>d, <2>1, SendKeepsCopies DEF SaveExercise
  <2>3. \A o \in PatientDevice : OnlyMerges(o)'
    BY DevicesDiffer DEF SaveExercise, Send, SafeInv, OnlyMerges, TypeInv, TypeOK, Device
  <2>4. QED
    BY <2>2, <2>3, GrowingNames DEF SaveExercise, SafeInv
<1>11. CASE KillPhysio(q)
  BY <1>11, StopPhysioSafe DEF KillPhysio
<1>12. QED
  BY <1>1, <1>2, <1>3, <1>4, <1>5, <1>6, <1>7, <1>8, <1>9, <1>10, <1>11
  DEF PhysioNext

LEMMA FlushSafe ==
  ASSUME TypeInv, SafeInv, NEW d \in Device, Flush(d)
  PROVE  SafeInv'
<1> USE DEF patientVars, physioVars, historyVars
<1>1. /\ AllWhole(db')
      /\ \A o \in Device : CopySafe(db', outbox'[o], local'[o])
      /\ \A o \in Device : Named(local[o]) \subseteq Named(local'[o])
  BY FlushKeepsCopies
<1>2. ASSUME NEW p \in PatientDevice
      PROVE  OnlyMerges(p)'
  <2>1. p \in Device /\ outbox[p] \in Seq(Write)
    BY DEF Device, TypeInv, TypeOK
  <2>2. outbox'[p] = outbox[p] \/ (outbox[p] # << >> /\ outbox'[p] = Tail(outbox[p]))
    BY <2>1 DEF Flush, TypeInv, TypeOK
  <2>3. outbox[p] # << >> => \A i \in DOMAIN Tail(outbox[p]) :
          i + 1 \in DOMAIN outbox[p] /\ Tail(outbox[p])[i] = outbox[p][i + 1]
    BY <2>1
  <2>4. QED
    BY <2>2, <2>3 DEF SafeInv, OnlyMerges
<1>3. QED
  BY <1>1, <1>2, GrowingNames DEF Flush, SafeInv

LEMMA AnswerLostSafe ==
  ASSUME TypeInv, SafeInv, NEW d \in Device, AnswerLost(d)
  PROVE  SafeInv'
<1> USE DEF deviceVars, patientVars, physioVars, historyVars
<1>1. PICK i \in DOMAIN outbox[d] : db' = Apply(db, outbox[d][i])
  BY DEF AnswerLost
<1>2. /\ db \in Records /\ local[d] \in Records /\ outbox[d] \in Seq(Write)
      /\ AllWhole(db) /\ CopySafe(db, outbox[d], local[d])
  BY DEF SafeInv, TypeInv, TypeOK
<1>3. AllWhole(db') /\ Named(db) \subseteq Named(db')
  BY <1>1, <1>2, TakenSafe
<1>4. UNCHANGED <<outbox, local, listed, rows, pages, tapped>>
  BY DEF AnswerLost
<1>5. ASSUME NEW o \in Device
      PROVE  CopySafe(db', outbox'[o], local'[o])
  <2>1. outbox[o] \in Seq(Write) /\ CopySafe(db, outbox[o], local[o])
    BY DEF SafeInv, TypeInv, TypeOK
  <2>2. QED
    BY <2>1, <1>3, <1>4, BaseGrows
<1>6. QED
  BY <1>3, <1>4, <1>5 DEF SafeInv, TableSafe, PagesSafe, OnlyMerges

LEMMA InitSafe == Init => SafeInv
<1>1. Whole(NoRecord)
  BY DEF Whole
<1>2. QED
  BY <1>1 DEF Init, SafeInv, CopySafe, TableSafe, PagesSafe, OnlyMerges,
              AllWhole, Whole, Empty, NoRecord, Device

LEMMA StepSafe ==
  ASSUME "delete" \notin Events
  PROVE  TypeInv /\ SafeInv /\ [Next]_vars => SafeInv'
<1> SUFFICES ASSUME TypeInv, SafeInv, [Next]_vars
             PROVE  SafeInv'
  OBVIOUS
<1>1. CASE \E p \in PatientDevice : PatientNext(p)
  BY <1>1, PatientSafe
<1>2. CASE \E q \in PhysioDevice : PhysioNext(q)
  BY <1>2, PhysioSafe
<1>3. CASE \E d \in Device : Flush(d)
  BY <1>3, FlushSafe
<1>4. CASE \E d \in Device : AnswerLost(d)
  BY <1>4, AnswerLostSafe
<1>5. CASE UNCHANGED vars
  BY <1>5 DEF vars, SafeInv, TableSafe, PagesSafe, OnlyMerges
<1>6. QED
  BY <1>1, <1>2, <1>3, <1>4, <1>5 DEF Next

LEMMA SafeInvAlways ==
  ASSUME "delete" \notin Events
  PROVE  Spec => []SafeInv
BY InitSafe, StepSafe, TypesCorrect, PTL DEF Spec

---------------------------------------------------------------------------
(* Without deletions no merge of a patient ever makes a nameless record:   *)
(* whatever the phones, the network and the physiotherapist's saves do,    *)
(* every child of the routine has the key exercisename.                    *)
THEOREM ChildrenNamed ==
  ASSUME "delete" \notin Events
  PROVE  Spec => []EveryChildNamed
<1>1. SafeInv => EveryChildNamed
  BY DEF SafeInv, AllWhole, Whole, EveryChildNamed, Unnamed, Children, Named
<1>2. QED
  BY <1>1, SafeInvAlways, PTL

(* What every callback unwraps is there: no step of a device crashes it. *)
LEMMA NoStepCrashes ==
  ASSUME {"delete", "hasty"} \cap Events = {}
  PROVE  TypeInv /\ SafeInv /\ NeverCrashes /\ [Next]_vars => NeverCrashes'
<1> SUFFICES ASSUME TypeInv, SafeInv, NeverCrashes, [Next]_vars
             PROVE  NeverCrashes'
  OBVIOUS
<1> USE DEF serverVars, deviceVars, patientVars, physioVars, historyVars
<1>o. ASSUME NEW d \in Device
      PROVE  /\ AllWhole(local[d]) /\ AllWhole(Overlay(db, outbox[d], local[d]))
             /\ Unnamed(local[d]) = {} /\ Unnamed(Overlay(db, outbox[d], local[d])) = {}
  <2>1. /\ db \in Records /\ local[d] \in Records /\ outbox[d] \in Seq(Write)
        /\ AllWhole(db) /\ CopySafe(db, outbox[d], local[d])
    BY DEF SafeInv, TypeInv, TypeOK
  <2>2. CopySafe(db, outbox[d], Overlay(db, outbox[d], local[d]))
    BY <2>1, OverlaySafe
  <2>3. \A records : AllWhole(records) => Unnamed(records) = {}
    BY DEF AllWhole, Whole, Unnamed, Children, Named
  <2>4. QED
    BY <2>1, <2>2, <2>3 DEF CopySafe
<1>1. ASSUME NEW p \in PatientDevice, PatientNext(p)
      PROVE  NeverCrashes'
  <2>d. p \in Device
    BY DEF Device
  <2>1. ~RoutineChangedCrash(p)
    BY <2>d, <1>o DEF RoutineChangedCrash
  <2>2. ~TapExerciseCrash(p)
    BY <2>d DEF TapExerciseCrash, SafeInv, TableSafe
  <2>3. ASSUME NEW i \in DOMAIN pages[p], CountLoadedCrash(p, i)
        PROVE  FALSE
    <3>1. pages[p][i] \in Page
      BY DEF TypeInv, TypeOK
    <3>2. pages[p][i].ex \in Exercise
      BY <2>3, <3>1 DEF CountLoadedCrash, Page
    <3>3. Whole(local[p][pages[p][i].ex])
      BY <2>d, <3>2, <1>o DEF AllWhole
    <3>4. QED
      BY <2>3, <3>3 DEF CountLoadedCrash, Whole
  <2>4. ~DoneButtonCrash(p)
    <3> SUFFICES ASSUME DoneButtonCrash(p)
                 PROVE  FALSE
      OBVIOUS
    <3>1. pages[p] # << >> /\ Top(p).kind = "View" /\ ~Top(p).reading /\ Top(p).count = NoCount
      BY TopType DEF DoneButtonCrash, On, TypeInv, Page
    <3>2. Len(pages[p]) \in DOMAIN pages[p]
      BY <3>1, TopType DEF TypeInv
    <3>3. QED
      BY <3>1, <3>2 DEF Top, SafeInv, PagesSafe, PageSafe
  <2>5. app' = app \/ \E how \in {"running", "closed"} : app' = [app EXCEPT ![p] = how]
    BY <1>1, <2>1, <2>2, <2>3, <2>4
    DEF PatientNext, OpenRoutine, RoutineChanged, TapExercise, CountLoaded,
        DoneButtonPressed, OpenFeedback, FeedbackPressed, FeedbackBack, ViewBack,
        LeaveRoutine, Dismiss, KillPatient, StopPatient, Stop
  <2>6. QED
    BY <2>5, <2>d DEF NeverCrashes, TypeInv, TypeOK
<1>2. ASSUME NEW q \in PhysioDevice, PhysioNext(q)
      PROVE  NeverCrashes'
  <2>d. q \in Device
    BY DEF Device
  <2>1. ~PhysioReadCrash(q)
    <3> DEFINE copy == Overlay(db, outbox[q], local[q])
    <3>1. AllWhole(copy) /\ Unnamed(copy) = {}
      BY <2>d, <1>o
    <3>2. ASSUME NEW e \in Children(copy)
          PROVE  copy[e].prescribed /\ copy[e].done # NoCount /\ copy[e].feedback # NoFeedback
      BY <3>1 DEF AllWhole, Whole, Children
    <3> HIDE DEF copy
    <3>3. QED
      BY <3>1, <3>2 DEF PhysioReadCrash, copy
  <2>2. ~RowCrash(q)
    BY <2>d DEF RowCrash, SafeInv, TableSafe
  <2>3. app' = app \/ \E how \in {"running", "closed"} : app' = [app EXCEPT ![q] = how]
    BY <1>2, <2>1, <2>2
    DEF PhysioNext, OpenRoutineInformation, RoutineLoaded, ExerciseLoaded,
        StatisticsLoaded, Answered, TapRow, TapStatistics, DeleteRow, SaveExercise,
        KillPhysio, StopPhysio, Stop
  <2>4. QED
    BY <2>3, <2>d DEF NeverCrashes, TypeInv, TypeOK
<1>3. ASSUME NEW d \in Device, Flush(d)
      PROVE  NeverCrashes'
  BY <1>3 DEF Flush, NeverCrashes
<1>4. ASSUME NEW d \in Device, AnswerLost(d)
      PROVE  NeverCrashes'
  BY <1>4 DEF AnswerLost, deviceVars, NeverCrashes
<1>5. CASE UNCHANGED vars
  BY <1>5 DEF vars, NeverCrashes
<1>6. QED
  BY <1>1, <1>2, <1>3, <1>4, <1>5 DEF Next

(* Without deletions, and if the patient waits for a page to load before   *)
(* pressing Done, no app ever crashes on a forced unwrap, a forced cast or *)
(* an index: not even with sheets swiped away, exercises saved again, apps *)
(* killed and writes lost.                                                 *)
THEOREM AppsNeverCrash ==
  ASSUME {"delete", "hasty"} \cap Events = {}
  PROVE  Spec => []NeverCrashes
<1>1. Init => NeverCrashes
  BY DEF Init, NeverCrashes
<1>2. Spec => []SafeInv
  BY SafeInvAlways
<1>3. QED
  BY <1>1, <1>2, TypesCorrect, NoStepCrashes, PTL DEF Spec

---------------------------------------------------------------------------
(* The progress of an exercise, with one phone of each user.               *)

(* A phone that merges only, onto records the server has. *)
Merging(base, queue, own) ==
  /\ AllWhole(base)
  /\ CopySafe(base, queue, own)
  /\ \A i \in DOMAIN queue : queue[i].op \in {"done", "feedback"}

(* The patient's phone knows what the server has, but for the progress it  *)
(* is about to send ...                                                    *)
Known(base, queue, own) ==
  \A e \in Exercise : own[e].prescribed =>
    /\ ~Pending(queue, e, {"done"})     => own[e].done = base[e].done
    /\ ~Pending(queue, e, {"feedback"}) => own[e].feedback = base[e].feedback

(* ... which is the server's count, counted on. *)
Rising(base, queue, own) ==
  \A i \in DOMAIN queue : queue[i].op = "done" =>
    /\ base[queue[i].ex].done <= queue[i].count
    /\ queue[i].count <= own[queue[i].ex].done
    /\ \A j \in DOMAIN queue :
         i < j /\ queue[j].op = "done" /\ queue[j].ex = queue[i].ex
           => queue[i].count <= queue[j].count

(* The physiotherapist's phone saves an exercise once. *)
SavedOnce(base, queue) ==
  \A i \in DOMAIN queue :
    /\ queue[i].op = "save"
    /\ ~base[queue[i].ex].prescribed
    /\ \A j \in DOMAIN queue : queue[i].ex = queue[j].ex => i = j

(* A page shows the exercise tapped, with the count the phone has. *)
PageFresh(own, last, page) ==
  page.kind # "Exec" => page.ex = last /\ page.count \in {NoCount, own[last].done}

(* The patient's copy has every press and the last feedback. *)
Reported(base, own, reached, given) ==
  \A e \in Exercise :
    IF own[e].prescribed
      THEN own[e].done = reached[e] /\ own[e].feedback = given[e]
      ELSE /\ reached[e] = 0 /\ given[e] = "Good"
           /\ base[e].prescribed => base[e].done = 0 /\ base[e].feedback = "Good"

LastSaid == [e \in Exercise |-> Latest(e)]

PhoneCurrent(base, queue, own) ==
  Merging(base, queue, own) /\ Known(base, queue, own) /\ Rising(base, queue, own)

ProgressInv ==
  /\ \A p \in PatientDevice :
       /\ Known(db, outbox[p], local[p]) /\ Rising(db, outbox[p], local[p])
       /\ \A i \in DOMAIN pages[p] : PageFresh(local[p], tapped[p], pages[p][i])
       /\ Events = {} => Reported(db, local[p], presses, LastSaid)
  /\ \A q \in PhysioDevice : SavedOnce(db, outbox[q])

(* News from the server change nothing of an exercise the phone knows. *)
LEMMA OverlayCurrent ==
  ASSUME NEW base \in Records, NEW own \in Records, NEW queue \in Seq(Write),
         PhoneCurrent(base, queue, own)
  PROVE  LET new == Overlay(base, queue, own)
         IN  /\ PhoneCurrent(base, queue, new)
             /\ \A e \in Exercise :
                  new[e] = IF own[e].prescribed THEN own[e] ELSE base[e]
<1> DEFINE new == Overlay(base, queue, own)
<1>1. ASSUME NEW e \in Exercise
      PROVE  new[e] = IF own[e].prescribed THEN own[e] ELSE base[e]
  <2>1. ~Pending(queue, e, {"save", "remove"}) /\ ~Pending(queue, e, {"save"})
    BY DEF PhoneCurrent, Merging, Pending
  <2>2. /\ Pending(queue, e, {"save", "remove", "done"}) <=> Pending(queue, e, {"done"})
        /\ Pending(queue, e, {"save", "remove", "feedback"}) <=> Pending(queue, e, {"feedback"})
    BY <2>1 DEF Pending
  <2>3. new[e] = [prescribed |-> base[e].prescribed,
                  done       |-> IF Pending(queue, e, {"done"}) THEN own[e].done ELSE base[e].done,
                  feedback   |-> IF Pending(queue, e, {"feedback"}) THEN own[e].feedback ELSE base[e].feedback]
    BY <2>1, <2>2 DEF Overlay
  <2>4. own[e].prescribed => base[e].prescribed
    BY <2>1 DEF PhoneCurrent, Merging, CopySafe
  <2>5. Pending(queue, e, {"done"}) \/ Pending(queue, e, {"feedback"}) => own[e].prescribed
    BY DEF PhoneCurrent, Merging, CopySafe, Pending
  <2>6. own[e] \in Record /\ base[e] \in Record
    BY DEF Records
  <2> HIDE DEF new
  <2>7. CASE own[e].prescribed
    <3>1. base[e].prescribed = TRUE /\ own[e].prescribed = TRUE
      BY <2>4, <2>6, <2>7 DEF Record
    <3>2. new[e] = [prescribed |-> TRUE, done |-> own[e].done, feedback |-> own[e].feedback]
      BY <2>3, <2>7, <3>1 DEF PhoneCurrent, Known
    <3>3. QED
      BY <2>6, <2>7, <3>1, <3>2 DEF Record
  <2>8. CASE ~own[e].prescribed
    BY <2>3, <2>5, <2>6, <2>8 DEF Record
  <2>9. QED
    BY <2>7, <2>8
<1>2. CopySafe(base, queue, new)
  BY OverlaySafe DEF PhoneCurrent, Merging
<1> HIDE DEF new
<1>3. Known(base, queue, new)
  BY <1>1 DEF PhoneCurrent, Known
<1>4. Rising(base, queue, new)
  <2>1. \A i \in DOMAIN queue : queue[i].ex \in Exercise /\ own[queue[i].ex].prescribed
    BY QueueFacts DEF PhoneCurrent, Merging, CopySafe
  <2>2. \A i \in DOMAIN queue : new[queue[i].ex] = own[queue[i].ex]
    BY <1>1, <2>1
  <2>3. QED
    BY <2>2 DEF PhoneCurrent, Rising
<1>5. QED
  BY <1>1, <1>2, <1>3, <1>4 DEF PhoneCurrent, Merging, new

(* A merge of the patient: a count is the one the phone has, counted on.   *)
LEMMA AppendCurrent ==
  ASSUME NEW base \in Records, NEW own \in Records, NEW queue \in Seq(Write),
         NEW w \in Write, w.op \in {"done", "feedback"}, PhoneCurrent(base, queue, own),
         own[w.ex].prescribed, w.op = "done" => own[w.ex].done <= w.count
  PROVE  PhoneCurrent(base, Append(queue, w), Apply(own, w))
<1> DEFINE new  == Apply(own, w)
           more == Append(queue, w)
<1>1. w.ex \in Exercise /\ w.count \in Nat
  BY DEF Write
<1>2. /\ DOMAIN more = 1 .. Len(queue) + 1 /\ DOMAIN queue = 1 .. Len(queue) /\ Len(queue) \in Nat
      /\ more[Len(queue) + 1] = w
      /\ \A i \in DOMAIN queue : i \in DOMAIN more /\ more[i] = queue[i]
  OBVIOUS
<1>3. /\ \A e \in Exercise :
           /\ new[e].prescribed = own[e].prescribed
           /\ new[e].done = IF e = w.ex /\ w.op = "done" THEN w.count ELSE own[e].done
           /\ new[e].feedback = IF e = w.ex /\ w.op = "feedback" THEN w.text ELSE own[e].feedback
  BY <1>1 DEF Apply, Written, Records, Record
<1>4. ~Pending(queue, w.ex, {"save"})
  BY DEF PhoneCurrent, Merging, Pending
<1>5. base[w.ex].prescribed
  BY <1>1, <1>4 DEF PhoneCurrent, Merging, CopySafe
<1>6. CopySafe(base, more, new)
  BY <1>5, AppendSafe DEF PhoneCurrent, Merging
<1> HIDE DEF new, more
<1>7. Known(base, more, new)
  <2>1. \A e, ops : ~Pending(more, e, ops) => ~Pending(queue, e, ops) /\ ~(e = w.ex /\ w.op \in ops)
    BY <1>2 DEF Pending
  <2>2. QED
    BY <2>1, <1>3 DEF PhoneCurrent, Known
<1>8. \A i \in DOMAIN queue : /\ queue[i].ex \in Exercise /\ queue[i].count \in Nat
                              /\ own[queue[i].ex].done \in Int /\ base[queue[i].ex].done \in Int
  <2>1. \A i \in DOMAIN queue : queue[i] \in Write
    OBVIOUS
  <2>2. QED
    BY <2>1 DEF Write, Records, Record, NoCount
<1>9. w.op = "done" => base[w.ex].done <= w.count
  <2>1. base[w.ex].done \in Int /\ own[w.ex].done \in Int
    BY <1>1 DEF Records, Record, NoCount
  <2>2. CASE Pending(queue, w.ex, {"done"})
    <3>1. PICK i \in DOMAIN queue : queue[i].ex = w.ex /\ queue[i].op = "done"
      BY <2>2 DEF Pending
    <3>2. base[w.ex].done <= queue[i].count /\ queue[i].count <= own[w.ex].done
      BY <3>1 DEF PhoneCurrent, Rising
    <3>3. QED
      BY <1>1, <1>8, <2>1, <3>2
  <2>3. CASE ~Pending(queue, w.ex, {"done"})
    BY <1>1, <2>3 DEF PhoneCurrent, Known
  <2>4. QED
    BY <2>2, <2>3
<1>10. ASSUME NEW i \in DOMAIN more, more[i].op = "done"
       PROVE  /\ base[more[i].ex].done <= more[i].count
              /\ more[i].count <= new[more[i].ex].done
              /\ \A j \in DOMAIN more :
                   i < j /\ more[j].op = "done" /\ more[j].ex = more[i].ex
                     => more[i].count <= more[j].count
  <2>1. CASE i = Len(queue) + 1
    BY <1>1, <1>2, <1>3, <1>9, <1>10, <2>1
  <2>2. CASE i \in DOMAIN queue
    <3>1. /\ more[i] = queue[i]
          /\ base[queue[i].ex].done <= queue[i].count
          /\ queue[i].count <= own[queue[i].ex].done
      BY <1>2, <1>10, <2>2 DEF PhoneCurrent, Rising
    <3>2. queue[i].ex = w.ex /\ w.op = "done" => queue[i].count <= w.count
      BY <1>1, <1>8, <2>2, <3>1
    <3>3. queue[i].count <= new[queue[i].ex].done
      BY <1>3, <1>8, <2>2, <3>1, <3>2
    <3>4. ASSUME NEW j \in DOMAIN more, i < j, more[j].op = "done", more[j].ex = queue[i].ex
          PROVE  queue[i].count <= more[j].count
      <4>1. CASE j = Len(queue) + 1
        BY <1>2, <3>2, <3>4, <4>1
      <4>2. CASE j \in DOMAIN queue
        BY <1>2, <1>10, <2>2, <3>1, <3>4, <4>2 DEF PhoneCurrent, Rising
      <4>3. QED
        BY <1>2, <4>1, <4>2
    <3>5. QED
      BY <3>1, <3>3, <3>4
  <2>3. QED
    BY <1>2, <2>1, <2>2
<1>11. Rising(base, more, new)
  BY <1>10 DEF Rising
<1>12. \A i \in DOMAIN more : more[i].op \in {"done", "feedback"}
  BY <1>2 DEF PhoneCurrent, Merging
<1>13. QED
  BY <1>6, <1>7, <1>11, <1>12 DEF PhoneCurrent, Merging, new, more

(* The server takes the oldest merge: the count it had does not sink. *)
LEMMA HeadCurrent ==
  ASSUME NEW base \in Records, NEW own \in Records, NEW queue \in Seq(Write),
         queue # << >>, PhoneCurrent(base, queue, own), OwnShown(queue, own)
  PROVE  LET new == Apply(base, Head(queue))
         IN  /\ PhoneCurrent(new, Tail(queue), own)
             /\ \A e \in Exercise :
                  /\ base[e].prescribed => new[e].prescribed /\ new[e].done >= base[e].done
                  /\ ~own[e].prescribed => new[e] = base[e]
<1> DEFINE w    == Head(queue)
           new  == Apply(base, w)
           rest == Tail(queue)
<1>1. /\ w \in Write /\ w = queue[1] /\ 1 \in DOMAIN queue
      /\ \A i \in DOMAIN queue : i \in Nat /\ 1 <= i
      /\ \A i \in DOMAIN rest : i \in Nat /\ 1 < i + 1 /\ i + 1 \in DOMAIN queue /\ rest[i] = queue[i + 1]
      /\ \A i \in DOMAIN queue : i = 1 \/ (i - 1 \in DOMAIN rest /\ rest[i - 1] = queue[i])
  OBVIOUS
<1>2. w.ex \in Exercise /\ w.op \in {"done", "feedback"} /\ own[w.ex].prescribed /\ w.count \in Nat
  BY <1>1 DEF PhoneCurrent, Merging, CopySafe, Write
<1>3. /\ \A e \in Exercise :
           /\ new[e].prescribed = base[e].prescribed
           /\ new[e].done = IF e = w.ex /\ w.op = "done" THEN w.count ELSE base[e].done
           /\ new[e].feedback = IF e = w.ex /\ w.op = "feedback" THEN w.text ELSE base[e].feedback
           /\ e # w.ex => new[e] = base[e]
  BY <1>2 DEF Apply, Written, Records, Record
<1>4. AllWhole(new) /\ CopySafe(new, rest, own)
  BY HeadSafe DEF PhoneCurrent, Merging
<1> HIDE DEF w, new, rest
<1>5. ASSUME NEW e \in Exercise, NEW op, ~Pending(rest, e, {op})
      PROVE  \A j \in DOMAIN queue : queue[j].ex = e /\ queue[j].op = op => j = 1
  BY <1>1, <1>5 DEF Pending
<1>6. Known(new, rest, own)
  <2> SUFFICES ASSUME NEW e \in Exercise, own[e].prescribed
               PROVE  /\ ~Pending(rest, e, {"done"}) => own[e].done = new[e].done
                      /\ ~Pending(rest, e, {"feedback"}) => own[e].feedback = new[e].feedback
    BY DEF Known
  <2>1. ASSUME ~Pending(rest, e, {"done"})
        PROVE  own[e].done = new[e].done
    <3>1. CASE e = w.ex /\ w.op = "done"
      <4>0. \A j \in DOMAIN queue : queue[j].ex = e /\ queue[j].op = "done" => j = 1
        BY <1>5, <2>1
      <4>1. NewestOf(queue, 1, {"save", "remove", "done"})
        <5>1. \A j \in DOMAIN queue : queue[j].op \in {"done", "feedback"}
          BY DEF PhoneCurrent, Merging
        <5>2. QED
          BY <1>1, <3>1, <4>0, <5>1 DEF NewestOf
      <4>2. own[e].done = w.count
        <5>1. Written(NoRecord, w).done = w.count
          BY <3>1 DEF Written, NoRecord
        <5>2. own[e].done = Written(NoRecord, w).done
          BY <1>1, <3>1, <4>1 DEF OwnShown, ShownIn
        <5>3. QED
          BY <5>1, <5>2
      <4>3. QED
        BY <1>3, <3>1, <4>2
    <3>2. CASE ~(e = w.ex /\ w.op = "done")
      <4>1. ~Pending(queue, e, {"done"})
        BY <1>1, <1>5, <2>1, <3>2 DEF Pending
      <4>2. QED
        BY <1>3, <3>2, <4>1 DEF PhoneCurrent, Known
    <3>3. QED
      BY <3>1, <3>2
  <2>2. ASSUME ~Pending(rest, e, {"feedback"})
        PROVE  own[e].feedback = new[e].feedback
    <3>1. CASE e = w.ex /\ w.op = "feedback"
      <4>0. \A j \in DOMAIN queue : queue[j].ex = e /\ queue[j].op = "feedback" => j = 1
        BY <1>5, <2>2
      <4>1. NewestOf(queue, 1, {"save", "remove", "feedback"})
        <5>1. \A j \in DOMAIN queue : queue[j].op \in {"done", "feedback"}
          BY DEF PhoneCurrent, Merging
        <5>2. QED
          BY <1>1, <3>1, <4>0, <5>1 DEF NewestOf
      <4>2. own[e].feedback = w.text
        <5>1. Written(NoRecord, w).feedback = w.text
          BY <3>1 DEF Written, NoRecord
        <5>2. own[e].feedback = Written(NoRecord, w).feedback
          BY <1>1, <3>1, <4>1 DEF OwnShown, ShownIn
        <5>3. QED
          BY <5>1, <5>2
      <4>3. QED
        BY <1>3, <3>1, <4>2
    <3>2. CASE ~(e = w.ex /\ w.op = "feedback")
      <4>1. ~Pending(queue, e, {"feedback"})
        BY <1>1, <1>5, <2>2, <3>2 DEF Pending
      <4>2. QED
        BY <1>3, <3>2, <4>1 DEF PhoneCurrent, Known
    <3>3. QED
      BY <3>1, <3>2
  <2>3. QED
    BY <2>1, <2>2
<1>7. Rising(new, rest, own)
  <2> SUFFICES ASSUME NEW i \in DOMAIN rest, rest[i].op = "done"
               PROVE  /\ new[rest[i].ex].done <= rest[i].count
                      /\ rest[i].count <= own[rest[i].ex].done
                      /\ \A j \in DOMAIN rest :
                           i < j /\ rest[j].op = "done" /\ rest[j].ex = rest[i].ex
                             => rest[i].count <= rest[j].count
    BY DEF Rising
  <2>1. i + 1 \in DOMAIN queue /\ rest[i] = queue[i + 1] /\ 1 < i + 1
    BY <1>1
  <2>2. rest[i].ex \in Exercise
    BY <2>1, QueueFacts
  <2>3. base[rest[i].ex].done <= rest[i].count /\ rest[i].count <= own[rest[i].ex].done
    BY <2>1 DEF PhoneCurrent, Rising
  <2>4. w.ex = rest[i].ex /\ w.op = "done" => w.count <= rest[i].count
    BY <1>1, <2>1 DEF PhoneCurrent, Rising
  <2>5. new[rest[i].ex].done <= rest[i].count
    BY <1>3, <2>2, <2>3, <2>4
  <2>6. ASSUME NEW j \in DOMAIN rest, i < j, rest[j].op = "done", rest[j].ex = rest[i].ex
        PROVE  rest[i].count <= rest[j].count
    <3>1. j + 1 \in DOMAIN queue /\ rest[j] = queue[j + 1] /\ i + 1 < j + 1
      BY <1>1, <2>6
    <3>2. QED
      BY <2>1, <2>6, <3>1 DEF PhoneCurrent, Rising
  <2>7. QED
    BY <2>3, <2>5, <2>6
<1>8. ASSUME NEW e \in Exercise
      PROVE  /\ base[e].prescribed => new[e].prescribed /\ new[e].done >= base[e].done
             /\ ~own[e].prescribed => new[e] = base[e]
  <2>1. base[e].done \in Int
    BY DEF Records, Record, NoCount
  <2>2. w.op = "done" => base[w.ex].done <= w.count
    BY <1>1 DEF PhoneCurrent, Rising
  <2>3. QED
    BY <1>2, <1>3, <2>1, <2>2
<1>9. \A i \in DOMAIN rest : rest[i].op \in {"done", "feedback"}
  BY <1>1 DEF PhoneCurrent, Merging
<1>10. QED
  BY <1>4, <1>6, <1>7, <1>8, <1>9 DEF PhoneCurrent, Merging, new, rest, w

(* The server takes a save of an exercise it had not: the phone knows      *)
(* nothing of it yet.                                                      *)
LEMMA SaveCurrent ==
  ASSUME NEW base \in Records, NEW own \in Records, NEW queue \in Seq(Write),
         NEW w \in Write, w.op = "save", ~base[w.ex].prescribed,
         PhoneCurrent(base, queue, own)
  PROVE  /\ PhoneCurrent(Apply(base, w), queue, own)
         /\ ~own[w.ex].prescribed
         /\ \A e \in Exercise : Apply(base, w)[e] = IF e = w.ex THEN NewRecord ELSE base[e]
<1> DEFINE new == Apply(base, w)
<1>1. w.ex \in Exercise
  BY DEF Write
<1>2. \A e \in Exercise : new[e] = IF e = w.ex THEN NewRecord ELSE base[e]
  BY <1>1 DEF Apply, Written, Records
<1>3. ~Pending(queue, w.ex, {"save"})
  BY DEF PhoneCurrent, Merging, Pending
<1>4. ~own[w.ex].prescribed
  BY <1>1, <1>3 DEF PhoneCurrent, Merging, CopySafe
<1>5. \A i \in DOMAIN queue : queue[i].ex \in Exercise /\ queue[i].ex # w.ex
  BY <1>4, QueueFacts DEF PhoneCurrent, Merging, CopySafe
<1> HIDE DEF new
<1>6. AllWhole(new) /\ Named(base) \subseteq Named(new)
  BY <1>2 DEF PhoneCurrent, Merging, AllWhole, Whole, Named, NewRecord, NoCount, NoFeedback
<1>7. CopySafe(new, queue, own)
  BY <1>6, BaseGrows DEF PhoneCurrent, Merging
<1>8. Known(new, queue, own) /\ Rising(new, queue, own)
  BY <1>2, <1>4, <1>5 DEF PhoneCurrent, Known, Rising
<1>9. QED
  BY <1>2, <1>4, <1>6, <1>7, <1>8 DEF PhoneCurrent, Merging, new

LEMMA PhoneFacts ==
  ASSUME TypeInv, SafeInv, ProgressInv, NEW p \in PatientDevice
  PROVE  /\ db \in Records /\ local[p] \in Records /\ outbox[p] \in Seq(Write)
         /\ presses \in [Exercise -> Nat] /\ pages[p] \in Seq(Page)
         /\ PhoneCurrent(db, outbox[p], local[p])
         /\ \A i \in DOMAIN pages[p] :
              /\ PageFresh(local[p], tapped[p], pages[p][i])
              /\ pages[p][i].kind # "Exec" => tapped[p] \in Exercise /\ local[p][tapped[p]].prescribed
<1>1. /\ db \in Records /\ local[p] \in Records /\ outbox[p] \in Seq(Write)
      /\ presses \in [Exercise -> Nat] /\ pages[p] \in Seq(Page)
  BY DEF TypeInv, TypeOK, Device
<1>2. PhoneCurrent(db, outbox[p], local[p])
  BY DEF SafeInv, OnlyMerges, ProgressInv, PhoneCurrent, Merging, Device
<1>3. \A i \in DOMAIN pages[p] :
        /\ PageFresh(local[p], tapped[p], pages[p][i])
        /\ pages[p][i].kind # "Exec" => tapped[p] \in Exercise /\ local[p][tapped[p]].prescribed
  BY DEF SafeInv, PagesSafe, PageSafe, ProgressInv, Named
<1>4. QED
  BY <1>1, <1>2, <1>3

(* A step of the patient: the phone hears, taps, reads, presses, ends. *)
LEMMA PatientProgress ==
  ASSUME NEW p, PatientDevice = {p}, Events \subseteq {"kill", "hasty"},
         TypeInv, SafeInv, ProgressInv, Events = {} => NeverCrashes', PatientNext(p)
  PROVE  ProgressInv'
<1> USE DEF serverVars, deviceVars, patientVars, physioVars, historyVars
<1>d. p \in PatientDevice /\ p \in Device
  BY DEF Device
<1>m. /\ db \in Records /\ local[p] \in Records /\ outbox[p] \in Seq(Write)
      /\ presses \in [Exercise -> Nat] /\ pages[p] \in Seq(Page)
      /\ PhoneCurrent(db, outbox[p], local[p])
      /\ \A i \in DOMAIN pages[p] :
           /\ PageFresh(local[p], tapped[p], pages[p][i])
           /\ pages[p][i].kind # "Exec" => tapped[p] \in Exercise /\ local[p][tapped[p]].prescribed
  BY <1>d, PhoneFacts
<1>c. /\ Events = {} => Reported(db, local[p], presses, LastSaid)
      /\ \A q \in PhysioDevice : SavedOnce(db, outbox[q])
  BY <1>d DEF ProgressInv
<1>i. ASSUME Known(db, outbox'[p], local'[p]), Rising(db, outbox'[p], local'[p]),
             \A i \in DOMAIN pages'[p] : PageFresh(local'[p], tapped'[p], pages'[p][i]),
             Events = {} => Reported(db, local'[p], presses', LastSaid'),
             UNCHANGED db, \A q \in PhysioDevice : outbox'[q] = outbox[q]
      PROVE  ProgressInv'
  BY <1>i, <1>c DEF ProgressInv
<1>u. ASSUME UNCHANGED <<db, outbox, local, presses, said>>,
             \A i \in DOMAIN pages'[p] : PageFresh(local[p], tapped'[p], pages'[p][i])
      PROVE  ProgressInv'
  <2>1. LastSaid' = LastSaid
    BY <1>u DEF LastSaid, Latest
  <2>2. QED
    BY <1>u, <1>c, <1>m, <1>i, <2>1 DEF PhoneCurrent
<1>p. ASSUME NEW page, Present(p, page)
      PROVE  pages'[p] = <<page>>
  BY <1>p, <1>d DEF Present, TypeInv, TypeOK
<1>q. \A q \in PhysioDevice : q # p /\ q \in Device
  BY <1>d, DevicesDiffer DEF Device
<1>x. ASSUME NEW how, StopPatient(p, how), how = "crashed" \/ Events # {}
      PROVE  ProgressInv'
  <2>1. /\ outbox'[p] = << >> /\ local'[p] = Empty /\ pages'[p] = << >>
        /\ \A q \in PhysioDevice : outbox'[q] = outbox[q]
        /\ UNCHANGED db
    BY <1>x, <1>d, <1>q DEF StopPatient, Stop, TypeInv, TypeOK
  <2>2. Events # {}
    BY <1>x, <1>d DEF StopPatient, Stop, NeverCrashes, TypeInv, TypeOK
  <2>3. Known(db, outbox'[p], local'[p]) /\ Rising(db, outbox'[p], local'[p])
    BY <2>1 DEF Known, Rising, Empty, NoRecord
  <2>4. \A i \in DOMAIN pages'[p] : FALSE
    BY <2>1
  <2>5. QED
    BY <1>i, <2>1, <2>2, <2>3, <2>4
<1>t. ASSUME pages[p] # << >>
      PROVE  /\ Len(pages[p]) \in DOMAIN pages[p] /\ Top(p) \in Page
             /\ PageFresh(local[p], tapped[p], Top(p))
  BY <1>t, <1>m, <1>d, TopType DEF Top, TypeInv
<1>1. CASE OpenRoutine(p)
  <2>1. pages'[p] = <<ExecPage>>
    BY <1>1, <1>d DEF OpenRoutine, TypeInv, TypeOK
  <2>2. QED
    BY <1>1, <1>u, <2>1 DEF OpenRoutine, PageFresh, ExecPage
<1>2. CASE RoutineChanged(p)
  <2> DEFINE new == Overlay(db, outbox[p], local[p])
  <2>1. /\ PhoneCurrent(db, outbox[p], new)
        /\ \A e \in Exercise : new[e] = IF local[p][e].prescribed THEN local[p][e] ELSE db[e]
    BY <1>m, OverlayCurrent
  <2>2. local'[p] = local[p] \/ local'[p] = new
    BY <1>2, <1>d DEF RoutineChanged, Receive, TypeInv, TypeOK
  <2> HIDE DEF new
  <2>3. \A i \in DOMAIN pages[p] : PageFresh(new, tapped[p], pages[p][i])
    BY <1>m, <2>1 DEF PageFresh
  <2>4. Events = {} => Reported(db, new, presses, LastSaid)
    BY <1>c, <2>1 DEF Reported
  <2>5. LastSaid' = LastSaid
    BY <1>2 DEF RoutineChanged, LastSaid, Latest
  <2>6. QED
    BY <1>2, <1>c, <1>m, <1>i, <2>1, <2>2, <2>3, <2>4, <2>5 DEF RoutineChanged, PhoneCurrent
<1>3. CASE \E e \in Exercise : TapExercise(p, e)
  <2> PICK e \in Exercise : TapExercise(p, e)
    BY <1>3
  <2>1. pages'[p] = <<ViewPage(e)>> /\ tapped'[p] = e
    BY <1>p, <1>d DEF TapExercise, TypeInv, TypeOK
  <2>2. QED
    BY <1>u, <2>1 DEF TapExercise, PageFresh, ViewPage
<1>4. CASE \E i \in DOMAIN pages[p] : CountLoaded(p, i)
  <2> PICK i \in DOMAIN pages[p] : CountLoaded(p, i)
    BY <1>4
  <2> DEFINE r    == local[p][pages[p][i].ex]
             page == [pages[p][i] EXCEPT !.count = r.done, !.reading = FALSE]
  <2>1. pages[p][i] \in Page /\ pages[p][i].reading /\ PageFresh(local[p], tapped[p], pages[p][i])
    BY <1>m DEF CountLoaded
  <2>2. pages[p][i].kind # "Exec" /\ pages[p][i].ex = tapped[p]
    BY <2>1 DEF Page, PageFresh
  <2>3. page.kind = pages[p][i].kind /\ page.ex = pages[p][i].ex /\ page.count = r.done
    BY <2>1 DEF Page
  <2>4. PageFresh(local[p], tapped[p], page)
    BY <2>2, <2>3 DEF PageFresh
  <2> HIDE DEF r, page
  <2>5. pages' = [pages EXCEPT ![p] = [@ EXCEPT ![i] = page]]
    BY DEF CountLoaded, page, r, TypeInv, TypeOK
  <2>6. pages'[p] = [pages[p] EXCEPT ![i] = page]
    BY <1>d, <2>5 DEF TypeInv, TypeOK
  <2>7. \A j \in DOMAIN pages'[p] : PageFresh(local[p], tapped[p], pages'[p][j])
    BY <1>m, <2>4, <2>6
  <2>8. QED
    BY <1>u, <2>7 DEF CountLoaded
<1>s. ASSUME NEW w \in Write, Send(p, w)
      PROVE  /\ outbox'[p] = Append(outbox[p], w) /\ local'[p] = Apply(local[p], w)
             /\ \A q \in PhysioDevice : outbox'[q] = outbox[q]
  BY <1>s, <1>d, <1>q DEF Send, TypeInv, TypeOK
<1>5. CASE DoneButtonPressed(p)
  <2> DEFINE w == MergeDone(tapped[p], Top(p).count + 1)
  <2>1. /\ Top(p).ex = tapped[p] /\ tapped[p] \in Exercise
        /\ local[p][tapped[p]].prescribed /\ Top(p).count = local[p][tapped[p]].done
    BY <1>5, <1>d, <1>t, TopSafe DEF DoneButtonPressed, On, PageFresh, Named
  <2>2. local[p][tapped[p]].done \in Nat
    BY <1>5, <1>m, <2>1 DEF DoneButtonPressed, Records, Record
  <2>3. w \in Write /\ w.op = "done" /\ w.ex = tapped[p] /\ w.count = local[p][tapped[p]].done + 1
    BY <2>1, <2>2, WriteType, FeedbackButtons DEF MergeDone
  <2>4. presses' = [presses EXCEPT ![w.ex] = @ + 1] /\ UNCHANGED <<db, said>>
    BY <1>5, <2>1, <2>3 DEF DoneButtonPressed
  <2>5. Send(p, w) /\ pages'[p] = <<ExecPage>>
    BY <1>5, <1>p DEF DoneButtonPressed
  <2> HIDE DEF w
  <2>6. /\ outbox'[p] = Append(outbox[p], w) /\ local'[p] = Apply(local[p], w)
        /\ \A q \in PhysioDevice : outbox'[q] = outbox[q]
    BY <1>s, <2>3, <2>5
  <2>7. PhoneCurrent(db, outbox'[p], local'[p])
    BY <1>m, <2>1, <2>2, <2>3, <2>6, AppendCurrent
  <2>8. \A e \in Exercise : local'[p][e] = IF e = w.ex THEN [local[p][e] EXCEPT !.done = w.count]
                                                        ELSE local[p][e]
    <3>1. \A r : Written(r, w) = [r EXCEPT !.done = w.count]
      BY <1>m, <2>1, <2>3, <2>6 DEF Written
    <3>2. QED
      <4>1. local[p] \in Records /\ w.ex \in Exercise /\ local'[p] = Apply(local[p], w)
        BY <1>m, <2>1, <2>3, <2>6
      <4>2. QED
        BY <3>1, <4>1 DEF Apply, Records
  <2>9. LastSaid' = LastSaid
    BY <2>4 DEF LastSaid, Latest
  <2>10. Events = {} => Reported(db, local'[p], presses', LastSaid')
    <3> SUFFICES ASSUME Events = {}, NEW e \in Exercise
                 PROVE  IF local'[p][e].prescribed
                          THEN local'[p][e].done = presses'[e] /\ local'[p][e].feedback = LastSaid[e]
                          ELSE /\ presses'[e] = 0 /\ LastSaid[e] = "Good"
                               /\ db[e].prescribed => db[e].done = 0 /\ db[e].feedback = "Good"
      BY <2>9 DEF Reported
    <3>1. CASE e = w.ex
      <4>1. local[p][e] \in Record
        BY <1>m DEF Records
      <4>2. /\ local'[p][e].prescribed = local[p][e].prescribed
            /\ local'[p][e].done = w.count /\ local'[p][e].feedback = local[p][e].feedback
        BY <2>8, <3>1, <4>1 DEF Record
      <4>3. QED
        BY <1>m, <1>c, <2>1, <2>3, <2>4, <3>1, <4>2 DEF Reported
    <3>2. CASE e # w.ex
      BY <1>m, <1>c, <2>4, <2>8, <3>2 DEF Reported
    <3>3. QED
      BY <3>1, <3>2
  <2>11. QED
    BY <1>i, <2>4, <2>5, <2>6, <2>7, <2>10 DEF PhoneCurrent, PageFresh, ExecPage
<1>6. CASE OpenFeedback(p)
  <2>1. Top(p).ex = tapped[p] /\ pages'[p] = <<FeedbackPage(Top(p).ex)>>
    BY <1>6, <1>t, <1>p DEF OpenFeedback, On, PageFresh
  <2>2. QED
    BY <1>6, <1>u, <2>1 DEF OpenFeedback, PageFresh, FeedbackPage
<1>7. CASE \E f \in Feedback : FeedbackPressed(p, f)
  <2> PICK f \in Feedback : FeedbackPressed(p, f)
    BY <1>7
  <2> DEFINE w == MergeFeedback(tapped[p], f)
  <2>1. /\ Top(p).ex = tapped[p] /\ tapped[p] \in Exercise /\ local[p][tapped[p]].prescribed
    BY <1>d, <1>t, TopSafe DEF FeedbackPressed, On, PageFresh, Named
  <2>2. w \in Write /\ w.op = "feedback" /\ w.ex = tapped[p] /\ w.text = f
    BY <2>1, WriteType DEF MergeFeedback
  <2>3. Send(p, w) /\ pages'[p] = <<ViewPage(tapped[p])>> /\ UNCHANGED <<db, tapped, presses>>
    BY <1>p DEF FeedbackPressed
  <2>4. \A e \in Exercise : LastSaid'[e] = IF e = tapped[p] THEN f ELSE LastSaid[e]
    <3>1. said \in [Exercise -> Seq(Feedback)]
      BY DEF TypeInv, TypeOK
    <3>2. said' = [said EXCEPT ![tapped[p]] = Append(@, f)]
      BY <2>1 DEF FeedbackPressed
    <3>3. \A e \in Exercise : said'[e] = IF e = tapped[p] THEN Append(said[e], f) ELSE said[e]
      BY <3>1, <3>2
    <3>4. \A e \in Exercise : /\ Append(said[e], f) # << >>
                              /\ Append(said[e], f)[Len(Append(said[e], f))] = f
      BY <3>1
    <3>5. QED
      BY <3>3, <3>4 DEF LastSaid, Latest
  <2> HIDE DEF w
  <2>5. /\ outbox'[p] = Append(outbox[p], w) /\ local'[p] = Apply(local[p], w)
        /\ \A q \in PhysioDevice : outbox'[q] = outbox[q]
    BY <1>s, <2>2, <2>3
  <2>6. PhoneCurrent(db, outbox'[p], local'[p])
    BY <1>m, <2>1, <2>2, <2>5, AppendCurrent
  <2>7. \A e \in Exercise : local'[p][e] = IF e = w.ex THEN [local[p][e] EXCEPT !.feedback = f]
                                                        ELSE local[p][e]
    <3>1. \A r : Written(r, w) = [r EXCEPT !.feedback = f]
      BY <1>m, <2>1, <2>2, <2>5 DEF Written
    <3>2. QED
      <4>1. local[p] \in Records /\ w.ex \in Exercise /\ local'[p] = Apply(local[p], w)
        BY <1>m, <2>1, <2>2, <2>5
      <4>2. QED
        BY <3>1, <4>1 DEF Apply, Records
  <2>8. Events = {} => Reported(db, local'[p], presses', LastSaid')
    <3> SUFFICES ASSUME Events = {}, NEW e \in Exercise
                 PROVE  IF local'[p][e].prescribed
                          THEN local'[p][e].done = presses[e] /\ local'[p][e].feedback = LastSaid'[e]
                          ELSE /\ presses[e] = 0 /\ LastSaid'[e] = "Good"
                               /\ db[e].prescribed => db[e].done = 0 /\ db[e].feedback = "Good"
      BY <2>3 DEF Reported
    <3>1. CASE e = w.ex
      <4>1. local[p][e] \in Record
        BY <1>m DEF Records
      <4>2. /\ local'[p][e].prescribed = local[p][e].prescribed
            /\ local'[p][e].done = local[p][e].done /\ local'[p][e].feedback = f
        BY <2>7, <3>1, <4>1 DEF Record
      <4>3. QED
        BY <1>m, <1>c, <2>1, <2>2, <2>4, <3>1, <4>2 DEF Reported
    <3>2. CASE e # w.ex
      <4>1. local'[p][e] = local[p][e] /\ LastSaid'[e] = LastSaid[e]
        BY <2>2, <2>4, <2>7, <3>2
      <4>2. QED
        BY <1>c, <4>1 DEF Reported
    <3>3. QED
      BY <3>1, <3>2
  <2>9. \A i \in DOMAIN pages'[p] : PageFresh(local'[p], tapped'[p], pages'[p][i])
    <3>1. PageFresh(local'[p], tapped'[p], ViewPage(tapped[p]))
      BY <2>3 DEF PageFresh, ViewPage
    <3>2. QED
      BY <2>3, <3>1
  <2>10. QED
    BY <1>i, <2>3, <2>5, <2>6, <2>8, <2>9 DEF PhoneCurrent
<1>8. CASE FeedbackBack(p)
  <2>1. pages'[p] = <<ViewPage(tapped[p])>>
    BY <1>8, <1>p DEF FeedbackBack
  <2>2. QED
    BY <1>8, <1>u, <2>1 DEF FeedbackBack, PageFresh, ViewPage
<1>9. CASE ViewBack(p)
  <2>1. pages'[p] = <<ExecPage>>
    BY <1>9, <1>p DEF ViewBack
  <2>2. QED
    BY <1>9, <1>u, <2>1 DEF ViewBack, PageFresh, ExecPage
<1>10. CASE LeaveRoutine(p)
  <2>1. pages'[p] = << >>
    BY <1>10, <1>d DEF LeaveRoutine, TypeInv, TypeOK
  <2>2. QED
    BY <1>10, <1>u, <2>1 DEF LeaveRoutine
<1>11. CASE \/ RoutineChangedCrash(p) \/ TapExerciseCrash(p) \/ DoneButtonCrash(p) \/ KillPatient(p)
            \/ \E i \in DOMAIN pages[p] : CountLoadedCrash(p, i)
  BY <1>x, <1>11
  DEF RoutineChangedCrash, TapExerciseCrash, DoneButtonCrash, CountLoadedCrash, KillPatient
<1>12. ~Dismiss(p)
  BY DEF Dismiss
<1>13. QED
  BY <1>1, <1>2, <1>3, <1>4, <1>5, <1>6, <1>7, <1>8, <1>9, <1>10, <1>11, <1>12
  DEF PatientNext

(* A step of the physiotherapist: nothing of the patient's phone changes,  *)
(* and an exercise is saved only while no save of it is known.             *)
LEMMA PhysioProgress ==
  ASSUME NEW q, PhysioDevice = {q}, Events \subseteq {"kill", "hasty"},
         TypeInv, SafeInv, ProgressInv, PhysioNext(q)
  PROVE  ProgressInv'
<1> USE DEF serverVars, deviceVars, patientVars, physioVars, historyVars
<1>d. q \in PhysioDevice /\ q \in Device
  BY DEF Device
<1>p. \A p \in PatientDevice : p \in Device /\ p # q
  BY <1>d, DevicesDiffer DEF Device
<1>i. ASSUME SavedOnce(db, outbox'[q]), UNCHANGED <<db, presses, said, pages, tapped>>,
             \A p \in PatientDevice : outbox'[p] = outbox[p] /\ local'[p] = local[p]
      PROVE  ProgressInv'
  <2>1. LastSaid' = LastSaid
    BY <1>i DEF LastSaid, Latest
  <2>2. QED
    BY <1>i, <2>1 DEF ProgressInv
<1>u. ASSUME UNCHANGED <<db, outbox, presses, said, pages, tapped>>, Receive(q) \/ UNCHANGED local
      PROVE  ProgressInv'
  <2>1. \A p \in PatientDevice : local'[p] = local[p]
    BY <1>u, <1>p DEF Receive, TypeInv, TypeOK
  <2>2. QED
    BY <1>u, <1>d, <1>i, <2>1 DEF ProgressInv
<1>1. CASE \E e \in Exercise : SaveExercise(q, e)
  <2> PICK e \in Exercise : SaveExercise(q, e)
    BY <1>1
  <2> DEFINE more == Append(outbox[q], Save(e))
  <2>1. /\ ~db[e].prescribed /\ ~local[q][e].prescribed /\ Send(q, Save(e))
        /\ Save(e).op = "save" /\ Save(e).ex = e
    BY DEF SaveExercise, NoRecord, Save
  <2>2. outbox'[q] = more /\ \A p \in PatientDevice : outbox'[p] = outbox[p] /\ local'[p] = local[p]
    BY <1>d, <1>p, <2>1 DEF Send, TypeInv, TypeOK
  <2>3. outbox[q] \in Seq(Write)
    BY <1>d DEF TypeInv, TypeOK
  <2>4. \A i \in DOMAIN outbox[q] : outbox[q][i].ex # e
    BY <1>d, <2>1 DEF SafeInv, CopySafe
  <2>5. \A i \in DOMAIN more :
          \/ i = Len(outbox[q]) + 1 /\ more[i] = Save(e)
          \/ i \in DOMAIN outbox[q] /\ more[i] = outbox[q][i]
    BY <2>3
  <2>6. SavedOnce(db, outbox[q])
    BY <1>d DEF ProgressInv
  <2> HIDE DEF more
  <2>7. SavedOnce(db, more)
    BY <2>1, <2>4, <2>5, <2>6 DEF SavedOnce
  <2>8. QED
    BY <1>i, <2>2, <2>7 DEF SaveExercise
<1>2. CASE OpenRoutineInformation(q) \/ TapStatistics(q) \/ \E e \in Exercise : TapRow(q, e)
  BY <1>2, <1>u DEF OpenRoutineInformation, TapStatistics, TapRow
<1>3. CASE RoutineLoaded(q) \/ StatisticsLoaded(q) \/ \E e \in Exercise : ExerciseLoaded(q, e)
  <2>1. \E r : Answered(q, r)
    BY <1>3 DEF RoutineLoaded, StatisticsLoaded, ExerciseLoaded
  <2>2. QED
    BY <2>1, <1>u DEF Answered
<1>4. CASE PhysioReadCrash(q) \/ RowCrash(q) \/ KillPhysio(q)
  <2>1. PICK how : StopPhysio(q, how)
    BY <1>4 DEF PhysioReadCrash, RowCrash, KillPhysio
  <2>2. outbox'[q] = << >> /\ \A p \in PatientDevice : outbox'[p] = outbox[p] /\ local'[p] = local[p]
    BY <1>d, <1>p, <2>1 DEF StopPhysio, Stop, TypeInv, TypeOK
  <2>3. SavedOnce(db, << >>)
    BY DEF SavedOnce
  <2>4. QED
    BY <1>i, <2>1, <2>2, <2>3 DEF StopPhysio
<1>5. ~(\E e \in Exercise : DeleteRow(q, e))
  BY DEF DeleteRow
<1>6. QED
  BY <1>1, <1>2, <1>3, <1>4, <1>5 DEF PhysioNext

(* A write reaches the server. *)
LEMMA FlushProgress ==
  ASSUME NEW p, PatientDevice = {p}, NEW q, PhysioDevice = {q},
         TypeInv, TypeInv', SafeInv, OwnWritesShown, ProgressInv, NEW d \in Device, Flush(d)
  PROVE  /\ ProgressInv'
         /\ \A e \in Exercise :
              db[e].prescribed => db'[e].prescribed /\ db'[e].done >= db[e].done
<1> USE DEF serverVars, deviceVars, patientVars, physioVars, historyVars
<1> DEFINE w    == Head(outbox[d])
           rest == Tail(outbox[d])
<1>d. p \in PatientDevice /\ q \in PhysioDevice /\ p \in Device /\ q \in Device /\ p # q
  BY DevicesDiffer DEF Device
<1>m. /\ db \in Records /\ local[p] \in Records /\ outbox[p] \in Seq(Write)
      /\ PhoneCurrent(db, outbox[p], local[p])
      /\ \A i \in DOMAIN pages[p] :
           /\ PageFresh(local[p], tapped[p], pages[p][i])
           /\ pages[p][i].kind # "Exec" => tapped[p] \in Exercise /\ local[p][tapped[p]].prescribed
  BY <1>d, PhoneFacts
<1>c. /\ Events = {} => Reported(db, local[p], presses, LastSaid)
      /\ SavedOnce(db, outbox[q])
  BY <1>d DEF ProgressInv
<1>1. /\ db' = Apply(db, w) /\ outbox'[d] = rest /\ outbox[d] # << >> /\ outbox[d] \in Seq(Write)
      /\ local'[d] = Overlay(db', rest, local[d])
      /\ \A o \in Device \ {d} : outbox'[o] = outbox[o] /\ local'[o] = local[o]
      /\ UNCHANGED <<pages, tapped, presses, said>>
  BY DEF Flush, TypeInv, TypeOK
<1>2. /\ w = outbox[d][1] /\ 1 \in DOMAIN outbox[d] /\ w \in Write /\ rest \in Seq(Write)
      /\ \A i \in DOMAIN rest : i \in Nat /\ 1 <= i /\ i + 1 \in DOMAIN outbox[d] /\ rest[i] = outbox[d][i + 1]
  BY <1>1
<1>3. w.ex \in Exercise /\ db' \in Records
  BY <1>2 DEF Write, TypeInv, TypeOK
<1>4. LastSaid' = LastSaid
  BY <1>1 DEF LastSaid, Latest
<1> HIDE DEF w, rest
<1>5. CASE d = p
  <2>1. /\ PhoneCurrent(db', rest, local[p])
        /\ \A e \in Exercise :
             /\ db[e].prescribed => db'[e].prescribed /\ db'[e].done >= db[e].done
             /\ ~local[p][e].prescribed => db'[e] = db[e]
    BY <1>1, <1>5, <1>d, <1>m, HeadCurrent DEF w, rest, OwnWritesShown
  <2>2. /\ PhoneCurrent(db', rest, local'[p])
        /\ \A e \in Exercise : local'[p][e] = IF local[p][e].prescribed THEN local[p][e] ELSE db'[e]
    BY <1>1, <1>2, <1>3, <1>5, <1>m, <2>1, OverlayCurrent
  <2>3. \A i \in DOMAIN pages[p] : PageFresh(local'[p], tapped[p], pages[p][i])
    BY <1>m, <2>2 DEF PageFresh
  <2>4. Events = {} => Reported(db', local'[p], presses, LastSaid)
    BY <1>c, <2>1, <2>2 DEF Reported
  <2>5. outbox'[q] = outbox[q] /\ outbox[q] \in Seq(Write)
    BY <1>d, <1>1, <1>5 DEF TypeInv, TypeOK
  <2>6. SavedOnce(db', outbox'[q])
    <3>1. db'[w.ex].prescribed = db[w.ex].prescribed /\ \A e \in Exercise \ {w.ex} : db'[e] = db[e]
      <4>1. w.op \in {"done", "feedback"}
        BY <1>2, <1>5, <1>m DEF PhoneCurrent, Merging
      <4>2. QED
        BY <4>1, <1>1, <1>3, <1>m DEF Apply, Written, Records, Record
    <3>2. \A i \in DOMAIN outbox[q] : outbox[q][i].ex \in Exercise
      BY <2>5, QueueFacts
    <3>3. QED
      BY <1>c, <2>5, <3>1, <3>2 DEF SavedOnce
  <2>7. ProgressInv'
    BY <1>1, <1>4, <1>5, <2>2, <2>3, <2>4, <2>6 DEF ProgressInv, PhoneCurrent
  <2>8. QED
    BY <2>1, <2>7
<1>6. CASE d = q
  <2>1. w.op = "save" /\ ~db[w.ex].prescribed
    BY <1>2, <1>6, <1>c DEF SavedOnce
  <2>2. /\ PhoneCurrent(db', outbox[p], local[p]) /\ ~local[p][w.ex].prescribed
        /\ \A e \in Exercise : db'[e] = IF e = w.ex THEN NewRecord ELSE db[e]
    BY <1>1, <1>2, <1>m, <2>1, SaveCurrent
  <2>3. outbox'[p] = outbox[p] /\ local'[p] = local[p]
    BY <1>d, <1>1, <1>6
  <2>4. Events = {} => Reported(db', local[p], presses, LastSaid)
    BY <1>c, <2>2 DEF Reported, NewRecord
  <2>5. \A i \in DOMAIN rest : rest[i].ex \in Exercise /\ rest[i].ex # w.ex
    <3>1. ASSUME NEW i \in DOMAIN rest
          PROVE  rest[i].ex \in Exercise /\ rest[i].ex # w.ex
      <4>1. rest[i].ex \in Exercise
        BY <1>2, QueueFacts
      <4>2. i + 1 # 1
        BY <1>2
      <4>3. QED
        BY <4>1, <4>2, <1>2, <1>6, <1>c DEF SavedOnce
    <3>2. QED
      BY <3>1
  <2>6. SavedOnce(db', rest)
    <3>1. ASSUME NEW i \in DOMAIN rest
          PROVE  rest[i].op = "save" /\ ~db'[rest[i].ex].prescribed
      <4>1. i + 1 \in DOMAIN outbox[q] /\ rest[i] = outbox[q][i + 1]
        BY <1>2, <1>6
      <4>2. rest[i].op = "save" /\ ~db[rest[i].ex].prescribed
        BY <4>1, <1>c DEF SavedOnce
      <4>3. QED
        BY <4>2, <2>2, <2>5
    <3>2. ASSUME NEW i \in DOMAIN rest, NEW j \in DOMAIN rest, rest[i].ex = rest[j].ex
          PROVE  i = j
      <4>1. i + 1 = j + 1
        BY <3>2, <1>2, <1>6, <1>c DEF SavedOnce
      <4>2. QED
        BY <4>1, <1>2
    <3>3. QED
      BY <3>1, <3>2 DEF SavedOnce
  <2>7. ProgressInv'
    BY <1>1, <1>4, <1>6, <1>m, <2>2, <2>3, <2>4, <2>6 DEF ProgressInv, PhoneCurrent
  <2>8. \A e \in Exercise : db[e].prescribed => db'[e].prescribed /\ db'[e].done >= db[e].done
    <3>1. \A e \in Exercise : db[e].done \in Int
      BY <1>m DEF Records, Record, NoCount
    <3>2. QED
      BY <2>1, <2>2, <3>1
  <2>9. QED
    BY <2>7, <2>8
<1>7. QED
  BY <1>5, <1>6 DEF Device

LEMMA InitProgress == Init => ProgressInv
BY DEF Init, ProgressInv, Known, Rising, Reported, LastSaid, Latest, SavedOnce, PageFresh,
       Empty, NoRecord, Device

(* What a step does to the progress on the phone and on the server. *)
LEMMA StepProgress ==
  ASSUME NEW p, PatientDevice = {p}, NEW q, PhysioDevice = {q},
         Events \subseteq {"kill", "hasty"},
         TypeInv, TypeInv', SafeInv, OwnWritesShown, ProgressInv,
         Events = {} => NeverCrashes', [Next]_vars
  PROVE  /\ ProgressInv'
         /\ \A e \in Exercise :
              db[e].prescribed => db'[e].prescribed /\ db'[e].done >= db[e].done
<1>1. db \in Records /\ \A e \in Exercise : db[e].done \in Int
  BY DEF TypeInv, TypeOK, Records, Record, NoCount
<1>2. ASSUME UNCHANGED db
      PROVE  \A e \in Exercise : db[e].prescribed => db'[e].prescribed /\ db'[e].done >= db[e].done
  BY <1>1, <1>2
<1>3. CASE PatientNext(p)
  <2>1. UNCHANGED db
    BY <1>3
    DEF serverVars, PatientNext, OpenRoutine, RoutineChanged, RoutineChangedCrash, TapExercise,
        TapExerciseCrash, CountLoaded, CountLoadedCrash, DoneButtonPressed, DoneButtonCrash,
        OpenFeedback, FeedbackPressed, FeedbackBack, ViewBack, LeaveRoutine, Dismiss,
        KillPatient, StopPatient
  <2>2. QED
    BY <1>2, <1>3, <2>1, PatientProgress
<1>4. CASE PhysioNext(q)
  <2>1. UNCHANGED db
    BY <1>4
    DEF serverVars, PhysioNext, OpenRoutineInformation, Answered, RoutineLoaded, ExerciseLoaded,
        StatisticsLoaded, PhysioReadCrash, TapRow, TapStatistics, DeleteRow, RowCrash,
        SaveExercise, KillPhysio, StopPhysio
  <2>2. QED
    BY <1>2, <1>4, <2>1, PhysioProgress
<1>5. CASE \E d \in Device : Flush(d)
  BY <1>5, FlushProgress
<1>6. CASE UNCHANGED vars
  <2>1. LastSaid' = LastSaid
    BY <1>6 DEF vars, LastSaid, Latest
  <2>2. QED
    BY <1>2, <1>6, <2>1 DEF vars, ProgressInv
<1>7. ~(\E d \in Device : AnswerLost(d))
  BY DEF AnswerLost
<1>8. QED
  BY <1>3, <1>4, <1>5, <1>6, <1>7 DEF Next

(* While nothing exceptional happens no app crashes either, so no press is *)
(* lost with its app.                                                      *)
Calm == Events = {} => NeverCrashes

LEMMA ProgressKept ==
  ASSUME NEW p, PatientDevice = {p}, NEW q, PhysioDevice = {q},
         Events \subseteq {"kill", "hasty"}
  PROVE  Spec => [](ProgressInv /\ Calm) /\ ProgressStays
<1>1. Init => ProgressInv /\ Calm
  BY InitProgress DEF Init, Calm, NeverCrashes
<1>2. TypeInv /\ TypeInv' /\ SafeInv /\ OwnWritesShown /\ ProgressInv /\ Calm /\ [Next]_vars
        => /\ ProgressInv' /\ Calm'
           /\ [\A e \in Exercise :
                 db[e].prescribed => db'[e].prescribed /\ db'[e].done >= db[e].done]_vars
  <2> SUFFICES ASSUME TypeInv, TypeInv', SafeInv, OwnWritesShown, ProgressInv, Calm, [Next]_vars
               PROVE  /\ ProgressInv' /\ Calm'
                      /\ \A e \in Exercise :
                           db[e].prescribed => db'[e].prescribed /\ db'[e].done >= db[e].done
    OBVIOUS
  <2>1. Events = {} => NeverCrashes'
    BY NoStepCrashes DEF Calm
  <2>2. QED
    BY <2>1, StepProgress DEF Calm
<1>3. Spec => []SafeInv
  BY SafeInvAlways
<1>4. QED
  BY <1>1, <1>2, <1>3, TypesCorrect, PhonesShowOwnWrites, PTL DEF Spec, ProgressStays

(* With one phone of each user, and nothing removed, saved again, sent     *)
(* again or swiped away, what the server has of a patient's progress only  *)
(* grows: no save takes a count back, and no older report overtakes a      *)
(* newer one, not even when an app is killed between the press and the     *)
(* write, or Done is pressed too soon.                                     *)
THEOREM ProgressNeverTakenBack ==
  ASSUME NEW p, PatientDevice = {p}, NEW q, PhysioDevice = {q},
         Events \subseteq {"kill", "hasty"}
  PROVE  Spec => ProgressStays
BY ProgressKept, PTL

(* ... and when nothing exceptional happens it is exact once the writes    *)
(* have arrived: however saves, reads, presses and feedback interleave, no *)
(* completion is lost or counted twice, and the last feedback given stands.*)
THEOREM ProgressExact ==
  ASSUME NEW p, PatientDevice = {p}, NEW q, PhysioDevice = {q}, Events = {}
  PROVE  Spec => []ProgressAgrees
<1>1. ProgressInv => ProgressAgrees
  <2> SUFFICES ASSUME ProgressInv, \A d \in Device : outbox[d] = << >>,
                      NEW e \in Exercise, db[e].prescribed
               PROVE  db[e].done = presses[e] /\ db[e].feedback = Latest(e)
    BY DEF ProgressAgrees
  <2>1. p \in PatientDevice /\ outbox[p] = << >>
    BY DEF Device
  <2>2. ~Pending(outbox[p], e, {"done"}) /\ ~Pending(outbox[p], e, {"feedback"})
    BY <2>1 DEF Pending
  <2>3. QED
    BY <2>1, <2>2 DEF ProgressInv, Known, Reported, LastSaid
<1>2. Spec => [](ProgressInv /\ Calm) /\ ProgressStays
  BY ProgressKept
<1>3. QED
  BY <1>1, <1>2, PTL
=============================================================================
