---------------------------- MODULE RoutineList ----------------------------
(***************************************************************************)
(* The routines of a patient on the physiotherapist's phone                *)
(* (PhysioPatientInfo): the page reads users/{patient}/routines once,      *)
(* a tap opens a routine, a swipe removes it.  A row is taken out of the   *)
(* list when the server has answered the removal, by the index it had      *)
(* when it was swiped; the list is a global all such pages share.          *)
(*                                                                         *)
(* A request and its answer travel on one connection, in order.  What a    *)
(* request does at the server and what its answer does on the phone are    *)
(* one step here: nobody else can tell when in between an answer is on     *)
(* its way.                                                                *)
(***************************************************************************)
EXTENDS SequencesExt

CONSTANTS Patient,    \* uids of the patients
          Routine,    \* names of routines
          Nothing,    \* no patient, no routine
          Events,     \* what else may happen, see AllEvents
          MaxAsked    \* bound: unanswered requests

(***************************************************************************)
(* colleague: another phone adds or removes a routine                      *)
(* deny:      the server refuses a removal                                 *)
(* kill:      the operating system or the user ends the app                *)
(***************************************************************************)
AllEvents == {"colleague", "deny", "kill"}

ASSUME FiniteRoutines == IsFiniteSet(Routine)
ASSUME NothingElse    == Nothing \notin Patient \cup Routine
ASSUME EventNames     == Events \subseteq AllEvents
ASSUME RequestBound   == MaxAsked \in Nat

VARIABLES
  routines,  \* the server's routines of each patient
  app,       \* is the app running
  page,      \* the page on top
  patient,   \* currentPatient
  listed,    \* allPatientRoutines
  cells,     \* the cells of the table of the patient's page
  selected,  \* selectedRoutine while PhysioRoutineInformation is open
  asked,     \* the requests not yet answered, oldest first
  kept,      \* history: the routines the page was told of and still has
  risks      \* history: what happened since the patient's page was opened

pageVars == <<page, patient, listed, cells, selected>>
vars == <<routines, app, pageVars, asked, kept, risks>>

(* A row shows a name; whose routine it is, is only kept for the checks. *)
Row == [of : Patient, name : Routine]

NoRow == [of |-> Nothing, name |-> Nothing]

(* here: the page that asked is still there. *)
Read    == [op : {"read"}, of : Patient, name : {Nothing}, row : {0}, here : BOOLEAN]
Removal == [op : {"remove"}, of : Patient, name : Routine, row : Nat \ {0}, here : BOOLEAN]

Ask(q) ==
  /\ Len(asked) < MaxAsked
  /\ asked' = Append(asked, q)

(* The page is gone: its callbacks still come. *)
Abandoned == [i \in DOMAIN asked |-> [asked[i] EXCEPT !.here = FALSE]]

Removing == {i \in DOMAIN asked : asked[i].op = "remove"}

(* late:    the callback of an earlier page ran                            *)
(* ahead:   a row was swiped while another removal was unanswered          *)
(* denied:  the server refused a removal                                   *)
(* changed: a routine of the patient was added or removed on another phone *)
(*          or another page of this phone, while the patient's was open    *)
Risks == {"late", "ahead", "denied", "changed"}

---------------------------------------------------------------------------
Stop(how) ==
  /\ app'      = how
  /\ page'     = "none"
  /\ patient'  = Nothing
  /\ listed'   = << >>
  /\ cells'    = << >>
  /\ selected' = NoRow
  /\ kept'     = {}

OpenApp ==
  /\ app # "running"
  /\ app'  = "running"
  /\ page' = "home"
  /\ risks' = {}
  /\ UNCHANGED <<routines, patient, listed, cells, selected, asked, kept>>

Kill ==
  /\ "kill" \in Events
  /\ app = "running"
  /\ Stop("closed")
  /\ asked' = << >>
  /\ UNCHANGED <<routines, risks>>

(* Fault kept for the checks, as all that are named ...Fault: the global   *)
(* is not emptied.                                                         *)
OpenPatientFault(p) ==
  /\ page = "home"
  /\ Ask([op |-> "read", of |-> p, name |-> Nothing, row |-> 0, here |-> TRUE])
  /\ page'    = "patient"
  /\ patient' = p
  /\ cells'   = listed
  /\ kept'    = {}
  /\ risks'   = {}
  /\ UNCHANGED <<routines, app, listed, selected>>

OpenPatient(p) ==
  /\ page = "home"
  /\ Ask([op |-> "read", of |-> p, name |-> Nothing, row |-> 0, here |-> TRUE])
  /\ page'    = "patient"
  /\ patient' = p
  /\ listed'  = << >>
  /\ cells'   = << >>
  /\ kept'    = {}
  /\ risks'   = {}
  /\ UNCHANGED <<routines, app, selected>>

(* Back, the patient removed from the roster, or a new routine begun. *)
LeavePatient ==
  /\ page = "patient"
  /\ page'  = "home"
  /\ cells' = << >>
  /\ asked' = Abandoned
  /\ UNCHANGED <<routines, app, patient, listed, selected, kept, risks>>

(* The names at the server, less those whose removal is on its way. *)
Told(p) == routines[p] \ {asked[i].name : i \in {j \in Removing : asked[j].of = p}}

(* The callback of the single read appends, in the order of a dictionary.  *)
(* The table is that of the page that asked.                               *)
ReadAnswered ==
  /\ asked # << >>
  /\ Head(asked).op = "read"
  /\ asked' = Tail(asked)
  /\ LET p == Head(asked).of
     IN \E names \in SetToSeqs(Told(p)) :
          listed' = listed \o [i \in DOMAIN names |-> [of |-> p, name |-> names[i]]]
  /\ \/ /\ Head(asked).here
        /\ cells' = IF Told(Head(asked).of) = {} THEN cells ELSE listed'
        /\ kept'  = Told(Head(asked).of)
        /\ UNCHANGED risks
     \/ /\ ~Head(asked).here
        /\ risks' = risks \cup {"late"}
        /\ UNCHANGED <<cells, kept>>
  /\ UNCHANGED <<routines, app, page, patient, selected>>

---------------------------------------------------------------------------
(* The rows: the index of a cell is looked up in allPatientRoutines, where *)
(* RowMeansRoutine says that it is never out of range.                     *)

TapRow(i) ==
  /\ page = "patient"
  /\ i \in DOMAIN cells
  /\ i \in DOMAIN listed
  /\ page'     = "routine"
  /\ selected' = listed[i]
  /\ UNCHANGED <<routines, app, patient, listed, cells, asked, kept, risks>>

RoutineBack ==
  /\ page = "routine"
  /\ page'     = "patient"
  /\ selected' = NoRow
  /\ UNCHANGED <<routines, app, patient, listed, cells, asked, kept, risks>>

(* Faults: the row counted from zero; the row taken out at once and again  *)
(* by the callback.                                                        *)
SwipeZeroFault(i) ==
  /\ page = "patient"
  /\ i \in DOMAIN cells
  /\ i \in DOMAIN listed
  /\ Ask([op |-> "remove", of |-> patient, name |-> listed[i].name, row |-> i - 1, here |-> TRUE])
  /\ risks' = risks \cup {x \in {"ahead"} : Removing # {}}
  /\ UNCHANGED <<routines, app, pageVars, kept>>

SwipeAtOnceFault(i) ==
  /\ page = "patient"
  /\ i \in DOMAIN cells
  /\ i \in DOMAIN listed
  /\ Ask([op |-> "remove", of |-> patient, name |-> listed[i].name, row |-> i, here |-> TRUE])
  /\ listed' = RemoveAt(listed, i)
  /\ risks' = risks \cup {x \in {"ahead"} : Removing # {}}
  /\ UNCHANGED <<routines, app, page, patient, cells, selected, kept>>

SwipeRow(i) ==
  /\ page = "patient"
  /\ i \in DOMAIN cells
  /\ i \in DOMAIN listed
  /\ Ask([op |-> "remove", of |-> patient, name |-> listed[i].name, row |-> i, here |-> TRUE])
  /\ risks' = risks \cup {x \in {"ahead"} : Removing # {}}
  /\ UNCHANGED <<routines, app, pageVars, kept>>

Removed(q) == [routines EXCEPT ![q.of] = @ \ {q.name}]

(* Faults: the last row goes; the array loses the row, the table does not. *)
RemovalLastFault ==
  LET q == Head(asked)
  IN /\ asked # << >>
     /\ q.op = "remove"
     /\ q.row \in DOMAIN listed
     /\ routines' = Removed(q)
     /\ asked'    = Tail(asked)
     /\ listed'   = RemoveAt(listed, Len(listed))
     /\ \/ /\ q.here
           /\ q.row \in DOMAIN cells
           /\ Len(cells) = Len(listed)
           /\ cells' = RemoveAt(cells, q.row)
           /\ kept'  = kept \ {q.name}
           /\ UNCHANGED risks
        \/ /\ ~q.here
           /\ risks' = risks \cup {"late"}
           /\ UNCHANGED <<cells, kept>>
     /\ UNCHANGED <<app, page, patient, selected>>

RemovalSilentFault ==
  LET q == Head(asked)
  IN /\ asked # << >>
     /\ q.op = "remove"
     /\ q.row \in DOMAIN listed
     /\ routines' = Removed(q)
     /\ asked'    = Tail(asked)
     /\ listed'   = RemoveAt(listed, q.row)
     /\ \/ /\ q.here
           /\ q.row \in DOMAIN cells
           /\ Len(cells) = Len(listed)
           /\ UNCHANGED cells
           /\ kept'  = kept \ {q.name}
           /\ UNCHANGED risks
        \/ /\ ~q.here
           /\ risks' = risks \cup {"late"}
           /\ UNCHANGED <<cells, kept>>
     /\ UNCHANGED <<app, page, patient, selected>>

(* The completion block of removeValue.  The table is that of the page     *)
(* that asked, whether or not it is on the screen still.                   *)
RemovalAnswered ==
  LET q == Head(asked)
  IN /\ asked # << >>
     /\ q.op = "remove"
     /\ q.row \in DOMAIN listed
     /\ routines' = Removed(q)
     /\ asked'    = Tail(asked)
     /\ listed'   = RemoveAt(listed, q.row)
     /\ \/ /\ q.here
           /\ q.row \in DOMAIN cells
           /\ Len(cells) = Len(listed)
           /\ cells' = RemoveAt(cells, q.row)
           /\ kept'  = kept \ {q.name}
           /\ UNCHANGED risks
        \/ /\ ~q.here
           /\ risks' = risks \cup {"late"}
           /\ UNCHANGED <<cells, kept>>
     /\ UNCHANGED <<app, page, patient, selected>>

(* remove(at:) out of range; deleteRows of a table whose count does not    *)
(* fit; or of a table whose page has been released, which may go either    *)
(* way.                                                                    *)
RemovalCrash ==
  LET q == Head(asked)
  IN /\ asked # << >>
     /\ q.op = "remove"
     /\ \/ q.row \notin DOMAIN listed
        \/ ~q.here
        \/ q.row \notin DOMAIN cells
        \/ Len(cells) # Len(listed)
     /\ routines' = Removed(q)
     /\ Stop("crashed")
     /\ asked' = << >>
     /\ risks' = risks \cup {x \in {"late"} : ~q.here}

RemovalDenied ==
  /\ "deny" \in Events
  /\ asked # << >>
  /\ Head(asked).op = "remove"
  /\ asked' = Tail(asked)
  /\ risks' = risks \cup {"denied"}
  /\ UNCHANGED <<routines, app, pageVars, kept>>

---------------------------------------------------------------------------
(* What changes the server's routines but the page. *)

Changed(p) ==
  risks' = risks \cup {x \in {"changed"} : p = patient /\ page \in {"patient", "routine"}}

(* PhysioRoutineInformation removes the last exercise of the routine: that *)
(* is gone with it, and going back reloads nothing.  The request is never  *)
(* waited for; one that is lost with the app was never made.               *)
EmptyRoutine ==
  /\ page = "routine"
  /\ selected.name \in routines[patient]
  /\ routines' = [routines EXCEPT ![patient] = @ \ {selected.name}]
  /\ Changed(patient)
  /\ UNCHANGED <<app, pageVars, asked, kept>>

(* The editor writes under currentPatient: a save whenever it is answered, *)
(* a removal while its page is the one on top.                             *)
EditRoutine(r) ==
  /\ app = "running"
  /\ patient # Nothing
  /\ \/ r \notin routines[patient] /\ routines' = [routines EXCEPT ![patient] = @ \cup {r}]
     \/ /\ page = "home"
        /\ r \in routines[patient]
        /\ routines' = [routines EXCEPT ![patient] = @ \ {r}]
  /\ Changed(patient)
  /\ UNCHANGED <<app, pageVars, asked, kept>>

(* Another phone saves the first exercise of a routine, or removes one. *)
Colleague(p, r) ==
  /\ "colleague" \in Events
  /\ \/ routines' = [routines EXCEPT ![p] = @ \cup {r}] /\ r \notin routines[p]
     \/ routines' = [routines EXCEPT ![p] = @ \ {r}] /\ r \in routines[p]
  /\ Changed(p)
  /\ UNCHANGED <<app, pageVars, asked, kept>>

---------------------------------------------------------------------------
Init ==
  /\ routines \in [Patient -> SUBSET Routine]
  /\ app      = "closed"
  /\ page     = "none"
  /\ patient  = Nothing
  /\ listed   = << >>
  /\ cells    = << >>
  /\ selected = NoRow
  /\ asked    = << >>
  /\ kept     = {}
  /\ risks    = {}

Next ==
  \/ OpenApp
  \/ Kill
  \/ \E p \in Patient : OpenPatient(p)
  \/ LeavePatient
  \/ ReadAnswered
  \/ \E i \in DOMAIN cells : TapRow(i)
  \/ RoutineBack
  \/ \E i \in DOMAIN cells : SwipeRow(i)
  \/ RemovalAnswered
  \/ RemovalCrash
  \/ RemovalDenied
  \/ EmptyRoutine
  \/ \E r \in Routine : EditRoutine(r)
  \/ \E p \in Patient, r \in Routine : Colleague(p, r)

Spec == Init /\ [][Next]_vars

(* A phone that stays alive and connected gets its answers. *)
Fairness == WF_vars(ReadAnswered) /\ WF_vars(RemovalAnswered \/ RemovalCrash)

FairSpec == Spec /\ Fairness

---------------------------------------------------------------------------
(* Properties. *)

Names(q) == {q[i].name : i \in DOMAIN q}

(* Every state is well formed: no index of a request is below the first    *)
(* row, no removal names a routine or a patient that does not exist.       *)
TypeOK ==
  /\ routines \in [Patient -> SUBSET Routine]
  /\ app      \in {"closed", "running", "crashed"}
  /\ page     \in {"none", "home", "patient", "routine"}
  /\ patient  \in Patient \cup {Nothing}
  /\ listed   \in Seq(Row)
  /\ cells    \in Seq(Row)
  /\ selected \in Row \cup {NoRow}
  /\ asked    \in Seq(Read \cup Removal)
  /\ kept     \in SUBSET Routine
  /\ risks    \in SUBSET Risks

(* A row always has its entry in the global list, and a tap or a swipe     *)
(* means the routine it shows, even when rows are swiped faster than the   *)
(* server answers and callbacks of earlier pages run: the list and the     *)
(* table stay in step.  It is one of the patient whose page is open, as    *)
(* long as no such callback has run.                                       *)
RowMeansRoutine ==
  [][\A i \in DOMAIN cells :
       /\ i \in DOMAIN listed
       /\ TapRow(i) => selected' = cells[i]
       /\ SwipeRow(i) => Last(asked').name = cells[i].name
       /\ "late" \in risks \/ cells[i].of = patient]_vars

(* If none has run and every removal was answered before the next, the     *)
(* page shows each routine it was told of once, but those removed since.   *)
ListedExact ==
  risks \cap {"late", "ahead"} = {} =>
    Names(listed) = kept /\ Len(listed) = Cardinality(kept)

(* Nothing but such haste crashes the page. *)
CrashNeedsHaste == app = "crashed" => risks \cap {"late", "ahead"} # {}

(* A routine removed without haste disappears from the server and from     *)
(* the page, unless the server refuses or the app ends.                    *)
RemovalDone ==
  \A p \in Patient : \A r \in Routine :
    (\E i \in Removing : asked[i].of = p /\ asked[i].name = r)
      ~> \/ r \notin routines[p] /\ (page # "home" => r \notin Names(cells))
         \/ risks \cap {"late", "ahead", "denied"} # {}
         \/ app # "running"
=============================================================================
