--------------------------- MODULE PatientRoster ---------------------------
(***************************************************************************)
(* The patients of one physiotherapist: users/{physio}/patientDoc, on any  *)
(* number of phones the physiotherapist is signed in on.  The home page    *)
(* (PhysicalTherapistHomeScene) lists and deletes them, the add page       *)
(* (PhysioAddPatientScene) finds a patient by e-mail and writes the entry, *)
(* the patient's page (PhysioPatientInfo) can remove the entry.            *)
(*                                                                         *)
(* Adding takes two answers, a query for the e-mail and a read of the      *)
(* list; whatever else the app does happens in between.                    *)
(***************************************************************************)
EXTENDS Integers, Sequences, FiniteSets

CONSTANTS Device,     \* phones signed in as this physiotherapist
          Patient,    \* accounts with the role patient, by uid
          Physio,     \* accounts with the role physio, by uid
          NoAccount,  \* an e-mail address nobody has
          Events,     \* what else may happen, see AllEvents
          MaxAsks,    \* bound: unanswered additions per device
          MaxOutbox   \* bound: unsent writes per device

(***************************************************************************)
(* dismiss: the add page is swiped away (an iOS 13 sheet)                  *)
(* hasty:   Done, Cancel or a swipe while an addition is unanswered        *)
(* delete:  a row of the home page is deleted                              *)
(* remove:  the patient's page removes its patient                         *)
(* kill:    the operating system or the user ends an app                   *)
(* fault:   the query for the e-mail fails                                 *)
(* resend:  the connection is lost between a write and its acknowledgement *)
(***************************************************************************)
AllEvents == {"dismiss", "hasty", "delete", "remove", "kill", "fault", "resend"}

Account == Patient \cup Physio

(* The list is ordered by uid, the key of its entries. *)
ASSUME AccountKeys == Account \subseteq Nat /\ IsFiniteSet(Account)
ASSUME RolesDiffer == Patient \cap Physio = {}
ASSUME NobodysMail == NoAccount \notin Account
ASSUME EventNames  == Events \subseteq AllEvents
ASSUME Bounds      == MaxAsks \in Nat /\ MaxOutbox \in Nat

VARIABLES
  doc,      \* the server's list
  app,      \* each device: is the app running
  outbox,   \* each device: writes not yet acknowledged, oldest first
  local,    \* each device: the SDK's copy, own unsent writes applied
  synced,   \* each device: the SDK has had the list from the server
  due,      \* each device: an event of the home page's observer is due
  page,     \* each device: the page on top
  listed,   \* each device: the global allPatients
  rows,     \* each device: the rows of the home page's table
  opened,   \* each device: currentPatient while PhysioPatientInfo is open
  asking,   \* each device: the additions not yet answered
  asked     \* history: the patients whose e-mail address was entered

sdkVars  == <<outbox, local, synced, due>>
pageVars == <<page, listed, rows, opened>>
vars == <<doc, app, sdkVars, pageVars, asking, asked>>

---------------------------------------------------------------------------
(* The list in the database.  An entry is written whole, so all that can   *)
(* differ is which entries there are.                                      *)

Write == [op : {"add", "remove"}, who : Account]

Applied(entries, w) ==
  IF w.op = "add" THEN entries \cup {w.who} ELSE entries \ {w.who}

Pending(queue, x) == \E i \in DOMAIN queue : queue[i].who = x

(* The device's copy after news from the server: own unsent writes win. *)
Overlay(base, queue, own) ==
  {x \in Account : IF Pending(queue, x) THEN x \in own ELSE x \in base}

(* The same write n times.  Fault kept for the checks, as all that are     *)
(* named ...Fault: the phone does not show the write before it is taken.   *)
SendUnseenFault(d, w, n) ==
  /\ Len(outbox[d]) + n <= MaxOutbox
  /\ outbox' = [outbox EXCEPT ![d] = @ \o [i \in 1 .. n |-> w]]
  /\ local'  = local
  /\ due'    = [due    EXCEPT ![d] = TRUE]
  /\ UNCHANGED synced

Send(d, w, n) ==
  /\ Len(outbox[d]) + n <= MaxOutbox
  /\ outbox' = [outbox EXCEPT ![d] = @ \o [i \in 1 .. n |-> w]]
  /\ local'  = [local  EXCEPT ![d] = Applied(@, w)]
  /\ due'    = [due    EXCEPT ![d] = TRUE]
  /\ UNCHANGED synced

---------------------------------------------------------------------------
(* An addition: whose e-mail, what it waits for, and whether its page is   *)
(* still the one on top.                                                   *)
Idle    == [who |-> NoAccount, waits |-> "nothing", here |-> FALSE]
Request == [who : Account \cup {NoAccount}, waits : {"nothing", "query"}, here : BOOLEAN]
             \cup
           [who : Patient, waits : {"read"}, here : BOOLEAN]
Slot    == 1 .. MaxAsks

Waiting(d) == \E s \in Slot : asking[d][s] # Idle
Careful(d) == Waiting(d) => "hasty" \in Events

(* The page that asked is gone: its callbacks still come. *)
Abandoned(d) ==
  [asking EXCEPT ![d] =
     [s \in Slot |-> IF @[s] = Idle THEN Idle ELSE [@[s] EXCEPT !.here = FALSE]]]

---------------------------------------------------------------------------
(* The app of a device ends. *)
Stop(d, how) ==
  /\ app'    = [app    EXCEPT ![d] = how]
  /\ outbox' = [outbox EXCEPT ![d] = << >>]
  /\ local'  = [local  EXCEPT ![d] = {}]
  /\ synced' = [synced EXCEPT ![d] = FALSE]
  /\ due'    = [due    EXCEPT ![d] = FALSE]
  /\ page'   = [page   EXCEPT ![d] = "none"]
  /\ listed' = [listed EXCEPT ![d] = {}]
  /\ rows'   = [rows   EXCEPT ![d] = {}]
  /\ opened' = [opened EXCEPT ![d] = NoAccount]
  /\ asking' = [asking EXCEPT ![d] = [s \in Slot |-> Idle]]
  /\ UNCHANGED <<doc, asked>>

(* A new home page: it empties the global and observes the list anew. *)
NewHome(d) ==
  /\ page'   = [page   EXCEPT ![d] = "home"]
  /\ listed' = [listed EXCEPT ![d] = {}]
  /\ rows'   = [rows   EXCEPT ![d] = {}]
  /\ due'    = [due    EXCEPT ![d] = TRUE]

OpenApp(d) ==
  /\ app[d] # "running"
  /\ app' = [app EXCEPT ![d] = "running"]
  /\ NewHome(d)
  /\ UNCHANGED <<doc, outbox, local, synced, opened, asking, asked>>

(* Fault: a table that already has rows is not reloaded. *)
HomeChangedOnceFault(d) ==
  /\ app[d] = "running"
  /\ LET news == Overlay(doc, outbox[d], local[d])
     IN \/ /\ ~synced[d] \/ news # local[d]
           /\ local' = [local EXCEPT ![d] = news]
        \/ synced[d] /\ due[d] /\ UNCHANGED local
  /\ synced' = [synced EXCEPT ![d] = TRUE]
  /\ due'    = [due    EXCEPT ![d] = FALSE]
  /\ listed' = [listed EXCEPT ![d] = local'[d]]
  /\ rows'   = [rows   EXCEPT ![d] = IF @ = {} THEN local'[d] ELSE @]
  /\ UNCHANGED <<doc, app, outbox, page, opened, asking, asked>>

(* The observer of the home page, and those of older home pages, which are *)
(* never removed.  The table is reloaded inside the loop over the entries, *)
(* so an empty list leaves the old rows.                                   *)
HomeChanged(d) ==
  /\ app[d] = "running"
  /\ LET news == Overlay(doc, outbox[d], local[d])
     IN \/ /\ ~synced[d] \/ news # local[d]
           /\ local' = [local EXCEPT ![d] = news]
        \/ synced[d] /\ due[d] /\ UNCHANGED local
  /\ synced' = [synced EXCEPT ![d] = TRUE]
  /\ due'    = [due    EXCEPT ![d] = FALSE]
  /\ listed' = [listed EXCEPT ![d] = local'[d]]
  /\ rows'   = [rows   EXCEPT ![d] = IF local'[d] = {} THEN @ ELSE local'[d]]
  /\ UNCHANGED <<doc, app, outbox, page, opened, asking, asked>>

---------------------------------------------------------------------------
(* The home page's rows: the index of a row is looked up in allPatients.   *)

Index(S, x) == Cardinality({z \in S : z < x})

(* x is the patient in the row, y the one in the array. *)
SameIndex(d, x, y) ==
  /\ page[d] = "home"
  /\ x \in rows[d]
  /\ y \in listed[d]
  /\ Index(listed[d], y) = Index(rows[d], x)

TapRow(d, x) ==
  /\ \E y \in Account : SameIndex(d, x, y) /\ opened' = [opened EXCEPT ![d] = y]
  /\ page' = [page EXCEPT ![d] = "info"]
  /\ UNCHANGED <<doc, app, sdkVars, listed, rows, asking, asked>>

DeleteRow(d, x) ==
  /\ "delete" \in Events
  /\ Cardinality(rows[d]) = Cardinality(listed[d])
  /\ \E y \in Account :
       /\ SameIndex(d, x, y)
       /\ Send(d, [op |-> "remove", who |-> y], 1)
       /\ listed' = [listed EXCEPT ![d] = @ \ {y}]
  /\ rows' = [rows EXCEPT ![d] = @ \ {x}]
  /\ UNCHANGED <<doc, app, synced, page, opened, asking, asked>>

(* allPatients was emptied or refilled and the rows were not: an index out *)
(* of range, or a table whose count does not fit the deletion.             *)
RowCrash(d) ==
  /\ page[d] = "home"
  /\ rows[d] # {}
  /\ \/ Cardinality(listed[d]) < Cardinality(rows[d])
     \/ "delete" \in Events /\ Cardinality(listed[d]) # Cardinality(rows[d])
  /\ Stop(d, "crashed")

(* An unwind segue to the same home page. *)
InfoBack(d) ==
  /\ page[d] = "info"
  /\ page'   = [page   EXCEPT ![d] = "home"]
  /\ opened' = [opened EXCEPT ![d] = NoAccount]
  /\ UNCHANGED <<doc, app, sdkVars, listed, rows, asking, asked>>

RemovePatient(d) ==
  /\ "remove" \in Events
  /\ page[d] = "info"
  /\ Send(d, [op |-> "remove", who |-> opened[d]], 1)
  /\ NewHome(d)
  /\ opened' = [opened EXCEPT ![d] = NoAccount]
  /\ UNCHANGED <<doc, app, synced, asking, asked>>

---------------------------------------------------------------------------
(* The add page, a sheet on top of the home page. *)

OpenAddPage(d) ==
  /\ page[d] = "home"
  /\ page' = [page EXCEPT ![d] = "add"]
  /\ UNCHANGED <<doc, app, sdkVars, listed, rows, opened, asking, asked>>

DoneTapped(d, s, x) ==
  /\ page[d] = "add"
  /\ Careful(d)
  /\ asking[d][s] = Idle
  /\ asking' = [asking EXCEPT ![d][s] = [who |-> x, waits |-> "query", here |-> TRUE]]
  /\ listed' = [listed EXCEPT ![d] = {}]
  /\ asked'  = asked \cup ({x} \cap Patient)
  /\ UNCHANGED <<doc, app, sdkVars, page, rows, opened>>

(* Fault: an address nobody has is not refused. *)
QueryUnknownFault(d, s) ==
  /\ asking[d][s].waits = "query"
  /\ asking' = [asking EXCEPT ![d][s] = IF @.who \in Physio
                                          THEN Idle
                                          ELSE [@ EXCEPT !.waits = "read"]]
  /\ listed' = [listed EXCEPT ![d] = {}]
  /\ UNCHANGED <<doc, app, sdkVars, page, rows, opened, asked>>

(* The query for the e-mail answers: nobody and a physio are refused. *)
QueryAnswered(d, s) ==
  /\ asking[d][s].waits = "query"
  /\ asking' = [asking EXCEPT ![d][s] = IF @.who \in Patient
                                          THEN [@ EXCEPT !.waits = "read"]
                                          ELSE Idle]
  /\ listed' = [listed EXCEPT ![d] = {}]
  /\ UNCHANGED <<doc, app, sdkVars, page, rows, opened, asked>>

(* querrySnapshot! after an error. *)
QueryCrash(d, s) ==
  /\ "fault" \in Events
  /\ asking[d][s].waits = "query"
  /\ Stop(d, "crashed")

(* Fault: no write if there is no entry yet. *)
WritesLoopFault(list, x) == Cardinality({z \in list : x \in list => z < x})

(* The loop over the list writes the entry once for every entry before the *)
(* one it would duplicate, and once if there is no entry.                  *)
Writes(list, x) ==
  IF list = {} THEN 1
    ELSE Cardinality({z \in list : x \in list => z < x})

(* The read of the list answers; it is served from the SDK's copy, which   *)
(* the home page's observer keeps complete.                                *)
ReadAnswered(d, s) ==
  LET x == asking[d][s].who
  IN /\ asking[d][s].waits = "read"
     /\ synced[d]
     /\ \/ /\ Writes(local[d], x) = 0
           /\ asking' = [asking EXCEPT ![d][s] = Idle]
           /\ listed' = [listed EXCEPT ![d] = {}]
           /\ UNCHANGED <<sdkVars, page, rows>>
        \/ /\ Writes(local[d], x) > 0
           /\ Send(d, [op |-> "add", who |-> x], Writes(local[d], x))
           /\ \/ /\ asking[d][s].here
                 /\ asking' = [Abandoned(d) EXCEPT ![d][s] = Idle]
                 /\ NewHome(d)
              \/ /\ ~asking[d][s].here
                 /\ asking' = [asking EXCEPT ![d][s] = Idle]
                 /\ listed' = [listed EXCEPT ![d] = {}]
                 /\ UNCHANGED <<page, rows>>
           /\ UNCHANGED synced
     /\ UNCHANGED <<doc, app, opened, asked>>

(* Faults: a new home page that does not observe the list; an unwind segue *)
(* to the old home page.                                                   *)
CancelSilentFault(d) ==
  /\ page[d] = "add"
  /\ Careful(d)
  /\ page'   = [page   EXCEPT ![d] = "home"]
  /\ listed' = [listed EXCEPT ![d] = {}]
  /\ rows'   = [rows   EXCEPT ![d] = {}]
  /\ asking' = Abandoned(d)
  /\ UNCHANGED <<doc, app, sdkVars, opened, asked>>

CancelUnwindFault(d) ==
  /\ page[d] = "add"
  /\ Careful(d)
  /\ page'   = [page   EXCEPT ![d] = "home"]
  /\ listed' = [listed EXCEPT ![d] = {}]
  /\ asking' = Abandoned(d)
  /\ UNCHANGED <<doc, app, sdkVars, rows, opened, asked>>

Cancel(d) ==
  /\ page[d] = "add"
  /\ Careful(d)
  /\ NewHome(d)
  /\ asking' = Abandoned(d)
  /\ UNCHANGED <<doc, app, outbox, local, synced, opened, asked>>

(* The home page comes back as it was left. *)
Dismiss(d) ==
  /\ "dismiss" \in Events
  /\ page[d] = "add"
  /\ Careful(d)
  /\ page'   = [page EXCEPT ![d] = "home"]
  /\ asking' = Abandoned(d)
  /\ UNCHANGED <<doc, app, sdkVars, listed, rows, opened, asked>>

Kill(d) ==
  /\ "kill" \in Events
  /\ app[d] = "running"
  /\ Stop(d, "closed")

---------------------------------------------------------------------------
(* The server takes the oldest write of a device. *)
Flush(d) ==
  /\ outbox[d] # << >>
  /\ doc'    = Applied(doc, Head(outbox[d]))
  /\ outbox' = [outbox EXCEPT ![d] = Tail(@)]
  /\ local'  = [local  EXCEPT ![d] = Overlay(doc', Tail(outbox[d]), @)]
  /\ due'    = [due    EXCEPT ![d] = @ \/ local'[d] # local[d]]
  /\ UNCHANGED <<app, synced, pageVars, asking, asked>>

(* The server takes a write, but the connection is lost before its answer: *)
(* the write stays in the queue and is sent again on the next connection.  *)
AnswerLost(d) ==
  /\ "resend" \in Events
  /\ \E i \in DOMAIN outbox[d] : doc' = Applied(doc, outbox[d][i])
  /\ UNCHANGED <<app, sdkVars, pageVars, asking, asked>>

---------------------------------------------------------------------------
Init ==
  /\ doc    = {}
  /\ app    = [d \in Device |-> "closed"]
  /\ outbox = [d \in Device |-> << >>]
  /\ local  = [d \in Device |-> {}]
  /\ synced = [d \in Device |-> FALSE]
  /\ due    = [d \in Device |-> FALSE]
  /\ page   = [d \in Device |-> "none"]
  /\ listed = [d \in Device |-> {}]
  /\ rows   = [d \in Device |-> {}]
  /\ opened = [d \in Device |-> NoAccount]
  /\ asking = [d \in Device |-> [s \in Slot |-> Idle]]
  /\ asked  = {}

DeviceNext(d) ==
  \/ OpenApp(d)
  \/ HomeChanged(d)
  \/ \E x \in Account : TapRow(d, x)
  \/ \E x \in Account : DeleteRow(d, x)
  \/ RowCrash(d)
  \/ InfoBack(d)
  \/ RemovePatient(d)
  \/ OpenAddPage(d)
  \/ \E s \in Slot, x \in Account \cup {NoAccount} : DoneTapped(d, s, x)
  \/ \E s \in Slot : QueryAnswered(d, s)
  \/ \E s \in Slot : QueryCrash(d, s)
  \/ \E s \in Slot : ReadAnswered(d, s)
  \/ Cancel(d)
  \/ Dismiss(d)
  \/ Kill(d)
  \/ Flush(d)
  \/ AnswerLost(d)

Next == \E d \in Device : DeviceNext(d)

Spec == Init /\ [][Next]_vars

(* A phone that stays alive and connected gets its answers and sends its   *)
(* writes; what the physiotherapist taps is not forced.                    *)
Fairness ==
  \A d \in Device :
    /\ WF_vars(HomeChanged(d))
    /\ WF_vars(Flush(d))
    /\ \A s \in Slot : WF_vars(QueryAnswered(d, s)) /\ WF_vars(ReadAnswered(d, s))

FairSpec == Spec /\ Fairness

---------------------------------------------------------------------------
(* Properties. *)

(* Every state is well formed: in particular only a patient's entry is     *)
(* ever written, whatever e-mail address was entered.                      *)
TypeOK ==
  /\ doc    \in SUBSET Account
  /\ app    \in [Device -> {"closed", "running", "crashed"}]
  /\ outbox \in [Device -> Seq(Write)]
  /\ local  \in [Device -> SUBSET Account]
  /\ synced \in [Device -> BOOLEAN]
  /\ due    \in [Device -> BOOLEAN]
  /\ page   \in [Device -> {"none", "home", "add", "info"}]
  /\ listed \in [Device -> SUBSET Account]
  /\ rows   \in [Device -> SUBSET Account]
  /\ opened \in [Device -> Account \cup {NoAccount}]
  /\ asking \in [Device -> [Slot -> Request]]
  /\ asked  \in SUBSET Patient

(* Nobody gets onto the list, or is shown on any phone, but patients whose *)
(* e-mail address the physiotherapist has entered.                         *)
OnlyInvited ==
  /\ doc \subseteq asked
  /\ \A d \in Device : local[d] \cup rows[d] \subseteq asked

(* The patient whose page opens is the one in the row tapped, and the one  *)
(* removed the one in the row deleted: no callback of an addition or of a  *)
(* home page long gone comes between the rows and the array they index.    *)
RowMeansPatient ==
  [][\A d \in Device : \A x \in rows[d] :
       /\ TapRow(d, x) => opened'[d] = x
       /\ DeleteRow(d, x) => local'[d] = local[d] \ {x}]_vars

(* Every phone shows one shared list with its own unsaved changes made,    *)
(* once the news that are due have come: between the two answers of an     *)
(* addition, the loop that writes an entry several times, writes sent      *)
(* again and observers of pages long gone, no entry changes but by a tap   *)
(* on this phone or a write of another, and no change is undone before it  *)
(* was saved, unless the app ends.                                         *)
Views   == [d \in Device |-> Overlay(doc, outbox[d], local[d])]
Unsaved == [d \in Device |-> {outbox[d][i].who : i \in DOMAIN outbox[d]}]

Shared == INSTANCE SharedList
            WITH stored <- doc, list <- Views, unsaved <- Unsaved, invited <- asked

ListShared == Shared!Spec

(* No forced unwrap and no index fails. *)
NeverCrashes == \A d \in Device : app[d] # "crashed"

(* A table shows what is on the list: if the list stays as it is, every    *)
(* phone that runs comes to show exactly that.                             *)
RowsConverge ==
  \A S \in SUBSET Account :
    <>[](doc = S) =>
      \A d \in Device : []<>(app[d] = "running" => rows[d] = S)

(* A patient the physiotherapist adds reaches the list, and the table.     *)
AddedShown ==
  \A d \in Device : \A x \in Patient :
    LET adding == \E s \in Slot : asking[d][s].who = x
    IN (adding ~> x \in doc) /\ (adding ~> x \in rows[d])
=============================================================================
