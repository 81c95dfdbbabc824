----------------------- MODULE PatientRoster_proof -----------------------
(***************************************************************************)
(* For any number of phones and accounts, with every event allowed: the    *)
(* roster's states are well formed, nobody gets onto the list uninvited,   *)
(* the patient opened or deleted is the one in the row tapped, a phone     *)
(* shows its own writes, an answered addition is on its list, and a phone  *)
(* with nothing on its way shows the server's list; all of them implement  *)
(* SharedList.  With a single phone and a careful user nothing crashes.    *)
(***************************************************************************)
EXTENDS PatientRoster, FiniteSetTheorems, TLAPS

(***************************************************************************)
(* TypeOK alone is not inductive: RemovePatient writes the entry of        *)
(* currentPatient, which is somebody because the page is open.             *)
(***************************************************************************)
TypeInv ==
  /\ TypeOK
  /\ \A d \in Device : page[d] = "info" => opened[d] \in Account

---------------------------------------------------------------------------
(* The building blocks. *)

LEMMA IdleType == Idle \in Request
BY DEF Idle, Request

LEMMA WritesType ==
  ASSUME NEW list \in SUBSET Account, NEW x
  PROVE  Writes(list, x) \in Nat
<1>1. {z \in list : x \in list => z < x} \in SUBSET Account
  OBVIOUS
<1>2. IsFiniteSet({z \in list : x \in list => z < x})
  BY <1>1, FS_Subset, AccountKeys
<1>3. QED
  BY <1>2, FS_CardinalityType DEF Writes

LEMMA AbandonedType ==
  ASSUME TypeOK, NEW d \in Device
  PROVE  Abandoned(d) \in [Device -> [Slot -> Request]]
<1>1. ASSUME NEW s \in Slot
      PROVE  [asking[d][s] EXCEPT !.here = FALSE] \in Request
  <2>1. asking[d][s] \in Request
    BY DEF TypeOK
  <2>2. QED
    BY <2>1 DEF Request
<1>2. QED
  BY <1>1, IdleType DEF TypeOK, Abandoned

LEMMA SendType ==
  ASSUME TypeOK, NEW d \in Device, NEW w \in Write, NEW n \in Nat, Send(d, w, n)
  PROVE  /\ outbox' \in [Device -> Seq(Write)]
         /\ local' \in [Device -> SUBSET Account]
         /\ due' \in [Device -> BOOLEAN]
         /\ synced' \in [Device -> BOOLEAN]
<1>1. [i \in 1 .. n |-> w] \in Seq(Write)
  OBVIOUS
<1>2. outbox[d] \o [i \in 1 .. n |-> w] \in Seq(Write)
  BY <1>1 DEF TypeOK
<1>3. outbox' \in [Device -> Seq(Write)]
  BY <1>2 DEF TypeOK, Send
<1>4. Applied(local[d], w) \in SUBSET Account
  BY DEF TypeOK, Applied, Write
<1>5. QED
  BY <1>3, <1>4 DEF TypeOK, Send

LEMMA StopType ==
  ASSUME TypeInv, NEW d \in Device, NEW how \in {"closed", "crashed"}, Stop(d, how)
  PROVE  TypeInv'
<1>1. /\ page' \in [Device -> {"none", "home", "add", "info"}] /\ page'[d] = "none"
      /\ opened' \in [Device -> Account \cup {NoAccount}]
      /\ \A o \in Device \ {d} : page'[o] = page[o] /\ opened'[o] = opened[o]
  BY DEF TypeInv, TypeOK, Stop
<1>2. asking' \in [Device -> [Slot -> Request]]
  BY IdleType DEF TypeInv, TypeOK, Stop
<1>3. outbox' \in [Device -> Seq(Write)]
  BY DEF TypeInv, TypeOK, Stop
<1>4. QED
  BY <1>1, <1>2, <1>3 DEF TypeInv, TypeOK, Stop

LEMMA NewHomeType ==
  ASSUME TypeOK, NEW d \in Device, NewHome(d)
  PROVE  /\ page' \in [Device -> {"none", "home", "add", "info"}]
         /\ listed' \in [Device -> SUBSET Account]
         /\ rows' \in [Device -> SUBSET Account]
         /\ due' \in [Device -> BOOLEAN]
         /\ page'[d] = "home"
         /\ \A o \in Device \ {d} : page'[o] = page[o]
BY DEF TypeOK, NewHome

---------------------------------------------------------------------------
(* Type correctness. *)

LEMMA InitType == Init => TypeInv
BY IdleType DEF Init, TypeInv, TypeOK

LEMMA StepType ==
  ASSUME TypeInv, [Next]_vars
  PROVE  TypeInv'
<1> USE DEF sdkVars, pageVars
<1>1. CASE UNCHANGED vars
  BY <1>1 DEF vars, TypeInv, TypeOK
<1>2. ASSUME NEW d \in Device, DeviceNext(d)
      PROVE  TypeInv'
  <2>1. CASE OpenApp(d)
    <3>1. app' \in [Device -> {"closed", "running", "crashed"}]
      BY <2>1 DEF OpenApp, TypeInv, TypeOK
    <3>2. QED
      BY <2>1, <3>1, NewHomeType DEF OpenApp, TypeInv, TypeOK
  <2>2. CASE HomeChanged(d)
    <3>1. local' \in [Device -> SUBSET Account]
      <4>1. local \in [Device -> SUBSET Account]
        BY DEF TypeInv, TypeOK
      <4>2. Overlay(doc, outbox[d], local[d]) \subseteq Account
        BY DEF Overlay
      <4>3. QED
        BY <2>2, <4>1, <4>2 DEF HomeChanged
    <3>2. /\ listed' \in [Device -> SUBSET Account]
          /\ rows' \in [Device -> SUBSET Account]
      BY <2>2, <3>1 DEF HomeChanged, TypeInv, TypeOK
    <3>3. QED
      BY <2>2, <3>1, <3>2 DEF HomeChanged, TypeInv, TypeOK
  <2>3. CASE \E x \in Account : TapRow(d, x)
    BY <2>3 DEF TapRow, TypeInv, TypeOK
  <2>4. CASE \E x \in Account : DeleteRow(d, x)
    <3>1. PICK x \in Account, y \in Account :
            /\ Send(d, [op |-> "remove", who |-> y], 1)
            /\ listed' = [listed EXCEPT ![d] = @ \ {y}]
            /\ rows' = [rows EXCEPT ![d] = @ \ {x}]
      BY <2>4 DEF DeleteRow
    <3>2. [op |-> "remove", who |-> y] \in Write
      BY DEF Write
    <3>3. QED
      BY <2>4, <3>1, <3>2, SendType DEF DeleteRow, TypeInv, TypeOK
  <2>5. CASE RowCrash(d)
    BY <2>5, StopType DEF RowCrash
  <2>6. CASE InfoBack(d)
    BY <2>6 DEF InfoBack, TypeInv, TypeOK
  <2>7. CASE RemovePatient(d)
    <3>1. [op |-> "remove", who |-> opened[d]] \in Write
      BY <2>7 DEF RemovePatient, TypeInv, Write
    <3>2. /\ outbox' \in [Device -> Seq(Write)]
          /\ local' \in [Device -> SUBSET Account]
      BY <2>7, <3>1, SendType DEF RemovePatient, TypeInv
    <3>3. opened' \in [Device -> Account \cup {NoAccount}]
      BY <2>7 DEF RemovePatient, TypeInv, TypeOK
    <3>4. QED
      BY <2>7, <3>2, <3>3, NewHomeType DEF RemovePatient, TypeInv, TypeOK
  <2>8. CASE OpenAddPage(d)
    BY <2>8 DEF OpenAddPage, TypeInv, TypeOK
  <2>9. CASE \E s \in Slot, x \in Account \cup {NoAccount} : DoneTapped(d, s, x)
    <3>1. PICK s \in Slot, x \in Account \cup {NoAccount} : DoneTapped(d, s, x)
      BY <2>9
    <3>2. [who |-> x, waits |-> "query", here |-> TRUE] \in Request
      BY DEF Request
    <3>3. asking' \in [Device -> [Slot -> Request]]
      BY <3>1, <3>2 DEF DoneTapped, TypeInv, TypeOK
    <3>4. QED
      BY <3>1, <3>3 DEF DoneTapped, TypeInv, TypeOK
  <2>10. CASE \E s \in Slot : QueryAnswered(d, s)
    <3>1. PICK s \in Slot : QueryAnswered(d, s)
      BY <2>10
    <3>2. asking[d][s] \in Request
      BY DEF TypeInv, TypeOK
    <3>3. asking[d][s].who \in Patient => [asking[d][s] EXCEPT !.waits = "read"] \in Request
      BY <3>2 DEF Request
    <3>4. asking' \in [Device -> [Slot -> Request]]
      BY <3>1, <3>3, IdleType DEF QueryAnswered, TypeInv, TypeOK
    <3>5. QED
      BY <3>1, <3>4 DEF QueryAnswered, TypeInv, TypeOK
  <2>11. CASE \E s \in Slot : QueryCrash(d, s)
    BY <2>11, StopType DEF QueryCrash
  <2>12. CASE \E s \in Slot : ReadAnswered(d, s)
    <3>1. PICK s \in Slot : ReadAnswered(d, s)
      BY <2>12
    <3> DEFINE x == asking[d][s].who
               w == [op |-> "add", who |-> x]
               n == Writes(local[d], x)
    <3>2. x \in Account
      <4>1. asking[d][s] \in Request /\ asking[d][s].waits = "read"
        BY <3>1 DEF ReadAnswered, TypeInv, TypeOK
      <4>2. QED
        BY <4>1 DEF Request, Account
    <3>3. w \in Write /\ n \in Nat
      BY <3>2, WritesType DEF Write, TypeInv, TypeOK
    <3>4. /\ [asking EXCEPT ![d][s] = Idle] \in [Device -> [Slot -> Request]]
          /\ [Abandoned(d) EXCEPT ![d][s] = Idle] \in [Device -> [Slot -> Request]]
      BY IdleType, AbandonedType DEF TypeInv, TypeOK
    <3> HIDE DEF x, w, n
    <3>5. /\ asking' \in [Device -> [Slot -> Request]]
          /\ UNCHANGED <<doc, app, opened, asked>>
      BY <3>1, <3>4 DEF ReadAnswered
    <3>6. CASE UNCHANGED <<sdkVars, page, rows>> /\ listed' = [listed EXCEPT ![d] = {}]
      BY <3>5, <3>6 DEF TypeInv, TypeOK
    <3>7. CASE Send(d, w, n) /\ NewHome(d)
      <4>1. /\ outbox' \in [Device -> Seq(Write)]
            /\ local' \in [Device -> SUBSET Account]
            /\ synced' \in [Device -> BOOLEAN]
        BY <3>3, <3>7, SendType DEF TypeInv
      <4>2. QED
        BY <3>5, <3>7, <4>1, NewHomeType DEF TypeInv, TypeOK
    <3>8. CASE /\ Send(d, w, n)
               /\ listed' = [listed EXCEPT ![d] = {}]
               /\ UNCHANGED <<page, rows>>
      BY <3>3, <3>5, <3>8, SendType DEF TypeInv, TypeOK
    <3>9. QED
      BY <3>1, <3>6, <3>7, <3>8 DEF ReadAnswered, x, w, n
  <2>13. CASE Cancel(d)
    BY <2>13, NewHomeType, AbandonedType DEF Cancel, TypeInv, TypeOK
  <2>14. CASE Dismiss(d)
    BY <2>14, AbandonedType DEF Dismiss, TypeInv, TypeOK
  <2>15. CASE Kill(d)
    BY <2>15, StopType DEF Kill
  <2>16. CASE Flush(d)
    <3>1. /\ Head(outbox[d]) \in Write
          /\ Tail(outbox[d]) \in Seq(Write)
      BY <2>16 DEF Flush, TypeInv, TypeOK
    <3>2. doc' \in SUBSET Account
      BY <2>16, <3>1 DEF Flush, Applied, Write, TypeInv, TypeOK
    <3>3. local' \in [Device -> SUBSET Account]
      BY <2>16 DEF Flush, Overlay, TypeInv, TypeOK
    <3>4. due' \in [Device -> BOOLEAN]
      BY <2>16 DEF Flush, TypeInv, TypeOK
    <3>5. outbox' \in [Device -> Seq(Write)]
      BY <2>16, <3>1 DEF Flush, TypeInv, TypeOK
    <3>6. QED
      BY <2>16, <3>2, <3>3, <3>4, <3>5 DEF Flush, TypeInv, TypeOK
  <2>17. CASE AnswerLost(d)
    <3>1. PICK i \in DOMAIN outbox[d] : doc' = Applied(doc, outbox[d][i])
      BY <2>17 DEF AnswerLost
    <3>2. outbox[d][i] \in Write
      BY DEF TypeInv, TypeOK
    <3>3. doc' \in SUBSET Account
      BY <3>1, <3>2 DEF Applied, Write, TypeInv, TypeOK
    <3>4. QED
      BY <2>17, <3>3 DEF AnswerLost, TypeInv, TypeOK
  <2>18. QED
    BY <1>2, <2>1, <2>2, <2>3, <2>4, <2>5, <2>6, <2>7, <2>8, <2>9, <2>10,
       <2>11, <2>12, <2>13, <2>14, <2>15, <2>16, <2>17 DEF DeviceNext
<1>3. QED
  BY <1>1, <1>2 DEF Next

(* Every reachable state is well formed, and a patient's page is about a   *)
(* patient: removing from it writes a real entry's key.                    *)
THEOREM RosterTypesCorrect == Spec => []TypeInv
<1>1. QED
  BY InitType, StepType, PTL DEF Spec

(* Every reachable state is well formed. *)
THEOREM RosterTypeOK == Spec => []TypeOK
<1>1. TypeInv => TypeOK
  BY DEF TypeInv
<1>2. QED
  BY <1>1, RosterTypesCorrect, PTL

---------------------------------------------------------------------------
(* Nobody uninvited: an entry is on its way from the e-mail address to the *)
(* list through the requests, the unsent writes and the copies.            *)

InvitedQueue(queue) ==
  \A i \in DOMAIN queue : queue[i].op = "add" => queue[i].who \in asked

InvitedRequests(d) ==
  \A s \in Slot : asking[d][s].who \in Patient => asking[d][s].who \in asked

InvitedInv ==
  /\ OnlyInvited
  /\ \A d \in Device : InvitedQueue(outbox[d]) /\ InvitedRequests(d)

(* No phone learns or sends anything by these steps. *)
LEMMA QuietInvited ==
  ASSUME TypeInv, InvitedInv, UNCHANGED <<doc, outbox, local, asked>>,
         NEW d \in Device, rows'[d] \subseteq rows[d] \cup local[d],
         \A o \in Device \ {d} : rows'[o] = rows[o],
         \A o \in Device, s \in Slot :
           asking'[o][s].who \in Patient => asking'[o][s].who = asking[o][s].who
  PROVE  InvitedInv'
BY DEF InvitedInv, OnlyInvited, InvitedQueue, InvitedRequests

LEMMA StopInvited ==
  ASSUME TypeInv, InvitedInv, NEW d \in Device, NEW how, Stop(d, how)
  PROVE  InvitedInv'
<1>1. \A s \in Slot : asking'[d][s].who \notin Patient
  BY NobodysMail DEF Stop, TypeInv, TypeOK, Idle, Account
<1>2. /\ local'[d] = {} /\ rows'[d] = {} /\ outbox'[d] = << >>
      /\ \A o \in Device \ {d} : /\ local'[o] = local[o] /\ rows'[o] = rows[o]
                                 /\ outbox'[o] = outbox[o] /\ asking'[o] = asking[o]
      /\ UNCHANGED <<doc, asked>>
  BY DEF Stop, TypeInv, TypeOK
<1>3. QED
  BY <1>1, <1>2 DEF InvitedInv, OnlyInvited, InvitedQueue, InvitedRequests

(* A write of an invited patient's entry, or a removal. *)
LEMMA SendInvited ==
  ASSUME TypeInv, InvitedInv, UNCHANGED <<doc, asked>>,
         NEW d \in Device, NEW w \in Write, NEW n \in Nat, Send(d, w, n),
         w.op = "add" => w.who \in asked,
         rows'[d] \subseteq rows[d],
         \A o \in Device \ {d} : rows'[o] = rows[o],
         \A o \in Device, s \in Slot :
           asking'[o][s].who \in Patient => asking'[o][s].who = asking[o][s].who
  PROVE  InvitedInv'
<1> DEFINE copies == [i \in 1 .. n |-> w]
<1>0. copies \in Seq(Write)
  OBVIOUS
<1>1. copies \in Seq(Write) /\ outbox[d] \in Seq(Write)
  BY <1>0 DEF TypeInv, TypeOK
<1>2. outbox'[d] = outbox[d] \o [i \in 1 .. n |-> w]
  BY DEF Send, TypeInv, TypeOK
<1>3. ASSUME NEW i \in DOMAIN outbox'[d]
      PROVE  outbox'[d][i] = w \/ \E j \in DOMAIN outbox[d] : outbox'[d][i] = outbox[d][j]
  BY <1>1, <1>2, <1>3
<1>4. InvitedQueue(outbox'[d])
  BY <1>3 DEF InvitedInv, InvitedQueue
<1>5. local'[d] \subseteq asked
  BY DEF Send, Applied, InvitedInv, OnlyInvited, TypeInv, TypeOK
<1>6. \A o \in Device \ {d} : local'[o] = local[o] /\ outbox'[o] = outbox[o]
  BY DEF Send, TypeInv, TypeOK
<1>7. QED
  BY <1>4, <1>5, <1>6 DEF InvitedInv, OnlyInvited, InvitedQueue, InvitedRequests

LEMMA OverlayInvited ==
  ASSUME NEW base \in SUBSET asked, NEW own \in SUBSET asked, NEW queue
  PROVE  Overlay(base, queue, own) \subseteq asked
BY DEF Overlay

LEMMA InitInvited == Init => InvitedInv
BY NobodysMail DEF Init, InvitedInv, OnlyInvited, InvitedQueue, InvitedRequests, Idle, Account

LEMMA AbandonedWho ==
  ASSUME TypeInv, NEW d \in Device, NEW o \in Device, NEW s \in Slot
  PROVE  Abandoned(d)[o][s].who = asking[o][s].who
<1>1. asking[o][s] \in Request
  BY DEF TypeInv, TypeOK
<1>2. [asking[o][s] EXCEPT !.here = FALSE].who = asking[o][s].who
  BY <1>1 DEF Request
<1>3. CASE o = d
  BY <1>2, <1>3 DEF Abandoned, TypeInv, TypeOK
<1>4. CASE o # d
  BY <1>4 DEF Abandoned, TypeInv, TypeOK
<1>5. QED
  BY <1>3, <1>4

LEMMA IdleWho == Idle.who \notin Patient
BY NobodysMail DEF Idle, Account

LEMMA StepInvited ==
  ASSUME TypeInv, InvitedInv, [Next]_vars
  PROVE  InvitedInv'
<1> USE DEF sdkVars, pageVars
<1>1. CASE UNCHANGED vars
  BY <1>1 DEF vars, InvitedInv, OnlyInvited, InvitedQueue, InvitedRequests
<1>2. ASSUME NEW d \in Device, DeviceNext(d)
      PROVE  InvitedInv'
  <2>1. CASE OpenApp(d)
    BY <2>1, QuietInvited DEF OpenApp, NewHome, TypeInv, TypeOK
  <2>2. CASE HomeChanged(d)
    <3>1. local'[d] \subseteq asked /\ \A o \in Device \ {d} : local'[o] = local[o]
      <4>1. doc \in SUBSET asked /\ local[d] \in SUBSET asked
        BY DEF InvitedInv, OnlyInvited
      <4>2. Overlay(doc, outbox[d], local[d]) \subseteq asked
        BY <4>1, OverlayInvited
      <4>3. CASE local' = [local EXCEPT ![d] = Overlay(doc, outbox[d], local[d])]
        BY <4>2, <4>3 DEF TypeInv, TypeOK
      <4>4. CASE local' = local
        BY <4>1, <4>4
      <4>5. QED
        BY <2>2, <4>3, <4>4 DEF HomeChanged
    <3>2. /\ rows'[d] \subseteq rows[d] \cup local'[d]
          /\ \A o \in Device \ {d} : rows'[o] = rows[o]
      BY <2>2 DEF HomeChanged, TypeInv, TypeOK
    <3>3. UNCHANGED <<doc, outbox, asking, asked>>
      BY <2>2 DEF HomeChanged
    <3>4. QED
      BY <3>1, <3>2, <3>3 DEF InvitedInv, OnlyInvited, InvitedQueue, InvitedRequests
  <2>3. CASE \E x \in Account : TapRow(d, x)
    BY <2>3, QuietInvited DEF TapRow
  <2>4. CASE \E x \in Account : DeleteRow(d, x)
    <3>1. PICK x \in Account, y \in Account :
            /\ Send(d, [op |-> "remove", who |-> y], 1)
            /\ rows' = [rows EXCEPT ![d] = @ \ {x}]
            /\ UNCHANGED <<doc, asking, asked>>
      BY <2>4 DEF DeleteRow
    <3>2. [op |-> "remove", who |-> y] \in Write
      BY DEF Write
    <3>3. rows'[d] \subseteq rows[d] /\ \A o \in Device \ {d} : rows'[o] = rows[o]
      BY <3>1 DEF TypeInv, TypeOK
    <3>4. QED
      BY <3>1, <3>2, <3>3, SendInvited
  <2>5. CASE RowCrash(d)
    BY <2>5, StopInvited DEF RowCrash
  <2>6. CASE InfoBack(d)
    BY <2>6, QuietInvited DEF InfoBack
  <2>7. CASE RemovePatient(d)
    <3>1. [op |-> "remove", who |-> opened[d]] \in Write
      BY <2>7 DEF RemovePatient, TypeInv, Write
    <3>2. rows'[d] \subseteq rows[d] /\ \A o \in Device \ {d} : rows'[o] = rows[o]
      BY <2>7 DEF RemovePatient, NewHome, TypeInv, TypeOK
    <3>3. QED
      BY <2>7, <3>1, <3>2, SendInvited DEF RemovePatient
  <2>8. CASE OpenAddPage(d)
    BY <2>8, QuietInvited DEF OpenAddPage
  <2>9. CASE \E s \in Slot, x \in Account \cup {NoAccount} : DoneTapped(d, s, x)
    <3>1. PICK s \in Slot, x \in Account \cup {NoAccount} : DoneTapped(d, s, x)
      BY <2>9
    <3>2. /\ asking'[d][s].who = x
          /\ \A o \in Device, t \in Slot :
               <<o, t>> # <<d, s>> => asking'[o][t] = asking[o][t]
          /\ asked' = asked \cup ({x} \cap Patient)
      BY <3>1 DEF DoneTapped, TypeInv, TypeOK
    <3>3. \A o \in Device, t \in Slot :
            asking'[o][t].who \in Patient => asking'[o][t].who \in asked'
      BY <3>2 DEF InvitedInv, InvitedRequests
    <3>4. UNCHANGED <<doc, local, rows, outbox>>
      BY <3>1 DEF DoneTapped
    <3>5. QED
      BY <3>2, <3>3, <3>4 DEF InvitedInv, OnlyInvited, InvitedQueue, InvitedRequests
  <2>10. CASE \E s \in Slot : QueryAnswered(d, s)
    <3>1. PICK s \in Slot : QueryAnswered(d, s)
      BY <2>10
    <3>2. asking[d][s] \in Request
      BY DEF TypeInv, TypeOK
    <3>3. [asking[d][s] EXCEPT !.waits = "read"].who = asking[d][s].who
      BY <3>2 DEF Request
    <3>4. \A o \in Device, t \in Slot :
            asking'[o][t].who \in Patient => asking'[o][t].who = asking[o][t].who
      BY <3>1, <3>3, IdleWho DEF QueryAnswered, TypeInv, TypeOK
    <3>5. QED
      BY <3>1, <3>4, QuietInvited DEF QueryAnswered
  <2>11. CASE \E s \in Slot : QueryCrash(d, s)
    BY <2>11, StopInvited DEF QueryCrash
  <2>12. CASE \E s \in Slot : ReadAnswered(d, s)
    <3>1. PICK s \in Slot : ReadAnswered(d, s)
      BY <2>12
    <3> DEFINE x == asking[d][s].who
               w == [op |-> "add", who |-> x]
               n == Writes(local[d], x)
    <3>2. x \in Patient
      <4>1. asking[d][s] \in Request /\ asking[d][s].waits = "read"
        BY <3>1 DEF ReadAnswered, TypeInv, TypeOK
      <4>2. QED
        BY <4>1 DEF Request
    <3>3. w \in Write /\ n \in Nat
      BY <3>2, WritesType DEF Write, Account, TypeInv, TypeOK
    <3>4. w.op = "add" => w.who \in asked
      BY <3>2 DEF InvitedInv, InvitedRequests
    <3>5. \A o \in Device, t \in Slot :
            asking'[o][t].who \in Patient => asking'[o][t].who = asking[o][t].who
      <4>1. Abandoned(d) \in [Device -> [Slot -> Request]]
        BY AbandonedType DEF TypeInv
      <4>2. CASE asking' = [Abandoned(d) EXCEPT ![d][s] = Idle]
        BY <4>1, <4>2, AbandonedWho, IdleWho
      <4>3. CASE asking' = [asking EXCEPT ![d][s] = Idle]
        BY <4>3, IdleWho DEF TypeInv, TypeOK
      <4>4. QED
        BY <3>1, <4>2, <4>3 DEF ReadAnswered
    <3>6. /\ rows'[d] \subseteq rows[d] /\ \A o \in Device \ {d} : rows'[o] = rows[o]
          /\ UNCHANGED <<doc, asked>>
      BY <3>1 DEF ReadAnswered, NewHome, TypeInv, TypeOK
    <3> HIDE DEF x, w, n
    <3>7. CASE UNCHANGED <<outbox, local>>
      BY <3>5, <3>6, <3>7, QuietInvited
    <3>8. CASE Send(d, w, n)
      BY <3>3, <3>4, <3>5, <3>6, <3>8, SendInvited
    <3>9. QED
      BY <3>1, <3>7, <3>8 DEF ReadAnswered, x, w, n
  <2>13. CASE Cancel(d)
    <3>1. rows'[d] \subseteq rows[d] /\ \A o \in Device \ {d} : rows'[o] = rows[o]
      BY <2>13 DEF Cancel, NewHome, TypeInv, TypeOK
    <3>2. QED
      BY <2>13, <3>1, AbandonedWho, QuietInvited DEF Cancel
  <2>14. CASE Dismiss(d)
    BY <2>14, AbandonedWho, QuietInvited DEF Dismiss
  <2>15. CASE Kill(d)
    BY <2>15, StopInvited DEF Kill
  <2>16. CASE Flush(d)
    <3>1. /\ outbox[d] \in Seq(Write) /\ outbox[d] # << >>
          /\ outbox'[d] = Tail(outbox[d])
          /\ \A o \in Device \ {d} : outbox'[o] = outbox[o] /\ local'[o] = local[o]
      BY <2>16 DEF Flush, TypeInv, TypeOK
    <3>2. InvitedQueue(outbox'[d])
      <4>1. \A i \in DOMAIN Tail(outbox[d]) :
              i + 1 \in DOMAIN outbox[d] /\ Tail(outbox[d])[i] = outbox[d][i + 1]
        BY <3>1
      <4>2. QED
        BY <3>1, <4>1 DEF InvitedInv, InvitedQueue
    <3>3. doc' \subseteq asked
      <4>1. 1 \in DOMAIN outbox[d] /\ Head(outbox[d]) = outbox[d][1]
        BY <3>1
      <4>2. QED
        BY <2>16, <4>1 DEF Flush, Applied, InvitedInv, OnlyInvited, InvitedQueue
    <3>4. local'[d] \subseteq asked
      BY <2>16, <3>3, OverlayInvited DEF Flush, InvitedInv, OnlyInvited, TypeInv, TypeOK
    <3>5. UNCHANGED <<rows, asking, asked>>
      BY <2>16 DEF Flush
    <3>6. QED
      BY <3>1, <3>2, <3>3, <3>4, <3>5
      DEF InvitedInv, OnlyInvited, InvitedQueue, InvitedRequests
  <2>17. CASE AnswerLost(d)
    <3>1. doc' \subseteq asked
      BY <2>17 DEF AnswerLost, Applied, InvitedInv, OnlyInvited, InvitedQueue
    <3>2. QED
      BY <2>17, <3>1 DEF AnswerLost, InvitedInv, OnlyInvited, InvitedQueue, InvitedRequests
  <2>18. QED
    BY <1>2, <2>1, <2>2, <2>3, <2>4, <2>5, <2>6, <2>7, <2>8, <2>9, <2>10,
       <2>11, <2>12, <2>13, <2>14, <2>15, <2>16, <2>17 DEF DeviceNext
<1>3. QED
  BY <1>1, <1>2 DEF Next

(* The list and every copy and table of it only ever hold patients whose   *)
(* e-mail address was entered: PhysioAddPatientScene's two callbacks.      *)
THEOREM NobodyUninvited == Spec => []OnlyInvited
<1>1. InvitedInv => OnlyInvited
  BY DEF InvitedInv
<1>2. QED
  BY <1>1, InitType, StepType, InitInvited, StepInvited, PTL DEF Spec

---------------------------------------------------------------------------
(* The rows and the array they index agree whenever the array has anything *)
(* in it, and an index then means one patient only.                        *)

RowsInv == \A d \in Device : listed[d] = {} \/ listed[d] = rows[d]

LEMMA IndexGrows ==
  ASSUME NEW S \in SUBSET Account, NEW x \in S, NEW y \in S, x < y
  PROVE  Index(S, x) # Index(S, y)
<1> DEFINE A == {z \in S : z < x}
           B == {z \in S : z < y}
<1>1. S \subseteq Nat
  BY AccountKeys
<1>2. IsFiniteSet(B)
  <2>1. B \in SUBSET Account
    OBVIOUS
  <2>2. QED
    BY <2>1, FS_Subset, AccountKeys
<1>3. A \in SUBSET B
  <2>1. ASSUME NEW z \in S, z < x
        PROVE  z < y
    BY <1>1, <2>1
  <2>2. QED
    BY <2>1
<1>4. x \in B /\ x \notin A
  BY <1>1
<1>5. Cardinality(B) = Cardinality(A) => B = A
  BY <1>2, <1>3, FS_Subset
<1>6. QED
  BY <1>4, <1>5 DEF Index

LEMMA IndexMeansOne ==
  ASSUME NEW S \in SUBSET Account, NEW x \in S, NEW y \in S, Index(S, x) = Index(S, y)
  PROVE  x = y
<1>1. x \in Nat /\ y \in Nat
  BY AccountKeys
<1>2. ~(x < y) /\ ~(y < x)
  BY IndexGrows
<1>3. QED
  BY <1>1, <1>2

LEMMA RowIsPatient ==
  ASSUME TypeInv, RowsInv, NEW d \in Device, NEW x, NEW y, SameIndex(d, x, y)
  PROVE  x = y /\ listed[d] = rows[d]
<1>1. listed[d] = rows[d]
  BY DEF RowsInv, SameIndex
<1>2. rows[d] \in SUBSET Account
  BY DEF TypeInv, TypeOK
<1>3. QED
  BY <1>1, <1>2, IndexMeansOne DEF SameIndex

LEMMA InitRows == Init => RowsInv
BY DEF Init, RowsInv

(* The array of one phone is left alone, emptied, or filled with its rows. *)
LEMMA OneDeviceRows ==
  ASSUME TypeInv, RowsInv, NEW d \in Device,
         \A o \in Device \ {d} : listed'[o] = listed[o] /\ rows'[o] = rows[o],
         listed'[d] = {} \/ listed'[d] = rows'[d]
  PROVE  RowsInv'
BY DEF RowsInv

LEMMA StepRows ==
  ASSUME TypeInv, RowsInv, [Next]_vars
  PROVE  RowsInv'
<1> USE DEF sdkVars, pageVars
<1>1. CASE UNCHANGED vars
  BY <1>1 DEF vars, RowsInv
<1>2. ASSUME NEW d \in Device, DeviceNext(d)
      PROVE  RowsInv'
  <2>a. CASE UNCHANGED <<listed, rows>>
    BY <2>a DEF RowsInv
  <2>b. CASE NewHome(d) \/ \E how : Stop(d, how)
    BY <2>b, OneDeviceRows DEF NewHome, Stop, TypeInv, TypeOK
  <2>c. CASE listed' = [listed EXCEPT ![d] = {}] /\ UNCHANGED rows
    BY <2>c, OneDeviceRows DEF TypeInv, TypeOK
  <2>d. CASE HomeChanged(d)
    <3>1. /\ listed'[d] = local'[d]
          /\ rows'[d] = IF local'[d] = {} THEN rows[d] ELSE local'[d]
          /\ \A o \in Device \ {d} : listed'[o] = listed[o] /\ rows'[o] = rows[o]
      BY <2>d DEF HomeChanged, TypeInv, TypeOK
    <3>2. QED
      BY <3>1, OneDeviceRows
  <2>e. CASE \E x \in Account : DeleteRow(d, x)
    <3>1. PICK x \in Account, y \in Account :
            /\ SameIndex(d, x, y)
            /\ listed' = [listed EXCEPT ![d] = @ \ {y}]
            /\ rows' = [rows EXCEPT ![d] = @ \ {x}]
      BY <2>e DEF DeleteRow
    <3>2. x = y /\ listed[d] = rows[d]
      BY <3>1, RowIsPatient
    <3>3. QED
      BY <3>1, <3>2, OneDeviceRows DEF TypeInv, TypeOK
  <2>1. CASE OpenApp(d) \/ RemovePatient(d) \/ Cancel(d)
    BY <2>1, <2>b DEF OpenApp, RemovePatient, Cancel
  <2>2. CASE RowCrash(d) \/ (\E s \in Slot : QueryCrash(d, s)) \/ Kill(d)
    BY <2>2, <2>b DEF RowCrash, QueryCrash, Kill
  <2>3. CASE \/ \E x \in Account : TapRow(d, x)
             \/ InfoBack(d) \/ OpenAddPage(d) \/ Dismiss(d)
             \/ Flush(d) \/ AnswerLost(d)
    BY <2>3, <2>a DEF TapRow, InfoBack, OpenAddPage, Dismiss, Flush, AnswerLost
  <2>4. CASE \/ \E s \in Slot, x \in Account \cup {NoAccount} : DoneTapped(d, s, x)
             \/ \E s \in Slot : QueryAnswered(d, s)
    BY <2>4, <2>c DEF DoneTapped, QueryAnswered
  <2>5. CASE \E s \in Slot : ReadAnswered(d, s)
    BY <2>5, <2>b, <2>c DEF ReadAnswered
  <2>6. QED
    BY <1>2, <2>d, <2>e, <2>1, <2>2, <2>3, <2>4, <2>5 DEF DeviceNext
<1>3. QED
  BY <1>1, <1>2 DEF Next

LEMMA StepRowMeansPatient ==
  ASSUME TypeInv, RowsInv, NEW d \in Device, NEW x \in Account
  PROVE  /\ TapRow(d, x) => opened'[d] = x
         /\ DeleteRow(d, x) => local'[d] = local[d] \ {x}
<1>1. ASSUME TapRow(d, x)
      PROVE  opened'[d] = x
  <2>1. PICK y \in Account : SameIndex(d, x, y) /\ opened' = [opened EXCEPT ![d] = y]
    BY <1>1 DEF TapRow
  <2>2. QED
    BY <2>1, RowIsPatient DEF TypeInv, TypeOK
<1>2. ASSUME DeleteRow(d, x)
      PROVE  local'[d] = local[d] \ {x}
  <2>1. PICK y \in Account :
          SameIndex(d, x, y) /\ Send(d, [op |-> "remove", who |-> y], 1)
    BY <1>2 DEF DeleteRow
  <2>2. x = y
    BY <2>1, RowIsPatient
  <2>3. QED
    BY <2>1, <2>2 DEF Send, Applied, TypeInv, TypeOK
<1>3. QED
  BY <1>1, <1>2

(* The patient opened or deleted is the one in the row, on any number of   *)
(* phones, with any number of additions abandoned on their way and with    *)
(* any number of old home pages still observing.                           *)
THEOREM RowsMeanPatients == Spec => RowMeansPatient
<1>1. TypeInv /\ RowsInv /\ [Next]_vars =>
        [\A d \in Device : \A x \in rows[d] :
           /\ TapRow(d, x) => opened'[d] = x
           /\ DeleteRow(d, x) => local'[d] = local[d] \ {x}]_vars
  BY StepRowMeansPatient DEF TypeInv, TypeOK
<1>2. QED
  BY <1>1, InitType, StepType, InitRows, StepRows, PTL DEF Spec, RowMeansPatient

---------------------------------------------------------------------------
(* One phone whose user waits for an addition to be answered.              *)

(* The phone's copy of an entry is what its last unsent write makes of it, *)
(* or else the server's.                                                   *)
Settled(queue, own, base) ==
  \A x \in Account :
    /\ ~Pending(queue, x) => (x \in own <=> x \in base)
    /\ \A i \in DOMAIN queue :
         queue[i].who = x /\ (\A j \in DOMAIN queue : i < j => queue[j].who # x)
           => (queue[i].op = "add" <=> x \in own)

Calm(d) ==
  /\ app[d] # "crashed"
  /\ app[d] = "running" \/ page[d] = "none"
  /\ Settled(outbox[d], local[d], doc)
  /\ \A s, t \in Slot : asking[d][s] # Idle /\ asking[d][t] # Idle => s = t
  /\ Waiting(d) => page[d] = "add"
  /\ page[d] \in {"home", "info"} => listed[d] = rows[d] /\ rows[d] \subseteq local[d]

(* News from the server is no news. *)
LEMMA OverlaySettled ==
  ASSUME NEW queue, NEW own \in SUBSET Account, NEW base, Settled(queue, own, base)
  PROVE  Overlay(base, queue, own) = own
BY DEF Overlay, Settled

LEMMA SendSettled ==
  ASSUME TypeInv, NEW d \in Device, NEW w \in Write, NEW n \in Nat \ {0}, Send(d, w, n),
         Settled(outbox[d], local[d], doc)
  PROVE  Settled(outbox'[d], local'[d], doc)
<1> DEFINE m == [i \in 1 .. n |-> w]
           q == outbox[d]
           r == outbox'[d]
<1>1. m \in Seq(Write) /\ Len(m) = n /\ q \in Seq(Write) /\ Len(q) \in Nat /\ DOMAIN q = 1 .. Len(q)
  BY DEF TypeInv, TypeOK
<1>2. r = q \o m /\ local'[d] = Applied(local[d], w)
  BY DEF Send, TypeInv, TypeOK
<1> HIDE DEF q, r
<1>3. /\ DOMAIN r = 1 .. Len(q) + n
      /\ \A i \in 1 .. Len(q) : r[i] = q[i]
      /\ \A i \in 1 .. Len(q) + n : i > Len(q) => r[i] = w
  BY <1>1, <1>2
<1>4. SUFFICES ASSUME NEW x \in Account
               PROVE  /\ ~Pending(r, x) => (x \in local'[d] <=> x \in doc)
                      /\ \A i \in DOMAIN r :
                           r[i].who = x /\ (\A j \in DOMAIN r : i < j => r[j].who # x)
                             => (r[i].op = "add" <=> x \in local'[d])
  BY DEF Settled, r
<1>5. Len(q) + n \in DOMAIN r /\ r[Len(q) + n] = w
  BY <1>1, <1>3
<1>6. CASE x = w.who
  <2>1. Pending(r, x)
    BY <1>5, <1>6 DEF Pending
  <2>2. ASSUME NEW i \in DOMAIN r, \A j \in DOMAIN r : i < j => r[j].who # x
        PROVE  r[i] = w
    <3>1. ~(i < Len(q) + n)
      BY <1>5, <1>6, <2>2
    <3>2. i = Len(q) + n
      BY <1>1, <1>3, <3>1
    <3>3. QED
      BY <1>5, <3>2
  <2>3. w.op = "add" <=> x \in local'[d]
    BY <1>2, <1>6 DEF Applied
  <2>4. QED
    BY <2>1, <2>2, <2>3
<1>7. CASE x # w.who
  <2>1. x \in local'[d] <=> x \in local[d]
    BY <1>2, <1>7 DEF Applied
  <2>2. \A i \in DOMAIN r : r[i].who = x => i \in 1 .. Len(q) /\ r[i] = q[i]
    BY <1>1, <1>3, <1>7
  <2>3. Pending(q, x) => Pending(r, x)
    BY <1>1, <1>3 DEF Pending
  <2>4. ASSUME NEW i \in DOMAIN r, r[i].who = x, \A j \in DOMAIN r : i < j => r[j].who # x
        PROVE  r[i].op = "add" <=> x \in local'[d]
    <3>1. i \in 1 .. Len(q) /\ r[i] = q[i]
      BY <2>2, <2>4
    <3>2. \A j \in DOMAIN q : i < j => q[j].who # x
      BY <1>1, <1>3, <2>4
    <3>3. QED
      BY <1>1, <2>1, <2>4, <3>1, <3>2 DEF Settled, q
  <2>5. QED
    BY <2>1, <2>3, <2>4 DEF Settled, q
<1>8. QED
  BY <1>6, <1>7

LEMMA FlushSettled ==
  ASSUME TypeInv, NEW d \in Device, outbox[d] # << >>, Settled(outbox[d], local[d], doc)
  PROVE  Settled(Tail(outbox[d]), local[d], Applied(doc, Head(outbox[d])))
<1> DEFINE q == outbox[d]
           r == Tail(q)
           w == Head(q)
           base == Applied(doc, w)
<1>1. /\ q \in Seq(Write) /\ Len(q) \in Nat \ {0} /\ DOMAIN q = 1 .. Len(q) /\ w = q[1] /\ w \in Write
      /\ DOMAIN r = 1 .. Len(q) - 1 /\ \A i \in 1 .. Len(q) - 1 : r[i] = q[i + 1]
  BY DEF TypeInv, TypeOK
<1> HIDE DEF q, r, w
<1>2. SUFFICES ASSUME NEW x \in Account
               PROVE  /\ ~Pending(r, x) => (x \in local[d] <=> x \in base)
                      /\ \A i \in DOMAIN r :
                           r[i].who = x /\ (\A j \in DOMAIN r : i < j => r[j].who # x)
                             => (r[i].op = "add" <=> x \in local[d])
  BY DEF Settled, q, r, w
<1>3. /\ ~Pending(q, x) => (x \in local[d] <=> x \in doc)
      /\ \A i \in DOMAIN q :
           q[i].who = x /\ (\A j \in DOMAIN q : i < j => q[j].who # x)
             => (q[i].op = "add" <=> x \in local[d])
  BY DEF Settled, q
<1>4. \A j \in DOMAIN q : 1 < j => j - 1 \in DOMAIN r /\ r[j - 1] = q[j]
  BY <1>1
<1>5. ASSUME ~Pending(r, x)
      PROVE  x \in local[d] <=> x \in base
  <2>1. \A j \in DOMAIN q : 1 < j => q[j].who # x
    BY <1>4, <1>5 DEF Pending
  <2>2. CASE w.who = x
    <3>1. w.op = "add" <=> x \in local[d]
      BY <1>1, <1>3, <2>1, <2>2
    <3>2. QED
      BY <2>2, <3>1 DEF Applied
  <2>3. CASE w.who # x
    <3>1. ~Pending(q, x)
      BY <1>1, <2>1, <2>3 DEF Pending
    <3>2. QED
      BY <1>3, <2>3, <3>1 DEF Applied
  <2>4. QED
    BY <2>2, <2>3
<1>6. ASSUME NEW i \in DOMAIN r, r[i].who = x, \A j \in DOMAIN r : i < j => r[j].who # x
      PROVE  r[i].op = "add" <=> x \in local[d]
  <2>1. i + 1 \in DOMAIN q /\ q[i + 1] = r[i]
    BY <1>1
  <2>2. ASSUME NEW j \in DOMAIN q, i + 1 < j
        PROVE  q[j].who # x
    <3>1. j - 1 \in DOMAIN r /\ i < j - 1 /\ r[j - 1] = q[j]
      BY <1>1, <2>2
    <3>2. QED
      BY <1>6, <3>1
  <2>3. QED
    BY <1>3, <1>6, <2>1, <2>2
<1>7. QED
  BY <1>5, <1>6

LEMMA LostSettled ==
  ASSUME NEW d \in Device, NEW i \in DOMAIN outbox[d], Settled(outbox[d], local[d], doc)
  PROVE  Settled(outbox[d], local[d], Applied(doc, outbox[d][i]))
<1>1. \A x \in Account : ~Pending(outbox[d], x) => x # outbox[d][i].who
  BY DEF Pending
<1>2. \A x \in Account : ~Pending(outbox[d], x) => (x \in Applied(doc, outbox[d][i]) <=> x \in doc)
  BY <1>1 DEF Applied
<1>3. QED
  BY <1>2 DEF Settled

LEMMA PageCalm ==
  ASSUME NEW d \in Device, Calm(d), app'[d] = app[d], Settled(outbox'[d], local'[d], doc'),
         asking'[d] = asking[d],
         page'[d] = page[d] \/ (page[d] # "none" /\ ~Waiting(d)),
         page'[d] \in {"home", "info"} => listed'[d] = rows'[d] /\ rows'[d] \subseteq local'[d]
  PROVE  Calm(d)'
BY DEF Calm, Settled, Waiting, Pending

(* A new home page, with no addition under way. *)
LEMMA NewHomeCalm ==
  ASSUME TypeInv, NEW d \in Device, NewHome(d), app'[d] = "running",
         Settled(outbox'[d], local'[d], doc'), \A s \in Slot : asking'[d][s] = Idle
  PROVE  Calm(d)'
<1>1. listed'[d] = {} /\ rows'[d] = {} /\ page'[d] = "home"
  BY DEF NewHome, TypeInv, TypeOK
<1>2. QED
  BY <1>1 DEF Calm, Settled, Waiting, Pending

(* An addition goes on, on its page. *)
LEMMA AddPageCalm ==
  ASSUME NEW d \in Device, Calm(d), page[d] = "add", page'[d] = "add", app'[d] = app[d],
         Settled(outbox'[d], local'[d], doc'),
         \A s, t \in Slot : asking'[d][s] # Idle /\ asking'[d][t] # Idle => s = t
  PROVE  Calm(d)'
BY DEF Calm, Settled, Waiting, Pending

(* No step of such a user takes the phone out of this. *)
LEMMA StepCalm ==
  ASSUME TypeInv, RowsInv, NEW d \in Device, Calm(d), DeviceNext(d),
         Events \cap {"dismiss", "hasty", "kill", "fault"} = {}
  PROVE  Calm(d)'
<1> USE DEF sdkVars, pageVars
<1>0. /\ Settled(outbox[d], local[d], doc) /\ local[d] \in SUBSET Account /\ app[d] # "crashed"
      /\ app[d] = "running" \/ page[d] = "none"
      /\ \A s, t \in Slot : asking[d][s] # Idle /\ asking[d][t] # Idle => s = t
      /\ (\E s \in Slot : asking[d][s] # Idle) => page[d] = "add"
      /\ page[d] \in {"home", "info"} => listed[d] = rows[d] /\ rows[d] \subseteq local[d]
      /\ Careful(d) => \A s \in Slot : asking[d][s] = Idle
      /\ Idle.waits = "nothing"
  BY DEF Calm, TypeInv, TypeOK, Careful, Waiting, Idle
<1>1. CASE OpenApp(d)
  <2>1. /\ NewHome(d) /\ app'[d] = "running" /\ app[d] # "running"
        /\ UNCHANGED <<doc, outbox, local, asking>>
    BY <1>1 DEF OpenApp, TypeInv, TypeOK
  <2>2. \A s \in Slot : asking'[d][s] = Idle
    BY <1>0, <2>1
  <2>3. QED
    BY <1>0, <2>1, <2>2, NewHomeCalm
<1>2. CASE HomeChanged(d)
  <2>1. local'[d] = local[d]
    <3>1. Overlay(doc, outbox[d], local[d]) = local[d]
      BY <1>0, OverlaySettled
    <3>2. QED
      BY <1>2, <3>1 DEF HomeChanged, TypeInv, TypeOK
  <2>2. /\ listed'[d] = local'[d] /\ rows'[d] = IF local'[d] = {} THEN rows[d] ELSE local'[d]
        /\ UNCHANGED <<doc, app, outbox, page, asking>>
    BY <1>2 DEF HomeChanged, TypeInv, TypeOK
  <2>3. page'[d] \in {"home", "info"} => listed'[d] = rows'[d] /\ rows'[d] \subseteq local'[d]
    BY <1>0, <2>1, <2>2
  <2>4. QED
    BY <1>0, <2>1, <2>2, <2>3, PageCalm
<1>3. ASSUME NEW x \in Account, TapRow(d, x)
      PROVE  Calm(d)'
  <2>1. /\ page[d] = "home" /\ UNCHANGED <<doc, app, outbox, local, listed, rows, asking>>
    BY <1>3 DEF TapRow, SameIndex
  <2>2. ~Waiting(d)
    BY <1>0, <2>1 DEF Waiting
  <2>3. QED
    BY <1>0, <2>1, <2>2, PageCalm
<1>4. ASSUME NEW x \in Account, DeleteRow(d, x)
      PROVE  Calm(d)'
  <2>1. PICK y \in Account :
          /\ SameIndex(d, x, y)
          /\ Send(d, [op |-> "remove", who |-> y], 1)
          /\ listed' = [listed EXCEPT ![d] = @ \ {y}]
    BY <1>4 DEF DeleteRow
  <2>2. /\ rows' = [rows EXCEPT ![d] = @ \ {x}] /\ page[d] = "home"
        /\ UNCHANGED <<doc, app, page, asking>>
    BY <1>4, <2>1 DEF DeleteRow, SameIndex
  <2>3. x = y
    BY <2>1, RowIsPatient
  <2>4. [op |-> "remove", who |-> y] \in Write
    BY DEF Write
  <2>5. Settled(outbox'[d], local'[d], doc')
    BY <1>0, <2>1, <2>2, <2>4, SendSettled
  <2>6. local'[d] = local[d] \ {y}
    BY <2>1 DEF Send, Applied, TypeInv, TypeOK
  <2>7. listed'[d] = listed[d] \ {y} /\ rows'[d] = rows[d] \ {y}
    BY <2>1, <2>2, <2>3 DEF TypeInv, TypeOK
  <2>8. listed'[d] = rows'[d] /\ rows'[d] \subseteq local'[d]
    BY <1>0, <2>2, <2>6, <2>7
  <2>9. QED
    BY <2>2, <2>5, <2>8, PageCalm
<1>5. ASSUME RowCrash(d) \/ (\E s \in Slot : QueryCrash(d, s)) \/ Dismiss(d) \/ Kill(d)
      PROVE  FALSE
  <2>1. RowCrash(d)
    BY <1>5 DEF QueryCrash, Dismiss, Kill
  <2>2. listed[d] = rows[d] /\ rows[d] \in SUBSET Account
    BY <1>0, <2>1 DEF RowCrash, TypeInv, TypeOK
  <2>3. Cardinality(rows[d]) \in Nat
    BY <2>2, AccountKeys, FS_Subset, FS_CardinalityType
  <2>4. QED
    BY <2>1, <2>2, <2>3 DEF RowCrash
<1>6. CASE InfoBack(d) \/ OpenAddPage(d)
  <2>1. /\ page[d] \in {"home", "info"} /\ UNCHANGED <<doc, app, outbox, local, listed, rows, asking>>
    BY <1>6 DEF InfoBack, OpenAddPage
  <2>2. ~Waiting(d)
    BY <1>0, <2>1 DEF Waiting
  <2>3. QED
    BY <1>0, <2>1, <2>2, PageCalm
<1>7. CASE RemovePatient(d)
  <2>1. /\ page[d] = "info" /\ Send(d, [op |-> "remove", who |-> opened[d]], 1) /\ NewHome(d)
        /\ UNCHANGED <<doc, app, asking>>
    BY <1>7 DEF RemovePatient
  <2>2. [op |-> "remove", who |-> opened[d]] \in Write
    BY <2>1 DEF Write, TypeInv
  <2>3. Settled(outbox'[d], local'[d], doc')
    BY <1>0, <2>1, <2>2, SendSettled
  <2>4. app'[d] = "running" /\ \A s \in Slot : asking'[d][s] = Idle
    BY <1>0, <2>1
  <2>5. QED
    BY <2>1, <2>3, <2>4, NewHomeCalm
<1>8. ASSUME NEW s \in Slot, NEW x \in Account \cup {NoAccount}, DoneTapped(d, s, x)
      PROVE  Calm(d)'
  <2>1. /\ page[d] = "add" /\ UNCHANGED <<doc, app, outbox, local, page>>
        /\ \A t \in Slot : asking[d][t] = Idle
        /\ \A t \in Slot \ {s} : asking'[d][t] = asking[d][t]
    BY <1>0, <1>8 DEF DoneTapped, TypeInv, TypeOK
  <2>2. QED
    BY <1>0, <2>1, AddPageCalm
<1>9. ASSUME NEW s \in Slot, QueryAnswered(d, s)
      PROVE  Calm(d)'
  <2>1. /\ asking[d][s] # Idle /\ UNCHANGED <<doc, app, outbox, local, page>>
        /\ \A t \in Slot \ {s} : asking'[d][t] = asking[d][t]
    BY <1>0, <1>9 DEF QueryAnswered, TypeInv, TypeOK
  <2>2. page[d] = "add" /\ \A t \in Slot \ {s} : asking'[d][t] = Idle
    BY <1>0, <2>1
  <2>3. QED
    BY <1>0, <2>1, <2>2, AddPageCalm
<1>10. ASSUME NEW s \in Slot, ReadAnswered(d, s)
       PROVE  Calm(d)'
  <2> DEFINE x == asking[d][s].who
             n == Writes(local[d], x)
  <2>1. asking[d][s].waits = "read" /\ asking[d][s] # Idle /\ UNCHANGED <<doc, app>>
    BY <1>0, <1>10 DEF ReadAnswered
  <2>2. page[d] = "add" /\ app[d] = "running" /\ \A t \in Slot \ {s} : asking[d][t] = Idle
    BY <1>0, <2>1
  <2>3. x \in Account
    <3>1. asking[d][s] \in Request
      BY DEF TypeInv, TypeOK
    <3>2. QED
      BY <2>1, <3>1 DEF Request, Account
  <2>4. n \in Nat
    BY <1>0, WritesType
  <2>5. [op |-> "add", who |-> x] \in Write
    BY <2>3 DEF Write
  <2>6. CASE UNCHANGED <<sdkVars, page>> /\ asking' = [asking EXCEPT ![d][s] = Idle]
    <3>1. \A t \in Slot : asking'[d][t] = Idle
      BY <2>2, <2>6 DEF TypeInv, TypeOK
    <3>2. QED
      BY <1>0, <2>1, <2>2, <2>6, <3>1, AddPageCalm
  <2>7. CASE /\ n > 0 /\ Send(d, [op |-> "add", who |-> x], n)
             /\ UNCHANGED page /\ asking' = [asking EXCEPT ![d][s] = Idle]
    <3>1. \A t \in Slot : asking'[d][t] = Idle
      BY <2>2, <2>7 DEF TypeInv, TypeOK
    <3>2. Settled(outbox'[d], local'[d], doc')
      BY <1>0, <2>1, <2>4, <2>5, <2>7, SendSettled
    <3>3. QED
      BY <2>1, <2>2, <2>7, <3>1, <3>2, AddPageCalm
  <2>8. CASE /\ n > 0 /\ NewHome(d) /\ asking' = [Abandoned(d) EXCEPT ![d][s] = Idle]
             /\ Send(d, [op |-> "add", who |-> x], n)
    <3>1. \A t \in Slot \ {s} : Abandoned(d)[d][t] = Idle
      BY <2>2 DEF Abandoned, TypeInv, TypeOK
    <3>2. \A t \in Slot : asking'[d][t] = Idle
      BY <2>8, <3>1, AbandonedType DEF TypeInv
    <3>3. Settled(outbox'[d], local'[d], doc')
      BY <1>0, <2>1, <2>4, <2>5, <2>8, SendSettled
    <3>4. QED
      BY <2>1, <2>2, <2>8, <3>2, <3>3, NewHomeCalm
  <2>9. QED
    BY <1>10, <2>6, <2>7, <2>8 DEF ReadAnswered, Send
<1>11. CASE Cancel(d)
  <2>1. /\ page[d] = "add" /\ Careful(d) /\ NewHome(d) /\ asking' = Abandoned(d)
        /\ UNCHANGED <<doc, app, outbox, local>>
    BY <1>11 DEF Cancel
  <2>2. \A s \in Slot : asking'[d][s] = Idle
    BY <1>0, <2>1 DEF Abandoned, TypeInv, TypeOK
  <2>3. QED
    BY <1>0, <2>1, <2>2, NewHomeCalm
<1>12. CASE Flush(d)
  <2>1. /\ outbox[d] # << >> /\ doc' = Applied(doc, Head(outbox[d])) /\ outbox'[d] = Tail(outbox[d])
        /\ local'[d] = Overlay(doc', Tail(outbox[d]), local[d])
        /\ UNCHANGED <<app, page, listed, rows, asking>>
    BY <1>12 DEF Flush, TypeInv, TypeOK
  <2>2. Settled(Tail(outbox[d]), local[d], doc')
    BY <1>0, <2>1, FlushSettled
  <2>3. local'[d] = local[d]
    BY <1>0, <2>1, <2>2, OverlaySettled
  <2>4. QED
    BY <1>0, <2>1, <2>2, <2>3, PageCalm
<1>13. CASE AnswerLost(d)
  <2>1. PICK i \in DOMAIN outbox[d] : doc' = Applied(doc, outbox[d][i])
    BY <1>13 DEF AnswerLost
  <2>2. UNCHANGED <<app, outbox, local, page, listed, rows, asking>>
    BY <1>13 DEF AnswerLost
  <2>3. Settled(outbox'[d], local'[d], doc')
    BY <1>0, <2>1, <2>2, LostSettled
  <2>4. QED
    BY <1>0, <2>2, <2>3, PageCalm
<1>14. QED
  BY <1>1, <1>2, <1>3, <1>4, <1>5, <1>6, <1>7, <1>8, <1>9, <1>10, <1>11, <1>12, <1>13 DEF DeviceNext

LEMMA InitCalm ==
  ASSUME Init, NEW d \in Device
  PROVE  Calm(d)
BY DEF Init, Calm, Settled, Pending, Waiting

(* On a single phone whose user waits for each addition to be answered and *)
(* whose app is not ended, with queries that do not fail, no index and no  *)
(* forced unwrap fails: whatever is added and deleted, and however often a *)
(* write is sent, the table shows the array while the home page is open.   *)
THEOREM CarefulNeverCrashes ==
  ASSUME \A d, e \in Device : d = e,
         Events \cap {"dismiss", "hasty", "kill", "fault"} = {}
  PROVE  Spec => []NeverCrashes
<1> DEFINE CalmInv == \A d \in Device : Calm(d)
<1>1. Init => CalmInv
  BY InitCalm
<1>2. TypeInv /\ RowsInv /\ CalmInv /\ [Next]_vars => CalmInv'
  <2>1. CASE UNCHANGED vars
    BY <2>1 DEF vars, sdkVars, pageVars, Calm, Settled, Waiting, Pending
  <2>2. ASSUME TypeInv, RowsInv, CalmInv, NEW d \in Device, DeviceNext(d)
        PROVE  CalmInv'
    BY <2>2, StepCalm
  <2>3. QED
    BY <2>1, <2>2 DEF Next
<1>3. CalmInv => NeverCrashes
  BY DEF Calm, NeverCrashes
<1> HIDE DEF CalmInv
<1>4. QED
  BY <1>1, <1>2, <1>3, InitType, StepType, InitRows, StepRows, PTL DEF Spec
---------------------------------------------------------------------------
(* A phone shows its own writes: its copy of an entry is what the last of  *)
(* its unsent writes to it makes of it.                                    *)
OwnShown(queue, own) ==
  \A i \in DOMAIN queue :
    (\A j \in DOMAIN queue : i < j => queue[j].who # queue[i].who)
      => (queue[i].op = "add" <=> queue[i].who \in own)

OwnWritesShown == \A d \in Device : OwnShown(outbox[d], local[d])

LEMMA OverlayShown ==
  ASSUME NEW queue \in Seq(Write), NEW own, NEW base, OwnShown(queue, own)
  PROVE  OwnShown(queue, Overlay(base, queue, own))
<1>1. ASSUME NEW i \in DOMAIN queue
      PROVE  queue[i].who \in Account /\ Pending(queue, queue[i].who)
  <2>1. queue[i] \in Write
    OBVIOUS
  <2>2. QED
    BY <2>1 DEF Write, Pending
<1>2. \A i \in DOMAIN queue : queue[i].who \in Overlay(base, queue, own) <=> queue[i].who \in own
  BY <1>1 DEF Overlay
<1>3. QED
  BY <1>2 DEF OwnShown

LEMMA TailShown ==
  ASSUME NEW queue \in Seq(Write), queue # << >>, NEW own, OwnShown(queue, own)
  PROVE  OwnShown(Tail(queue), own)
<1> DEFINE rest == Tail(queue)
<1>1. /\ \A i \in DOMAIN rest : i \in Nat /\ i + 1 \in DOMAIN queue /\ rest[i] = queue[i + 1]
      /\ \A j \in DOMAIN queue : j \in Nat /\ (1 < j => j - 1 \in DOMAIN rest /\ rest[j - 1] = queue[j])
  OBVIOUS
<1> HIDE DEF rest
<1>2. ASSUME NEW i \in DOMAIN rest, \A j \in DOMAIN rest : i < j => rest[j].who # rest[i].who
      PROVE  rest[i].op = "add" <=> rest[i].who \in own
  <2>1. \A j \in DOMAIN queue : i + 1 < j => queue[j].who # queue[i + 1].who
    <3> SUFFICES ASSUME NEW j \in DOMAIN queue, i + 1 < j
                 PROVE  queue[j].who # queue[i + 1].who
      OBVIOUS
    <3>1. j - 1 \in DOMAIN rest /\ i < j - 1 /\ rest[j - 1] = queue[j]
      BY <1>1
    <3>2. QED
      BY <1>1, <1>2, <3>1
  <2>2. QED
    BY <1>1, <2>1 DEF OwnShown
<1>3. QED
  BY <1>2 DEF OwnShown, rest

LEMMA SendShown ==
  ASSUME TypeInv, NEW d \in Device, NEW w \in Write, NEW n \in Nat \ {0}, Send(d, w, n),
         OwnShown(outbox[d], local[d])
  PROVE  OwnShown(outbox'[d], local'[d])
<1> DEFINE m == [i \in 1 .. n |-> w]
           q == outbox[d]
           r == outbox'[d]
<1>1. m \in Seq(Write) /\ Len(m) = n /\ q \in Seq(Write) /\ Len(q) \in Nat /\ DOMAIN q = 1 .. Len(q)
  BY DEF TypeInv, TypeOK
<1>2. r = q \o m /\ local'[d] = Applied(local[d], w)
  BY DEF Send, TypeInv, TypeOK
<1> HIDE DEF q, r
<1>3. /\ DOMAIN r = 1 .. Len(q) + n
      /\ \A i \in 1 .. Len(q) : r[i] = q[i]
      /\ \A i \in 1 .. Len(q) + n : i > Len(q) => r[i] = w
  BY <1>1, <1>2
<1>4. Len(q) + n \in DOMAIN r /\ r[Len(q) + n] = w
  BY <1>1, <1>3
<1>5. SUFFICES ASSUME NEW i \in DOMAIN r, \A j \in DOMAIN r : i < j => r[j].who # r[i].who
               PROVE  r[i].op = "add" <=> r[i].who \in local'[d]
  BY DEF OwnShown, r
<1>6. CASE r[i].who = w.who
  <2>1. ~(i < Len(q) + n)
    BY <1>4, <1>5, <1>6
  <2>2. i = Len(q) + n
    BY <1>1, <1>3, <2>1
  <2>3. QED
    BY <1>2, <1>4, <2>2 DEF Applied
<1>7. CASE r[i].who # w.who
  <2>1. i \in DOMAIN q /\ r[i] = q[i]
    BY <1>1, <1>3, <1>7
  <2>2. \A j \in DOMAIN q : i < j => q[j].who # q[i].who
    BY <1>1, <1>3, <1>5, <2>1
  <2>3. q[i].op = "add" <=> q[i].who \in local[d]
    BY <2>1, <2>2 DEF OwnShown, q
  <2>4. QED
    BY <1>2, <1>7, <2>1, <2>3 DEF Applied
<1>8. QED
  BY <1>6, <1>7

LEMMA ShownElsewhere ==
  ASSUME OwnWritesShown, NEW d \in Device, OwnShown(outbox'[d], local'[d]),
         \A o \in Device \ {d} : outbox'[o] = outbox[o] /\ local'[o] = local[o]
  PROVE  OwnWritesShown'
BY DEF OwnWritesShown

LEMMA StepShown == TypeInv /\ OwnWritesShown /\ [Next]_vars => OwnWritesShown'
<1> SUFFICES ASSUME TypeInv, OwnWritesShown, [Next]_vars
             PROVE  OwnWritesShown'
  OBVIOUS
<1> USE DEF sdkVars, pageVars
<1>1. CASE UNCHANGED <<outbox, local>>
  BY <1>1 DEF OwnWritesShown
<1>2. ASSUME NEW d \in Device, DeviceNext(d)
      PROVE  OwnWritesShown'
  <2>0. OwnShown(outbox[d], local[d]) /\ outbox[d] \in Seq(Write)
    BY DEF OwnWritesShown, TypeInv, TypeOK
  <2>a. ASSUME NEW w \in Write, NEW n \in Nat \ {0}, Send(d, w, n)
        PROVE  OwnWritesShown'
    <3>1. \A o \in Device \ {d} : outbox'[o] = outbox[o] /\ local'[o] = local[o]
      BY <2>a DEF Send, TypeInv, TypeOK
    <3>2. QED
      BY <2>0, <2>a, <3>1, SendShown, ShownElsewhere
  <2>1. CASE HomeChanged(d)
    <3>1. /\ outbox' = outbox
          /\ local'[d] = Overlay(doc, outbox[d], local[d]) \/ local'[d] = local[d]
          /\ \A o \in Device \ {d} : outbox'[o] = outbox[o] /\ local'[o] = local[o]
      BY <2>1 DEF HomeChanged, TypeInv, TypeOK
    <3>2. OwnShown(outbox'[d], local'[d])
      BY <2>0, <3>1, OverlayShown
    <3>3. QED
      BY <3>1, <3>2, ShownElsewhere
  <2>2. CASE \E x \in Account : DeleteRow(d, x)
    <3>1. PICK y \in Account : Send(d, [op |-> "remove", who |-> y], 1)
      BY <2>2 DEF DeleteRow
    <3>2. [op |-> "remove", who |-> y] \in Write
      BY DEF Write
    <3>3. QED
      BY <2>a, <3>1, <3>2
  <2>3. CASE RemovePatient(d)
    <3>1. Send(d, [op |-> "remove", who |-> opened[d]], 1) /\ opened[d] \in Account
      BY <2>3 DEF RemovePatient, TypeInv
    <3>2. [op |-> "remove", who |-> opened[d]] \in Write
      BY <3>1 DEF Write
    <3>3. QED
      BY <2>a, <3>1, <3>2
  <2>4. CASE \E s \in Slot : ReadAnswered(d, s)
    <3>1. PICK s \in Slot : ReadAnswered(d, s)
      BY <2>4
    <3> DEFINE x == asking[d][s].who
               w == [op |-> "add", who |-> x]
               n == Writes(local[d], x)
    <3>2. asking[d][s] \in Request /\ asking[d][s].waits = "read"
      BY <3>1 DEF ReadAnswered, TypeInv, TypeOK
    <3>3. x \in Account
      BY <3>2 DEF Request, Account
    <3>4. w \in Write /\ n \in Nat
      BY <3>3, WritesType DEF Write, TypeInv, TypeOK
    <3>5. UNCHANGED <<outbox, local>> \/ (n > 0 /\ Send(d, w, n))
      BY <3>1 DEF ReadAnswered
    <3> HIDE DEF x, w, n
    <3>6. QED
      BY <1>1, <2>a, <3>4, <3>5
  <2>5. CASE \E how : Stop(d, how)
    <3>1. /\ outbox'[d] = << >>
          /\ \A o \in Device \ {d} : outbox'[o] = outbox[o] /\ local'[o] = local[o]
      BY <2>5 DEF Stop, TypeInv, TypeOK
    <3>2. OwnShown(outbox'[d], local'[d])
      BY <3>1 DEF OwnShown
    <3>3. QED
      BY <3>1, <3>2, ShownElsewhere
  <2>6. CASE Flush(d)
    <3>1. /\ outbox[d] # << >> /\ outbox'[d] = Tail(outbox[d])
          /\ local'[d] = Overlay(doc', Tail(outbox[d]), local[d])
          /\ \A o \in Device \ {d} : outbox'[o] = outbox[o] /\ local'[o] = local[o]
      BY <2>6 DEF Flush, TypeInv, TypeOK
    <3>2. Tail(outbox[d]) \in Seq(Write)
      BY <2>0, <3>1
    <3>3. QED
      BY <2>0, <3>1, <3>2, TailShown, OverlayShown, ShownElsewhere
  <2>7. QED
    BY <1>1, <1>2, <2>1, <2>2, <2>3, <2>4, <2>5, <2>6
    DEF DeviceNext, OpenApp, TapRow, RowCrash, InfoBack, OpenAddPage, DoneTapped, QueryAnswered,
        QueryCrash, Cancel, Dismiss, Kill, AnswerLost
<1>3. QED
  BY <1>1, <1>2 DEF Next, vars

(* Whatever the server and the other phones do, and through writes sent    *)
(* again and additions that write an entry several times over: a phone's   *)
(* copy of an entry is as its last unsent write to it leaves it.           *)
THEOREM PhonesShowOwnWrites == Spec => []OwnWritesShown
<1>1. Init => OwnWritesShown
  BY DEF Init, OwnWritesShown, OwnShown
<1>2. QED
  BY <1>1, StepShown, InitType, StepType, PTL DEF Spec

---------------------------------------------------------------------------
(* A table shows the phone's copy, or else an event of the observer is on  *)
(* its way.  The exception is the empty list, which reloads no table.      *)
TablesCurrent ==
  \A d \in Device : synced[d] /\ ~due[d] => rows[d] = local[d] \/ local[d] = {}

LEMMA CurrentElsewhere ==
  ASSUME TablesCurrent, NEW d \in Device,
         synced'[d] /\ ~due'[d] => rows'[d] = local'[d] \/ local'[d] = {},
         \A o \in Device \ {d} : /\ synced'[o] = synced[o] /\ due'[o] = due[o]
                                 /\ rows'[o] = rows[o] /\ local'[o] = local[o]
  PROVE  TablesCurrent'
BY DEF TablesCurrent

LEMMA StepCurrent == TypeInv /\ TablesCurrent /\ [Next]_vars => TablesCurrent'
<1> SUFFICES ASSUME TypeInv, TablesCurrent, [Next]_vars
             PROVE  TablesCurrent'
  OBVIOUS
<1> USE DEF sdkVars, pageVars
<1>1. CASE UNCHANGED <<local, synced, due, rows>>
  BY <1>1 DEF TablesCurrent
<1>2. ASSUME NEW d \in Device, DeviceNext(d)
      PROVE  TablesCurrent'
  <2>a. ASSUME due'[d] \/ ~synced'[d],
               \A o \in Device \ {d} : /\ synced'[o] = synced[o] /\ due'[o] = due[o]
                                       /\ rows'[o] = rows[o] /\ local'[o] = local[o]
        PROVE  TablesCurrent'
    BY <2>a, CurrentElsewhere
  <2>1. CASE HomeChanged(d)
    <3>1. /\ rows'[d] = IF local'[d] = {} THEN rows[d] ELSE local'[d]
          /\ \A o \in Device \ {d} : /\ synced'[o] = synced[o] /\ due'[o] = due[o]
                                     /\ rows'[o] = rows[o] /\ local'[o] = local[o]
      BY <2>1 DEF HomeChanged, TypeInv, TypeOK
    <3>2. QED
      BY <3>1, CurrentElsewhere
  <2>2. CASE OpenApp(d) \/ Cancel(d)
    BY <2>a, <2>2 DEF OpenApp, Cancel, NewHome, TypeInv, TypeOK
  <2>3. CASE RemovePatient(d) \/ \E x \in Account : DeleteRow(d, x)
    BY <2>a, <2>3 DEF RemovePatient, DeleteRow, Send, NewHome, TypeInv, TypeOK
  <2>4. CASE \E s \in Slot : ReadAnswered(d, s)
    BY <1>1, <2>a, <2>4 DEF ReadAnswered, Send, NewHome, TypeInv, TypeOK
  <2>5. CASE \E how : Stop(d, how)
    BY <2>a, <2>5 DEF Stop, TypeInv, TypeOK
  <2>6. CASE Flush(d)
    <3>1. /\ ~due'[d] => ~due[d] /\ local'[d] = local[d]
          /\ UNCHANGED <<synced, rows>>
          /\ \A o \in Device \ {d} : due'[o] = due[o] /\ local'[o] = local[o]
      BY <2>6 DEF Flush, TypeInv, TypeOK
    <3>2. QED
      BY <3>1, CurrentElsewhere DEF TablesCurrent
  <2>7. QED
    BY <1>1, <1>2, <2>1, <2>2, <2>3, <2>4, <2>5, <2>6
    DEF DeviceNext, TapRow, RowCrash, InfoBack, OpenAddPage, DoneTapped, QueryAnswered,
        QueryCrash, Dismiss, Kill, AnswerLost
<1>3. QED
  BY <1>1, <1>2 DEF Next, vars

(* The guard of HomeChanged: the observer has something to tell. *)
News(d) == ~synced[d] \/ due[d] \/ Overlay(doc, outbox[d], local[d]) # local[d]

(* A phone with nothing to send and nothing to hear shows the list.        *)
RestingTables ==
  \A d \in Device : outbox[d] = << >> /\ ~News(d) => rows[d] = doc \/ doc = {}

(* No event of the observer is ever lost: on any number of phones, with    *)
(* any number of home pages behind each other, through deletions, swiped   *)
(* pages and restarts, a phone at rest shows the server's list.  The empty *)
(* list is the exception, and the only one: its event reloads no table.    *)
THEOREM RestingTablesShowList == Spec => []RestingTables
<1>1. Init => TablesCurrent
  BY DEF Init, TablesCurrent
<1>2. TypeInv /\ TablesCurrent => RestingTables
  <2> SUFFICES ASSUME TypeInv, TablesCurrent, NEW d \in Device, outbox[d] = << >>, ~News(d)
               PROVE  rows[d] = doc \/ doc = {}
    BY DEF RestingTables
  <2>1. Overlay(doc, outbox[d], local[d]) = doc
    BY DEF Overlay, Pending, TypeInv, TypeOK
  <2>2. QED
    BY <2>1 DEF News, TablesCurrent
<1>3. QED
  BY <1>1, <1>2, StepCurrent, InitType, StepType, PTL DEF Spec

---------------------------------------------------------------------------
(* The loop over the list writes nothing only if the entry is there. *)
LEMMA WritesNothing ==
  ASSUME NEW list \in SUBSET Account, NEW x, Writes(list, x) = 0
  PROVE  x \in list
<1> DEFINE before == {z \in list : x \in list => z < x}
<1>1. before \in SUBSET Account
  OBVIOUS
<1>2. IsFiniteSet(before)
  BY <1>1, FS_Subset, AccountKeys
<1>3. list # {} /\ Cardinality(before) = 0
  BY DEF Writes
<1>4. before = {}
  BY <1>2, <1>3, FS_EmptySet
<1>5. QED
  BY <1>3, <1>4

(* An answered addition has put its patient on the phone's list.           *)
AnswersAdd ==
  [][\A d \in Device : \A s \in Slot :
       ReadAnswered(d, s) => asking[d][s].who \in local'[d]]_vars

(* Whatever the list was when the read of it was answered, on whatever     *)
(* page: the loop has written the entry, or it was there already.          *)
THEOREM AdditionsNeverDropped == Spec => AnswersAdd
<1>1. ASSUME TypeInv, NEW d \in Device, NEW s \in Slot, ReadAnswered(d, s)
      PROVE  asking[d][s].who \in local'[d]
  <2> DEFINE x == asking[d][s].who
  <2>1. local[d] \in SUBSET Account
    BY <1>1 DEF TypeInv, TypeOK
  <2>2. \/ Writes(local[d], x) = 0 /\ UNCHANGED sdkVars
        \/ Send(d, [op |-> "add", who |-> x], Writes(local[d], x))
    BY <1>1 DEF ReadAnswered
  <2>3. CASE Writes(local[d], x) = 0 /\ UNCHANGED sdkVars
    BY <2>1, <2>3, WritesNothing DEF sdkVars
  <2>4. CASE Send(d, [op |-> "add", who |-> x], Writes(local[d], x))
    BY <1>1, <2>4 DEF Send, Applied, TypeInv, TypeOK
  <2>5. QED
    BY <2>2, <2>3, <2>4
<1>2. TypeInv /\ [Next]_vars =>
        [\A d \in Device : \A s \in Slot :
           ReadAnswered(d, s) => asking[d][s].who \in local'[d]]_vars
  BY <1>1
<1>3. QED
  BY <1>2, InitType, StepType, PTL DEF Spec, AnswersAdd

---------------------------------------------------------------------------
(* The phones implement SharedList.  A phone's view is its copy as it will *)
(* be once it has heard the news: own unsent writes, else the server's.    *)
View(d) == Overlay(doc, outbox[d], local[d])

LEMMA ViewsAt ==
  ASSUME NEW d \in Device
  PROVE  /\ Views[d] = View(d) /\ Views'[d] = View(d)'
         /\ \A x : x \in Unsaved[d] <=> Pending(outbox[d], x)
         /\ \A x : x \in Unsaved'[d] <=> Pending(outbox'[d], x)
BY DEF Views, Unsaved, View, Pending

LEMMA SameViews ==
  ASSUME TypeInv, UNCHANGED <<doc, outbox>>, NEW d \in Device,
         \A o \in Device \ {d} : local'[o] = local[o],
         local'[d] = local[d] \/ local'[d] = View(d)
  PROVE  UNCHANGED <<doc, Views, Unsaved>>
<1>1. ASSUME NEW o \in Device
      PROVE  View(o)' = View(o)
  BY DEF View, Overlay
<1>2. UNCHANGED Views
  BY <1>1 DEF Views, View
<1>3. UNCHANGED Unsaved
  BY DEF Unsaved
<1>4. QED
  BY <1>2, <1>3

LEMMA OneUnsaved ==
  ASSUME NEW d \in Device, \A o \in Device \ {d} : outbox'[o] = outbox[o],
         NEW V, Unsaved'[d] = V
  PROVE  Unsaved' = [Unsaved EXCEPT ![d] = V]
<1>1. \A o \in Device \ {d} : Unsaved'[o] = Unsaved[o]
  BY DEF Unsaved
<1>2. /\ Unsaved = [o \in Device |-> Unsaved[o]]
      /\ Unsaved' = [o \in Device |-> Unsaved'[o]]
  BY DEF Unsaved
<1>3. QED
  BY <1>1, <1>2

(* An entry written on the phone shows at once. *)
LEMMA SendShared ==
  ASSUME TypeInv, UNCHANGED <<doc, asked>>, NEW d \in Device, NEW w \in Write,
         NEW n \in Nat \ {0}, Send(d, w, n), w.op = "add" => w.who \in asked
  PROVE  Shared!Next
<1> DEFINE m == [i \in 1 .. n |-> w]
           there == w.op = "add"
<1>0. w.who \in Account
  BY DEF Write
<1>1. m \in Seq(Write) /\ Len(m) = n /\ outbox[d] \in Seq(Write)
  BY DEF TypeInv, TypeOK
<1>2. /\ outbox'[d] = outbox[d] \o m /\ local'[d] = Applied(local[d], w)
      /\ \A o \in Device \ {d} : outbox'[o] = outbox[o] /\ local'[o] = local[o]
  BY DEF Send, TypeInv, TypeOK
<1>3. \A x : Pending(outbox'[d], x) <=> Pending(outbox[d], x) \/ x = w.who
  <2>1. /\ DOMAIN outbox[d] = 1 .. Len(outbox[d]) /\ Len(outbox[d]) \in Nat
        /\ DOMAIN outbox'[d] = 1 .. Len(outbox[d]) + n
        /\ \A i \in 1 .. Len(outbox[d]) : outbox'[d][i] = outbox[d][i]
        /\ \A i \in 1 .. Len(outbox[d]) + n : i > Len(outbox[d]) => outbox'[d][i] = w
    BY <1>1, <1>2
  <2>2. Len(outbox[d]) + n \in DOMAIN outbox'[d] /\ outbox'[d][Len(outbox[d]) + n] = w
    <3>1. /\ Len(outbox[d]) + n \in 1 .. Len(outbox[d]) + n
          /\ Len(outbox[d]) + n > Len(outbox[d])
      BY <2>1
    <3> HIDE DEF m, there
    <3>2. QED
      BY <2>1, <3>1
  <2>3. \A i \in DOMAIN outbox[d] : i \in DOMAIN outbox'[d] /\ outbox'[d][i] = outbox[d][i]
    BY <2>1
  <2>4. \A i \in DOMAIN outbox'[d] : i \in DOMAIN outbox[d] \/ outbox'[d][i] = w
    BY <2>1
  <2> HIDE DEF m
  <2>5. QED
    BY <2>2, <2>3, <2>4 DEF Pending
<1>4. View(d)' = Shared!Put(View(d), w.who, there)
  BY <1>0, <1>2, <1>3 DEF View, Overlay, Applied, Shared!Put
<1>5. \A o \in Device \ {d} : View(o)' = View(o)
  BY <1>2 DEF View
<1>6. Views' = [Views EXCEPT ![d] = Shared!Put(@, w.who, there)]
  BY <1>4, <1>5 DEF Views, View
<1>7. Unsaved'[d] = Unsaved[d] \cup {w.who}
  BY <1>3, ViewsAt
<1>8. Unsaved' = [Unsaved EXCEPT ![d] = @ \cup {w.who}]
  BY <1>2, <1>7, OneUnsaved
<1>9. there => w.who \in asked
  OBVIOUS
<1> HIDE DEF there
<1>10. Shared!Change(d, w.who)
  <2>1. CASE there
    BY <1>6, <1>8, <1>9, <2>1 DEF Shared!Change, Shared!Put
  <2>2. CASE ~there
    BY <1>6, <1>8, <2>2 DEF Shared!Change, Shared!Put
  <2>3. QED
    BY <2>1, <2>2
<1>11. QED
  BY <1>0, <1>10 DEF Shared!Next

(* A write of phone d taken by the server: every phone shows it, unless it *)
(* has a write of its own to that entry.                                   *)
LEMMA TakenElsewhere ==
  ASSUME TypeInv, NEW o \in Device, NEW w \in Write, doc' = Applied(doc, w),
         outbox'[o] = outbox[o], local'[o] = local[o]
  PROVE  View(o)' = IF w.who \in Unsaved[o] THEN View(o)
                                            ELSE Shared!Put(View(o), w.who, w.op = "add")
<1>1. \A x : x \in Unsaved[o] <=> Pending(outbox[o], x)
  BY ViewsAt
<1>2. w.who \in Account
  BY DEF Write
<1>3. QED
  BY <1>1, <1>2 DEF View, Overlay, Applied, Shared!Put

LEMMA FlushShared ==
  ASSUME TypeInv, InvitedInv, OwnWritesShown, NEW d \in Device, Flush(d)
  PROVE  Shared!Next
<1> DEFINE q == outbox[d]
           r == Tail(q)
           w == Head(q)
           x == w.who
           there == w.op = "add"
<1>1. /\ q \in Seq(Write) /\ q # << >> /\ w = q[1] /\ 1 \in DOMAIN q /\ w \in Write
      /\ \A i \in DOMAIN r : i + 1 \in DOMAIN q /\ r[i] = q[i + 1]
      /\ \A j \in DOMAIN q : 1 < j => j - 1 \in DOMAIN r /\ r[j - 1] = q[j]
      /\ \A j \in DOMAIN q : j = 1 \/ 1 < j
  BY DEF Flush, TypeInv, TypeOK
<1>2. /\ doc' = Applied(doc, w) /\ outbox'[d] = r /\ local'[d] = Overlay(doc', r, local[d])
      /\ \A o \in Device \ {d} : outbox'[o] = outbox[o] /\ local'[o] = local[o]
      /\ asked' = asked
  BY DEF Flush, TypeInv, TypeOK
<1>3. x \in Account /\ (there => x \in asked)
  BY <1>1 DEF Write, InvitedInv, InvitedQueue
<1>4. OwnShown(q, local[d])
  BY DEF OwnWritesShown
<1> HIDE DEF q, r, w
<1>5. \A y : Pending(q, y) <=> Pending(r, y) \/ y = x
  BY <1>1 DEF Pending
<1>6. ~Pending(r, x) => (there <=> x \in local[d])
  <2>1. SUFFICES ASSUME ~Pending(r, x)
                 PROVE  there <=> x \in local[d]
    OBVIOUS
  <2>2. \A j \in DOMAIN q : 1 < j => q[j].who # q[1].who
    BY <1>1, <2>1 DEF Pending
  <2>3. QED
    BY <1>1, <1>4, <2>2 DEF OwnShown
<1>7. View(d) = Overlay(doc, q, local[d]) /\ View(d)' = Overlay(doc', r, Overlay(doc', r, local[d]))
  BY <1>2 DEF View, q
<1>8. ASSUME NEW y \in Account
      PROVE  y \in View(d)' <=> y \in View(d)
  <2>1. y \in View(d)' <=> IF Pending(r, y) THEN y \in local[d] ELSE y \in doc'
    BY <1>7 DEF Overlay
  <2>2. y \in View(d) <=> IF Pending(q, y) THEN y \in local[d] ELSE y \in doc
    BY <1>7 DEF Overlay
  <2>3. CASE y # x
    <3>1. y \in doc' <=> y \in doc
      BY <1>2, <2>3 DEF Applied
    <3>2. QED
      BY <1>5, <2>1, <2>2, <2>3, <3>1
  <2>4. CASE y = x
    <3>1. y \in doc' <=> there
      BY <1>2, <2>4 DEF Applied
    <3>2. QED
      BY <1>5, <1>6, <2>1, <2>2, <2>4, <3>1
  <2>5. QED
    BY <2>3, <2>4
<1>9. View(d)' = View(d)
  <2>1. View(d)' \subseteq Account /\ View(d) \subseteq Account
    BY DEF View, Overlay
  <2>2. QED
    BY <1>8, <2>1
<1>10. x \in Unsaved[d]
  BY <1>5, ViewsAt DEF q
<1>11. doc' = Shared!Put(doc, x, there)
  BY <1>2 DEF Applied, Shared!Put
<1>12. ASSUME NEW o \in Device
       PROVE  View(o)' = IF x \in Unsaved[o] THEN View(o) ELSE Shared!Put(View(o), x, there)
  BY <1>1, <1>2, <1>9, <1>10, TakenElsewhere
<1>13. Views' = [o \in Device |-> IF x \in Unsaved[o] THEN Views[o]
                                                      ELSE Shared!Put(Views[o], x, there)]
  BY <1>12 DEF Views, View
<1>14. CASE Pending(r, x)
  <2>1. Unsaved'[d] = Unsaved[d]
    BY <1>2, <1>5, <1>14, ViewsAt DEF q
  <2>2. UNCHANGED Unsaved
    BY <1>2, <2>1 DEF Unsaved
  <2>3. Shared!Save(d, x, there)
    BY <1>2, <1>3, <1>10, <1>11, <1>13, <2>2 DEF Shared!Save
  <2>4. there \in BOOLEAN
    BY DEF w
  <2>5. QED
    BY <1>3, <2>3, <2>4 DEF Shared!Next
<1>15. CASE ~Pending(r, x)
  <2>1. Unsaved'[d] = Unsaved[d] \ {x}
    BY <1>2, <1>5, <1>15, ViewsAt DEF q
  <2>2. Unsaved' = [Unsaved EXCEPT ![d] = @ \ {x}]
    BY <1>2, <2>1, OneUnsaved
  <2>3. x \in View(d) <=> there
    BY <1>3, <1>5, <1>6, <1>7, <1>15 DEF Overlay
  <2>4. x \in Views[d] <=> there
    BY <2>3, ViewsAt
  <2>5. Shared!Save(d, x, there)
    BY <1>2, <1>3, <1>10, <1>11, <1>13, <2>2, <2>4 DEF Shared!Save
  <2>6. there \in BOOLEAN
    BY DEF w
  <2>7. QED
    BY <1>3, <2>5, <2>6 DEF Shared!Next
<1>16. QED
  BY <1>14, <1>15

LEMMA AnswerLostShared ==
  ASSUME TypeInv, InvitedInv, NEW d \in Device, AnswerLost(d)
  PROVE  Shared!Next
<1>1. PICK i \in DOMAIN outbox[d] : doc' = Applied(doc, outbox[d][i])
  BY DEF AnswerLost
<1>2. UNCHANGED <<outbox, local, asked>>
  BY DEF AnswerLost, sdkVars
<1> DEFINE w == outbox[d][i]
           x == w.who
           there == w.op = "add"
<1>3. w \in Write
  BY <1>1 DEF TypeInv, TypeOK
<1>4. x \in Account /\ (there => x \in asked)
  BY <1>1, <1>3 DEF Write, InvitedInv, InvitedQueue
<1>5. x \in Unsaved[d]
  BY <1>1 DEF Unsaved
<1> HIDE DEF w
<1>6. doc' = Applied(doc, w)
  BY <1>1 DEF w
<1>7. doc' = Shared!Put(doc, x, there)
  BY <1>6 DEF Applied, Shared!Put
<1>8. ASSUME NEW o \in Device
      PROVE  View(o)' = IF x \in Unsaved[o] THEN View(o) ELSE Shared!Put(View(o), x, there)
  BY <1>2, <1>3, <1>6, TakenElsewhere
<1>9. Views' = [o \in Device |-> IF x \in Unsaved[o] THEN Views[o]
                                                     ELSE Shared!Put(Views[o], x, there)]
  BY <1>8 DEF Views, View
<1>10. UNCHANGED Unsaved
  BY <1>2 DEF Unsaved
<1>11. Shared!Save(d, x, there)
  BY <1>2, <1>4, <1>5, <1>7, <1>9, <1>10 DEF Shared!Save
<1>12. there \in BOOLEAN
  OBVIOUS
<1>13. QED
  BY <1>4, <1>11, <1>12 DEF Shared!Next

(* An app that ends forgets what it has not sent. *)
LEMMA StopShared ==
  ASSUME TypeInv, NEW d \in Device, NEW how, Stop(d, how)
  PROVE  [Shared!Next]_Shared!sharedVars
<1>1. /\ UNCHANGED <<doc, asked>> /\ outbox'[d] = << >> /\ local'[d] = {}
      /\ \A o \in Device \ {d} : outbox'[o] = outbox[o] /\ local'[o] = local[o]
      /\ doc \subseteq Account
  BY DEF Stop, TypeInv, TypeOK
<1>2. \A x : ~Pending(outbox'[d], x)
  BY <1>1 DEF Pending
<1>3. View(d)' = doc
  BY <1>1, <1>2 DEF View, Overlay
<1>4. \A o \in Device \ {d} : View(o)' = View(o)
  BY <1>1 DEF View
<1>5. Views' = [Views EXCEPT ![d] = doc]
  BY <1>3, <1>4 DEF Views, View
<1>6. Unsaved'[d] = {}
  BY <1>2, ViewsAt
<1>7. Unsaved' = [Unsaved EXCEPT ![d] = {}]
  BY <1>1, <1>6, OneUnsaved
<1>8. CASE Unsaved[d] = {}
  <2>1. \A x : ~Pending(outbox[d], x)
    BY <1>8, ViewsAt
  <2>2. View(d) = doc
    BY <1>1, <2>1 DEF View, Overlay
  <2>3. Views' = Views
    BY <1>5, <2>2 DEF Views, View
  <2>4. Unsaved' = Unsaved
    BY <1>7, <1>8 DEF Unsaved
  <2>5. QED
    BY <1>1, <2>3, <2>4 DEF Shared!sharedVars
<1>9. CASE Unsaved[d] # {}
  <2>1. Shared!Forget(d)
    BY <1>1, <1>5, <1>7, <1>9 DEF Shared!Forget
  <2>2. QED
    BY <2>1 DEF Shared!Next
<1>10. QED
  BY <1>8, <1>9

LEMMA StepShared ==
  ASSUME TypeInv, InvitedInv, OwnWritesShown, NEW d \in Device, DeviceNext(d)
  PROVE  [Shared!Next]_Shared!sharedVars
<1> USE DEF sdkVars, pageVars
<1>a. ASSUME UNCHANGED <<doc, outbox, local, asked>>
      PROVE  UNCHANGED Shared!sharedVars
  BY <1>a, SameViews DEF Shared!sharedVars
<1>1. CASE HomeChanged(d)
  <2>1. /\ UNCHANGED <<doc, outbox, asked>>
        /\ \A o \in Device \ {d} : local'[o] = local[o]
        /\ local'[d] = local[d] \/ local'[d] = View(d)
    BY <1>1 DEF HomeChanged, View, TypeInv, TypeOK
  <2>2. QED
    BY <2>1, SameViews DEF Shared!sharedVars
<1>2. CASE \E x \in Account : DeleteRow(d, x)
  <2>1. PICK y \in Account : Send(d, [op |-> "remove", who |-> y], 1)
    BY <1>2 DEF DeleteRow
  <2>2. [op |-> "remove", who |-> y] \in Write /\ UNCHANGED <<doc, asked>>
    BY <1>2 DEF Write, DeleteRow
  <2>3. QED
    BY <2>1, <2>2, SendShared
<1>3. CASE RemovePatient(d)
  <2>1. Send(d, [op |-> "remove", who |-> opened[d]], 1) /\ opened[d] \in Account
    BY <1>3 DEF RemovePatient, TypeInv
  <2>2. [op |-> "remove", who |-> opened[d]] \in Write /\ UNCHANGED <<doc, asked>>
    BY <1>3, <2>1 DEF Write, RemovePatient
  <2>3. QED
    BY <2>1, <2>2, SendShared
<1>4. CASE \E s \in Slot : ReadAnswered(d, s)
  <2>1. PICK s \in Slot : ReadAnswered(d, s)
    BY <1>4
  <2> DEFINE x == asking[d][s].who
             w == [op |-> "add", who |-> x]
             n == Writes(local[d], x)
  <2>2. asking[d][s] \in Request /\ asking[d][s].waits = "read"
    BY <2>1 DEF ReadAnswered, TypeInv, TypeOK
  <2>3. x \in Patient /\ x \in Account
    BY <2>2 DEF Request, Account
  <2>4. x \in asked
    BY <2>3 DEF InvitedInv, InvitedRequests
  <2>5. w \in Write /\ n \in Nat
    BY <2>3, WritesType DEF Write, TypeInv, TypeOK
  <2>6. /\ UNCHANGED <<doc, asked>>
        /\ UNCHANGED <<outbox, local>> \/ (n > 0 /\ Send(d, w, n))
    BY <2>1 DEF ReadAnswered
  <2> HIDE DEF x, n
  <2>7. QED
    BY <1>a, <2>4, <2>5, <2>6, SendShared
<1>5. CASE \E s \in Slot, x \in Account \cup {NoAccount} : DoneTapped(d, s, x)
  <2>1. PICK x \in Account \cup {NoAccount} : asked' = asked \cup ({x} \cap Patient)
    BY <1>5 DEF DoneTapped
  <2>2. UNCHANGED <<doc, outbox, local>>
    BY <1>5 DEF DoneTapped
  <2>3. UNCHANGED <<doc, Views, Unsaved>>
    BY <2>2, SameViews
  <2>4. CASE x \in Patient
    <3>1. Shared!Invite(x) /\ x \in Account
      BY <2>1, <2>3, <2>4 DEF Shared!Invite, Account
    <3>2. QED
      BY <3>1 DEF Shared!Next
  <2>5. CASE x \notin Patient
    BY <2>1, <2>3, <2>5 DEF Shared!sharedVars
  <2>6. QED
    BY <2>4, <2>5
<1>6. ASSUME NEW how, Stop(d, how)
      PROVE  [Shared!Next]_Shared!sharedVars
  BY <1>6, StopShared
<1>7. CASE RowCrash(d) \/ (\E s \in Slot : QueryCrash(d, s)) \/ Kill(d)
  BY <1>6, <1>7 DEF RowCrash, QueryCrash, Kill
<1>8. CASE Flush(d)
  BY <1>8, FlushShared
<1>9. CASE AnswerLost(d)
  BY <1>9, AnswerLostShared
<1>10. QED
  BY <1>a, <1>1, <1>2, <1>3, <1>4, <1>5, <1>7, <1>8, <1>9
  DEF DeviceNext, OpenApp, TapRow, InfoBack, OpenAddPage, QueryAnswered, Cancel, Dismiss

LEMMA InitShared == Init => Shared!Init
<1> SUFFICES ASSUME Init
             PROVE  Shared!Init
  OBVIOUS
<1>1. \A d \in Device : View(d) = {} /\ {outbox[d][i].who : i \in DOMAIN outbox[d]} = {}
  BY DEF Init, View, Overlay, Pending
<1>2. QED
  BY <1>1 DEF Init, Views, View, Unsaved, Shared!Init

(* On any number of phones and with every event, the phones implement a    *)
(* shared list: what a phone shows changes by its own taps, by what others *)
(* have saved and by a restart only.                                       *)
THEOREM ListImplemented == Spec => ListShared
<1>1. TypeInv /\ InvitedInv /\ OwnWritesShown /\ [Next]_vars => [Shared!Next]_Shared!sharedVars
  <2> SUFFICES ASSUME TypeInv, InvitedInv, OwnWritesShown, [Next]_vars
               PROVE  [Shared!Next]_Shared!sharedVars
    OBVIOUS
  <2>1. CASE UNCHANGED vars
    BY <2>1 DEF vars, sdkVars, Views, Unsaved, Shared!sharedVars
  <2>2. QED
    BY <2>1, StepShared DEF Next
<1>2. QED
  BY <1>1, InitShared, InitType, StepType, InitInvited, StepInvited, PhonesShowOwnWrites, PTL
  DEF Spec, ListShared, Shared!Spec
=============================================================================
