------------------------------ MODULE Accounts ------------------------------
(***************************************************************************)
(* Signing up, in and out (SignUpPage, LoginPage, the two home pages).     *)
(* An account lives in three stores that are written one after the other:  *)
(* the authentication service, a Firestore document and a node of the      *)
(* Realtime Database.  Every tap on a button sends a call whose callback   *)
(* comes later, whatever page is on top by then.  The library signs the    *)
(* user in on a queue of its own and then hands the callback to the main   *)
(* queue, so that Auth.currentUser, which the callbacks read, may have     *)
(* changed once more when they run.                                        *)
(***************************************************************************)
EXTENDS SequencesExt

CONSTANTS Phone,    \* phones
          Person,   \* e-mail addresses, and the uids of their accounts
          Nobody,   \* no account, no role
          Events,   \* what else may happen, see AllEvents
          MaxCalls, \* bound: unanswered calls per phone
          MaxTaps   \* bound: taps on Sign Up and Login

(***************************************************************************)
(* assign: a physiotherapist writes routines under a patient's node        *)
(* fault:  a call, a query or a write is refused or fails                  *)
(* kill:   the operating system or the user ends an app                    *)
(* resend: the connection is lost between a node and its acknowledgement   *)
(***************************************************************************)
AllEvents == {"assign", "fault", "kill", "resend"}

Role == {"patient", "physio"}

ASSUME NobodyElse == Nobody \notin Person \cup Role
ASSUME EventNames == Events \subseteq AllEvents
ASSUME CallBound  == MaxCalls \in Nat
ASSUME TapBound   == MaxTaps \in Nat

VARIABLES
  auth,      \* the accounts of the authentication service
  docs,      \* Firestore: the role in the document of each account
  nodes,     \* Realtime Database: the role in the node of each account
  routines,  \* the accounts under whose node there are routines
  page,      \* each phone: the page on top
  user,      \* each phone: Auth.currentUser
  chosen,    \* each phone: current_role of the sign-up page on top
  calls,     \* each phone: the calls not yet answered
  due,       \* each phone: the answered ones whose callback has not run
  docQueue,  \* each phone: Firestore's unsent documents, kept on disk
  nodeQueue, \* each phone: the database's unacknowledged nodes, in memory
  taps,      \* bound: taps so far
  trouble,   \* history, each phone: since the last login, see Troubles
  risks      \* history, each account: what went wrong, see Risks

storeVars == <<auth, docs, nodes, routines>>
queueVars == <<docQueue, nodeQueue>>
pageVars  == <<page, chosen>>
callVars  == <<calls, due>>
vars == <<storeVars, pageVars, user, callVars, queueVars, taps, trouble, risks>>

Home(role) == IF role = "patient" THEN "patientHome" ELSE "physioHome"
Pages      == {"closed", "crashed", "landing", "signup", "login", "patientHome", "physioHome"}

(* A call: create an account, sign in, the query for the role; created and *)
(* signedIn once the service has answered.  here: the page that made it is *)
(* still on top.                                                           *)
Call ==
  [op : {"create", "created", "signIn", "signedIn", "query"},
   who : Person \cup {Nobody}, role : Role \cup {Nobody}, here : BOOLEAN]
Idle == [op |-> "idle", who |-> Nobody, role |-> Nobody, here |-> FALSE]
Slot == 1 .. MaxCalls

Busy(d) == \E s \in Slot : calls[d][s] # Idle

(* A profile on its way, and the user it is sent by. *)
Doc  == [by : Person \cup {Nobody}, who : Person, role : Role]
Node == [who : Person, role : Role]

(* raced:  a call was made before an earlier one's callback                *)
(* failed: the query for the role failed                                   *)
Troubles == {"raced", "failed"}

(* early: got routines while its node was unacknowledged                   *)
(* mixed: the callback of one account's sign-up wrote the other's node     *)
(* lost:  a part of its profile was refused or lost with the app           *)
Risks == {"early", "mixed", "lost"}

Mark(us, r) == risks' = [u \in Person |-> risks[u] \cup {x \in {r} : u \in us}]

(* The page on top changes to p: callbacks of the old one have no window.  *)
Leave(d, p, rest) ==
  /\ page'   = [page   EXCEPT ![d] = p]
  /\ chosen' = [chosen EXCEPT ![d] = Nobody]
  /\ calls'  = [calls  EXCEPT ![d] =
                  [s \in Slot |-> IF rest[s] = Idle THEN Idle
                                    ELSE [rest[s] EXCEPT !.here = FALSE]]]

Answered(d, s) == [calls[d] EXCEPT ![s] = Idle]

Drop(d, s) ==
  /\ calls' = [calls EXCEPT ![d] = Answered(d, s)]
  /\ UNCHANGED pageVars

(* A tap takes the first free slot. *)
Tap(d, s, c) ==
  /\ taps < MaxTaps
  /\ taps' = taps + 1
  /\ calls[d][s] = Idle
  /\ \A x \in Slot : calls[d][x] = Idle => s <= x
  /\ calls' = [calls EXCEPT ![d][s] = c]
  /\ UNCHANGED <<storeVars, pageVars, user, due, queueVars, risks>>

(* The callback of slot s is next on the main queue. *)
Runs(d, s) ==
  /\ due[d] # << >>
  /\ Head(due[d]) = s
  /\ due' = [due EXCEPT ![d] = Tail(@)]

(* The app ends: what only memory held is gone. *)
Stop(d, how) ==
  /\ page'      = [page      EXCEPT ![d] = how]
  /\ chosen'    = [chosen    EXCEPT ![d] = Nobody]
  /\ calls'     = [calls     EXCEPT ![d] = [s \in Slot |-> Idle]]
  /\ due'       = [due       EXCEPT ![d] = << >>]
  /\ nodeQueue' = [nodeQueue EXCEPT ![d] = << >>]
  /\ Mark({calls[d][s].who : s \in {x \in Slot : calls[d][x].op = "created"}}
            \cup {w.who : w \in ToSet(nodeQueue[d])}, "lost")

---------------------------------------------------------------------------
OpenApp(d) ==
  /\ page[d] \in {"closed", "crashed"}
  /\ page' = [page EXCEPT ![d] = "landing"]
  /\ UNCHANGED <<storeVars, user, chosen, callVars, queueVars, trouble, risks, taps>>

Kill(d) ==
  /\ "kill" \in Events
  /\ page[d] \notin {"closed", "crashed"}
  /\ Stop(d, "closed")
  /\ UNCHANGED <<storeVars, user, docQueue, trouble, taps>>

OpenPage(d, p) ==
  /\ page[d] = "landing"
  /\ Leave(d, p, calls[d])
  /\ UNCHANGED <<storeVars, user, due, queueVars, trouble, risks, taps>>

(* Fault kept for the checks, as all that are named ...Fault: whoever is   *)
(* signed in is signed out.                                                *)
BackSignsOutFault(d) ==
  /\ page[d] \in {"signup", "login"}
  /\ Leave(d, "landing", calls[d])
  /\ user' = [user EXCEPT ![d] = Nobody]
  /\ UNCHANGED <<storeVars, due, queueVars, trouble, risks, taps>>

Back(d) ==
  /\ page[d] \in {"signup", "login"}
  /\ Leave(d, "landing", calls[d])
  /\ UNCHANGED <<storeVars, user, due, queueVars, trouble, risks, taps>>

SignOut(d) ==
  /\ page[d] \in {"patientHome", "physioHome"}
  /\ Leave(d, "landing", calls[d])
  /\ user' = [user EXCEPT ![d] = Nobody]
  /\ UNCHANGED <<storeVars, due, queueVars, trouble, risks, taps>>

---------------------------------------------------------------------------
(* SignUpPage. *)

(* PatientTapped, PhysicoTapped: the callbacks of the page read the role   *)
(* when they run.                                                          *)
RoleTapped(d, role) ==
  /\ page[d] = "signup"
  /\ chosen' = [chosen EXCEPT ![d] = role]
  /\ calls'  = [calls  EXCEPT ![d] =
                  [s \in Slot |-> IF @[s].here THEN [@[s] EXCEPT !.role = role] ELSE @[s]]]
  /\ UNCHANGED <<storeVars, page, user, due, queueVars, trouble, risks, taps>>

(* Fault: the role is not asked for. *)
SignupUncheckedFault(d, s, u) ==
  /\ page[d] = "signup"
  /\ Tap(d, s, [op |-> "create", who |-> u, role |-> chosen[d], here |-> TRUE])
  /\ trouble' = [trouble EXCEPT ![d] = @ \cup {x \in {"raced"} : Busy(d)}]

(* With every field filled in and an acceptable password. *)
SignupTapped(d, s, u) ==
  /\ page[d] = "signup"
  /\ chosen[d] # Nobody
  /\ Tap(d, s, [op |-> "create", who |-> u, role |-> chosen[d], here |-> TRUE])
  /\ trouble' = [trouble EXCEPT ![d] = @ \cup {x \in {"raced"} : Busy(d)}]

(* Fault: an address that has an account is not refused. *)
CreateTwiceFault(d, s) ==
  /\ calls[d][s].op = "create"
  /\ auth'  = auth \cup {calls[d][s].who}
  /\ user'  = [user  EXCEPT ![d] = calls[d][s].who]
  /\ calls' = [calls EXCEPT ![d][s].op = "created"]
  /\ due'   = [due   EXCEPT ![d] = Append(@, s)]
  /\ UNCHANGED <<docs, nodes, routines, pageVars, queueVars, trouble, risks, taps>>

(* The service creates the account, its answer signs the phone in. *)
Create(d, s) ==
  /\ calls[d][s].op = "create"
  /\ calls[d][s].who \notin auth
  /\ auth'  = auth \cup {calls[d][s].who}
  /\ user'  = [user  EXCEPT ![d] = calls[d][s].who]
  /\ calls' = [calls EXCEPT ![d][s].op = "created"]
  /\ due'   = [due   EXCEPT ![d] = Append(@, s)]
  /\ UNCHANGED <<docs, nodes, routines, pageVars, queueVars, trouble, risks, taps>>

(* The answer may also be an error after the account has been created. *)
CreateRefused(d, s) ==
  /\ calls[d][s].op = "create"
  /\ calls[d][s].who \in auth \/ "fault" \in Events
  /\ auth' \in {auth, auth \cup {calls[d][s].who}}
  /\ Drop(d, s)
  /\ Mark(auth' \ auth, "lost")
  /\ UNCHANGED <<docs, nodes, routines, user, due, queueVars, trouble, taps>>

(* Faults: the node is only written if the page is still there; the        *)
(* current user is not unwrapped.                                          *)
CreatedHalfFault(d, s) ==
  LET c == calls[d][s]
  IN /\ c.op = "created"
     /\ user[d] # Nobody
     /\ Runs(d, s)
     /\ docQueue'  = [docQueue  EXCEPT ![d] = @ \cup {[by |-> user[d], who |-> c.who, role |-> c.role]}]
     /\ nodeQueue' = IF c.here THEN [nodeQueue EXCEPT ![d] = Append(@, [who |-> user[d], role |-> c.role])]
                              ELSE nodeQueue
     /\ Mark(IF user[d] = c.who THEN {} ELSE {user[d], c.who}, "mixed")
     /\ \/ c.here /\ Leave(d, "landing", Answered(d, s))
        \/ ~c.here /\ Drop(d, s)
     /\ UNCHANGED <<storeVars, user, trouble, taps>>

(* The callback of createUser: the profile is written twice, the document  *)
(* for the account created, the node for the current user; back to the     *)
(* landing page.                                                           *)
Created(d, s) ==
  LET c == calls[d][s]
  IN /\ c.op = "created"
     /\ user[d] # Nobody
     /\ Runs(d, s)
     /\ docQueue'  = [docQueue  EXCEPT ![d] = @ \cup {[by |-> user[d], who |-> c.who, role |-> c.role]}]
     /\ nodeQueue' = [nodeQueue EXCEPT ![d] = Append(@, [who |-> user[d], role |-> c.role])]
     /\ Mark(IF user[d] = c.who THEN {} ELSE {user[d], c.who}, "mixed")
     /\ \/ c.here /\ Leave(d, "landing", Answered(d, s))
        \/ ~c.here /\ Drop(d, s)
     /\ UNCHANGED <<storeVars, user, trouble, taps>>

(* (Auth.auth().currentUser?.uid)! when nobody is signed in any more: the  *)
(* document has been queued by then.                                       *)
CreatedCrash(d, s) ==
  LET c == calls[d][s]
  IN /\ c.op = "created"
     /\ user[d] = Nobody
     /\ due[d] # << >> /\ Head(due[d]) = s
     /\ docQueue' = [docQueue EXCEPT ![d] = @ \cup {[by |-> Nobody, who |-> c.who, role |-> c.role]}]
     /\ Stop(d, "crashed")
     /\ UNCHANGED <<storeVars, user, trouble, taps>>

(* Firestore sends what was written while the same user was signed in. *)
DocStored(d, w) ==
  /\ w \in docQueue[d]
  /\ user[d] = w.by
  /\ docQueue' = [docQueue EXCEPT ![d] = @ \ {w}]
  /\ docs'     = [docs EXCEPT ![w.who] = w.role]
  /\ UNCHANGED <<auth, nodes, routines, pageVars, user, callVars, nodeQueue, trouble, risks, taps>>

(* The message is shown on a page that has gone. *)
DocRefused(d, w) ==
  /\ "fault" \in Events
  /\ w \in docQueue[d]
  /\ user[d] = w.by
  /\ docQueue' = [docQueue EXCEPT ![d] = @ \ {w}]
  /\ Mark({w.who}, "lost")
  /\ UNCHANGED <<storeVars, pageVars, user, callVars, nodeQueue, trouble, taps>>

(* updateChildValues with the user's path as its key: the whole node. *)
NodeStored(d) ==
  /\ nodeQueue[d] # << >>
  /\ nodeQueue' = [nodeQueue EXCEPT ![d] = Tail(@)]
  /\ LET w == Head(nodeQueue[d])
     IN /\ nodes'    = [nodes EXCEPT ![w.who] = w.role]
        /\ routines' = routines \ {w.who}
  /\ UNCHANGED <<auth, docs, pageVars, user, callVars, docQueue, trouble, risks, taps>>

(* The server takes a node, but the connection is lost before its answer:  *)
(* it stays in the queue and is sent again on the next connection.         *)
NodeAnswerLost(d) ==
  /\ "resend" \in Events
  /\ \E w \in ToSet(nodeQueue[d]) :
       /\ nodes'    = [nodes EXCEPT ![w.who] = w.role]
       /\ routines' = routines \ {w.who}
  /\ UNCHANGED <<auth, docs, pageVars, user, callVars, queueVars, trouble, risks, taps>>

NodeRefused(d) ==
  /\ "fault" \in Events
  /\ nodeQueue[d] # << >>
  /\ nodeQueue' = [nodeQueue EXCEPT ![d] = Tail(@)]
  /\ Mark({Head(nodeQueue[d]).who}, "lost")
  /\ UNCHANGED <<storeVars, pageVars, user, callVars, docQueue, trouble, taps>>

(* Anybody whose document says patient can be found and given routines. *)
Assign(u) ==
  /\ "assign" \in Events
  /\ docs[u] = "patient"
  /\ routines' = routines \cup {u}
  /\ Mark({u} \cap {w.who : w \in UNION {ToSet(nodeQueue[d]) : d \in Phone}}, "early")
  /\ UNCHANGED <<auth, docs, nodes, pageVars, user, callVars, queueVars, trouble, taps>>

---------------------------------------------------------------------------
(* LoginPage. *)

LoginTapped(d, s, u) ==
  /\ page[d] = "login"
  /\ Tap(d, s, [op |-> "signIn", who |-> u, role |-> Nobody, here |-> TRUE])
  /\ trouble' = [trouble EXCEPT ![d] = {x \in {"raced"} : Busy(d)}]

(* The service accepts, its answer signs the phone in. *)
SignIn(d, s) ==
  /\ calls[d][s].op = "signIn"
  /\ calls[d][s].who \in auth
  /\ user'  = [user  EXCEPT ![d] = calls[d][s].who]
  /\ calls' = [calls EXCEPT ![d][s].op = "signedIn"]
  /\ due'   = [due   EXCEPT ![d] = Append(@, s)]
  /\ UNCHANGED <<storeVars, pageVars, queueVars, trouble, risks, taps>>

SignInFailed(d, s) ==
  /\ calls[d][s].op = "signIn"
  /\ calls[d][s].who \notin auth \/ "fault" \in Events
  /\ Drop(d, s)
  /\ UNCHANGED <<storeVars, user, due, queueVars, trouble, risks, taps>>

(* The callback of signIn asks for the role of the current user. *)
SignedIn(d, s) ==
  /\ calls[d][s].op = "signedIn"
  /\ Runs(d, s)
  /\ calls' = [calls EXCEPT ![d][s].op = "query", ![d][s].who = user[d]]
  /\ UNCHANGED <<storeVars, pageVars, user, queueVars, trouble, risks, taps>>

RoleOf(u) == IF u = Nobody THEN Nobody ELSE docs[u]

(* Faults: the roles are swapped; the query is answered but nothing shown. *)
RoutedSwappedFault(d, s) ==
  LET c == calls[d][s]
  IN /\ c.op = "query"
     /\ RoleOf(c.who) # Nobody
     /\ \/ c.here /\ Leave(d, Home(IF docs[c.who] = "physio" THEN "patient" ELSE "physio"),
                           Answered(d, s))
        \/ ~c.here /\ Drop(d, s)
     /\ UNCHANGED <<storeVars, user, due, queueVars, trouble, risks, taps>>

RoutedNowhereFault(d, s) ==
  /\ calls[d][s].op = "query"
  /\ RoleOf(calls[d][s].who) # Nobody
  /\ Drop(d, s)
  /\ UNCHANGED <<storeVars, user, due, queueVars, trouble, risks, taps>>

(* The query for the role answers: to the home page of that role. *)
Routed(d, s) ==
  LET c == calls[d][s]
  IN /\ c.op = "query"
     /\ RoleOf(c.who) # Nobody
     /\ \/ c.here /\ Leave(d, Home(docs[c.who]), Answered(d, s))
        \/ ~c.here /\ Drop(d, s)
     /\ UNCHANGED <<storeVars, user, due, queueVars, trouble, risks, taps>>

(* No document, or an error that is only printed: the page stays. *)
NotRouted(d, s) ==
  /\ calls[d][s].op = "query"
  /\ RoleOf(calls[d][s].who) = Nobody \/ "fault" \in Events
  /\ Drop(d, s)
  /\ trouble' = [trouble EXCEPT ![d] = @ \cup {"failed"}]
  /\ UNCHANGED <<storeVars, user, due, queueVars, risks, taps>>

---------------------------------------------------------------------------
(* Some accounts are complete already. *)
Init ==
  /\ docs      \in [Person -> Role \cup {Nobody}]
  /\ nodes     = docs
  /\ auth      = {u \in Person : docs[u] # Nobody}
  /\ routines  = {}
  /\ page      = [d \in Phone |-> "closed"]
  /\ user      = [d \in Phone |-> Nobody]
  /\ chosen    = [d \in Phone |-> Nobody]
  /\ calls     = [d \in Phone |-> [s \in Slot |-> Idle]]
  /\ due       = [d \in Phone |-> << >>]
  /\ docQueue  = [d \in Phone |-> {}]
  /\ nodeQueue = [d \in Phone |-> << >>]
  /\ taps      = 0
  /\ trouble   = [d \in Phone |-> {}]
  /\ risks     = [u \in Person |-> {}]

PhoneNext(d) ==
  \/ OpenApp(d)
  \/ Kill(d)
  \/ \E p \in {"signup", "login"} : OpenPage(d, p)
  \/ Back(d)
  \/ SignOut(d)
  \/ \E role \in Role : RoleTapped(d, role)
  \/ \E s \in Slot, u \in Person : SignupTapped(d, s, u)
  \/ \E s \in Slot : Create(d, s)
  \/ \E s \in Slot : CreateRefused(d, s)
  \/ \E s \in Slot : Created(d, s)
  \/ \E s \in Slot : CreatedCrash(d, s)
  \/ \E w \in Doc : DocStored(d, w)
  \/ \E w \in Doc : DocRefused(d, w)
  \/ NodeStored(d)
  \/ NodeAnswerLost(d)
  \/ NodeRefused(d)
  \/ \E s \in Slot, u \in Person : LoginTapped(d, s, u)
  \/ \E s \in Slot : SignIn(d, s)
  \/ \E s \in Slot : SignInFailed(d, s)
  \/ \E s \in Slot : SignedIn(d, s)
  \/ \E s \in Slot : Routed(d, s)
  \/ \E s \in Slot : NotRouted(d, s)

Next ==
  \/ \E d \in Phone : PhoneNext(d)
  \/ \E u \in Person : Assign(u)

Spec == Init /\ [][Next]_vars

(* A phone that stays alive and connected gets its answers and sends its   *)
(* writes; what the user taps is not forced.                               *)
Fairness ==
  \A d \in Phone :
    /\ WF_vars(\E s \in Slot : Created(d, s) \/ CreatedCrash(d, s) \/ SignedIn(d, s))
    /\ \A s \in Slot : WF_vars(Routed(d, s) \/ NotRouted(d, s))
    /\ WF_vars(\E w \in docQueue[d] : DocStored(d, w) \/ DocRefused(d, w))
    /\ WF_vars(NodeStored(d) \/ NodeRefused(d))

FairSpec == Spec /\ Fairness

---------------------------------------------------------------------------
(* Properties. *)

(* Every state is well formed: no profile without a role is ever stored,   *)
(* and nobody is signed in without an account.                             *)
TypeOK ==
  /\ auth      \in SUBSET Person
  /\ docs      \in [Person -> Role \cup {Nobody}]
  /\ nodes     \in [Person -> Role \cup {Nobody}]
  /\ routines  \in SUBSET Person
  /\ page      \in [Phone -> Pages]
  /\ user      \in [Phone -> auth \cup {Nobody}]
  /\ chosen    \in [Phone -> Role \cup {Nobody}]
  /\ calls     \in [Phone -> [Slot -> Call \cup {Idle}]]
  /\ due       \in [Phone -> Seq(Slot)]
  /\ docQueue  \in [Phone -> SUBSET Doc]
  /\ nodeQueue \in [Phone -> Seq(Node)]
  /\ taps      \in Nat
  /\ trouble   \in [Phone -> SUBSET Troubles]
  /\ risks     \in [Person -> SUBSET Risks]

(* The two stores never hold different roles for an account, although      *)
(* Sign Up and the role buttons can be tapped again while a sign-up is     *)
(* under way, unless the callback of another account's sign-up wrote it.   *)
StoresAgree ==
  \A u \in Person :
    docs[u] # Nobody /\ nodes[u] # Nobody /\ "mixed" \notin risks[u] => docs[u] = nodes[u]

(* The home page a phone shows is that of the role of the user who is      *)
(* signed in, unless that user called before an earlier call was answered. *)
HomeFitsUser ==
  \A d \in Phone :
    page[d] \in {"patientHome", "physioHome"} /\ "raced" \notin trouble[d] =>
      user[d] # Nobody /\ page[d] = Home(docs[user[d]])

(* Signing up crashes only after such a race. *)
CrashNeedsRace == \A d \in Phone : page[d] = "crashed" => "raced" \in trouble[d]

(* A sign-up never wipes the routines of an account, unless they were      *)
(* assigned before the account's node had been acknowledged, or the        *)
(* callback of another account's sign-up wrote the node.                   *)
RoutinesKept ==
  [][\A u \in routines : u \in routines' \/ risks[u] \cap {"early", "mixed"} # {}]_vars

(* A new account gets its document and its node, unless a part of them is  *)
(* lost or written for another user, or the user does not stay signed in.  *)
SignupCompletes ==
  \A u \in Person :
    u \in auth ~> \/ docs[u] # Nobody /\ nodes[u] # Nobody
                  \/ risks[u] # {}
                  \/ \A d \in Phone : user[d] # u

(* A login of somebody with a document ends on a home page, if the user    *)
(* waits for it and the query does not fail.                               *)
LoginArrives ==
  \A d \in Phone : \A u \in Person :
    (\E s \in Slot : /\ calls[d][s].op = "signedIn" /\ calls[d][s].here
                     /\ user[d] = u /\ docs[u] # Nobody)
      ~> page[d] # "login" \/ trouble[d] # {}
=============================================================================
