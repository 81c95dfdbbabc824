--------------------------- MODULE Accounts_proof ---------------------------
(***************************************************************************)
(* For any phones and persons, any number of calls and taps, with every    *)
(* event allowed: the states are well formed, the stores agree, only a     *)
(* race crashes the app or shows somebody the other home page, routines    *)
(* are wiped only in the ways that are named, and no sign-up is forgotten. *)
(***************************************************************************)
EXTENDS Accounts, SequenceTheorems, TLAPS

(* What a call may be: an account is created for somebody with a role.     *)
Sound ==
  {c \in Call \cup {Idle} :
     /\ c.op \in {"create", "created"} => c.who \in Person /\ c.role \in Role
     /\ c.op = "created" => c.who \in auth
     /\ c.op = "signIn" => c.who \in Person}

TypeInv ==
  /\ TypeOK
  /\ calls \in [Phone -> [Slot -> Sound]]

(* The calls of d that are left are old ones. *)
Fewer(d) ==
  \A t \in Slot :
    calls'[d][t] # Idle =>
      /\ calls[d][t] # Idle
      /\ calls'[d][t].op = calls[d][t].op
      /\ calls'[d][t].who = calls[d][t].who

---------------------------------------------------------------------------
(* Calls. *)

LEMMA IdleSound == Idle \in Sound /\ ~Idle.here /\ Idle.op = "idle" /\ Idle \notin Call
BY DEF Sound, Idle, Call

LEMMA SoundChanged ==
  ASSUME NEW c \in Sound, c # Idle
  PROVE  /\ c \in Call
         /\ [c EXCEPT !.here = FALSE] \in Sound
         /\ [c EXCEPT !.here = FALSE].op = c.op
         /\ [c EXCEPT !.here = FALSE].who = c.who
         /\ \A r \in Role : /\ [c EXCEPT !.role = r] \in Sound
                            /\ [c EXCEPT !.role = r].op = c.op
                            /\ [c EXCEPT !.role = r].who = c.who
<1>1. c \in Call
  BY DEF Sound
<1>2. /\ [c EXCEPT !.here = FALSE] \in Call
      /\ \A r \in Role : [c EXCEPT !.role = r] \in Call
  BY <1>1 DEF Call
<1>3. QED
  BY <1>1, <1>2 DEF Sound, Call

LEMMA SoundMore ==
  ASSUME auth \subseteq auth'
  PROVE  Sound \subseteq Sound'
BY DEF Sound, Idle, Call

LEMMA AnsweredSound ==
  ASSUME TypeInv, NEW d \in Phone, NEW s \in Slot
  PROVE  /\ Answered(d, s) \in [Slot -> Sound]
         /\ Answered(d, s)[s] = Idle
         /\ \A t \in Slot : t # s => Answered(d, s)[t] = calls[d][t]
BY IdleSound DEF Answered, TypeInv

(* A page that is left. *)
LEMMA Left ==
  ASSUME TypeInv, NEW d \in Phone, NEW p \in Pages, NEW rest \in [Slot -> Sound], Leave(d, p, rest),
         auth \subseteq auth'
  PROVE  /\ page' \in [Phone -> Pages]
         /\ chosen' \in [Phone -> Role \cup {Nobody}]
         /\ calls' \in [Phone -> [Slot -> Sound']]
         /\ page'[d] = p
         /\ \A e \in Phone \ {d} : page'[e] = page[e] /\ calls'[e] = calls[e]
         /\ \A t \in Slot : /\ rest[t] = Idle => calls'[d][t] = Idle
                            /\ rest[t] # Idle => /\ calls'[d][t].op = rest[t].op
                                                 /\ calls'[d][t].who = rest[t].who
<1> DEFINE f == [t \in Slot |-> IF rest[t] = Idle THEN Idle ELSE [rest[t] EXCEPT !.here = FALSE]]
<1>1. /\ page' = [page EXCEPT ![d] = p]
      /\ chosen' = [chosen EXCEPT ![d] = Nobody]
      /\ calls' = [calls EXCEPT ![d] = f]
  BY DEF Leave
<1>2. \A t \in Slot : f[t] \in Sound
  BY IdleSound, SoundChanged
<1>3. f \in [Slot -> Sound]
  BY <1>2
<1>4. \A t \in Slot : /\ rest[t] = Idle => f[t] = Idle
                      /\ rest[t] # Idle => f[t].op = rest[t].op /\ f[t].who = rest[t].who
  BY SoundChanged
<1> HIDE DEF f
<1>5. calls \in [Phone -> [Slot -> Sound]]
  BY DEF TypeInv
<1>6. calls' \in [Phone -> [Slot -> Sound]] /\ calls'[d] = f
  BY <1>1, <1>3, <1>5
<1>7. Sound \subseteq Sound'
  BY SoundMore
<1>8. calls' \in [Phone -> [Slot -> Sound']]
  BY <1>6, <1>7
<1>9. /\ page' \in [Phone -> Pages] /\ page'[d] = p
      /\ chosen' \in [Phone -> Role \cup {Nobody}]
  BY <1>1 DEF TypeInv, TypeOK
<1>10. \A e \in Phone \ {d} : page'[e] = page[e] /\ calls'[e] = calls[e]
  BY <1>1, <1>5 DEF TypeInv, TypeOK
<1>11. QED
  BY <1>4, <1>6, <1>8, <1>9, <1>10

(* The calls of one phone change. *)
LEMMA CallsOf ==
  ASSUME TypeInv, NEW d \in Phone, NEW f \in [Slot -> Sound'], calls' = [calls EXCEPT ![d] = f],
         auth \subseteq auth'
  PROVE  /\ calls' \in [Phone -> [Slot -> Sound']]
         /\ calls'[d] = f
         /\ \A e \in Phone \ {d} : calls'[e] = calls[e]
<1>1. calls \in [Phone -> [Slot -> Sound]] /\ Sound \subseteq Sound'
  BY SoundMore DEF TypeInv
<1>2. QED
  BY <1>1

(* A call that is answered for good. *)
LEMMA Dropped ==
  ASSUME TypeInv, NEW d \in Phone, NEW s \in Slot, Drop(d, s), auth \subseteq auth'
  PROVE  /\ calls' \in [Phone -> [Slot -> Sound']]
         /\ calls'[d] = Answered(d, s)
         /\ \A e \in Phone \ {d} : calls'[e] = calls[e]
         /\ page' = page /\ chosen' = chosen
<1>1. calls' = [calls EXCEPT ![d] = Answered(d, s)] /\ page' = page /\ chosen' = chosen
  BY DEF Drop, pageVars
<1>2. Answered(d, s) \in [Slot -> Sound']
  BY AnsweredSound, SoundMore
<1>3. QED
  BY <1>1, <1>2, CallsOf

LEMMA CallsSound == TypeInv' <=> TypeOK' /\ calls' \in [Phone -> [Slot -> Sound']]
BY DEF TypeInv

LEMMA SoundCalls ==
  ASSUME NEW f, f \in [Phone -> [Slot -> Sound]]
  PROVE  f \in [Phone -> [Slot -> Call \cup {Idle}]]
BY DEF Sound

LEMMA Marked ==
  ASSUME TypeOK, NEW us, NEW r \in Risks, Mark(us, r)
  PROVE  /\ risks' \in [Person -> SUBSET Risks]
         /\ \A u \in Person : /\ risks[u] \subseteq risks'[u]
                              /\ u \in us => r \in risks'[u]
BY DEF TypeOK, Mark
LEMMA CallsKept ==
  ASSUME TypeInv, calls' = calls, auth \subseteq auth'
  PROVE  calls' \in [Phone -> [Slot -> Sound']]
<1>1. calls \in [Phone -> [Slot -> Sound]] /\ Sound \subseteq Sound'
  BY SoundMore DEF TypeInv
<1>2. QED
  BY <1>1

(* An app that ends. *)
LEMMA Stopped ==
  ASSUME TypeInv, NEW d \in Phone, NEW how \in {"closed", "crashed"}, Stop(d, how), auth' = auth
  PROVE  /\ page' \in [Phone -> Pages]
         /\ chosen' \in [Phone -> Role \cup {Nobody}]
         /\ calls' \in [Phone -> [Slot -> Sound']]
         /\ due' \in [Phone -> Seq(Slot)]
         /\ nodeQueue' \in [Phone -> Seq(Node)]
         /\ risks' \in [Person -> SUBSET Risks]
         /\ page'[d] = how /\ nodeQueue'[d] = << >>
         /\ \A t \in Slot : calls'[d][t] = Idle
         /\ \A e \in Phone \ {d} :
              page'[e] = page[e] /\ calls'[e] = calls[e] /\ nodeQueue'[e] = nodeQueue[e]
         /\ \A u \in Person : risks[u] \subseteq risks'[u]
<1> DEFINE f == [s \in Slot |-> Idle]
<1>1. /\ page'   = [page   EXCEPT ![d] = how]
      /\ chosen' = [chosen EXCEPT ![d] = Nobody]
      /\ calls'  = [calls  EXCEPT ![d] = f]
      /\ due'    = [due    EXCEPT ![d] = << >>]
      /\ nodeQueue' = [nodeQueue EXCEPT ![d] = << >>]
  BY DEF Stop
<1>2. f \in [Slot -> Sound'] /\ \A t \in Slot : f[t] = Idle
  BY IdleSound, SoundMore
<1> HIDE DEF f
<1>3. /\ calls' \in [Phone -> [Slot -> Sound']] /\ calls'[d] = f
      /\ \A e \in Phone \ {d} : calls'[e] = calls[e]
  BY <1>1, <1>2, CallsOf
<1>4. how \in Pages
  BY DEF Pages
<1>5. /\ page' \in [Phone -> Pages] /\ page'[d] = how
      /\ chosen' \in [Phone -> Role \cup {Nobody}]
      /\ \A e \in Phone \ {d} : page'[e] = page[e]
  BY <1>1, <1>4 DEF TypeInv, TypeOK
<1>6. << >> \in Seq(Slot) /\ << >> \in Seq(Node)
  OBVIOUS
<1>7. /\ due' \in [Phone -> Seq(Slot)]
      /\ nodeQueue' \in [Phone -> Seq(Node)] /\ nodeQueue'[d] = << >>
      /\ \A e \in Phone \ {d} : nodeQueue'[e] = nodeQueue[e]
  BY <1>1, <1>6 DEF TypeInv, TypeOK
<1>8. "lost" \in Risks
  BY DEF Risks
<1>9. /\ risks' \in [Person -> SUBSET Risks]
      /\ \A u \in Person : risks[u] \subseteq risks'[u]
  BY <1>8, Marked DEF Stop, TypeInv
<1>10. QED
  BY <1>2, <1>3, <1>5, <1>7, <1>9

(* The callback that runs leaves the main queue. *)
LEMMA Ran ==
  ASSUME TypeInv, NEW d \in Phone, NEW s \in Slot, Runs(d, s)
  PROVE  due' \in [Phone -> Seq(Slot)]
<1>1. due[d] \in Seq(Slot) /\ due[d] # << >>
  BY DEF Runs, TypeInv, TypeOK
<1>2. Tail(due[d]) \in Seq(Slot)
  BY <1>1, HeadTailProperties
<1>3. QED
  BY <1>2 DEF Runs, TypeInv, TypeOK

(* The queue of the database. *)
LEMMA Queued ==
  ASSUME NEW q \in Seq(Node), NEW w \in Node
  PROVE  /\ Append(q, w) \in Seq(Node)
         /\ ToSet(Append(q, w)) = ToSet(q) \cup {w}
         /\ q # << >> => /\ Tail(q) \in Seq(Node)
                         /\ Head(q) \in ToSet(q) /\ Head(q) \in Node
                         /\ ToSet(Tail(q)) \subseteq ToSet(q)
         /\ ToSet(q) \subseteq Node
         /\ ToSet(<< >>) = {}
<1>1. Len(q) \in Nat /\ DOMAIN q = 1 .. Len(q) /\ \A i \in 1 .. Len(q) : q[i] \in Node
  BY LenProperties, ElementOfSeq
<1>2. /\ Append(q, w) \in Seq(Node)
      /\ DOMAIN Append(q, w) = 1 .. Len(q) + 1
      /\ \A i \in 1 .. Len(q) : Append(q, w)[i] = q[i]
      /\ Append(q, w)[Len(q) + 1] = w
  <2>1. Append(q, w) \in Seq(Node) /\ Len(Append(q, w)) = Len(q) + 1
    BY AppendProperties
  <2>2. DOMAIN Append(q, w) = 1 .. Len(q) + 1
    BY <2>1, LenProperties
  <2>3. QED
    BY <2>1, <2>2, AppendProperties
<1>3. ToSet(Append(q, w)) = ToSet(q) \cup {w}
  <2>1. \A x : x \in ToSet(Append(q, w)) => x \in ToSet(q) \cup {w}
    BY <1>1, <1>2 DEF ToSet
  <2>2. \A x \in ToSet(q) : x \in ToSet(Append(q, w))
    BY <1>1, <1>2 DEF ToSet
  <2>3. w \in ToSet(Append(q, w))
    <3>1. Len(q) + 1 \in 1 .. Len(q) + 1
      BY <1>1
    <3>2. QED
      BY <1>2, <3>1 DEF ToSet
  <2>4. QED
    BY <2>1, <2>2, <2>3
<1>4. ASSUME q # << >>
      PROVE  /\ Tail(q) \in Seq(Node)
             /\ Head(q) \in ToSet(q) /\ Head(q) \in Node
             /\ ToSet(Tail(q)) \subseteq ToSet(q)
  <2>1. /\ Head(q) \in Node /\ Tail(q) \in Seq(Node) /\ Len(Tail(q)) = Len(q) - 1
        /\ Head(q) = q[1]
        /\ \A i \in 1 .. Len(Tail(q)) : Tail(q)[i] = q[i + 1]
    BY <1>4, HeadTailProperties
  <2>2. Len(q) # 0
    BY <1>4, EmptySeq
  <2>3. DOMAIN Tail(q) = 1 .. Len(q) - 1
    BY <2>1, LenProperties
  <2>4. 1 \in DOMAIN q /\ \A i \in DOMAIN Tail(q) : i + 1 \in DOMAIN q /\ Tail(q)[i] = q[i + 1]
    BY <1>1, <2>1, <2>2, <2>3
  <2>5. QED
    BY <2>1, <2>4 DEF ToSet
<1>5. ToSet(q) \subseteq Node
  BY <1>1 DEF ToSet
<1>6. DOMAIN << >> = {}
  OBVIOUS
<1>7. ToSet(<< >>) = {}
  BY <1>6 DEF ToSet
<1>8. QED
  BY <1>2, <1>3, <1>4, <1>5, <1>7
---------------------------------------------------------------------------
(* Type correctness. *)

LEMMA InitType == Init => TypeInv
<1> SUFFICES ASSUME Init
             PROVE  TypeInv
  OBVIOUS
<1>1. calls \in [Phone -> [Slot -> Sound]]
  BY IdleSound DEF Init
<1>2. << >> \in Seq(Slot) /\ << >> \in Seq(Node)
  OBVIOUS
<1>3. /\ auth \in SUBSET Person /\ docs \in [Person -> Role \cup {Nobody}]
      /\ nodes \in [Person -> Role \cup {Nobody}] /\ routines \in SUBSET Person
      /\ page \in [Phone -> Pages] /\ user \in [Phone -> auth \cup {Nobody}]
      /\ chosen \in [Phone -> Role \cup {Nobody}]
  BY DEF Init, Pages
<1>4. /\ due \in [Phone -> Seq(Slot)] /\ docQueue \in [Phone -> SUBSET Doc]
      /\ nodeQueue \in [Phone -> Seq(Node)] /\ taps \in Nat
      /\ trouble \in [Phone -> SUBSET Troubles] /\ risks \in [Person -> SUBSET Risks]
  BY <1>2 DEF Init
<1>5. TypeOK
  BY <1>1, <1>3, <1>4, SoundCalls DEF TypeOK
<1>6. QED
  BY <1>1, <1>5 DEF TypeInv

(* What is left to show when the calls are known to be sound. *)
LEMMA TypesTogether ==
  ASSUME calls' \in [Phone -> [Slot -> Sound']],
         auth' \in SUBSET Person,
         docs' \in [Person -> Role \cup {Nobody}],
         nodes' \in [Person -> Role \cup {Nobody}],
         routines' \in SUBSET Person,
         page' \in [Phone -> Pages],
         user' \in [Phone -> auth' \cup {Nobody}],
         chosen' \in [Phone -> Role \cup {Nobody}],
         due' \in [Phone -> Seq(Slot)],
         docQueue' \in [Phone -> SUBSET Doc],
         nodeQueue' \in [Phone -> Seq(Node)],
         taps' \in Nat,
         trouble' \in [Phone -> SUBSET Troubles],
         risks' \in [Person -> SUBSET Risks]
  PROVE  TypeInv'
<1>1. calls' \in [Phone -> [Slot -> Call \cup {Idle}]]
  BY DEF Sound
<1>2. QED
  BY <1>1 DEF TypeInv, TypeOK

(* Pages and apps. *)
LEMMA TypePages ==
  ASSUME TypeInv, NEW d \in Phone,
         \/ OpenApp(d) \/ Kill(d) \/ Back(d) \/ SignOut(d)
         \/ \E p \in {"signup", "login"} : OpenPage(d, p)
         \/ \E role \in Role : RoleTapped(d, role)
  PROVE  TypeInv'
<1> USE DEF storeVars, queueVars, pageVars, callVars
<1>0. calls[d] \in [Slot -> Sound] /\ \A s \in Slot : calls[d][s] \in Sound
  BY DEF TypeInv
<1>1. CASE OpenApp(d)
  <2>1. /\ page' = [page EXCEPT ![d] = "landing"]
        /\ UNCHANGED <<storeVars, user, chosen, callVars, queueVars, trouble, risks, taps>>
    BY <1>1 DEF OpenApp
  <2>2. page' \in [Phone -> Pages]
    BY <2>1 DEF TypeInv, TypeOK, Pages
  <2>3. calls' \in [Phone -> [Slot -> Sound']]
    BY <2>1, CallsKept
  <2>4. QED
    BY <2>1, <2>2, <2>3, TypesTogether DEF TypeInv, TypeOK
<1>2. CASE Kill(d)
  <2>1. Stop(d, "closed") /\ UNCHANGED <<storeVars, user, docQueue, trouble, taps>>
    BY <1>2 DEF Kill
  <2>2. /\ page' \in [Phone -> Pages]
        /\ chosen' \in [Phone -> Role \cup {Nobody}]
        /\ calls' \in [Phone -> [Slot -> Sound']]
        /\ due' \in [Phone -> Seq(Slot)]
        /\ nodeQueue' \in [Phone -> Seq(Node)]
        /\ risks' \in [Person -> SUBSET Risks]
    BY <2>1, Stopped
  <2>3. QED
    BY <2>1, <2>2, TypesTogether DEF TypeInv, TypeOK
<1>3. ASSUME NEW p \in Pages, Leave(d, p, calls[d]), user' \in [Phone -> auth \cup {Nobody}],
             UNCHANGED <<storeVars, due, queueVars, trouble, risks, taps>>
      PROVE  TypeInv'
  <2>1. /\ page' \in [Phone -> Pages]
        /\ chosen' \in [Phone -> Role \cup {Nobody}]
        /\ calls' \in [Phone -> [Slot -> Sound']]
    BY <1>0, <1>3, Left
  <2>2. QED
    BY <1>3, <2>1, TypesTogether DEF TypeInv, TypeOK
<1>4. "landing" \in Pages /\ "signup" \in Pages /\ "login" \in Pages
  BY DEF Pages
<1>5. CASE Back(d)
  <2>1. /\ Leave(d, "landing", calls[d]) /\ user' = user
        /\ UNCHANGED <<storeVars, due, queueVars, trouble, risks, taps>>
    BY <1>5 DEF Back
  <2>2. QED
    BY <1>3, <1>4, <2>1 DEF TypeInv, TypeOK
<1>6. CASE SignOut(d)
  <2>1. /\ Leave(d, "landing", calls[d]) /\ user' = [user EXCEPT ![d] = Nobody]
        /\ UNCHANGED <<storeVars, due, queueVars, trouble, risks, taps>>
    BY <1>6 DEF SignOut
  <2>2. user' \in [Phone -> auth \cup {Nobody}]
    BY <2>1 DEF TypeInv, TypeOK
  <2>3. QED
    BY <1>3, <1>4, <2>1, <2>2
<1>7. ASSUME NEW p \in {"signup", "login"}, OpenPage(d, p)
      PROVE  TypeInv'
  <2>1. /\ Leave(d, p, calls[d]) /\ user' = user
        /\ UNCHANGED <<storeVars, due, queueVars, trouble, risks, taps>>
    BY <1>7 DEF OpenPage
  <2>2. QED
    BY <1>3, <1>4, <2>1 DEF TypeInv, TypeOK
<1>8. ASSUME NEW role \in Role, RoleTapped(d, role)
      PROVE  TypeInv'
  <2> DEFINE f == [s \in Slot |-> IF calls[d][s].here THEN [calls[d][s] EXCEPT !.role = role]
                                                     ELSE calls[d][s]]
  <2>1. /\ chosen' = [chosen EXCEPT ![d] = role]
        /\ calls' = [calls EXCEPT ![d] = f]
        /\ UNCHANGED <<storeVars, page, user, due, queueVars, trouble, risks, taps>>
    BY <1>8 DEF RoleTapped, TypeInv
  <2>2. \A s \in Slot : f[s] \in Sound
    BY <1>0, IdleSound, SoundChanged
  <2>3. f \in [Slot -> Sound']
    BY <2>1, <2>2, SoundMore
  <2> HIDE DEF f
  <2>4. calls' \in [Phone -> [Slot -> Sound']]
    BY <2>1, <2>3, CallsOf
  <2>5. chosen' \in [Phone -> Role \cup {Nobody}]
    BY <2>1 DEF TypeInv, TypeOK
  <2>6. QED
    BY <2>1, <2>4, <2>5, TypesTogether DEF TypeInv, TypeOK
<1>9. QED
  BY <1>1, <1>2, <1>5, <1>6, <1>7, <1>8
(* One call of one phone changes. *)
LEMMA CallAt ==
  ASSUME TypeInv, NEW d \in Phone, NEW s \in Slot, NEW c \in Sound', auth \subseteq auth',
         calls' = [calls EXCEPT ![d] = [@ EXCEPT ![s] = c]]
  PROVE  /\ calls' \in [Phone -> [Slot -> Sound']]
         /\ calls'[d][s] = c
         /\ \A t \in Slot : t # s => calls'[d][t] = calls[d][t]
         /\ \A e \in Phone \ {d} : calls'[e] = calls[e]
<1> DEFINE f == [calls[d] EXCEPT ![s] = c]
<1>1. calls[d] \in [Slot -> Sound] /\ Sound \subseteq Sound'
  BY SoundMore DEF TypeInv
<1>2. f \in [Slot -> Sound'] /\ f[s] = c /\ \A t \in Slot : t # s => f[t] = calls[d][t]
  BY <1>1
<1>3. calls' = [calls EXCEPT ![d] = f]
  BY DEF TypeInv
<1> HIDE DEF f
<1>4. QED
  BY <1>2, <1>3, CallsOf

(* A tap on Sign Up or Login. *)
LEMMA Tapped ==
  ASSUME TypeInv, NEW d \in Phone, NEW s \in Slot, NEW c \in Sound, Tap(d, s, c), taps \in Nat
  PROVE  /\ calls' \in [Phone -> [Slot -> Sound']]
         /\ calls[d][s] = Idle /\ calls'[d][s] = c
         /\ \A t \in Slot : t # s => calls'[d][t] = calls[d][t]
         /\ \A e \in Phone \ {d} : calls'[e] = calls[e]
         /\ taps' \in Nat
         /\ UNCHANGED <<storeVars, pageVars, user, due, queueVars, risks>>
<1>1. /\ calls' = [calls EXCEPT ![d] = [@ EXCEPT ![s] = c]] /\ taps' = taps + 1
      /\ calls[d][s] = Idle
      /\ UNCHANGED <<storeVars, pageVars, user, due, queueVars, risks>>
  BY DEF Tap
<1>2. auth' = auth /\ c \in Sound'
  BY <1>1, SoundMore DEF storeVars
<1>3. taps' \in Nat
  BY <1>1
<1>4. /\ calls' \in [Phone -> [Slot -> Sound']]
      /\ calls'[d][s] = c
      /\ \A t \in Slot : t # s => calls'[d][t] = calls[d][t]
      /\ \A e \in Phone \ {d} : calls'[e] = calls[e]
  BY <1>1, <1>2, CallAt
<1>5. QED
  BY <1>1, <1>3, <1>4

LEMMA SignupTappedStep ==
  ASSUME TypeInv, NEW d \in Phone, NEW s \in Slot, NEW u \in Person, SignupTapped(d, s, u)
  PROVE  /\ TypeInv'
         /\ page[d] = "signup"
         /\ trouble' = [trouble EXCEPT ![d] = @ \cup {x \in {"raced"} : Busy(d)}]
         /\ calls[d][s] = Idle /\ calls'[d][s].op = "create"
         /\ \A t \in Slot : t # s => calls'[d][t] = calls[d][t]
         /\ \A e \in Phone \ {d} : calls'[e] = calls[e]
         /\ UNCHANGED <<storeVars, pageVars, user, due, queueVars, risks>>
<1> DEFINE c == [op |-> "create", who |-> u, role |-> chosen[d], here |-> TRUE]
<1>1. /\ page[d] = "signup" /\ chosen[d] # Nobody /\ Tap(d, s, c)
      /\ trouble' = [trouble EXCEPT ![d] = @ \cup {x \in {"raced"} : Busy(d)}]
  BY DEF SignupTapped
<1>2. chosen[d] \in Role
  BY <1>1 DEF TypeInv, TypeOK
<1>3. c \in Sound /\ c.op = "create"
  BY <1>2 DEF Sound, Call
<1>4. taps \in Nat
  BY DEF TypeInv, TypeOK
<1> HIDE DEF c
<1>5. /\ calls' \in [Phone -> [Slot -> Sound']]
      /\ calls[d][s] = Idle /\ calls'[d][s] = c
      /\ \A t \in Slot : t # s => calls'[d][t] = calls[d][t]
      /\ \A e \in Phone \ {d} : calls'[e] = calls[e]
      /\ taps' \in Nat
      /\ UNCHANGED <<storeVars, pageVars, user, due, queueVars, risks>>
  BY <1>1, <1>3, <1>4, Tapped
<1>6. trouble' \in [Phone -> SUBSET Troubles]
  BY <1>1 DEF TypeInv, TypeOK, Troubles
<1>7. TypeInv'
  BY <1>5, <1>6, TypesTogether DEF TypeInv, TypeOK, storeVars, pageVars, queueVars
<1>8. QED
  BY <1>1, <1>3, <1>5, <1>7

LEMMA LoginTappedStep ==
  ASSUME TypeInv, NEW d \in Phone, NEW s \in Slot, NEW u \in Person, LoginTapped(d, s, u)
  PROVE  /\ TypeInv'
         /\ page[d] = "login"
         /\ trouble' = [trouble EXCEPT ![d] = {x \in {"raced"} : Busy(d)}]
         /\ calls[d][s] = Idle /\ calls'[d][s].op = "signIn"
         /\ \A t \in Slot : t # s => calls'[d][t] = calls[d][t]
         /\ \A e \in Phone \ {d} : calls'[e] = calls[e]
         /\ UNCHANGED <<storeVars, pageVars, user, due, queueVars, risks>>
<1> DEFINE c == [op |-> "signIn", who |-> u, role |-> Nobody, here |-> TRUE]
<1>1. /\ page[d] = "login" /\ Tap(d, s, c)
      /\ trouble' = [trouble EXCEPT ![d] = {x \in {"raced"} : Busy(d)}]
  BY DEF LoginTapped
<1>2. c \in Sound /\ c.op = "signIn"
  BY DEF Sound, Call
<1>3. taps \in Nat
  BY DEF TypeInv, TypeOK
<1> HIDE DEF c
<1>4. /\ calls' \in [Phone -> [Slot -> Sound']]
      /\ calls[d][s] = Idle /\ calls'[d][s] = c
      /\ \A t \in Slot : t # s => calls'[d][t] = calls[d][t]
      /\ \A e \in Phone \ {d} : calls'[e] = calls[e]
      /\ taps' \in Nat
      /\ UNCHANGED <<storeVars, pageVars, user, due, queueVars, risks>>
  BY <1>1, <1>2, <1>3, Tapped
<1>5. trouble' \in [Phone -> SUBSET Troubles]
  BY <1>1 DEF TypeInv, TypeOK, Troubles
<1>6. TypeInv'
  BY <1>4, <1>5, TypesTogether DEF TypeInv, TypeOK, storeVars, pageVars, queueVars
<1>7. QED
  BY <1>1, <1>2, <1>4, <1>6

LEMMA CreateStep ==
  ASSUME TypeInv, NEW d \in Phone, NEW s \in Slot, Create(d, s)
  PROVE  /\ TypeInv'
         /\ calls[d][s].op = "create" /\ calls[d][s] # Idle
         /\ calls[d][s].who \in Person \ auth /\ calls[d][s].role \in Role
         /\ auth' = auth \cup {calls[d][s].who}
         /\ user' = [user EXCEPT ![d] = calls[d][s].who]
         /\ calls'[d][s].op = "created"
         /\ calls'[d][s].who = calls[d][s].who /\ calls'[d][s].role = calls[d][s].role
         /\ \A t \in Slot : t # s => calls'[d][t] = calls[d][t]
         /\ \A e \in Phone \ {d} : calls'[e] = calls[e]
         /\ UNCHANGED <<docs, nodes, routines, pageVars, queueVars, trouble, risks>>
<1> DEFINE b == calls[d][s]
           c == [b EXCEPT !.op = "created"]
<1>1. /\ b.op = "create" /\ b.who \notin auth /\ auth' = auth \cup {b.who}
      /\ user' = [user EXCEPT ![d] = b.who]
      /\ calls' = [calls EXCEPT ![d][s].op = "created"]
      /\ due' = [due EXCEPT ![d] = Append(@, s)]
      /\ UNCHANGED <<docs, nodes, routines, pageVars, queueVars, trouble, risks, taps>>
  BY DEF Create
<1>2. b \in Sound /\ b # Idle
  BY <1>1, IdleSound DEF TypeInv
<1>3. b \in Call /\ b.who \in Person /\ b.role \in Role
  BY <1>1, <1>2 DEF Sound
<1>4. c \in Call /\ c.op = "created" /\ c.who = b.who /\ c.role = b.role
  BY <1>3 DEF Call
<1>5. calls' = [calls EXCEPT ![d] = [@ EXCEPT ![s] = c]]
  BY <1>1 DEF TypeInv
<1> HIDE DEF b, c
<1>6. c \in Sound' /\ auth \subseteq auth'
  <2>1. auth \subseteq auth' /\ c.who \in auth'
    BY <1>1, <1>4
  <2>2. QED
    BY <1>3, <1>4, <2>1 DEF Sound
<1>7. /\ calls' \in [Phone -> [Slot -> Sound']]
      /\ calls'[d][s] = c
      /\ \A t \in Slot : t # s => calls'[d][t] = calls[d][t]
      /\ \A e \in Phone \ {d} : calls'[e] = calls[e]
  BY <1>5, <1>6, CallAt
<1>8. /\ auth' \in SUBSET Person
      /\ user' \in [Phone -> auth' \cup {Nobody}]
  BY <1>1, <1>3 DEF TypeInv, TypeOK
<1>9. due' \in [Phone -> Seq(Slot)]
  <2>1. Append(due[d], s) \in Seq(Slot)
    BY AppendProperties DEF TypeInv, TypeOK
  <2>2. QED
    BY <1>1, <2>1 DEF TypeInv, TypeOK
<1>10. TypeInv'
  BY <1>1, <1>7, <1>8, <1>9, TypesTogether DEF TypeInv, TypeOK, pageVars, queueVars
<1>11. QED
  BY <1>1, <1>2, <1>3, <1>4, <1>7, <1>10 DEF b

LEMMA CreateRefusedStep ==
  ASSUME TypeInv, NEW d \in Phone, NEW s \in Slot, CreateRefused(d, s)
  PROVE  /\ TypeInv'
         /\ auth \subseteq auth'
         /\ calls'[d] = Answered(d, s)
         /\ \A e \in Phone \ {d} : calls'[e] = calls[e]
         /\ \A u \in Person : risks[u] \subseteq risks'[u]
         /\ UNCHANGED <<docs, nodes, routines, pageVars, user, due, queueVars, trouble>>
<1>1. /\ calls[d][s].op = "create"
      /\ auth' \in {auth, auth \cup {calls[d][s].who}}
      /\ Drop(d, s) /\ Mark(auth' \ auth, "lost")
      /\ UNCHANGED <<docs, nodes, routines, user, due, queueVars, trouble, taps>>
  BY DEF CreateRefused
<1>2. calls[d][s].who \in Person
  BY <1>1 DEF TypeInv, Sound
<1>3. auth \subseteq auth' /\ auth' \in SUBSET Person
  BY <1>1, <1>2 DEF TypeInv, TypeOK
<1>4. /\ calls' \in [Phone -> [Slot -> Sound']]
      /\ calls'[d] = Answered(d, s)
      /\ \A e \in Phone \ {d} : calls'[e] = calls[e]
      /\ page' = page /\ chosen' = chosen
  BY <1>1, <1>3, Dropped
<1>5. /\ risks' \in [Person -> SUBSET Risks]
      /\ \A u \in Person : risks[u] \subseteq risks'[u]
  BY <1>1, Marked DEF TypeInv, Risks
<1>6. user' \in [Phone -> auth' \cup {Nobody}]
  BY <1>1, <1>3 DEF TypeInv, TypeOK
<1>7. TypeInv'
  BY <1>1, <1>3, <1>4, <1>5, <1>6, TypesTogether DEF TypeInv, TypeOK, queueVars
<1>8. QED
  BY <1>1, <1>3, <1>4, <1>5, <1>7 DEF pageVars
(* A call is answered for good, its page left or not. *)
LEMMA DoneWith ==
  ASSUME TypeInv, NEW d \in Phone, NEW s \in Slot, NEW p \in Pages, auth' = auth,
         \/ calls[d][s].here /\ Leave(d, p, Answered(d, s))
         \/ ~calls[d][s].here /\ Drop(d, s)
  PROVE  /\ page' \in [Phone -> Pages]
         /\ chosen' \in [Phone -> Role \cup {Nobody}]
         /\ calls' \in [Phone -> [Slot -> Sound']]
         /\ \/ page'[d] = p
            \/ page'[d] = page[d]
         /\ calls'[d][s] = Idle
         /\ Fewer(d)
         /\ \A e \in Phone \ {d} : page'[e] = page[e] /\ calls'[e] = calls[e]
<1>1. /\ Answered(d, s) \in [Slot -> Sound]
      /\ Answered(d, s)[s] = Idle
      /\ \A t \in Slot : t # s => Answered(d, s)[t] = calls[d][t]
  BY AnsweredSound
<1> DEFINE rest == Answered(d, s)
<1> HIDE DEF rest
<1>2. CASE Leave(d, p, Answered(d, s))
  <2>0. rest \in [Slot -> Sound] /\ Leave(d, p, rest)
    BY <1>1, <1>2 DEF rest
  <2>1. /\ page' \in [Phone -> Pages]
        /\ chosen' \in [Phone -> Role \cup {Nobody}]
        /\ calls' \in [Phone -> [Slot -> Sound']]
        /\ page'[d] = p
        /\ \A e \in Phone \ {d} : page'[e] = page[e] /\ calls'[e] = calls[e]
        /\ \A t \in Slot : /\ rest[t] = Idle => calls'[d][t] = Idle
                           /\ rest[t] # Idle => /\ calls'[d][t].op = rest[t].op
                                                /\ calls'[d][t].who = rest[t].who
    BY <2>0, Left
  <2>2. Fewer(d) /\ calls'[d][s] = Idle
    BY <1>1, <2>1 DEF Fewer, rest
  <2>3. QED
    BY <2>1, <2>2
<1>3. CASE Drop(d, s)
  <2>1. /\ calls' \in [Phone -> [Slot -> Sound']]
        /\ calls'[d] = Answered(d, s)
        /\ \A e \in Phone \ {d} : calls'[e] = calls[e]
        /\ page' = page /\ chosen' = chosen
    BY <1>3, Dropped
  <2>2. Fewer(d) /\ calls'[d][s] = Idle
    BY <1>1, <2>1 DEF Fewer
  <2>3. QED
    BY <2>1, <2>2 DEF TypeInv, TypeOK
<1>4. QED
  BY <1>2, <1>3

LEMMA CreatedStep ==
  ASSUME TypeInv, NEW d \in Phone, NEW s \in Slot, Created(d, s)
  PROVE  /\ TypeInv'
         /\ calls[d][s].op = "created" /\ calls[d][s] # Idle
         /\ calls[d][s].who \in auth /\ calls[d][s].role \in Role
         /\ user[d] \in auth /\ user[d] # Nobody
         /\ docQueue' = [docQueue EXCEPT ![d] =
              @ \cup {[by |-> user[d], who |-> calls[d][s].who, role |-> calls[d][s].role]}]
         /\ nodeQueue' = [nodeQueue EXCEPT ![d] =
              Append(@, [who |-> user[d], role |-> calls[d][s].role])]
         /\ page'[d] \in {"landing", page[d]}
         /\ calls'[d][s] = Idle
         /\ Fewer(d)
         /\ \A e \in Phone \ {d} : page'[e] = page[e] /\ calls'[e] = calls[e]
         /\ \A u \in Person : risks[u] \subseteq risks'[u]
         /\ user[d] # calls[d][s].who =>
              "mixed" \in risks'[user[d]] /\ "mixed" \in risks'[calls[d][s].who]
         /\ UNCHANGED <<storeVars, user, trouble>>
<1> DEFINE c == calls[d][s]
           us == IF user[d] = c.who THEN {} ELSE {user[d], c.who}
<1>1. /\ c.op = "created" /\ user[d] # Nobody /\ Runs(d, s)
      /\ docQueue' = [docQueue EXCEPT ![d] = @ \cup {[by |-> user[d], who |-> c.who, role |-> c.role]}]
      /\ nodeQueue' = [nodeQueue EXCEPT ![d] = Append(@, [who |-> user[d], role |-> c.role])]
      /\ Mark(us, "mixed")
      /\ \/ c.here /\ Leave(d, "landing", Answered(d, s))
         \/ ~c.here /\ Drop(d, s)
      /\ UNCHANGED <<storeVars, user, trouble, taps>>
  BY DEF Created
<1>2. c \in Sound /\ c # Idle
  BY <1>1, IdleSound DEF TypeInv
<1>3. c.who \in auth /\ c.role \in Role /\ c.who \in Person
  BY <1>1, <1>2 DEF Sound
<1>4. user[d] \in auth /\ user[d] \in Person
  BY <1>1 DEF TypeInv, TypeOK
<1>5. "landing" \in Pages /\ "mixed" \in Risks /\ auth' = auth
  BY <1>1 DEF Pages, Risks, storeVars
<1>6. /\ page' \in [Phone -> Pages]
      /\ chosen' \in [Phone -> Role \cup {Nobody}]
      /\ calls' \in [Phone -> [Slot -> Sound']]
      /\ page'[d] \in {"landing", page[d]}
      /\ calls'[d][s] = Idle
      /\ Fewer(d)
      /\ \A e \in Phone \ {d} : page'[e] = page[e] /\ calls'[e] = calls[e]
  <2>1. \/ calls[d][s].here /\ Leave(d, "landing", Answered(d, s))
        \/ ~calls[d][s].here /\ Drop(d, s)
    BY <1>1
  <2>2. QED
    BY <1>5, <2>1, DoneWith
<1>7. docQueue' \in [Phone -> SUBSET Doc]
  <2>1. [by |-> user[d], who |-> c.who, role |-> c.role] \in Doc
    BY <1>3, <1>4 DEF Doc
  <2>2. QED
    BY <1>1, <2>1 DEF TypeInv, TypeOK
<1>8. nodeQueue' \in [Phone -> Seq(Node)]
  <2>1. [who |-> user[d], role |-> c.role] \in Node
    BY <1>3, <1>4 DEF Node
  <2>2. Append(nodeQueue[d], [who |-> user[d], role |-> c.role]) \in Seq(Node)
    BY <2>1, AppendProperties DEF TypeInv, TypeOK
  <2>3. QED
    BY <1>1, <2>2 DEF TypeInv, TypeOK
<1>9. due' \in [Phone -> Seq(Slot)]
  BY <1>1, Ran
<1>10. /\ risks' \in [Person -> SUBSET Risks]
       /\ \A u \in Person : risks[u] \subseteq risks'[u]
       /\ \A u \in Person : u \in us => "mixed" \in risks'[u]
  <2> HIDE DEF us
  <2>1. TypeOK
    BY DEF TypeInv
  <2>2. QED
    BY <1>1, <1>5, <2>1, Marked
<1>11. TypeInv'
  BY <1>1, <1>6, <1>7, <1>8, <1>9, <1>10, TypesTogether DEF TypeInv, TypeOK, storeVars
<1>12. QED
  BY <1>1, <1>2, <1>3, <1>4, <1>6, <1>10, <1>11

LEMMA CreatedCrashStep ==
  ASSUME TypeInv, NEW d \in Phone, NEW s \in Slot, CreatedCrash(d, s)
  PROVE  /\ TypeInv'
         /\ calls[d][s].op = "created" /\ calls[d][s] # Idle
         /\ calls[d][s].who \in auth /\ calls[d][s].role \in Role
         /\ user[d] = Nobody
         /\ docQueue' = [docQueue EXCEPT ![d] =
              @ \cup {[by |-> Nobody, who |-> calls[d][s].who, role |-> calls[d][s].role]}]
         /\ page'[d] = "crashed" /\ nodeQueue'[d] = << >>
         /\ \A t \in Slot : calls'[d][t] = Idle
         /\ \A e \in Phone \ {d} :
              page'[e] = page[e] /\ calls'[e] = calls[e] /\ nodeQueue'[e] = nodeQueue[e]
         /\ \A u \in Person : risks[u] \subseteq risks'[u]
         /\ UNCHANGED <<storeVars, user, trouble>>
<1> DEFINE c == calls[d][s]
<1>1. /\ c.op = "created" /\ user[d] = Nobody
      /\ docQueue' = [docQueue EXCEPT ![d] = @ \cup {[by |-> Nobody, who |-> c.who, role |-> c.role]}]
      /\ Stop(d, "crashed")
      /\ UNCHANGED <<storeVars, user, trouble, taps>>
  BY DEF CreatedCrash
<1>2. c \in Sound /\ c # Idle
  BY <1>1, IdleSound DEF TypeInv
<1>3. c.who \in auth /\ c.role \in Role /\ c.who \in Person
  BY <1>1, <1>2 DEF Sound
<1>4. /\ page' \in [Phone -> Pages]
      /\ chosen' \in [Phone -> Role \cup {Nobody}]
      /\ calls' \in [Phone -> [Slot -> Sound']]
      /\ due' \in [Phone -> Seq(Slot)]
      /\ nodeQueue' \in [Phone -> Seq(Node)]
      /\ risks' \in [Person -> SUBSET Risks]
      /\ page'[d] = "crashed" /\ nodeQueue'[d] = << >>
      /\ \A t \in Slot : calls'[d][t] = Idle
      /\ \A e \in Phone \ {d} :
           page'[e] = page[e] /\ calls'[e] = calls[e] /\ nodeQueue'[e] = nodeQueue[e]
      /\ \A u \in Person : risks[u] \subseteq risks'[u]
  BY <1>1, Stopped DEF storeVars
<1>5. docQueue' \in [Phone -> SUBSET Doc]
  <2>1. [by |-> Nobody, who |-> c.who, role |-> c.role] \in Doc
    BY <1>3 DEF Doc
  <2>2. QED
    BY <1>1, <2>1 DEF TypeInv, TypeOK
<1>6. TypeInv'
  BY <1>1, <1>4, <1>5, TypesTogether DEF TypeInv, TypeOK, storeVars
<1>7. QED
  BY <1>1, <1>2, <1>3, <1>4, <1>6
(* The writes: nothing of the phone's pages. *)
LEMMA TypeWrites ==
  ASSUME TypeInv, NEW d \in Phone,
         \/ \E w \in Doc : DocStored(d, w) \/ DocRefused(d, w)
         \/ NodeStored(d) \/ NodeAnswerLost(d) \/ NodeRefused(d)
  PROVE  /\ TypeInv'
         /\ UNCHANGED <<auth, pageVars, user, callVars, trouble>>
         /\ \A u \in Person : risks[u] \subseteq risks'[u]
<1> USE DEF storeVars, queueVars, pageVars, callVars
<1>1. ASSUME NEW w \in Doc, DocStored(d, w)
      PROVE  TypeInv' /\ UNCHANGED <<auth, pageVars, user, callVars, trouble, risks>>
  <2>1. /\ docQueue' = [docQueue EXCEPT ![d] = @ \ {w}] /\ docs' = [docs EXCEPT ![w.who] = w.role]
        /\ UNCHANGED <<auth, nodes, routines, pageVars, user, callVars, nodeQueue, trouble, risks, taps>>
    BY <1>1 DEF DocStored
  <2>2. w.role \in Role
    BY DEF Doc
  <2>3. docQueue' \in [Phone -> SUBSET Doc] /\ docs' \in [Person -> Role \cup {Nobody}]
    BY <2>1, <2>2 DEF TypeInv, TypeOK
  <2>4. calls' \in [Phone -> [Slot -> Sound']]
    BY <2>1, CallsKept
  <2>5. TypeInv'
    BY <2>1, <2>3, <2>4, TypesTogether DEF TypeInv, TypeOK
  <2>6. QED
    BY <2>1, <2>5
<1>2. ASSUME NEW w \in Doc, DocRefused(d, w)
      PROVE  /\ TypeInv' /\ UNCHANGED <<auth, pageVars, user, callVars, trouble>>
             /\ \A u \in Person : risks[u] \subseteq risks'[u]
  <2>1. /\ docQueue' = [docQueue EXCEPT ![d] = @ \ {w}] /\ Mark({w.who}, "lost")
        /\ UNCHANGED <<storeVars, pageVars, user, callVars, nodeQueue, trouble, taps>>
    BY <1>2 DEF DocRefused
  <2>2. docQueue' \in [Phone -> SUBSET Doc]
    BY <2>1 DEF TypeInv, TypeOK
  <2>3. calls' \in [Phone -> [Slot -> Sound']]
    BY <2>1, CallsKept
  <2>4. risks' \in [Person -> SUBSET Risks] /\ \A u \in Person : risks[u] \subseteq risks'[u]
    BY <2>1, Marked DEF TypeInv, Risks
  <2>5. TypeInv'
    BY <2>1, <2>2, <2>3, <2>4, TypesTogether DEF TypeInv, TypeOK
  <2>6. QED
    BY <2>1, <2>4, <2>5
<1>3. ASSUME nodeQueue[d] # << >>, nodeQueue' = [nodeQueue EXCEPT ![d] = Tail(@)]
      PROVE  nodeQueue' \in [Phone -> Seq(Node)] /\ Head(nodeQueue[d]) \in Node
  <2>1. Tail(nodeQueue[d]) \in Seq(Node) /\ Head(nodeQueue[d]) \in Node
    BY <1>3, HeadTailProperties DEF TypeInv, TypeOK
  <2>2. QED
    BY <1>3, <2>1 DEF TypeInv, TypeOK
<1>4. CASE NodeStored(d)
  <2> DEFINE w == Head(nodeQueue[d])
  <2>1. /\ nodeQueue[d] # << >> /\ nodeQueue' = [nodeQueue EXCEPT ![d] = Tail(@)]
        /\ nodes' = [nodes EXCEPT ![w.who] = w.role] /\ routines' = routines \ {w.who}
        /\ UNCHANGED <<auth, docs, pageVars, user, callVars, docQueue, trouble, risks, taps>>
    BY <1>4 DEF NodeStored
  <2>2. nodeQueue' \in [Phone -> Seq(Node)] /\ w.role \in Role
    BY <1>3, <2>1 DEF Node
  <2> HIDE DEF w
  <2>3. nodes' \in [Person -> Role \cup {Nobody}] /\ routines' \in SUBSET Person
    BY <2>1, <2>2 DEF TypeInv, TypeOK
  <2>4. calls' \in [Phone -> [Slot -> Sound']]
    BY <2>1, CallsKept
  <2>5. TypeInv'
    BY <2>1, <2>2, <2>3, <2>4, TypesTogether DEF TypeInv, TypeOK
  <2>6. QED
    BY <2>1, <2>5
<1>5. CASE NodeRefused(d)
  <2>1. /\ nodeQueue[d] # << >> /\ nodeQueue' = [nodeQueue EXCEPT ![d] = Tail(@)]
        /\ Mark({Head(nodeQueue[d]).who}, "lost")
        /\ UNCHANGED <<storeVars, pageVars, user, callVars, docQueue, trouble, taps>>
    BY <1>5 DEF NodeRefused
  <2>2. nodeQueue' \in [Phone -> Seq(Node)]
    BY <1>3, <2>1
  <2>3. calls' \in [Phone -> [Slot -> Sound']]
    BY <2>1, CallsKept
  <2>4. risks' \in [Person -> SUBSET Risks] /\ \A u \in Person : risks[u] \subseteq risks'[u]
    BY <2>1, Marked DEF TypeInv, Risks
  <2>5. TypeInv'
    BY <2>1, <2>2, <2>3, <2>4, TypesTogether DEF TypeInv, TypeOK
  <2>6. QED
    BY <2>1, <2>4, <2>5
<1>6. CASE NodeAnswerLost(d)
  <2>1. PICK w \in ToSet(nodeQueue[d]) :
          nodes' = [nodes EXCEPT ![w.who] = w.role] /\ routines' = routines \ {w.who}
    BY <1>6 DEF NodeAnswerLost
  <2>2. UNCHANGED <<auth, docs, pageVars, user, callVars, queueVars, trouble, risks, taps>>
    BY <1>6 DEF NodeAnswerLost
  <2>3. w \in Node
    BY DEF ToSet, TypeInv, TypeOK
  <2>4. nodes' \in [Person -> Role \cup {Nobody}] /\ routines' \in SUBSET Person
    BY <2>1, <2>3 DEF Node, TypeInv, TypeOK
  <2>5. calls' \in [Phone -> [Slot -> Sound']]
    BY <2>2, CallsKept
  <2>6. TypeInv'
    BY <2>2, <2>4, <2>5, TypesTogether DEF TypeInv, TypeOK
  <2>7. QED
    BY <2>2, <2>6
<1>7. QED
  BY <1>1, <1>2, <1>4, <1>5, <1>6

LEMMA TypeAssign ==
  ASSUME TypeInv, NEW u \in Person, Assign(u)
  PROVE  /\ TypeInv'
         /\ UNCHANGED <<auth, docs, nodes, pageVars, user, callVars, queueVars, trouble>>
         /\ routines' = routines \cup {u} /\ docs[u] # Nobody
         /\ \A v \in Person : risks[v] \subseteq risks'[v]
         /\ \A d \in Phone : \A w \in ToSet(nodeQueue[d]) : w.who = u => "early" \in risks'[u]
<1> DEFINE us == {u} \cap {w.who : w \in UNION {ToSet(nodeQueue[e]) : e \in Phone}}
<1>1. /\ routines' = routines \cup {u} /\ docs[u] = "patient" /\ Mark(us, "early")
      /\ UNCHANGED <<auth, docs, nodes, pageVars, user, callVars, queueVars, trouble, taps>>
  BY DEF Assign
<1>2. \A d \in Phone : \A w \in ToSet(nodeQueue[d]) : w.who = u => u \in us
  OBVIOUS
<1> HIDE DEF us
<1>3. calls' \in [Phone -> [Slot -> Sound']]
  BY <1>1, CallsKept DEF callVars
<1>4. /\ risks' \in [Person -> SUBSET Risks] /\ \A v \in Person : risks[v] \subseteq risks'[v]
      /\ u \in us => "early" \in risks'[u]
  BY <1>1, Marked DEF TypeInv, Risks
<1>5. TypeInv'
  BY <1>1, <1>3, <1>4, TypesTogether DEF TypeInv, TypeOK, pageVars, callVars, queueVars
<1>6. docs[u] # Nobody
  BY <1>1, NobodyElse DEF Role
<1>7. QED
  BY <1>1, <1>2, <1>4, <1>5, <1>6

LEMMA SignInStep ==
  ASSUME TypeInv, NEW d \in Phone, NEW s \in Slot, SignIn(d, s)
  PROVE  /\ TypeInv'
         /\ calls[d][s] # Idle /\ calls[d][s].who \in auth /\ calls[d][s].who # Nobody
         /\ user' = [user EXCEPT ![d] = calls[d][s].who]
         /\ calls'[d][s].op = "signedIn" /\ calls'[d][s] # Idle
         /\ \A t \in Slot : t # s => calls'[d][t] = calls[d][t]
         /\ \A e \in Phone \ {d} : calls'[e] = calls[e]
         /\ UNCHANGED <<storeVars, pageVars, queueVars, trouble, risks>>
<1> DEFINE b == calls[d][s]
           c == [b EXCEPT !.op = "signedIn"]
<1>1. /\ b.op = "signIn" /\ b.who \in auth
      /\ user' = [user EXCEPT ![d] = b.who]
      /\ calls' = [calls EXCEPT ![d][s].op = "signedIn"]
      /\ due' = [due EXCEPT ![d] = Append(@, s)]
      /\ UNCHANGED <<storeVars, pageVars, queueVars, trouble, risks, taps>>
  BY DEF SignIn
<1>2. b \in Sound /\ b # Idle
  BY <1>1, IdleSound DEF TypeInv
<1>3. b \in Call /\ b.who \in Person /\ b.who # Nobody
  BY <1>1, <1>2, NobodyElse DEF Sound
<1>4. c \in Call /\ c.op = "signedIn"
  BY <1>3 DEF Call
<1>5. calls' = [calls EXCEPT ![d] = [@ EXCEPT ![s] = c]]
  BY <1>1 DEF TypeInv
<1> HIDE DEF b, c
<1>6. c \in Sound' /\ auth' = auth /\ c # Idle
  BY <1>1, <1>4, IdleSound DEF Sound, storeVars
<1>7. /\ calls' \in [Phone -> [Slot -> Sound']]
      /\ calls'[d][s] = c
      /\ \A t \in Slot : t # s => calls'[d][t] = calls[d][t]
      /\ \A e \in Phone \ {d} : calls'[e] = calls[e]
  BY <1>5, <1>6, CallAt
<1>8. user' \in [Phone -> auth' \cup {Nobody}]
  BY <1>1, <1>6 DEF TypeInv, TypeOK
<1>9. due' \in [Phone -> Seq(Slot)]
  <2>1. Append(due[d], s) \in Seq(Slot)
    BY AppendProperties DEF TypeInv, TypeOK
  <2>2. QED
    BY <1>1, <2>1 DEF TypeInv, TypeOK
<1>10. TypeInv'
  BY <1>1, <1>7, <1>8, <1>9, TypesTogether DEF TypeInv, TypeOK, storeVars, pageVars, queueVars
<1>11. QED
  BY <1>1, <1>2, <1>3, <1>4, <1>6, <1>7, <1>10 DEF b

LEMMA SignedInStep ==
  ASSUME TypeInv, NEW d \in Phone, NEW s \in Slot, SignedIn(d, s)
  PROVE  /\ TypeInv'
         /\ calls[d][s] # Idle
         /\ calls'[d][s].op = "query" /\ calls'[d][s].who = user[d]
         /\ \A t \in Slot : t # s => calls'[d][t] = calls[d][t]
         /\ \A e \in Phone \ {d} : calls'[e] = calls[e]
         /\ UNCHANGED <<storeVars, pageVars, user, queueVars, trouble, risks>>
<1> DEFINE b == calls[d][s]
           c == [b EXCEPT !.op = "query", !.who = user[d]]
<1>1. /\ b.op = "signedIn" /\ Runs(d, s)
      /\ calls' = [calls EXCEPT ![d][s].op = "query", ![d][s].who = user[d]]
      /\ UNCHANGED <<storeVars, pageVars, user, queueVars, trouble, risks, taps>>
  BY DEF SignedIn
<1>2. b \in Sound /\ b # Idle
  BY <1>1, IdleSound DEF TypeInv
<1>3. b \in Call /\ user[d] \in Person \cup {Nobody}
  BY <1>2 DEF Sound, TypeInv, TypeOK
<1>4. c \in Call /\ c.op = "query" /\ c.who = user[d]
  BY <1>3 DEF Call
<1>5. calls' = [calls EXCEPT ![d] = [@ EXCEPT ![s] = c]]
  BY <1>1 DEF TypeInv
<1> HIDE DEF b, c
<1>6. c \in Sound' /\ auth' = auth
  BY <1>1, <1>4 DEF Sound, storeVars
<1>7. /\ calls' \in [Phone -> [Slot -> Sound']]
      /\ calls'[d][s] = c
      /\ \A t \in Slot : t # s => calls'[d][t] = calls[d][t]
      /\ \A e \in Phone \ {d} : calls'[e] = calls[e]
  BY <1>5, <1>6, CallAt
<1>8. due' \in [Phone -> Seq(Slot)]
  BY <1>1, Ran
<1>9. TypeInv'
  BY <1>1, <1>7, <1>8, TypesTogether DEF TypeInv, TypeOK, storeVars, pageVars, queueVars
<1>10. QED
  BY <1>1, <1>2, <1>4, <1>7, <1>9 DEF b

LEMMA SignInFailedStep ==
  ASSUME TypeInv, NEW d \in Phone, NEW s \in Slot, SignInFailed(d, s) \/ NotRouted(d, s)
  PROVE  /\ TypeInv'
         /\ calls'[d] = Answered(d, s)
         /\ \A e \in Phone \ {d} : calls'[e] = calls[e] /\ trouble'[e] = trouble[e]
         /\ trouble[d] \subseteq trouble'[d]
         /\ UNCHANGED <<storeVars, pageVars, user, queueVars, risks>>
<1>1. /\ Drop(d, s) /\ UNCHANGED <<storeVars, user, due, queueVars, risks, taps>>
      /\ trouble' \in {trouble, [trouble EXCEPT ![d] = @ \cup {"failed"}]}
  BY DEF SignInFailed, NotRouted
<1>2. /\ calls' \in [Phone -> [Slot -> Sound']]
      /\ calls'[d] = Answered(d, s)
      /\ \A e \in Phone \ {d} : calls'[e] = calls[e]
      /\ page' = page /\ chosen' = chosen
  BY <1>1, Dropped DEF storeVars
<1>3. /\ trouble' \in [Phone -> SUBSET Troubles] /\ trouble[d] \subseteq trouble'[d]
      /\ \A e \in Phone \ {d} : trouble'[e] = trouble[e]
  <2>1. trouble \in [Phone -> SUBSET Troubles] /\ "failed" \in Troubles
    BY DEF TypeInv, TypeOK, Troubles
  <2>2. CASE trouble' = trouble
    BY <2>1, <2>2
  <2>3. CASE trouble' = [trouble EXCEPT ![d] = @ \cup {"failed"}]
    <3>1. trouble'[d] = trouble[d] \cup {"failed"} /\ trouble[d] \cup {"failed"} \in SUBSET Troubles
      BY <2>1, <2>3
    <3>2. QED
      BY <2>1, <2>3, <3>1
  <2>4. QED
    BY <1>1, <2>2, <2>3
<1>4. TypeInv'
  <2>1. /\ auth' \in SUBSET Person
        /\ docs' \in [Person -> Role \cup {Nobody}] /\ nodes' \in [Person -> Role \cup {Nobody}]
        /\ routines' \in SUBSET Person
    BY <1>1 DEF TypeInv, TypeOK, storeVars
  <2>2. /\ page' \in [Phone -> Pages] /\ chosen' \in [Phone -> Role \cup {Nobody}]
        /\ user' \in [Phone -> auth' \cup {Nobody}]
    BY <1>1, <1>2 DEF TypeInv, TypeOK, storeVars
  <2>3. /\ due' \in [Phone -> Seq(Slot)]
        /\ docQueue' \in [Phone -> SUBSET Doc] /\ nodeQueue' \in [Phone -> Seq(Node)]
        /\ taps' \in Nat /\ risks' \in [Person -> SUBSET Risks]
    BY <1>1 DEF TypeInv, TypeOK, queueVars
  <2>4. QED
    BY <1>2, <1>3, <2>1, <2>2, <2>3, TypesTogether
<1>5. QED
  BY <1>1, <1>2, <1>3, <1>4 DEF pageVars

LEMMA RoutedStep ==
  ASSUME TypeInv, NEW d \in Phone, NEW s \in Slot, Routed(d, s)
  PROVE  /\ TypeInv'
         /\ calls[d][s].op = "query" /\ calls[d][s] # Idle
         /\ calls[d][s].who \in Person /\ docs[calls[d][s].who] # Nobody
         /\ page'[d] \in {Home(docs[calls[d][s].who]), page[d]}
         /\ calls'[d][s] = Idle
         /\ Fewer(d)
         /\ \A e \in Phone \ {d} : page'[e] = page[e] /\ calls'[e] = calls[e]
         /\ UNCHANGED <<storeVars, user, queueVars, trouble, risks>>
<1> DEFINE c == calls[d][s]
           p == Home(docs[c.who])
<1>1. /\ c.op = "query" /\ RoleOf(c.who) # Nobody
      /\ \/ c.here /\ Leave(d, p, Answered(d, s))
         \/ ~c.here /\ Drop(d, s)
      /\ UNCHANGED <<storeVars, user, due, queueVars, trouble, risks, taps>>
  BY DEF Routed
<1>2. c \in Sound /\ c # Idle
  BY <1>1, IdleSound DEF TypeInv
<1>3. c.who \in Person /\ docs[c.who] # Nobody
  BY <1>1, <1>2, IdleSound DEF Sound, Call, RoleOf
<1>4. p \in Pages /\ auth' = auth
  BY <1>1 DEF Pages, Home, storeVars
<1>5. /\ page' \in [Phone -> Pages]
      /\ chosen' \in [Phone -> Role \cup {Nobody}]
      /\ calls' \in [Phone -> [Slot -> Sound']]
      /\ page'[d] \in {p, page[d]}
      /\ calls'[d][s] = Idle
      /\ Fewer(d)
      /\ \A e \in Phone \ {d} : page'[e] = page[e] /\ calls'[e] = calls[e]
  <2> HIDE DEF p
  <2>1. \/ calls[d][s].here /\ Leave(d, p, Answered(d, s))
        \/ ~calls[d][s].here /\ Drop(d, s)
    BY <1>1
  <2>2. QED
    BY <1>4, <2>1, DoneWith
<1>6. TypeInv'
  BY <1>1, <1>5, TypesTogether DEF TypeInv, TypeOK, storeVars, queueVars
<1>7. QED
  BY <1>1, <1>2, <1>3, <1>5, <1>6

LEMMA StepType == TypeInv /\ [Next]_vars => TypeInv'
<1> SUFFICES ASSUME TypeInv, [Next]_vars
             PROVE  TypeInv'
  OBVIOUS
<1>1. ASSUME NEW d \in Phone, PhoneNext(d)
      PROVE  TypeInv'
  BY <1>1, TypePages, TypeWrites, SignupTappedStep, LoginTappedStep, CreateStep, CreateRefusedStep,
     CreatedStep, CreatedCrashStep, SignInStep, SignedInStep, SignInFailedStep, RoutedStep
     DEF PhoneNext
<1>2. ASSUME NEW u \in Person, Assign(u)
      PROVE  TypeInv'
  BY <1>2, TypeAssign
<1>3. CASE UNCHANGED vars
  <2>1. calls' \in [Phone -> [Slot -> Sound']]
    BY <1>3, CallsKept DEF vars, storeVars, callVars
  <2>2. QED
    BY <1>3, <2>1, TypesTogether
       DEF vars, TypeInv, TypeOK, storeVars, pageVars, callVars, queueVars
<1>4. QED
  BY <1>1, <1>2, <1>3 DEF Next

LEMMA TypesAlways == Spec => []TypeInv
BY InitType, StepType, PTL DEF Spec

(* Nobody is ever signed in without an account, and no profile is sent     *)
(* without a role or for nobody.                                           *)
THEOREM AccountsTypeOK == Spec => []TypeOK
<1>1. TypeInv => TypeOK
  BY DEF TypeInv
<1>2. QED
  BY <1>1, TypesAlways, PTL
---------------------------------------------------------------------------
(* The profiles: an account is created once, so that its document is       *)
(* written once and by whoever created it.                                 *)

Minted(d, s) == calls[d][s].op = "created"

OnceInv ==
  /\ \A d, e \in Phone : \A s, t \in Slot :
       Minted(d, s) /\ Minted(e, t) /\ calls[d][s].who = calls[e][t].who => d = e /\ s = t
  /\ \A d, e \in Phone : \A s \in Slot : \A w \in docQueue[e] :
       Minted(d, s) => w.who # calls[d][s].who
  /\ \A d \in Phone : \A s \in Slot : Minted(d, s) => docs[calls[d][s].who] = Nobody
  /\ \A d, e \in Phone : \A w \in docQueue[d] : \A v \in docQueue[e] :
       w.who = v.who => d = e /\ w = v
  /\ \A d \in Phone : \A w \in docQueue[d] : docs[w.who] = Nobody /\ w.who \in auth
  /\ \A u \in Person : docs[u] # Nobody => u \in auth

Sent(d) == ToSet(nodeQueue[d])
Mixed(u) == "mixed" \in risks[u]

(* Wherever a part of an unmixed profile is, it says the same role.        *)
RolesInv ==
  /\ \A d \in Phone : \A v \in Sent(d) : v.who \in auth
  /\ \A u \in Person : nodes[u] # Nobody => u \in auth
  /\ \A d \in Phone : \A s \in Slot :
       Minted(d, s) /\ ~Mixed(calls[d][s].who) =>
         /\ nodes[calls[d][s].who] = Nobody
         /\ \A e \in Phone : \A v \in Sent(e) : v.who # calls[d][s].who
  /\ \A d, e \in Phone : \A w \in docQueue[d] : \A v \in Sent(e) :
       w.who = v.who /\ ~Mixed(w.who) => w.role = v.role
  /\ \A d \in Phone : \A v \in Sent(d) :
       ~Mixed(v.who) => docs[v.who] \in {Nobody, v.role}
  /\ \A d \in Phone : \A w \in docQueue[d] :
       ~Mixed(w.who) => nodes[w.who] \in {Nobody, w.role}
  /\ StoresAgree

(* Routines come after the document, and a node that will wipe them has    *)
(* been noticed.                                                           *)
WipeInv ==
  /\ \A u \in routines : docs[u] # Nobody
  /\ \A d \in Phone : \A v \in Sent(d) :
       v.who \in routines => risks[v.who] \cap {"early", "mixed"} # {}

ProfileInv == OnceInv /\ RolesInv /\ WipeInv

(* Steps that only lose something. *)
Quiet ==
  /\ auth \subseteq auth'
  /\ docs' = docs /\ nodes' = nodes /\ routines' = routines
  /\ \A d \in Phone : docQueue'[d] \subseteq docQueue[d]
  /\ \A d \in Phone : Sent(d)' \subseteq Sent(d)
  /\ \A d \in Phone : \A s \in Slot :
       Minted(d, s)' => Minted(d, s) /\ calls'[d][s].who = calls[d][s].who
  /\ \A u \in Person : risks[u] \subseteq risks'[u]

LEMMA WhoIsPerson ==
  ASSUME TypeInv
  PROVE  /\ \A d \in Phone : \A s \in Slot :
              Minted(d, s) => /\ calls[d][s].who \in Person /\ calls[d][s].who \in auth
                              /\ calls[d][s].role \in Role
         /\ \A d \in Phone : \A w \in docQueue[d] : w \in Doc /\ w.who \in Person /\ w.role \in Role
         /\ \A d \in Phone : \A v \in Sent(d) : v \in Node /\ v.who \in Person /\ v.role \in Role
<1>1. \A d \in Phone : \A s \in Slot : calls[d][s] \in Sound
  BY DEF TypeInv
<1>2. \A d \in Phone : \A v \in Sent(d) : v \in Node
  <2> TAKE d \in Phone
  <2>1. nodeQueue[d] \in Seq(Node)
    BY DEF TypeInv, TypeOK
  <2>2. QED
    BY <2>1, LenProperties, ElementOfSeq DEF Sent, ToSet
<1>3. \A d \in Phone : \A w \in docQueue[d] : w \in Doc
  BY DEF TypeInv, TypeOK
<1>4. QED
  BY <1>1, <1>2, <1>3 DEF Sound, Minted, Doc, Node

LEMMA QuietProfile == TypeInv /\ ProfileInv /\ Quiet => ProfileInv'
<1> SUFFICES ASSUME TypeInv, ProfileInv, Quiet
             PROVE  ProfileInv'
  OBVIOUS
<1>1. OnceInv'
  BY WhoIsPerson DEF ProfileInv, OnceInv, Quiet
<1>2. \A u \in Person : Mixed(u) => Mixed(u)'
  BY DEF Quiet, Mixed
<1>3. StoresAgree'
  BY <1>2 DEF ProfileInv, RolesInv, StoresAgree, Quiet, Mixed
<1>4. RolesInv'
  BY <1>2, <1>3, WhoIsPerson DEF ProfileInv, RolesInv, Quiet
<1>5. WipeInv'
  BY WhoIsPerson DEF ProfileInv, WipeInv, Quiet
<1>6. QED
  BY <1>1, <1>4, <1>5 DEF ProfileInv
LEMMA FewerMinted ==
  ASSUME TypeInv, NEW d \in Phone, Fewer(d), \A e \in Phone \ {d} : calls'[e] = calls[e]
  PROVE  \A e \in Phone : \A s \in Slot :
           Minted(e, s)' => Minted(e, s) /\ calls'[e][s].who = calls[e][s].who
BY IdleSound DEF Fewer, Minted

AtHome(d) == page[d] \in {"patientHome", "physioHome"}

(* Whoever is signed in signs out on a home page. *)
OutOnly(d) ==
  \/ user' = user
  \/ AtHome(d) /\ user' = [user EXCEPT ![d] = Nobody]

(* The pages: calls are kept, marked or forgotten. *)
LEMMA PagesStep ==
  ASSUME TypeInv, NEW d \in Phone,
         \/ OpenApp(d) \/ Kill(d) \/ Back(d) \/ SignOut(d)
         \/ \E p \in {"signup", "login"} : OpenPage(d, p)
         \/ \E role \in Role : RoleTapped(d, role)
  PROVE  /\ Fewer(d)
         /\ page'[d] \in {"landing", "closed", "signup", "login"}
         /\ OutOnly(d)
         /\ \A e \in Phone \ {d} : calls'[e] = calls[e] /\ page'[e] = page[e]
         /\ \A e \in Phone : Sent(e)' \subseteq Sent(e)
         /\ \A u \in Person : risks[u] \subseteq risks'[u]
         /\ UNCHANGED <<storeVars, docQueue, trouble>>
<1> USE DEF storeVars, queueVars, pageVars, callVars
<1>0. calls[d] \in [Slot -> Sound] /\ \A s \in Slot : calls[d][s] \in Sound
  BY DEF TypeInv
<1>1. CASE OpenApp(d)
  <2>1. /\ page' = [page EXCEPT ![d] = "landing"]
        /\ UNCHANGED <<storeVars, user, chosen, callVars, queueVars, trouble, risks, taps>>
    BY <1>1 DEF OpenApp
  <2>2. page'[d] = "landing" /\ \A e \in Phone \ {d} : page'[e] = page[e]
    BY <2>1 DEF TypeInv, TypeOK
  <2>3. Fewer(d) /\ OutOnly(d) /\ \A e \in Phone : Sent(e)' \subseteq Sent(e)
    BY <2>1 DEF Fewer, OutOnly, Sent
  <2>4. QED
    BY <2>1, <2>2, <2>3
<1>2. CASE Kill(d)
  <2>1. Stop(d, "closed") /\ UNCHANGED <<storeVars, user, docQueue, trouble, taps>>
    BY <1>2 DEF Kill
  <2>2. /\ page'[d] = "closed" /\ nodeQueue'[d] = << >>
        /\ \A t \in Slot : calls'[d][t] = Idle
        /\ \A e \in Phone \ {d} :
             page'[e] = page[e] /\ calls'[e] = calls[e] /\ nodeQueue'[e] = nodeQueue[e]
        /\ \A u \in Person : risks[u] \subseteq risks'[u]
    BY <2>1, Stopped
  <2>3. ToSet(<< >>) = {}
    BY DEF ToSet
  <2>4. \A e \in Phone : Sent(e)' \subseteq Sent(e)
    BY <2>2, <2>3 DEF Sent
  <2>5. Fewer(d) /\ OutOnly(d)
    BY <2>1, <2>2 DEF Fewer, OutOnly
  <2>6. QED
    BY <2>1, <2>2, <2>4, <2>5
<1>3. ASSUME NEW p \in {"landing", "signup", "login"}, Leave(d, p, calls[d]),
             OutOnly(d),
             UNCHANGED <<storeVars, due, queueVars, trouble, risks, taps>>
      PROVE  /\ Fewer(d)
             /\ page'[d] \in {"landing", "closed", "signup", "login"}
             /\ OutOnly(d)
             /\ \A e \in Phone \ {d} : calls'[e] = calls[e] /\ page'[e] = page[e]
             /\ \A e \in Phone : Sent(e)' \subseteq Sent(e)
             /\ \A u \in Person : risks[u] \subseteq risks'[u]
             /\ UNCHANGED <<storeVars, docQueue, trouble>>
  <2>1. p \in Pages
    BY DEF Pages
  <2>2. /\ page'[d] = p
        /\ \A e \in Phone \ {d} : page'[e] = page[e] /\ calls'[e] = calls[e]
        /\ \A t \in Slot : /\ calls[d][t] = Idle => calls'[d][t] = Idle
                           /\ calls[d][t] # Idle => /\ calls'[d][t].op = calls[d][t].op
                                                    /\ calls'[d][t].who = calls[d][t].who
    BY <1>0, <1>3, <2>1, Left
  <2>3. Fewer(d)
    BY <2>2 DEF Fewer
  <2>4. QED
    BY <1>3, <2>2, <2>3 DEF Sent
<1>5. CASE Back(d)
  <2>1. /\ Leave(d, "landing", calls[d]) /\ OutOnly(d)
        /\ UNCHANGED <<storeVars, due, queueVars, trouble, risks, taps>>
    BY <1>5 DEF Back, OutOnly
  <2>2. QED
    BY <1>3, <2>1
<1>6. CASE SignOut(d)
  <2>1. /\ Leave(d, "landing", calls[d]) /\ OutOnly(d)
        /\ UNCHANGED <<storeVars, due, queueVars, trouble, risks, taps>>
    BY <1>6 DEF SignOut, OutOnly, AtHome
  <2>2. QED
    BY <1>3, <2>1
<1>7. ASSUME NEW p \in {"signup", "login"}, OpenPage(d, p)
      PROVE  /\ Fewer(d)
             /\ page'[d] \in {"landing", "closed", "signup", "login"}
             /\ OutOnly(d)
             /\ \A e \in Phone \ {d} : calls'[e] = calls[e] /\ page'[e] = page[e]
             /\ \A e \in Phone : Sent(e)' \subseteq Sent(e)
             /\ \A u \in Person : risks[u] \subseteq risks'[u]
             /\ UNCHANGED <<storeVars, docQueue, trouble>>
  <2>1. /\ Leave(d, p, calls[d]) /\ OutOnly(d)
        /\ UNCHANGED <<storeVars, due, queueVars, trouble, risks, taps>>
    BY <1>7 DEF OpenPage, OutOnly
  <2>2. QED
    BY <1>3, <2>1
<1>8. ASSUME NEW role \in Role, RoleTapped(d, role)
      PROVE  /\ Fewer(d)
             /\ page'[d] \in {"landing", "closed", "signup", "login"}
             /\ \A e \in Phone \ {d} : calls'[e] = calls[e] /\ page'[e] = page[e]
             /\ \A e \in Phone : Sent(e)' \subseteq Sent(e)
             /\ \A u \in Person : risks[u] \subseteq risks'[u]
             /\ OutOnly(d)
             /\ UNCHANGED <<storeVars, docQueue, trouble>>
  <2> DEFINE f == [s \in Slot |-> IF calls[d][s].here THEN [calls[d][s] EXCEPT !.role = role]
                                                     ELSE calls[d][s]]
  <2>1. /\ page[d] = "signup" /\ calls' = [calls EXCEPT ![d] = f]
        /\ UNCHANGED <<storeVars, page, user, due, queueVars, trouble, risks, taps>>
    BY <1>8 DEF RoleTapped, TypeInv
  <2>2. \A s \in Slot : f[s] # Idle => /\ calls[d][s] # Idle
                                       /\ f[s].op = calls[d][s].op /\ f[s].who = calls[d][s].who
    BY <1>0, IdleSound, SoundChanged
  <2>3. \A s \in Slot : f[s] \in Sound
    BY <1>0, IdleSound, SoundChanged
  <2>4. f \in [Slot -> Sound']
    BY <2>1, <2>3, SoundMore
  <2> HIDE DEF f
  <2>5. calls'[d] = f /\ \A e \in Phone \ {d} : calls'[e] = calls[e]
    BY <2>1, <2>4, CallsOf
  <2>6. Fewer(d)
    BY <2>2, <2>5 DEF Fewer
  <2>7. QED
    BY <2>1, <2>5, <2>6 DEF Sent, OutOnly
<1>9. QED
  BY <1>1, <1>2, <1>3, <1>5, <1>6, <1>7, <1>8

(* One call of d is answered or changes, none is minted. *)
LEMMA MintedKept ==
  ASSUME TypeInv, NEW d \in Phone, NEW s \in Slot,
         \A t \in Slot : t # s => calls'[d][t] = calls[d][t],
         calls'[d][s].op # "created",
         \A e \in Phone \ {d} : calls'[e] = calls[e]
  PROVE  \A e \in Phone : \A t \in Slot :
           Minted(e, t)' => Minted(e, t) /\ calls'[e][t].who = calls[e][t].who
BY DEF Minted

LEMMA QuietTaps ==
  ASSUME TypeInv, NEW d \in Phone, NEW s \in Slot, NEW u \in Person,
         SignupTapped(d, s, u) \/ LoginTapped(d, s, u)
  PROVE  Quiet
<1>1. /\ calls'[d][s].op \in {"create", "signIn"}
      /\ \A t \in Slot : t # s => calls'[d][t] = calls[d][t]
      /\ \A e \in Phone \ {d} : calls'[e] = calls[e]
      /\ UNCHANGED <<storeVars, queueVars, risks>>
  BY SignupTappedStep, LoginTappedStep
<1>2. QED
  BY <1>1, MintedKept DEF Quiet, Sent, storeVars, queueVars

LEMMA QuietSteps ==
  ASSUME TypeInv, NEW d \in Phone, NEW s \in Slot,
         \/ CreateRefused(d, s) \/ SignIn(d, s) \/ SignInFailed(d, s)
         \/ SignedIn(d, s) \/ Routed(d, s) \/ NotRouted(d, s)
  PROVE  Quiet
<1> USE DEF storeVars, queueVars
<1>0. calls[d] \in [Slot -> Sound]
  BY DEF TypeInv
<1>1. CASE SignIn(d, s) \/ SignedIn(d, s)
  <2>1. /\ calls'[d][s].op \in {"signedIn", "query"}
        /\ \A t \in Slot : t # s => calls'[d][t] = calls[d][t]
        /\ \A e \in Phone \ {d} : calls'[e] = calls[e]
        /\ UNCHANGED <<storeVars, queueVars, risks>>
    BY <1>1, SignInStep, SignedInStep
  <2>2. QED
    BY <2>1, MintedKept DEF Quiet, Sent
<1>2. CASE CreateRefused(d, s) \/ SignInFailed(d, s) \/ NotRouted(d, s)
  <2>1. /\ auth \subseteq auth' /\ calls'[d] = Answered(d, s)
        /\ \A e \in Phone \ {d} : calls'[e] = calls[e]
        /\ \A v \in Person : risks[v] \subseteq risks'[v]
        /\ UNCHANGED <<docs, nodes, routines, queueVars>>
    BY <1>2, CreateRefusedStep, SignInFailedStep
  <2>2. calls'[d][s].op # "created" /\ \A t \in Slot : t # s => calls'[d][t] = calls[d][t]
    BY <2>1, AnsweredSound, IdleSound
  <2>3. QED
    BY <2>1, <2>2, MintedKept DEF Quiet, Sent
<1>3. CASE Routed(d, s)
  <2>1. /\ Fewer(d) /\ \A e \in Phone \ {d} : calls'[e] = calls[e]
        /\ UNCHANGED <<storeVars, queueVars, risks>>
    BY <1>3, RoutedStep
  <2>2. QED
    BY <2>1, FewerMinted DEF Quiet, Sent
<1>4. QED
  BY <1>1, <1>2, <1>3

(* The head of the database's queue goes. *)
LEMMA SentTail ==
  ASSUME TypeInv, NEW d \in Phone, nodeQueue[d] # << >>, nodeQueue' = [nodeQueue EXCEPT ![d] = Tail(@)]
  PROVE  /\ Head(nodeQueue[d]) \in Sent(d)
         /\ \A e \in Phone : Sent(e)' \subseteq Sent(e)
<1>1. nodeQueue[d] \in Seq(Node)
  BY DEF TypeInv, TypeOK
<1>2. Head(nodeQueue[d]) \in Node
  BY <1>1, HeadTailProperties
<1>3. Head(nodeQueue[d]) \in ToSet(nodeQueue[d]) /\ ToSet(Tail(nodeQueue[d])) \subseteq ToSet(nodeQueue[d])
  BY <1>1, <1>2, Queued
<1>4. nodeQueue'[d] = Tail(nodeQueue[d]) /\ \A e \in Phone \ {d} : nodeQueue'[e] = nodeQueue[e]
  BY DEF TypeInv, TypeOK
<1>5. QED
  BY <1>3, <1>4 DEF Sent

LEMMA QuietWrites ==
  ASSUME TypeInv, NEW d \in Phone, NodeRefused(d) \/ \E w \in Doc : DocRefused(d, w)
  PROVE  Quiet
<1> USE DEF storeVars, queueVars, pageVars, callVars
<1>1. /\ UNCHANGED <<auth, calls>> /\ \A u \in Person : risks[u] \subseteq risks'[u]
  BY TypeWrites
<1>2. CASE NodeRefused(d)
  <2>1. /\ nodeQueue[d] # << >> /\ nodeQueue' = [nodeQueue EXCEPT ![d] = Tail(@)]
        /\ UNCHANGED <<storeVars, docQueue>>
    BY <1>2 DEF NodeRefused
  <2>2. QED
    BY <1>1, <2>1, SentTail DEF Quiet, Minted
<1>3. ASSUME NEW w \in Doc, DocRefused(d, w)
      PROVE  Quiet
  <2>1. /\ docQueue' = [docQueue EXCEPT ![d] = @ \ {w}]
        /\ UNCHANGED <<storeVars, nodeQueue>>
    BY <1>3 DEF DocRefused
  <2>2. \A e \in Phone : docQueue'[e] \subseteq docQueue[e]
    BY <2>1 DEF TypeInv, TypeOK
  <2>3. QED
    BY <1>1, <2>1, <2>2 DEF Quiet, Minted, Sent
<1>4. QED
  BY <1>2, <1>3
LEMMA CreateProfile ==
  ASSUME TypeInv, ProfileInv, NEW d \in Phone, NEW s \in Slot, Create(d, s)
  PROVE  ProfileInv'
<1> DEFINE u == calls[d][s].who
<1>1. /\ u \in Person \ auth /\ auth' = auth \cup {u}
      /\ ~Minted(d, s) /\ Minted(d, s)' /\ calls'[d][s].who = u
      /\ \A t \in Slot : t # s => calls'[d][t] = calls[d][t]
      /\ \A e \in Phone \ {d} : calls'[e] = calls[e]
      /\ UNCHANGED <<docs, nodes, routines, queueVars, risks>>
  BY CreateStep DEF Minted
<1> HIDE DEF u
<1>2. \A e \in Phone : \A t \in Slot :
        \/ e = d /\ t = s
        \/ calls'[e][t] = calls[e][t]
  BY <1>1
<1>3. /\ \A e \in Phone : docQueue'[e] = docQueue[e] /\ Sent(e)' = Sent(e)
      /\ \A e \in Phone : \A w \in docQueue[e] : w.who # u
      /\ \A e \in Phone : \A v \in Sent(e) : v.who # u
      /\ docs[u] = Nobody /\ nodes[u] = Nobody
  BY <1>1 DEF ProfileInv, OnceInv, RolesInv, queueVars, Sent
<1>4. \A e \in Phone : \A t \in Slot :
        Minted(e, t)' => \/ e = d /\ t = s
                         \/ Minted(e, t) /\ calls'[e][t].who = calls[e][t].who /\ calls[e][t].who # u
  BY <1>1, <1>2, WhoIsPerson DEF Minted
<1>5. OnceInv'
  BY <1>1, <1>3, <1>4 DEF ProfileInv, OnceInv
<1>6. StoresAgree'
  BY <1>1 DEF ProfileInv, RolesInv, StoresAgree
<1>7. \A v \in Person : Mixed(v)' <=> Mixed(v)
  BY <1>1 DEF Mixed
<1>8. RolesInv'
  BY <1>1, <1>3, <1>4, <1>6, <1>7, WhoIsPerson DEF ProfileInv, RolesInv
<1>9. WipeInv'
  BY <1>1, <1>3 DEF ProfileInv, WipeInv
<1>10. QED
  BY <1>5, <1>8, <1>9 DEF ProfileInv

LEMMA CreatedProfile ==
  ASSUME TypeInv, ProfileInv, NEW d \in Phone, NEW s \in Slot, Created(d, s)
  PROVE  ProfileInv'
<1>0. PICK u, r, n : u = calls[d][s].who /\ r = calls[d][s].role /\ n = user[d]
  OBVIOUS
<1> DEFINE w == [by |-> n, who |-> u, role |-> r]
           v == [who |-> n, role |-> r]
<1>1. /\ Minted(d, s) /\ u \in auth /\ r \in Role /\ n \in auth
      /\ docQueue' = [docQueue EXCEPT ![d] = @ \cup {w}]
      /\ nodeQueue' = [nodeQueue EXCEPT ![d] = Append(@, v)]
      /\ calls'[d][s] = Idle /\ Fewer(d)
      /\ \A e \in Phone \ {d} : calls'[e] = calls[e]
      /\ \A x \in Person : risks[x] \subseteq risks'[x]
      /\ n # u => "mixed" \in risks'[n] /\ "mixed" \in risks'[u]
      /\ UNCHANGED storeVars
  BY <1>0, CreatedStep DEF Minted
<1>2. u \in Person /\ n \in Person /\ auth' = auth /\ docs' = docs /\ nodes' = nodes /\ routines' = routines
  BY <1>1 DEF TypeInv, TypeOK, storeVars
<1>3. /\ docQueue'[d] = docQueue[d] \cup {w}
      /\ \A e \in Phone \ {d} : docQueue'[e] = docQueue[e]
  BY <1>1 DEF TypeInv, TypeOK
<1>4. /\ Sent(d)' = Sent(d) \cup {v}
      /\ \A e \in Phone \ {d} : Sent(e)' = Sent(e)
  <2>1. v \in Node /\ nodeQueue[d] \in Seq(Node)
    BY <1>1, <1>2 DEF Node, TypeInv, TypeOK
  <2> HIDE DEF v
  <2>2. ToSet(Append(nodeQueue[d], v)) = ToSet(nodeQueue[d]) \cup {v}
    BY <2>1, Queued
  <2>3. nodeQueue'[d] = Append(nodeQueue[d], v) /\ \A e \in Phone \ {d} : nodeQueue'[e] = nodeQueue[e]
    BY <1>1 DEF TypeInv, TypeOK
  <2>4. QED
    BY <2>2, <2>3 DEF Sent
<1>5. w.who = u /\ w.role = r /\ v.who = n /\ v.role = r
  OBVIOUS
<1>6. \A e \in Phone : \A t \in Slot :
        Minted(e, t)' => Minted(e, t) /\ calls'[e][t].who = calls[e][t].who
  BY <1>1, FewerMinted
<1>7. ~Minted(d, s)'
  BY <1>1, IdleSound DEF Minted
<1> HIDE DEF w, v
<1>8. \A e \in Phone : \A t \in Slot : Minted(e, t)' => calls'[e][t].who # u
  BY <1>0, <1>1, <1>6, <1>7 DEF ProfileInv, OnceInv
<1>9. /\ docs[u] = Nobody
      /\ \A e \in Phone : \A x \in docQueue[e] : x.who # u
      /\ ~Mixed(u) => nodes[u] = Nobody /\ \A e \in Phone : \A x \in Sent(e) : x.who # u
  BY <1>0, <1>1 DEF ProfileInv, OnceInv, RolesInv
<1>10. \A e \in Phone : /\ \A x \in docQueue'[e] : x \in docQueue[e] \/ (e = d /\ x = w)
                        /\ \A x \in Sent(e)' : x \in Sent(e) \/ x = v
  BY <1>3, <1>4
<1>11. /\ \A x \in Person : Mixed(x) => Mixed(x)'
       /\ n # u => Mixed(n)' /\ Mixed(u)'
  BY <1>1 DEF Mixed
<1>12. OnceInv'
  <2>1. \A e, f \in Phone : \A t, x \in Slot :
          Minted(e, t)' /\ Minted(f, x)' /\ calls'[e][t].who = calls'[f][x].who => e = f /\ t = x
    BY <1>6 DEF ProfileInv, OnceInv
  <2>2. \A e, f \in Phone : \A t \in Slot : \A x \in docQueue'[f] :
          Minted(e, t)' => x.who # calls'[e][t].who
    BY <1>5, <1>6, <1>8, <1>10 DEF ProfileInv, OnceInv
  <2>3. \A e \in Phone : \A t \in Slot : Minted(e, t)' => docs'[calls'[e][t].who] = Nobody
    BY <1>2, <1>6 DEF ProfileInv, OnceInv
  <2>4. \A e, f \in Phone : \A x \in docQueue'[e] : \A y \in docQueue'[f] :
          x.who = y.who => e = f /\ x = y
    BY <1>5, <1>9, <1>10 DEF ProfileInv, OnceInv
  <2>5. \A e \in Phone : \A x \in docQueue'[e] : docs'[x.who] = Nobody /\ x.who \in auth'
    BY <1>1, <1>2, <1>5, <1>9, <1>10 DEF ProfileInv, OnceInv
  <2>6. \A x \in Person : docs'[x] # Nobody => x \in auth'
    BY <1>2 DEF ProfileInv, OnceInv
  <2>7. QED
    BY <2>1, <2>2, <2>3, <2>4, <2>5, <2>6 DEF OnceInv
<1>13. RolesInv'
  <2>1. (\A e \in Phone : \A x \in Sent(e)' : x.who \in auth')
        /\ \A x \in Person : nodes'[x] # Nobody => x \in auth'
    BY <1>1, <1>2, <1>5, <1>10 DEF ProfileInv, RolesInv
  <2>2. \A e \in Phone : \A t \in Slot :
          Minted(e, t)' /\ ~Mixed(calls[e][t].who)' =>
            /\ nodes'[calls'[e][t].who] = Nobody
            /\ \A f \in Phone : \A x \in Sent(f)' : x.who # calls'[e][t].who
    <3> SUFFICES ASSUME NEW e \in Phone, NEW t \in Slot, Minted(e, t)', ~Mixed(calls[e][t].who)'
                 PROVE  /\ nodes'[calls'[e][t].who] = Nobody
                        /\ \A f \in Phone : \A x \in Sent(f)' : x.who # calls'[e][t].who
      OBVIOUS
    <3>1. Minted(e, t) /\ calls'[e][t].who = calls[e][t].who /\ calls[e][t].who # u
          /\ calls[e][t].who \in Person
      BY <1>6, <1>8, WhoIsPerson
    <3>2. PICK x \in Person : x = calls'[e][t].who /\ x = calls[e][t].who
      BY <3>1
    <3>3. ~Mixed(x)' /\ ~Mixed(x)
      BY <1>11, <3>2 DEF Mixed
    <3>4. x # n
      BY <1>11, <3>1, <3>2, <3>3
    <3>5. nodes[x] = Nobody /\ \A f \in Phone : \A y \in Sent(f) : y.who # x
      BY <3>1, <3>2, <3>3 DEF ProfileInv, RolesInv
    <3>6. QED
      BY <1>2, <1>5, <1>10, <3>2, <3>4, <3>5
  <2>3. \A e, f \in Phone : \A x \in docQueue'[e] : \A y \in Sent(f)' :
          x.who = y.who /\ ~Mixed(x.who)' => x.role = y.role
    <3> SUFFICES ASSUME NEW e \in Phone, NEW f \in Phone, NEW x \in docQueue'[e], NEW y \in Sent(f)',
                        x.who = y.who, ~Mixed(x.who)'
                 PROVE  x.role = y.role
      OBVIOUS
    <3>1. CASE x \in docQueue[e] /\ y \in Sent(f)
      BY <1>11, <3>1, WhoIsPerson DEF ProfileInv, RolesInv
    <3>2. CASE x \in docQueue[e] /\ y = v
      <4>1. x.who = n /\ x.who # u
        BY <1>5, <1>9, <3>2
      <4>2. QED
        BY <1>11, <4>1
    <3>3. CASE x = w /\ y \in Sent(f)
      BY <1>2, <1>5, <1>9, <1>11, <3>3
    <3>4. CASE x = w /\ y = v
      BY <1>5, <3>4
    <3>5. QED
      BY <1>10, <3>1, <3>2, <3>3, <3>4
  <2>4. \A e \in Phone : \A x \in Sent(e)' : ~Mixed(x.who)' => docs'[x.who] \in {Nobody, x.role}
    <3> SUFFICES ASSUME NEW e \in Phone, NEW x \in Sent(e)', ~Mixed(x.who)'
                 PROVE  docs'[x.who] \in {Nobody, x.role}
      OBVIOUS
    <3>1. CASE x \in Sent(e)
      BY <1>2, <1>11, <3>1, WhoIsPerson DEF ProfileInv, RolesInv
    <3>2. CASE x = v
      BY <1>2, <1>5, <1>9, <1>11, <3>2
    <3>3. QED
      BY <1>10, <3>1, <3>2
  <2>5. \A e \in Phone : \A x \in docQueue'[e] : ~Mixed(x.who)' => nodes'[x.who] \in {Nobody, x.role}
    <3> SUFFICES ASSUME NEW e \in Phone, NEW x \in docQueue'[e], ~Mixed(x.who)'
                 PROVE  nodes'[x.who] \in {Nobody, x.role}
      OBVIOUS
    <3>1. CASE x \in docQueue[e]
      BY <1>2, <1>11, <3>1, WhoIsPerson DEF ProfileInv, RolesInv
    <3>2. CASE x = w
      BY <1>2, <1>5, <1>9, <1>11, <3>2
    <3>3. QED
      BY <1>10, <3>1, <3>2
  <2>6. StoresAgree'
    BY <1>2, <1>11 DEF ProfileInv, RolesInv, StoresAgree, Mixed
  <2>7. QED
    BY <2>1, <2>2, <2>3, <2>4, <2>5, <2>6 DEF RolesInv
<1>14. WipeInv'
  <2>1. \A x \in routines' : docs'[x] # Nobody
    BY <1>2 DEF ProfileInv, WipeInv
  <2>2. ASSUME NEW e \in Phone, NEW x \in Sent(e)', x.who \in routines'
        PROVE  risks'[x.who] \cap {"early", "mixed"} # {}
    <3>1. CASE x \in Sent(e)
      BY <1>1, <1>2, <2>2, <3>1, WhoIsPerson DEF ProfileInv, WipeInv
    <3>2. CASE x = v
      <4>1. n # u
        BY <1>2, <1>5, <1>9, <2>1, <2>2, <3>2
      <4>2. QED
        BY <1>1, <1>5, <3>2, <4>1
    <3>3. QED
      BY <1>10, <3>1, <3>2
  <2>3. QED
    BY <2>1, <2>2 DEF WipeInv
<1>15. QED
  BY <1>12, <1>13, <1>14 DEF ProfileInv
LEMMA CreatedCrashProfile ==
  ASSUME TypeInv, ProfileInv, NEW d \in Phone, NEW s \in Slot, CreatedCrash(d, s)
  PROVE  ProfileInv'
<1>0. PICK u, r : u = calls[d][s].who /\ r = calls[d][s].role
  OBVIOUS
<1> DEFINE w == [by |-> Nobody, who |-> u, role |-> r]
<1>1. /\ Minted(d, s) /\ u \in auth
      /\ docQueue' = [docQueue EXCEPT ![d] = @ \cup {w}]
      /\ nodeQueue'[d] = << >> /\ \A e \in Phone \ {d} : nodeQueue'[e] = nodeQueue[e]
      /\ \A t \in Slot : calls'[d][t] = Idle
      /\ \A e \in Phone \ {d} : calls'[e] = calls[e]
      /\ \A x \in Person : risks[x] \subseteq risks'[x]
      /\ UNCHANGED storeVars
  BY <1>0, CreatedCrashStep DEF Minted
<1>2. u \in Person /\ auth' = auth /\ docs' = docs /\ nodes' = nodes /\ routines' = routines
  BY <1>1 DEF TypeInv, TypeOK, storeVars
<1>3. w.who = u
  OBVIOUS
<1> HIDE DEF w
<1>4. \A e \in Phone : \A x \in docQueue'[e] : x \in docQueue[e] \/ (e = d /\ x = w)
  BY <1>1 DEF TypeInv, TypeOK
<1>5. \A e \in Phone : Sent(e)' \subseteq Sent(e)
  <2>1. ToSet(<< >>) = {}
    BY DEF ToSet
  <2>2. QED
    BY <1>1, <2>1 DEF Sent
<1>6. \A e \in Phone : \A t \in Slot :
        Minted(e, t)' => /\ Minted(e, t) /\ calls'[e][t].who = calls[e][t].who /\ calls[e][t].who # u
  <2>1. Fewer(d)
    BY <1>1 DEF Fewer
  <2>2. \A t \in Slot : ~Minted(d, t)'
    BY <1>1, IdleSound DEF Minted
  <2>3. QED
    BY <1>0, <1>1, <2>1, <2>2, FewerMinted DEF ProfileInv, OnceInv
<1>7. /\ docs[u] = Nobody
      /\ \A e \in Phone : \A x \in docQueue[e] : x.who # u
      /\ ~Mixed(u) => nodes[u] = Nobody /\ \A e \in Phone : \A x \in Sent(e) : x.who # u
  BY <1>0, <1>1 DEF ProfileInv, OnceInv, RolesInv
<1>8. \A x \in Person : Mixed(x) => Mixed(x)'
  BY <1>1 DEF Mixed
<1>9. OnceInv'
  <2>1. \A e, f \in Phone : \A t, x \in Slot :
          Minted(e, t)' /\ Minted(f, x)' /\ calls'[e][t].who = calls'[f][x].who => e = f /\ t = x
    BY <1>6 DEF ProfileInv, OnceInv
  <2>2. \A e, f \in Phone : \A t \in Slot : \A x \in docQueue'[f] :
          Minted(e, t)' => x.who # calls'[e][t].who
    BY <1>3, <1>4, <1>6 DEF ProfileInv, OnceInv
  <2>3. \A e \in Phone : \A t \in Slot : Minted(e, t)' => docs'[calls'[e][t].who] = Nobody
    BY <1>2, <1>6 DEF ProfileInv, OnceInv
  <2>4. \A e, f \in Phone : \A x \in docQueue'[e] : \A y \in docQueue'[f] :
          x.who = y.who => e = f /\ x = y
    BY <1>3, <1>4, <1>7 DEF ProfileInv, OnceInv
  <2>5. \A e \in Phone : \A x \in docQueue'[e] : docs'[x.who] = Nobody /\ x.who \in auth'
    BY <1>1, <1>2, <1>3, <1>4, <1>7 DEF ProfileInv, OnceInv
  <2>6. \A x \in Person : docs'[x] # Nobody => x \in auth'
    BY <1>2 DEF ProfileInv, OnceInv
  <2>7. QED
    BY <2>1, <2>2, <2>3, <2>4, <2>5, <2>6 DEF OnceInv
<1>10. RolesInv'
  <2>1. (\A e \in Phone : \A x \in Sent(e)' : x.who \in auth')
        /\ \A x \in Person : nodes'[x] # Nobody => x \in auth'
    BY <1>2, <1>5 DEF ProfileInv, RolesInv
  <2>2. ASSUME NEW e \in Phone, NEW t \in Slot, Minted(e, t)', ~Mixed(calls[e][t].who)'
        PROVE  /\ nodes'[calls'[e][t].who] = Nobody
               /\ \A f \in Phone : \A x \in Sent(f)' : x.who # calls'[e][t].who
    <3>1. PICK x \in Person : x = calls'[e][t].who /\ x = calls[e][t].who
      BY <1>6, <2>2, WhoIsPerson
    <3>2. ~Mixed(x)
      BY <1>8, <2>2, <3>1 DEF Mixed
    <3>3. QED
      BY <1>2, <1>5, <1>6, <2>2, <3>1, <3>2 DEF ProfileInv, RolesInv
  <2>3. \A e, f \in Phone : \A x \in docQueue'[e] : \A y \in Sent(f)' :
          x.who = y.who /\ ~Mixed(x.who)' => x.role = y.role
    <3> SUFFICES ASSUME NEW e \in Phone, NEW f \in Phone, NEW x \in docQueue'[e], NEW y \in Sent(f)',
                        x.who = y.who, ~Mixed(x.who)'
                 PROVE  x.role = y.role
      OBVIOUS
    <3>1. y \in Sent(f) /\ y.who \in Person
      BY <1>5, WhoIsPerson
    <3>2. ~Mixed(y.who) /\ ~Mixed(x.who)
      BY <1>8, <3>1
    <3>3. CASE x \in docQueue[e]
      BY <3>1, <3>2, <3>3 DEF ProfileInv, RolesInv
    <3>4. CASE x = w
      BY <1>3, <1>7, <3>1, <3>2, <3>4
    <3>5. QED
      BY <1>4, <3>3, <3>4
  <2>4. \A e \in Phone : \A x \in Sent(e)' : ~Mixed(x.who)' => docs'[x.who] \in {Nobody, x.role}
    BY <1>2, <1>5, <1>8, WhoIsPerson DEF ProfileInv, RolesInv
  <2>5. \A e \in Phone : \A x \in docQueue'[e] : ~Mixed(x.who)' => nodes'[x.who] \in {Nobody, x.role}
    <3> SUFFICES ASSUME NEW e \in Phone, NEW x \in docQueue'[e], ~Mixed(x.who)'
                 PROVE  nodes'[x.who] \in {Nobody, x.role}
      OBVIOUS
    <3>1. CASE x \in docQueue[e]
      BY <1>2, <1>8, <3>1, WhoIsPerson DEF ProfileInv, RolesInv
    <3>2. CASE x = w
      BY <1>2, <1>3, <1>7, <1>8, <3>2
    <3>3. QED
      BY <1>4, <3>1, <3>2
  <2>6. StoresAgree'
    BY <1>2, <1>8 DEF ProfileInv, RolesInv, StoresAgree, Mixed
  <2>7. QED
    BY <2>1, <2>2, <2>3, <2>4, <2>5, <2>6 DEF RolesInv
<1>11. WipeInv'
  BY <1>1, <1>2, <1>5, WhoIsPerson DEF ProfileInv, WipeInv
<1>12. QED
  BY <1>9, <1>10, <1>11 DEF ProfileInv

LEMMA DocStoredProfile ==
  ASSUME TypeInv, ProfileInv, NEW d \in Phone, NEW w \in Doc, DocStored(d, w)
  PROVE  ProfileInv'
<1>1. /\ w \in docQueue[d]
      /\ docQueue' = [docQueue EXCEPT ![d] = @ \ {w}]
      /\ docs' = [docs EXCEPT ![w.who] = w.role]
      /\ UNCHANGED <<auth, nodes, routines, calls, nodeQueue, risks>>
  BY DEF DocStored, callVars
<1>2. w.who \in Person /\ w.role \in Role /\ w.role # Nobody
  BY NobodyElse DEF Doc
<1>3. /\ docs'[w.who] = w.role
      /\ \A x \in Person \ {w.who} : docs'[x] = docs[x]
  BY <1>1, <1>2 DEF TypeInv, TypeOK
<1>4. /\ \A e \in Phone : \A x \in docQueue'[e] : x \in docQueue[e] /\ ~(e = d /\ x = w)
      /\ \A e \in Phone : \A s \in Slot : Minted(e, s)' <=> Minted(e, s)
      /\ \A e \in Phone : Sent(e)' = Sent(e)
      /\ \A x \in Person : Mixed(x)' <=> Mixed(x)
  BY <1>1 DEF TypeInv, TypeOK, Minted, Sent, Mixed
<1>5. /\ w.who \in auth
      /\ \A e \in Phone : \A x \in docQueue'[e] : x.who # w.who
      /\ \A e \in Phone : \A s \in Slot : Minted(e, s) => calls[e][s].who # w.who
  BY <1>1, <1>4 DEF ProfileInv, OnceInv
<1>6. OnceInv'
  <2>1. \A e, f \in Phone : \A s, t \in Slot :
          Minted(e, s)' /\ Minted(f, t)' /\ calls'[e][s].who = calls'[f][t].who => e = f /\ s = t
    BY <1>1, <1>4 DEF ProfileInv, OnceInv
  <2>2. /\ \A e, f \in Phone : \A s \in Slot : \A x \in docQueue'[f] :
             Minted(e, s)' => x.who # calls'[e][s].who
        /\ \A e \in Phone : \A s \in Slot : Minted(e, s)' => docs'[calls'[e][s].who] = Nobody
    BY <1>1, <1>3, <1>4, <1>5, WhoIsPerson DEF ProfileInv, OnceInv
  <2>3. /\ \A e, f \in Phone : \A x \in docQueue'[e] : \A y \in docQueue'[f] :
             x.who = y.who => e = f /\ x = y
        /\ \A e \in Phone : \A x \in docQueue'[e] : docs'[x.who] = Nobody /\ x.who \in auth'
    BY <1>1, <1>3, <1>4, <1>5, WhoIsPerson DEF ProfileInv, OnceInv
  <2>4. \A x \in Person : docs'[x] # Nobody => x \in auth'
    BY <1>1, <1>3, <1>5 DEF ProfileInv, OnceInv
  <2>5. QED
    BY <2>1, <2>2, <2>3, <2>4 DEF OnceInv
<1>7. ~Mixed(w.who) => /\ nodes[w.who] \in {Nobody, w.role}
                       /\ \A e \in Phone : \A x \in Sent(e) : x.who = w.who => x.role = w.role
  BY <1>1 DEF ProfileInv, RolesInv
<1>8. StoresAgree'
  BY <1>1, <1>3, <1>4, <1>7 DEF ProfileInv, RolesInv, StoresAgree, Mixed
<1>9. RolesInv'
  <2>1. /\ \A e \in Phone : \A x \in Sent(e)' : x.who \in auth'
        /\ \A x \in Person : nodes'[x] # Nobody => x \in auth'
    BY <1>1, <1>4 DEF ProfileInv, RolesInv
  <2>2. \A e \in Phone : \A s \in Slot :
          Minted(e, s)' /\ ~Mixed(calls[e][s].who)' =>
            /\ nodes'[calls'[e][s].who] = Nobody
            /\ \A f \in Phone : \A x \in Sent(f)' : x.who # calls'[e][s].who
    BY <1>1, <1>4 DEF ProfileInv, RolesInv, Mixed
  <2>3. /\ \A e, f \in Phone : \A x \in docQueue'[e] : \A y \in Sent(f)' :
             x.who = y.who /\ ~Mixed(x.who)' => x.role = y.role
        /\ \A e \in Phone : \A x \in docQueue'[e] : ~Mixed(x.who)' => nodes'[x.who] \in {Nobody, x.role}
    BY <1>1, <1>4, WhoIsPerson DEF ProfileInv, RolesInv
  <2>4. \A e \in Phone : \A x \in Sent(e)' : ~Mixed(x.who)' => docs'[x.who] \in {Nobody, x.role}
    BY <1>3, <1>4, <1>7, WhoIsPerson DEF ProfileInv, RolesInv
  <2>5. QED
    BY <1>8, <2>1, <2>2, <2>3, <2>4 DEF RolesInv
<1>10. WipeInv'
  <2>1. \A x \in routines' : docs'[x] # Nobody
    BY <1>1, <1>2, <1>3 DEF ProfileInv, WipeInv, TypeInv, TypeOK
  <2>2. QED
    BY <1>1, <1>4, <2>1 DEF ProfileInv, WipeInv
<1>11. QED
  BY <1>6, <1>9, <1>10 DEF ProfileInv

(* The server takes a node, acknowledged or not. *)
LEMMA TakenProfile ==
  ASSUME TypeInv, ProfileInv, NEW d \in Phone, NEW v \in Sent(d),
         nodes' = [nodes EXCEPT ![v.who] = v.role], routines' = routines \ {v.who},
         \A e \in Phone : Sent(e)' \subseteq Sent(e),
         UNCHANGED <<auth, docs, calls, docQueue, risks>>
  PROVE  /\ ProfileInv'
         /\ \A u \in routines : u \in routines' \/ risks[u] \cap {"early", "mixed"} # {}
<1>1. /\ nodes' = [nodes EXCEPT ![v.who] = v.role] /\ routines' = routines \ {v.who}
      /\ UNCHANGED <<auth, docs, calls, docQueue, risks>>
  OBVIOUS
<1>2. v \in Sent(d) /\ \A e \in Phone : Sent(e)' \subseteq Sent(e)
  OBVIOUS
<1>3. v.who \in Person /\ v.role \in Role /\ v.who \in auth
  BY <1>2, WhoIsPerson DEF ProfileInv, RolesInv
<1>4. /\ nodes'[v.who] = v.role
      /\ \A x \in Person \ {v.who} : nodes'[x] = nodes[x]
  BY <1>1, <1>3 DEF TypeInv, TypeOK
<1>5. /\ \A e \in Phone : \A s \in Slot : Minted(e, s)' <=> Minted(e, s)
      /\ \A x \in Person : Mixed(x)' <=> Mixed(x)
  BY <1>1 DEF Minted, Mixed
<1>6. OnceInv'
  BY <1>1, <1>5 DEF ProfileInv, OnceInv
<1>7. ~Mixed(v.who) =>
        /\ docs[v.who] \in {Nobody, v.role}
        /\ \A e \in Phone : \A w \in docQueue[e] : w.who = v.who => w.role = v.role
        /\ \A e \in Phone : \A s \in Slot : Minted(e, s) => calls[e][s].who # v.who
  BY <1>2 DEF ProfileInv, RolesInv
<1>8. StoresAgree'
  BY <1>1, <1>4, <1>5, <1>7 DEF ProfileInv, RolesInv, StoresAgree, Mixed
<1>9. RolesInv'
  <2>1. /\ \A e \in Phone : \A x \in Sent(e)' : x.who \in auth'
        /\ \A x \in Person : nodes'[x] # Nobody => x \in auth'
    BY <1>1, <1>2, <1>3, <1>4 DEF ProfileInv, RolesInv
  <2>2. \A e \in Phone : \A s \in Slot :
          Minted(e, s)' /\ ~Mixed(calls[e][s].who)' =>
            /\ nodes'[calls'[e][s].who] = Nobody
            /\ \A f \in Phone : \A x \in Sent(f)' : x.who # calls'[e][s].who
    BY <1>1, <1>2, <1>4, <1>5, <1>7, WhoIsPerson DEF ProfileInv, RolesInv, Mixed
  <2>3. /\ \A e, f \in Phone : \A x \in docQueue'[e] : \A y \in Sent(f)' :
             x.who = y.who /\ ~Mixed(x.who)' => x.role = y.role
        /\ \A e \in Phone : \A x \in Sent(e)' : ~Mixed(x.who)' => docs'[x.who] \in {Nobody, x.role}
    BY <1>1, <1>2, <1>5, WhoIsPerson DEF ProfileInv, RolesInv
  <2>4. \A e \in Phone : \A x \in docQueue'[e] : ~Mixed(x.who)' => nodes'[x.who] \in {Nobody, x.role}
    BY <1>1, <1>4, <1>5, <1>7, WhoIsPerson DEF ProfileInv, RolesInv
  <2>5. QED
    BY <1>8, <2>1, <2>2, <2>3, <2>4 DEF RolesInv
<1>10. WipeInv'
  BY <1>1, <1>2 DEF ProfileInv, WipeInv
<1>11. \A u \in routines : u \in routines' \/ risks[u] \cap {"early", "mixed"} # {}
  BY <1>1, <1>2 DEF ProfileInv, WipeInv
<1>12. QED
  BY <1>6, <1>9, <1>10, <1>11 DEF ProfileInv

LEMMA NodeStoredProfile ==
  ASSUME TypeInv, ProfileInv, NEW d \in Phone, NodeStored(d)
  PROVE  /\ ProfileInv'
         /\ \A u \in routines : u \in routines' \/ risks[u] \cap {"early", "mixed"} # {}
<1>1. PICK v : v = Head(nodeQueue[d])
  OBVIOUS
<1>2. /\ nodeQueue[d] # << >> /\ nodeQueue' = [nodeQueue EXCEPT ![d] = Tail(@)]
      /\ nodes' = [nodes EXCEPT ![v.who] = v.role] /\ routines' = routines \ {v.who}
      /\ UNCHANGED <<auth, docs, calls, docQueue, risks>>
  BY <1>1 DEF NodeStored, callVars
<1>3. v \in Sent(d) /\ \A e \in Phone : Sent(e)' \subseteq Sent(e)
  BY <1>1, <1>2, SentTail
<1>4. QED
  BY <1>2, <1>3, TakenProfile

LEMMA NodeAnswerLostProfile ==
  ASSUME TypeInv, ProfileInv, NEW d \in Phone, NodeAnswerLost(d)
  PROVE  /\ ProfileInv'
         /\ \A u \in routines : u \in routines' \/ risks[u] \cap {"early", "mixed"} # {}
<1>1. PICK v \in Sent(d) :
        nodes' = [nodes EXCEPT ![v.who] = v.role] /\ routines' = routines \ {v.who}
  BY DEF NodeAnswerLost, Sent
<1>2. UNCHANGED <<auth, docs, calls, docQueue, risks>> /\ \A e \in Phone : Sent(e)' = Sent(e)
  BY DEF NodeAnswerLost, callVars, queueVars, Sent
<1>3. QED
  BY <1>1, <1>2, TakenProfile

LEMMA AssignProfile ==
  ASSUME TypeInv, ProfileInv, NEW u \in Person, Assign(u)
  PROVE  ProfileInv'
<1>1. /\ UNCHANGED <<auth, docs, nodes, calls, docQueue, nodeQueue>>
      /\ routines' = routines \cup {u} /\ docs[u] # Nobody
      /\ \A v \in Person : risks[v] \subseteq risks'[v]
      /\ \A d \in Phone : \A w \in Sent(d) : w.who = u => "early" \in risks'[u]
  BY TypeAssign DEF callVars, queueVars, Sent
<1>2. /\ \A e \in Phone : \A s \in Slot : Minted(e, s)' <=> Minted(e, s)
      /\ \A e \in Phone : Sent(e)' = Sent(e)
      /\ \A x \in Person : Mixed(x) => Mixed(x)'
  BY <1>1 DEF Minted, Sent, Mixed
<1>3. OnceInv'
  BY <1>1, <1>2 DEF ProfileInv, OnceInv
<1>4. StoresAgree'
  BY <1>1, <1>2 DEF ProfileInv, RolesInv, StoresAgree, Mixed
<1>5. RolesInv'
  BY <1>1, <1>2, <1>4, WhoIsPerson DEF ProfileInv, RolesInv
<1>6. WipeInv'
  BY <1>1, <1>2, WhoIsPerson DEF ProfileInv, WipeInv
<1>7. QED
  BY <1>3, <1>5, <1>6 DEF ProfileInv
LEMMA QuietPages ==
  ASSUME TypeInv, NEW d \in Phone,
         \/ OpenApp(d) \/ Kill(d) \/ Back(d) \/ SignOut(d)
         \/ \E p \in {"signup", "login"} : OpenPage(d, p)
         \/ \E role \in Role : RoleTapped(d, role)
  PROVE  Quiet
<1>1. /\ Fewer(d)
      /\ \A e \in Phone \ {d} : calls'[e] = calls[e]
      /\ \A e \in Phone : Sent(e)' \subseteq Sent(e)
      /\ \A u \in Person : risks[u] \subseteq risks'[u]
      /\ UNCHANGED <<storeVars, docQueue>>
  BY PagesStep
<1>2. QED
  BY <1>1, FewerMinted DEF Quiet, storeVars

(* What a step may do to the routines. *)
Noticed == \A u \in routines : u \in routines' \/ risks[u] \cap {"early", "mixed"} # {}

LEMMA StepProfile ==
  TypeInv /\ ProfileInv /\ [Next]_vars => ProfileInv' /\ Noticed
<1> SUFFICES ASSUME TypeInv, ProfileInv, [Next]_vars
             PROVE  ProfileInv' /\ Noticed
  OBVIOUS
<1>1. ASSUME Quiet
      PROVE  ProfileInv' /\ Noticed
  BY <1>1, QuietProfile DEF Quiet, Noticed
<1>2. ASSUME NEW d \in Phone, PhoneNext(d)
      PROVE  ProfileInv' /\ Noticed
  <2>1. CASE \/ OpenApp(d) \/ Kill(d) \/ Back(d) \/ SignOut(d)
             \/ \E p \in {"signup", "login"} : OpenPage(d, p)
             \/ \E role \in Role : RoleTapped(d, role)
    BY <1>1, <2>1, QuietPages
  <2>2. ASSUME NEW s \in Slot, NEW u \in Person,
               \/ SignupTapped(d, s, u) \/ LoginTapped(d, s, u)
        PROVE  ProfileInv' /\ Noticed
    BY <1>1, <2>2, QuietTaps
  <2>3. ASSUME NEW s \in Slot,
               \/ CreateRefused(d, s) \/ SignIn(d, s) \/ SignInFailed(d, s)
               \/ SignedIn(d, s) \/ Routed(d, s) \/ NotRouted(d, s)
        PROVE  ProfileInv' /\ Noticed
    BY <1>1, <2>3, QuietSteps
  <2>4. ASSUME NEW s \in Slot, Create(d, s)
        PROVE  ProfileInv' /\ Noticed
    BY <2>4, CreateProfile, CreateStep DEF Noticed
  <2>5. ASSUME NEW s \in Slot, Created(d, s)
        PROVE  ProfileInv' /\ Noticed
    BY <2>5, CreatedProfile, CreatedStep DEF Noticed, storeVars
  <2>6. ASSUME NEW s \in Slot, CreatedCrash(d, s)
        PROVE  ProfileInv' /\ Noticed
    BY <2>6, CreatedCrashProfile, CreatedCrashStep DEF Noticed, storeVars
  <2>7. ASSUME NEW w \in Doc, DocStored(d, w)
        PROVE  ProfileInv' /\ Noticed
    <3>1. routines' = routines
      BY <2>7 DEF DocStored
    <3>2. QED
      BY <2>7, <3>1, DocStoredProfile DEF Noticed
  <2>8. CASE NodeRefused(d) \/ \E w \in Doc : DocRefused(d, w)
    BY <1>1, <2>8, QuietWrites
  <2>9. CASE NodeStored(d)
    BY <2>9, NodeStoredProfile DEF Noticed
  <2>10. CASE NodeAnswerLost(d)
    BY <2>10, NodeAnswerLostProfile DEF Noticed
  <2>11. QED
    BY <1>2, <2>1, <2>2, <2>3, <2>4, <2>5, <2>6, <2>7, <2>8, <2>9, <2>10 DEF PhoneNext
<1>3. ASSUME NEW u \in Person, Assign(u)
      PROVE  ProfileInv' /\ Noticed
  BY <1>3, AssignProfile, TypeAssign DEF Noticed
<1>4. CASE UNCHANGED vars
  <2>1. Quiet
    BY <1>4 DEF vars, storeVars, callVars, queueVars, Quiet, Sent, Minted
  <2>2. QED
    BY <1>1, <2>1
<1>5. QED
  BY <1>2, <1>3, <1>4 DEF Next

LEMMA InitProfile == Init => ProfileInv
<1> SUFFICES ASSUME Init
             PROVE  ProfileInv
  OBVIOUS
<1>1. \A d \in Phone : \A s \in Slot : ~Minted(d, s)
  BY IdleSound DEF Init, Minted
<1>2. \A d \in Phone : Sent(d) = {} /\ docQueue[d] = {}
  BY DEF Init, Sent, ToSet
<1>3. nodes = docs /\ \A u \in Person : docs[u] # Nobody => u \in auth
  BY DEF Init
<1>4. routines = {}
  BY DEF Init
<1>5. OnceInv
  BY <1>1, <1>2, <1>3 DEF OnceInv
<1>6. RolesInv
  BY <1>1, <1>2, <1>3 DEF RolesInv, StoresAgree
<1>7. WipeInv
  BY <1>2, <1>4 DEF WipeInv
<1>8. QED
  BY <1>5, <1>6, <1>7 DEF ProfileInv

LEMMA ProfilesAlways == Spec => [](TypeInv /\ ProfileInv)
BY InitType, StepType, InitProfile, StepProfile, PTL DEF Spec

(* Firestore and the database never hold different roles for an account,   *)
(* however often and on however many phones Sign Up and the role buttons   *)
(* are tapped, unless another account's callback wrote the node.           *)
THEOREM RolesAgree == Spec => []StoresAgree
<1>1. ProfileInv => StoresAgree
  BY DEF ProfileInv, RolesInv
<1>2. QED
  BY <1>1, ProfilesAlways, PTL

(* No sign-up wipes routines, except a node that was still unsent when     *)
(* they were assigned, or one written by another account's callback.       *)
THEOREM RoutinesSurvive == Spec => RoutinesKept
<1>1. TypeInv /\ ProfileInv /\ [Next]_vars => [Noticed]_vars
  BY StepProfile
<1>2. Spec => [][Noticed]_vars
  BY <1>1, ProfilesAlways, PTL DEF Spec
<1>3. QED
  BY <1>2 DEF RoutinesKept, Noticed
---------------------------------------------------------------------------
(* Without a race a phone has one call under way, and none at home.        *)

Calm(d) ==
  "raced" \notin trouble[d] =>
    /\ page[d] # "crashed"
    /\ \A s, t \in Slot : calls[d][s] # Idle /\ calls[d][t] # Idle => s = t
    /\ \A s \in Slot : /\ Minted(d, s) => user[d] # Nobody
                       /\ calls[d][s].op = "query" => calls[d][s].who = user[d]
    /\ AtHome(d) => /\ \A s \in Slot : calls[d][s] = Idle
                    /\ user[d] # Nobody /\ docs[user[d]] # Nobody
                    /\ page[d] = Home(docs[user[d]])

CalmInv == \A d \in Phone : Calm(d)

(* Documents are never changed. *)
DocsKept == \A x \in Person : docs[x] # Nobody => docs'[x] = docs[x]

LEMMA CalmElse ==
  ASSUME TypeInv, NEW d \in Phone, Calm(d), DocsKept, page'[d] = page[d], calls'[d] = calls[d],
         user'[d] = user[d], trouble'[d] = trouble[d]
  PROVE  Calm(d)'
<1>1. user[d] # Nobody => user[d] \in Person
  BY DEF TypeInv, TypeOK
<1>2. QED
  BY <1>1 DEF Calm, DocsKept, Minted, AtHome

LEMMA CalmFewer ==
  ASSUME NEW d \in Phone, Calm(d), Fewer(d), user'[d] = user[d], trouble[d] \subseteq trouble'[d],
         docs' = docs, page'[d] \in {page[d], "landing", "closed", "signup", "login"}
  PROVE  Calm(d)'
<1> SUFFICES ASSUME "raced" \notin trouble'[d]
             PROVE  /\ page'[d] # "crashed"
                    /\ \A s, t \in Slot : calls'[d][s] # Idle /\ calls'[d][t] # Idle => s = t
                    /\ \A s \in Slot : /\ Minted(d, s)' => user'[d] # Nobody
                                       /\ calls'[d][s].op = "query" => calls'[d][s].who = user'[d]
                    /\ AtHome(d)' => /\ \A s \in Slot : calls'[d][s] = Idle
                                     /\ user'[d] # Nobody /\ docs'[user'[d]] # Nobody
                                     /\ page'[d] = Home(docs'[user'[d]])
  BY DEF Calm
<1>1. "raced" \notin trouble[d]
  OBVIOUS
<1>2. /\ page'[d] # "crashed"
      /\ \A s, t \in Slot : calls'[d][s] # Idle /\ calls'[d][t] # Idle => s = t
  BY <1>1 DEF Calm, Fewer
<1>3. \A s \in Slot : /\ Minted(d, s)' => user'[d] # Nobody
                      /\ calls'[d][s].op = "query" => calls'[d][s].who = user'[d]
  BY <1>1, IdleSound DEF Calm, Fewer, Minted
<1>4. AtHome(d)' => AtHome(d) /\ page'[d] = page[d]
  BY DEF AtHome
<1>5. AtHome(d)' => /\ \A s \in Slot : calls'[d][s] = Idle
                    /\ user'[d] # Nobody /\ docs'[user'[d]] # Nobody
                    /\ page'[d] = Home(docs'[user'[d]])
  BY <1>1, <1>4 DEF Calm, Fewer
<1>6. QED
  BY <1>2, <1>3, <1>5

(* Only slot s may be in use then, and the page is neither a home page nor *)
(* that of an app that crashed.                                            *)
LEMMA CalmOne ==
  ASSUME NEW d \in Phone, NEW s \in Slot, ~AtHome(d)', page'[d] # "crashed",
         \A t \in Slot : t # s => calls'[d][t] = Idle,
         calls'[d][s].op = "created" => user'[d] # Nobody,
         calls'[d][s].op = "query" => calls'[d][s].who = user'[d]
  PROVE  Calm(d)'
BY IdleSound DEF Calm, Minted

(* The slot of a call that is under way is the only one in use. *)
LEMMA CalmSlot ==
  ASSUME NEW d \in Phone, Calm(d), "raced" \notin trouble[d], NEW s \in Slot, calls[d][s] # Idle
  PROVE  ~AtHome(d) /\ page[d] # "crashed" /\ \A t \in Slot : t # s => calls[d][t] = Idle
BY DEF Calm

LEMMA CalmTaps ==
  ASSUME TypeInv, NEW d \in Phone, Calm(d), NEW s \in Slot, NEW u \in Person,
         SignupTapped(d, s, u) \/ LoginTapped(d, s, u)
  PROVE  Calm(d)' /\ \A e \in Phone \ {d} : trouble'[e] = trouble[e]
<1>1. /\ page[d] \in {"signup", "login"} /\ page' = page /\ user' = user
      /\ calls'[d][s].op \in {"create", "signIn"}
      /\ \A t \in Slot : t # s => calls'[d][t] = calls[d][t]
  BY SignupTappedStep, LoginTappedStep DEF pageVars
<1>2. /\ "raced" \notin trouble'[d] => ~Busy(d)
      /\ \A e \in Phone \ {d} : trouble'[e] = trouble[e]
  <2>1. \/ trouble' = [trouble EXCEPT ![d] = @ \cup {x \in {"raced"} : Busy(d)}]
        \/ trouble' = [trouble EXCEPT ![d] = {x \in {"raced"} : Busy(d)}]
    BY SignupTappedStep, LoginTappedStep
  <2>2. trouble \in [Phone -> SUBSET Troubles]
    BY DEF TypeInv, TypeOK
  <2>3. QED
    BY <2>1, <2>2
<1>3. CASE "raced" \in trouble'[d]
  BY <1>2, <1>3 DEF Calm
<1>4. CASE "raced" \notin trouble'[d]
  <2>1. \A t \in Slot : calls[d][t] = Idle
    BY <1>2, <1>4 DEF Busy
  <2>2. ~AtHome(d)' /\ page'[d] # "crashed"
    BY <1>1 DEF AtHome
  <2>3. Calm(d)'
    BY <1>1, <2>1, <2>2, CalmOne
  <2>4. QED
    BY <1>2, <2>3
<1>5. QED
  BY <1>3, <1>4, <1>2

LEMMA CalmCalls ==
  ASSUME TypeInv, NEW d \in Phone, Calm(d), NEW s \in Slot,
         Create(d, s) \/ SignIn(d, s) \/ SignedIn(d, s)
  PROVE  Calm(d)' /\ \A e \in Phone \ {d} : user'[e] = user[e]
<1>1. /\ calls[d][s] # Idle /\ page' = page /\ trouble' = trouble
      /\ \A t \in Slot : t # s => calls'[d][t] = calls[d][t]
      /\ calls'[d][s].op \in {"created", "signedIn", "query"}
  BY CreateStep, SignInStep, SignedInStep DEF pageVars
<1>2. /\ calls'[d][s].op = "created" => user'[d] # Nobody
      /\ calls'[d][s].op = "query" => calls'[d][s].who = user'[d]
      /\ \A e \in Phone \ {d} : user'[e] = user[e]
  <2>1. user \in [Phone -> auth \cup {Nobody}]
    BY DEF TypeInv, TypeOK
  <2>2. CASE Create(d, s)
    <3>1. user' = [user EXCEPT ![d] = calls[d][s].who] /\ calls[d][s].who \in Person
          /\ calls'[d][s].op = "created"
      BY <2>2, CreateStep
    <3>2. QED
      BY <2>1, <3>1, NobodyElse
  <2>3. CASE SignIn(d, s)
    <3>1. user' = [user EXCEPT ![d] = calls[d][s].who] /\ calls'[d][s].op = "signedIn"
      BY <2>3, SignInStep
    <3>2. QED
      BY <2>1, <3>1
  <2>4. CASE SignedIn(d, s)
    <3>1. user' = user /\ calls'[d][s].op = "query" /\ calls'[d][s].who = user[d]
      BY <2>4, SignedInStep
    <3>2. QED
      BY <3>1
  <2>5. QED
    BY <2>2, <2>3, <2>4
<1>3. CASE "raced" \in trouble[d]
  BY <1>1, <1>2, <1>3 DEF Calm
<1>4. CASE "raced" \notin trouble[d]
  <2>1. ~AtHome(d) /\ page[d] # "crashed" /\ \A t \in Slot : t # s => calls[d][t] = Idle
    BY <1>1, <1>4, CalmSlot
  <2>2. ~AtHome(d)' /\ page'[d] # "crashed"
    BY <1>1, <2>1 DEF AtHome
  <2>3. Calm(d)'
    BY <1>1, <1>2, <2>1, <2>2, CalmOne
  <2>4. QED
    BY <1>2, <2>3
<1>5. QED
  BY <1>3, <1>4

LEMMA CalmRouted ==
  ASSUME TypeInv, NEW d \in Phone, Calm(d), NEW s \in Slot, Routed(d, s)
  PROVE  Calm(d)'
<1>1. /\ calls[d][s].op = "query" /\ calls[d][s] # Idle
      /\ docs[calls[d][s].who] # Nobody /\ calls[d][s].who \in Person
      /\ page'[d] \in {Home(docs[calls[d][s].who]), page[d]}
      /\ calls'[d][s] = Idle /\ Fewer(d)
      /\ docs' = docs /\ user' = user /\ trouble' = trouble
  BY RoutedStep DEF storeVars
<1>2. SUFFICES ASSUME "raced" \notin trouble[d]
               PROVE  Calm(d)'
  BY <1>1 DEF Calm
<1>3. /\ ~AtHome(d) /\ page[d] # "crashed" /\ \A t \in Slot : t # s => calls[d][t] = Idle
      /\ calls[d][s].who = user[d]
  BY <1>1, <1>2, CalmSlot DEF Calm
<1>4. \A t \in Slot : calls'[d][t] = Idle
  BY <1>1, <1>3 DEF Fewer
<1>5. CASE page'[d] = page[d]
  <2>1. ~AtHome(d)' /\ page'[d] # "crashed"
    BY <1>3, <1>5 DEF AtHome
  <2>2. QED
    BY <1>4, <2>1, IdleSound, CalmOne
<1>6. CASE page'[d] = Home(docs[user[d]])
  <2>1. page'[d] # "crashed"
    BY <1>6 DEF Home
  <2>2. user'[d] # Nobody /\ docs'[user'[d]] # Nobody /\ page'[d] = Home(docs'[user'[d]])
    BY <1>1, <1>3, <1>6, NobodyElse
  <2>3. QED
    BY <1>4, <2>1, <2>2, IdleSound DEF Calm, Minted
<1>7. QED
  BY <1>1, <1>3, <1>5, <1>6

LEMMA CalmOut ==
  ASSUME TypeInv, NEW d \in Phone, Calm(d), Fewer(d), OutOnly(d), trouble' = trouble, docs' = docs,
         page'[d] \in {"landing", "closed", "signup", "login"}
  PROVE  Calm(d)' /\ \A e \in Phone \ {d} : user'[e] = user[e]
<1>1. CASE user' = user
  BY <1>1, CalmFewer
<1>2. CASE AtHome(d) /\ user' = [user EXCEPT ![d] = Nobody]
  <2>1. \A e \in Phone \ {d} : user'[e] = user[e]
    BY <1>2 DEF TypeInv, TypeOK
  <2>2. CASE "raced" \in trouble[d]
    BY <2>1, <2>2 DEF Calm
  <2>3. CASE "raced" \notin trouble[d]
    <3>1. \A s \in Slot : calls'[d][s] = Idle
      BY <1>2, <2>3 DEF Calm, Fewer
    <3>2. ~AtHome(d)' /\ page'[d] # "crashed"
      BY DEF AtHome
    <3>3. QED
      BY <2>1, <3>1, <3>2, IdleSound DEF Calm, Minted
  <2>4. QED
    BY <2>2, <2>3
<1>3. QED
  BY <1>1, <1>2 DEF OutOnly
LEMMA StepCalm == TypeInv /\ ProfileInv /\ CalmInv /\ [Next]_vars => CalmInv'
<1> SUFFICES ASSUME TypeInv, ProfileInv, CalmInv, [Next]_vars
             PROVE  CalmInv'
  OBVIOUS
<1>0. \A e \in Phone : Calm(e)
  BY DEF CalmInv
<1>1. ASSUME NEW d \in Phone, Calm(d)', DocsKept,
             \A e \in Phone \ {d} : /\ page'[e] = page[e] /\ calls'[e] = calls[e]
                                    /\ user'[e] = user[e] /\ trouble'[e] = trouble[e]
      PROVE  CalmInv'
  <2>1. \A e \in Phone \ {d} : Calm(e)'
    BY <1>0, <1>1, CalmElse
  <2>2. QED
    BY <1>1, <2>1 DEF CalmInv
<1>2. ASSUME NEW d \in Phone, PhoneNext(d)
      PROVE  CalmInv'
  <2>1. CASE \/ OpenApp(d) \/ Kill(d) \/ Back(d) \/ SignOut(d)
             \/ \E p \in {"signup", "login"} : OpenPage(d, p)
             \/ \E role \in Role : RoleTapped(d, role)
    <3>1. /\ Fewer(d) /\ OutOnly(d) /\ docs' = docs /\ trouble' = trouble
          /\ page'[d] \in {"landing", "closed", "signup", "login"}
          /\ \A e \in Phone \ {d} : calls'[e] = calls[e] /\ page'[e] = page[e]
      BY <2>1, PagesStep DEF storeVars
    <3>2. Calm(d)' /\ \A e \in Phone \ {d} : user'[e] = user[e]
      BY <1>0, <3>1, CalmOut
    <3>3. QED
      BY <1>1, <3>1, <3>2 DEF DocsKept
  <2>2. ASSUME NEW s \in Slot, NEW u \in Person, SignupTapped(d, s, u) \/ LoginTapped(d, s, u)
        PROVE  CalmInv'
    <3>1. /\ docs' = docs /\ page' = page /\ user' = user
          /\ \A e \in Phone \ {d} : calls'[e] = calls[e]
      BY <2>2, SignupTappedStep, LoginTappedStep DEF storeVars, pageVars
    <3>2. Calm(d)' /\ \A e \in Phone \ {d} : trouble'[e] = trouble[e]
      BY <1>0, <2>2, CalmTaps
    <3>3. QED
      BY <1>1, <3>1, <3>2 DEF DocsKept
  <2>3. ASSUME NEW s \in Slot, Create(d, s) \/ SignIn(d, s) \/ SignedIn(d, s)
        PROVE  CalmInv'
    <3>1. /\ docs' = docs /\ page' = page /\ trouble' = trouble
          /\ \A e \in Phone \ {d} : calls'[e] = calls[e]
      BY <2>3, CreateStep, SignInStep, SignedInStep DEF storeVars, pageVars
    <3>2. Calm(d)' /\ \A e \in Phone \ {d} : user'[e] = user[e]
      BY <1>0, <2>3, CalmCalls
    <3>3. QED
      BY <1>1, <3>1, <3>2 DEF DocsKept
  <2>4. ASSUME NEW s \in Slot, CreateRefused(d, s) \/ SignInFailed(d, s) \/ NotRouted(d, s)
        PROVE  CalmInv'
    <3>1. /\ docs' = docs /\ page' = page /\ user' = user /\ trouble[d] \subseteq trouble'[d]
          /\ calls'[d] = Answered(d, s)
          /\ \A e \in Phone \ {d} : calls'[e] = calls[e] /\ trouble'[e] = trouble[e]
      BY <2>4, CreateRefusedStep, SignInFailedStep DEF storeVars, pageVars
    <3>2. Fewer(d)
      BY <3>1, AnsweredSound DEF Fewer
    <3>3. Calm(d)'
      BY <1>0, <3>1, <3>2, CalmFewer
    <3>4. QED
      BY <1>1, <3>1, <3>3 DEF DocsKept
  <2>5. ASSUME NEW s \in Slot, Created(d, s)
        PROVE  CalmInv'
    <3>1. /\ docs' = docs /\ user' = user /\ trouble' = trouble /\ Fewer(d)
          /\ page'[d] \in {"landing", page[d]}
          /\ \A e \in Phone \ {d} : page'[e] = page[e] /\ calls'[e] = calls[e]
      BY <2>5, CreatedStep DEF storeVars
    <3>2. Calm(d)'
      BY <1>0, <3>1, CalmFewer
    <3>3. QED
      BY <1>1, <3>1, <3>2 DEF DocsKept
  <2>6. ASSUME NEW s \in Slot, CreatedCrash(d, s)
        PROVE  CalmInv'
    <3>1. /\ Minted(d, s) /\ user[d] = Nobody
          /\ docs' = docs /\ user' = user /\ trouble' = trouble
          /\ \A e \in Phone \ {d} : page'[e] = page[e] /\ calls'[e] = calls[e]
      BY <2>6, CreatedCrashStep DEF storeVars, Minted
    <3>2. "raced" \in trouble'[d]
      BY <1>0, <3>1 DEF Calm
    <3>3. QED
      BY <1>1, <3>1, <3>2 DEF DocsKept, Calm
  <2>7. ASSUME NEW s \in Slot, Routed(d, s)
        PROVE  CalmInv'
    <3>1. /\ docs' = docs /\ user' = user /\ trouble' = trouble
          /\ \A e \in Phone \ {d} : page'[e] = page[e] /\ calls'[e] = calls[e]
      BY <2>7, RoutedStep DEF storeVars
    <3>2. Calm(d)'
      BY <1>0, <2>7, CalmRouted
    <3>3. QED
      BY <1>1, <3>1, <3>2 DEF DocsKept
  <2>8. CASE \/ \E w \in Doc : DocStored(d, w) \/ DocRefused(d, w)
             \/ NodeStored(d) \/ NodeAnswerLost(d) \/ NodeRefused(d)
    <3>1. page' = page /\ calls' = calls /\ user' = user /\ trouble' = trouble
      BY <2>8, TypeWrites DEF pageVars, callVars
    <3>2. DocsKept
      <4>1. ASSUME NEW w \in Doc, DocStored(d, w)
            PROVE  DocsKept
        <5>1. docs[w.who] = Nobody /\ docs' = [docs EXCEPT ![w.who] = w.role]
          BY <4>1 DEF DocStored, ProfileInv, OnceInv
        <5>2. QED
          BY <5>1 DEF DocsKept, TypeInv, TypeOK
      <4>2. ASSUME docs' = docs
            PROVE  DocsKept
        BY <4>2 DEF DocsKept
      <4>3. QED
        BY <2>8, <4>1, <4>2 DEF DocRefused, NodeStored, NodeAnswerLost, NodeRefused, storeVars
    <3>3. Calm(d)'
      BY <1>0, <3>1, <3>2, CalmElse
    <3>4. QED
      BY <1>1, <3>1, <3>2, <3>3
  <2>9. QED
    BY <1>2, <2>1, <2>2, <2>3, <2>4, <2>5, <2>6, <2>7, <2>8 DEF PhoneNext
<1>3. ASSUME UNCHANGED <<docs, page, calls, user, trouble>>
      PROVE  CalmInv'
  <2>1. \A e \in Phone : Calm(e)'
    BY <1>0, <1>3, CalmElse DEF DocsKept
  <2>2. QED
    BY <2>1 DEF CalmInv
<1>4. ASSUME NEW u \in Person, Assign(u)
      PROVE  CalmInv'
  BY <1>3, <1>4, TypeAssign DEF pageVars, callVars
<1>5. CASE UNCHANGED vars
  BY <1>3, <1>5 DEF vars, storeVars, pageVars, callVars
<1>6. QED
  BY <1>2, <1>4, <1>5 DEF Next

LEMMA CalmAlways == Spec => [](TypeInv /\ CalmInv)
<1>1. Init => CalmInv
  BY IdleSound DEF Init, CalmInv, Calm, Minted, AtHome
<1>2. QED
  BY <1>1, InitType, StepType, ProfilesAlways, StepCalm, PTL DEF Spec

(* Signing up crashes the app only after a second call was made before the *)
(* callback of the first.                                                  *)
THEOREM OnlyRacesCrash == Spec => []CrashNeedsRace
<1>1. CalmInv => CrashNeedsRace
  BY DEF CalmInv, Calm, CrashNeedsRace
<1>2. QED
  BY <1>1, CalmAlways, PTL

(* Without such a race a home page is that of the role of whoever is       *)
(* signed in: documents are never changed, and nobody signs in behind it.  *)
THEOREM HomesFit == Spec => []HomeFitsUser
<1>1. CalmInv => HomeFitsUser
  BY DEF CalmInv, Calm, HomeFitsUser, AtHome
<1>2. QED
  BY <1>1, CalmAlways, PTL

---------------------------------------------------------------------------
(* A sign-up is not forgotten: the account's callback waits on the main    *)
(* queue, or each part of its profile is stored or queued, the document by *)
(* the user who will send it.  What was lost or written for another user   *)
(* is known.                                                               *)
Known(u) == risks[u] \cap {"mixed", "lost"} # {}

Called(d, s, u) == Minted(d, s) /\ calls[d][s].who = u /\ s \in ToSet(due[d])

SignupsNotForgotten ==
  \A u \in auth :
    \/ Known(u)
    \/ \E d \in Phone : \E s \in Slot : Called(d, s, u)
    \/ /\ docs[u] # Nobody \/ \E d \in Phone : \E w \in docQueue[d] : w.who = u /\ w.by = u
       /\ nodes[u] # Nobody \/ \E d \in Phone : \E v \in Sent(d) : v.who = u

(* What a step may not drop. *)
Carried ==
  /\ \A u \in auth' : u \in auth \/ Known(u)'
  /\ \A u \in Person : Known(u) => Known(u)'
  /\ \A u \in Person : (docs[u] # Nobody => docs'[u] # Nobody) /\ (nodes[u] # Nobody => nodes'[u] # Nobody)
  /\ \A d \in Phone : \A s \in Slot : \A u \in Person : Called(d, s, u) => Called(d, s, u)' \/ Known(u)'
  /\ \A d \in Phone : \A w \in docQueue[d] :
       w \in docQueue'[d] \/ docs'[w.who] # Nobody \/ Known(w.who)'
  /\ \A d \in Phone : \A v \in Sent(d) :
       v \in Sent(d)' \/ nodes'[v.who] # Nobody \/ Known(v.who)'

LEMMA CarriedKept ==
  ASSUME TypeInv, SignupsNotForgotten, Carried
  PROVE  SignupsNotForgotten'
<1> SUFFICES ASSUME NEW u \in auth'
             PROVE  \/ Known(u)'
                    \/ \E d \in Phone : \E s \in Slot : Called(d, s, u)'
                    \/ /\ \/ docs'[u] # Nobody
                          \/ \E d \in Phone : \E w \in docQueue'[d] : w.who = u /\ w.by = u
                       /\ nodes'[u] # Nobody \/ \E d \in Phone : \E v \in Sent(d)' : v.who = u
  BY DEF SignupsNotForgotten
<1>1. CASE u \notin auth
  BY <1>1 DEF Carried
<1>2. CASE u \in auth /\ Known(u)
  BY <1>2 DEF Carried, TypeInv, TypeOK
<1>3. ASSUME u \in auth, NEW d \in Phone, NEW s \in Slot, Called(d, s, u)
      PROVE  Known(u)' \/ Called(d, s, u)'
  BY <1>3 DEF Carried, TypeInv, TypeOK
<1>4. ASSUME u \in auth,
             docs[u] # Nobody \/ \E d \in Phone : \E w \in docQueue[d] : w.who = u /\ w.by = u
      PROVE  \/ Known(u)' \/ docs'[u] # Nobody
             \/ \E d \in Phone : \E w \in docQueue'[d] : w.who = u /\ w.by = u
  BY <1>4 DEF Carried, TypeInv, TypeOK
<1>5. ASSUME u \in auth, nodes[u] # Nobody \/ \E d \in Phone : \E v \in Sent(d) : v.who = u
      PROVE  Known(u)' \/ nodes'[u] # Nobody \/ \E d \in Phone : \E v \in Sent(d)' : v.who = u
  BY <1>5 DEF Carried, TypeInv, TypeOK
<1>6. QED
  BY <1>1, <1>2, <1>3, <1>4, <1>5 DEF SignupsNotForgotten

(* What joins a queue at its end, and what leaves it at its head. *)
LEMMA QueueEnds ==
  ASSUME NEW S, NEW q \in Seq(S), NEW s \in S
  PROVE  /\ ToSet(Append(q, s)) = ToSet(q) \cup {s}
         /\ q # << >> /\ Head(q) = s => \A t \in ToSet(q) : t = s \/ t \in ToSet(Tail(q))
<1>1. /\ DOMAIN q = 1 .. Len(q) /\ Len(q) \in Nat
      /\ DOMAIN Append(q, s) = 1 .. Len(q) + 1
      /\ \A i \in 1 .. Len(q) : Append(q, s)[i] = q[i]
      /\ Append(q, s)[Len(q) + 1] = s
  OBVIOUS
<1>2. ToSet(Append(q, s)) = ToSet(q) \cup {s}
  BY <1>1 DEF ToSet
<1>3. ASSUME q # << >>, Head(q) = s, NEW i \in DOMAIN q
      PROVE  q[i] = s \/ \E j \in DOMAIN Tail(q) : Tail(q)[j] = q[i]
  <2>1. CASE i = 1
    BY <1>3, <2>1
  <2>2. CASE i # 1
    <3>1. i - 1 \in DOMAIN Tail(q) /\ Tail(q)[i - 1] = q[i]
      BY <1>3, <2>2
    <3>2. QED
      BY <3>1
  <2>3. QED
    BY <2>1, <2>2
<1>4. QED
  BY <1>2, <1>3 DEF ToSet

LEMMA RanOthers ==
  ASSUME TypeInv, NEW d \in Phone, NEW s \in Slot, Runs(d, s)
  PROVE  /\ \A t \in Slot : t \in ToSet(due[d]) /\ t # s => t \in ToSet(due'[d])
         /\ \A e \in Phone \ {d} : due'[e] = due[e]
<1>1. /\ due[d] \in Seq(Slot) /\ due[d] # << >> /\ Head(due[d]) = s
      /\ due'[d] = Tail(due[d])
      /\ \A e \in Phone \ {d} : due'[e] = due[e]
  BY DEF Runs, TypeInv, TypeOK
<1>2. QED
  BY <1>1, QueueEnds

LEMMA JoinedQueue ==
  ASSUME TypeInv, NEW d \in Phone, NEW s \in Slot, due' = [due EXCEPT ![d] = Append(@, s)]
  PROVE  /\ ToSet(due'[d]) = ToSet(due[d]) \cup {s}
         /\ \A e \in Phone \ {d} : due'[e] = due[e]
<1>1. /\ due[d] \in Seq(Slot)
      /\ due'[d] = Append(due[d], s)
      /\ \A e \in Phone \ {d} : due'[e] = due[e]
  BY DEF TypeInv, TypeOK
<1>2. QED
  BY <1>1, QueueEnds

(* The sign-ups of d go on, and the profiles are left alone. *)
LEMMA CallsCarried ==
  ASSUME TypeInv, NEW d \in Phone,
         \A t \in Slot : Minted(d, t) =>
           /\ Minted(d, t)' /\ calls'[d][t].who = calls[d][t].who
           /\ t \in ToSet(due[d]) => t \in ToSet(due'[d]),
         \A e \in Phone \ {d} : calls'[e] = calls[e] /\ due'[e] = due[e],
         \A u \in Person : risks[u] \subseteq risks'[u],
         \A u \in auth' : u \in auth \/ Known(u)',
         UNCHANGED <<docs, nodes, docQueue, nodeQueue>>
  PROVE  Carried
<1>1. \A e \in Phone : \A t \in Slot : \A u \in Person : Called(e, t, u) => Called(e, t, u)'
  BY DEF Called, Minted
<1>2. \A u \in Person : Known(u) => Known(u)'
  BY DEF Known
<1>3. QED
  BY <1>1, <1>2 DEF Carried, Sent

(* A page that is left, or no page at all. *)
LEMMA CarriedPages ==
  ASSUME TypeInv, NEW d \in Phone,
         \/ OpenApp(d) \/ Back(d) \/ SignOut(d)
         \/ \E p \in {"signup", "login"} : OpenPage(d, p)
         \/ \E role \in Role : RoleTapped(d, role)
  PROVE  Carried
<1> USE DEF storeVars, queueVars, pageVars, callVars
<1>0. calls[d] \in [Slot -> Sound] /\ \A s \in Slot : calls[d][s] \in Sound
  BY DEF TypeInv
<1>1. CASE OpenApp(d)
  BY <1>1, CallsCarried DEF OpenApp, Minted
<1>2. ASSUME NEW p \in {"landing", "signup", "login"}, Leave(d, p, calls[d]),
             UNCHANGED <<storeVars, due, queueVars, risks>>
      PROVE  Carried
  <2>1. p \in Pages
    BY DEF Pages
  <2>2. /\ \A e \in Phone \ {d} : calls'[e] = calls[e]
        /\ \A t \in Slot : calls[d][t] # Idle => /\ calls'[d][t].op = calls[d][t].op
                                                 /\ calls'[d][t].who = calls[d][t].who
    BY <1>0, <1>2, <2>1, Left
  <2>3. \A t \in Slot : Minted(d, t) => Minted(d, t)' /\ calls'[d][t].who = calls[d][t].who
    BY <2>2, IdleSound DEF Minted
  <2>4. QED
    BY <1>2, <2>2, <2>3, CallsCarried
<1>3. CASE Back(d) \/ SignOut(d) \/ \E p \in {"signup", "login"} : OpenPage(d, p)
  BY <1>2, <1>3 DEF Back, SignOut, OpenPage
<1>4. ASSUME NEW role \in Role, RoleTapped(d, role)
      PROVE  Carried
  <2> DEFINE f == [s \in Slot |-> IF calls[d][s].here THEN [calls[d][s] EXCEPT !.role = role]
                                                     ELSE calls[d][s]]
  <2>1. /\ calls' = [calls EXCEPT ![d] = f]
        /\ UNCHANGED <<storeVars, due, queueVars, risks>>
    BY <1>4 DEF RoleTapped, TypeInv
  <2>2. \A s \in Slot : calls[d][s] # Idle => f[s].op = calls[d][s].op /\ f[s].who = calls[d][s].who
    BY <1>0, IdleSound, SoundChanged
  <2>3. \A s \in Slot : f[s] \in Sound
    BY <1>0, IdleSound, SoundChanged
  <2>4. f \in [Slot -> Sound']
    BY <2>1, <2>3, SoundMore
  <2> HIDE DEF f
  <2>5. calls'[d] = f /\ \A e \in Phone \ {d} : calls'[e] = calls[e]
    BY <2>1, <2>4, CallsOf
  <2>6. \A t \in Slot : Minted(d, t) => Minted(d, t)' /\ calls'[d][t].who = calls[d][t].who
    BY <2>2, <2>5, IdleSound DEF Minted
  <2>7. QED
    BY <2>1, <2>5, <2>6, CallsCarried
<1>5. QED
  BY <1>1, <1>3, <1>4

(* A call is answered for good: the others stay. *)
LEMMA OthersStay ==
  ASSUME TypeInv, NEW d \in Phone, NEW s \in Slot, NEW p \in Pages, auth' = auth,
         Leave(d, p, Answered(d, s)) \/ Drop(d, s)
  PROVE  \A t \in Slot : t # s /\ Minted(d, t) =>
           Minted(d, t)' /\ calls'[d][t].who = calls[d][t].who
<1> DEFINE rest == Answered(d, s)
<1>1. rest \in [Slot -> Sound] /\ \A t \in Slot : t # s => rest[t] = calls[d][t]
  BY AnsweredSound
<1>2. CASE Leave(d, p, Answered(d, s))
  <2>1. Leave(d, p, rest)
    BY <1>2
  <2> HIDE DEF rest
  <2>2. \A t \in Slot : rest[t] # Idle => /\ calls'[d][t].op = rest[t].op
                                          /\ calls'[d][t].who = rest[t].who
    BY <1>1, <2>1, Left
  <2>3. QED
    BY <1>1, <2>2, IdleSound DEF Minted
<1>3. CASE Drop(d, s)
  <2>1. calls'[d] = rest
    BY <1>3, Dropped
  <2> HIDE DEF rest
  <2>2. QED
    BY <1>1, <2>1 DEF Minted
<1>4. QED
  BY <1>2, <1>3

LEMMA CarriedSteps ==
  ASSUME TypeInv, NEW d \in Phone, NEW s \in Slot,
         \/ \E u \in Person : SignupTapped(d, s, u) \/ LoginTapped(d, s, u)
         \/ CreateRefused(d, s) \/ SignIn(d, s) \/ SignInFailed(d, s)
         \/ SignedIn(d, s) \/ Routed(d, s) \/ NotRouted(d, s)
  PROVE  Carried
<1> USE DEF storeVars, queueVars
<1>1. CASE \E u \in Person : SignupTapped(d, s, u) \/ LoginTapped(d, s, u)
  <2>1. /\ calls[d][s] = Idle
        /\ \A t \in Slot : t # s => calls'[d][t] = calls[d][t]
        /\ \A e \in Phone \ {d} : calls'[e] = calls[e]
        /\ UNCHANGED <<storeVars, due, queueVars, risks>>
    BY <1>1, SignupTappedStep, LoginTappedStep
  <2>2. QED
    BY <2>1, IdleSound, CallsCarried DEF Minted
<1>2. CASE SignIn(d, s)
  <2>1. /\ ~Minted(d, s) /\ due' = [due EXCEPT ![d] = Append(@, s)]
        /\ \A t \in Slot : t # s => calls'[d][t] = calls[d][t]
        /\ \A e \in Phone \ {d} : calls'[e] = calls[e]
        /\ UNCHANGED <<storeVars, queueVars, risks>>
    BY <1>2, SignInStep DEF SignIn, Minted
  <2>2. /\ ToSet(due'[d]) = ToSet(due[d]) \cup {s}
        /\ \A e \in Phone \ {d} : due'[e] = due[e]
    BY <2>1, JoinedQueue
  <2>3. \A t \in Slot : Minted(d, t) => Minted(d, t)' /\ calls'[d][t].who = calls[d][t].who
    BY <2>1 DEF Minted
  <2>4. QED
    BY <2>1, <2>2, <2>3, CallsCarried
<1>3. CASE SignedIn(d, s)
  <2>1. /\ ~Minted(d, s) /\ Runs(d, s)
        /\ \A t \in Slot : t # s => calls'[d][t] = calls[d][t]
        /\ \A e \in Phone \ {d} : calls'[e] = calls[e]
        /\ UNCHANGED <<storeVars, queueVars, risks>>
    BY <1>3, SignedInStep DEF SignedIn, Minted
  <2>2. QED
    BY <2>1, RanOthers, CallsCarried DEF Minted
<1>4. CASE CreateRefused(d, s) \/ SignInFailed(d, s) \/ NotRouted(d, s)
  <2>1. /\ ~Minted(d, s) /\ calls'[d] = Answered(d, s)
        /\ \A e \in Phone \ {d} : calls'[e] = calls[e]
        /\ \A v \in Person : risks[v] \subseteq risks'[v]
        /\ UNCHANGED <<docs, nodes, due, queueVars>>
    BY <1>4, CreateRefusedStep, SignInFailedStep
    DEF CreateRefused, SignInFailed, NotRouted, Minted
  <2>2. \A t \in Slot : t # s => calls'[d][t] = calls[d][t]
    BY <2>1, AnsweredSound
  <2>3. \A u \in auth' : u \in auth \/ Known(u)'
    <3>1. CASE CreateRefused(d, s)
      <4>1. auth' \ auth \in SUBSET Person /\ Mark(auth' \ auth, "lost")
        BY <3>1, CreateRefusedStep DEF CreateRefused, TypeInv, TypeOK
      <4>2. "lost" \in Risks
        BY DEF Risks
      <4>3. QED
        BY <4>1, <4>2, Marked DEF TypeInv, Known
    <3>2. CASE SignInFailed(d, s) \/ NotRouted(d, s)
      BY <3>2 DEF SignInFailed, NotRouted
    <3>3. QED
      BY <1>4, <3>1, <3>2
  <2>4. QED
    BY <2>1, <2>2, <2>3, CallsCarried DEF Minted
<1>5. CASE Routed(d, s)
  <2>1. /\ ~Minted(d, s)
        /\ \/ Leave(d, Home(docs[calls[d][s].who]), Answered(d, s))
           \/ Drop(d, s)
        /\ UNCHANGED <<storeVars, due, queueVars, risks>>
    BY <1>5 DEF Routed, Minted
  <2>2. \A e \in Phone \ {d} : calls'[e] = calls[e]
    BY <1>5, RoutedStep
  <2>3. \A t \in Slot : t # s /\ Minted(d, t) => Minted(d, t)' /\ calls'[d][t].who = calls[d][t].who
    <3>1. Home(docs[calls[d][s].who]) \in Pages
      BY DEF Home, Pages
    <3>2. QED
      BY <2>1, <3>1, OthersStay
  <2>4. QED
    BY <2>1, <2>2, <2>3, CallsCarried
<1>6. QED
  BY <1>1, <1>2, <1>3, <1>4, <1>5

(* What ends with the app is known to be lost. *)
LEMMA StopCarried ==
  ASSUME TypeInv, NEW d \in Phone, NEW how \in {"closed", "crashed"}, Stop(d, how),
         UNCHANGED storeVars, \A e \in Phone : docQueue[e] \subseteq docQueue'[e]
  PROVE  Carried
<1> DEFINE us == {calls[d][s].who : s \in {x \in Slot : calls[d][x].op = "created"}}
                   \cup {w.who : w \in ToSet(nodeQueue[d])}
<1>1. /\ \A u \in Person : risks[u] \subseteq risks'[u]
      /\ \A e \in Phone \ {d} : calls'[e] = calls[e] /\ nodeQueue'[e] = nodeQueue[e]
  BY Stopped DEF storeVars
<1>2. \A e \in Phone \ {d} : due'[e] = due[e]
  BY DEF Stop, TypeInv, TypeOK
<1>3. /\ \A s \in Slot : Minted(d, s) => calls[d][s].who \in us
      /\ \A v \in Sent(d) : v.who \in us
  BY DEF Minted, Sent
<1>4. Mark(us, "lost")
  BY DEF Stop
<1> HIDE DEF us
<1>5. "lost" \in Risks
  BY DEF Risks
<1>6. \A u \in Person : u \in us => Known(u)'
  BY <1>4, <1>5, Marked DEF TypeInv, Known
<1>7. \A u \in Person : Known(u) => Known(u)'
  BY <1>1 DEF Known
<1>8. \A e \in Phone : \A s \in Slot : \A u \in Person :
        Called(e, s, u) => Called(e, s, u)' \/ Known(u)'
  BY <1>1, <1>2, <1>3, <1>6 DEF Called, Minted
<1>9. \A e \in Phone : \A v \in Sent(e) : v \in Sent(e)' \/ Known(v.who)'
  BY <1>1, <1>3, <1>6, WhoIsPerson DEF Sent
<1>10. QED
  BY <1>7, <1>8, <1>9 DEF Carried, storeVars

LEMMA CarriedStops ==
  ASSUME TypeInv, NEW d \in Phone, Kill(d) \/ \E s \in Slot : CreatedCrash(d, s)
  PROVE  Carried
<1>1. /\ \E how \in {"closed", "crashed"} : Stop(d, how)
      /\ UNCHANGED storeVars
  BY DEF Kill, CreatedCrash
<1>2. \A e \in Phone : docQueue[e] \subseteq docQueue'[e]
  BY DEF Kill, CreatedCrash, TypeInv, TypeOK
<1>3. QED
  BY <1>1, <1>2, StopCarried

(* The head of the database's queue goes, and nothing else. *)
LEMMA SentOthers ==
  ASSUME TypeInv, NEW d \in Phone, nodeQueue[d] # << >>, nodeQueue' = [nodeQueue EXCEPT ![d] = Tail(@)]
  PROVE  \A e \in Phone : \A v \in Sent(e) : v \in Sent(e)' \/ v = Head(nodeQueue[d])
<1>1. /\ nodeQueue[d] \in Seq(Node) /\ Head(nodeQueue[d]) \in Node
      /\ nodeQueue'[d] = Tail(nodeQueue[d])
      /\ \A e \in Phone \ {d} : nodeQueue'[e] = nodeQueue[e]
  BY HeadTailProperties DEF TypeInv, TypeOK
<1>2. \A v \in ToSet(nodeQueue[d]) : v = Head(nodeQueue[d]) \/ v \in ToSet(Tail(nodeQueue[d]))
  BY <1>1, QueueEnds
<1>3. QED
  BY <1>1, <1>2 DEF Sent

LEMMA CarriedNodes ==
  ASSUME TypeInv, NEW d \in Phone, NodeStored(d) \/ NodeAnswerLost(d) \/ NodeRefused(d)
  PROVE  Carried
<1>1. /\ UNCHANGED <<auth, docs, calls, due, docQueue>>
      /\ \A u \in Person : risks[u] \subseteq risks'[u]
  BY TypeWrites DEF NodeStored, NodeAnswerLost, NodeRefused, storeVars, callVars, queueVars
<1>2. \A u \in Person : nodes[u] # Nobody => nodes'[u] # Nobody
  <2>1. CASE NodeStored(d)
    <3>1. Head(nodeQueue[d]) \in Node
      BY <2>1, HeadTailProperties DEF NodeStored, TypeInv, TypeOK
    <3>2. QED
      BY <2>1, <3>1, NobodyElse DEF NodeStored, Node, TypeInv, TypeOK
  <2>2. CASE NodeAnswerLost(d)
    <3>1. PICK w \in Sent(d) : nodes' = [nodes EXCEPT ![w.who] = w.role]
      BY <2>2 DEF NodeAnswerLost, Sent
    <3>2. QED
      BY <3>1, WhoIsPerson, NobodyElse DEF TypeInv, TypeOK
  <2>3. CASE NodeRefused(d)
    BY <2>3 DEF NodeRefused, storeVars
  <2>4. QED
    BY <2>1, <2>2, <2>3
<1>3. \A e \in Phone : \A v \in Sent(e) :
        v \in Sent(e)' \/ nodes'[v.who] # Nobody \/ Known(v.who)'
  <2>1. CASE NodeStored(d)
    <3>1. PICK w : w = Head(nodeQueue[d])
      OBVIOUS
    <3>2. /\ nodeQueue[d] # << >> /\ nodeQueue' = [nodeQueue EXCEPT ![d] = Tail(@)]
          /\ nodes' = [nodes EXCEPT ![w.who] = w.role]
      BY <2>1, <3>1 DEF NodeStored
    <3>3. w \in Sent(d) /\ \A e \in Phone : \A v \in Sent(e) : v \in Sent(e)' \/ v = w
      BY <3>1, <3>2, SentTail, SentOthers
    <3>4. nodes'[w.who] # Nobody
      BY <3>2, <3>3, WhoIsPerson, NobodyElse DEF TypeInv, TypeOK
    <3>5. QED
      BY <3>3, <3>4
  <2>2. CASE NodeAnswerLost(d)
    BY <2>2 DEF NodeAnswerLost, queueVars, Sent
  <2>3. CASE NodeRefused(d)
    <3>1. PICK w : w = Head(nodeQueue[d])
      OBVIOUS
    <3>2. /\ nodeQueue[d] # << >> /\ nodeQueue' = [nodeQueue EXCEPT ![d] = Tail(@)]
          /\ Mark({w.who}, "lost")
      BY <2>3, <3>1 DEF NodeRefused
    <3>3. w \in Sent(d) /\ \A e \in Phone : \A v \in Sent(e) : v \in Sent(e)' \/ v = w
      BY <3>1, <3>2, SentTail, SentOthers
    <3>4. w.who \in Person /\ "lost" \in Risks
      BY <3>3, WhoIsPerson DEF Risks
    <3>5. Known(w.who)'
      BY <3>2, <3>4, Marked DEF TypeInv, Known
    <3>6. QED
      BY <3>3, <3>5
  <2>4. QED
    BY <2>1, <2>2, <2>3
<1>4. \A u \in Person : Known(u) => Known(u)'
  BY <1>1 DEF Known
<1>5. \A e \in Phone : \A s \in Slot : \A u \in Person : Called(e, s, u) => Called(e, s, u)'
  BY <1>1 DEF Called, Minted
<1>6. QED
  BY <1>1, <1>2, <1>3, <1>4, <1>5 DEF Carried

LEMMA CarriedDocs ==
  ASSUME TypeInv, NEW d \in Phone, NEW w \in Doc, DocStored(d, w) \/ DocRefused(d, w)
  PROVE  Carried
<1>1. /\ UNCHANGED <<auth, nodes, calls, due, nodeQueue>>
      /\ \A u \in Person : risks[u] \subseteq risks'[u]
  BY TypeWrites DEF DocStored, DocRefused, storeVars, callVars, queueVars
<1>2. /\ w.who \in Person /\ w.role # Nobody
      /\ \A e \in Phone : \A x \in docQueue[e] : x \in docQueue'[e] \/ x = w
  <2>1. w.who \in Person /\ w.role # Nobody
    BY NobodyElse DEF Doc
  <2>2. docQueue' = [docQueue EXCEPT ![d] = @ \ {w}] /\ docQueue \in [Phone -> SUBSET Doc]
    BY DEF DocStored, DocRefused, TypeInv, TypeOK
  <2>3. \A e \in Phone : \A x \in docQueue[e] : x \in docQueue'[e] \/ x = w
    BY <2>2
  <2>4. QED
    BY <2>1, <2>3
<1>3. docs'[w.who] # Nobody \/ Known(w.who)'
  <2>1. CASE DocStored(d, w)
    BY <1>2, <2>1 DEF DocStored, TypeInv, TypeOK
  <2>2. CASE DocRefused(d, w)
    <3>1. "lost" \in Risks /\ Mark({w.who}, "lost")
      BY <2>2 DEF DocRefused, Risks
    <3>2. QED
      BY <1>2, <3>1, Marked DEF TypeInv, Known
  <2>3. QED
    BY <2>1, <2>2
<1>4. \A u \in Person : docs[u] # Nobody => docs'[u] # Nobody
  BY <1>2 DEF DocStored, DocRefused, storeVars, TypeInv, TypeOK
<1>5. \A u \in Person : Known(u) => Known(u)'
  BY <1>1 DEF Known
<1>6. \A e \in Phone : \A s \in Slot : \A u \in Person : Called(e, s, u) => Called(e, s, u)'
  BY <1>1 DEF Called, Minted
<1>7. QED
  BY <1>1, <1>2, <1>3, <1>4, <1>5, <1>6 DEF Carried, Sent

(* A new account, and its callback. *)
LEMMA CreateRemembered ==
  ASSUME TypeInv, SignupsNotForgotten, NEW d \in Phone, NEW s \in Slot, Create(d, s)
  PROVE  SignupsNotForgotten'
<1>1. PICK n : n = calls[d][s].who
  OBVIOUS
<1>2. /\ auth' = auth \cup {n}
      /\ ~Minted(d, s) /\ Minted(d, s)' /\ calls'[d][s].who = n
      /\ \A t \in Slot : t # s => calls'[d][t] = calls[d][t]
      /\ \A e \in Phone \ {d} : calls'[e] = calls[e]
      /\ UNCHANGED <<docs, nodes, queueVars, risks>>
  BY <1>1, CreateStep DEF Minted
<1>3. /\ ToSet(due'[d]) = ToSet(due[d]) \cup {s}
      /\ \A e \in Phone \ {d} : due'[e] = due[e]
  BY JoinedQueue DEF Create
<1>4. \A e \in Phone : \A t \in Slot : \A u \in auth : Called(e, t, u) => Called(e, t, u)'
  BY <1>2, <1>3 DEF Called, Minted
<1>5. Called(d, s, n)'
  BY <1>2, <1>3 DEF Called
<1>6. QED
  BY <1>2, <1>4, <1>5 DEF SignupsNotForgotten, Known, queueVars, Sent

LEMMA CreatedRemembered ==
  ASSUME TypeInv, SignupsNotForgotten, NEW d \in Phone, NEW s \in Slot, Created(d, s)
  PROVE  SignupsNotForgotten'
<1>0. PICK n, r, b : n = calls[d][s].who /\ r = calls[d][s].role /\ b = user[d]
  OBVIOUS
<1> DEFINE w == [by |-> b, who |-> n, role |-> r]
           v == [who |-> b, role |-> r]
<1>1. /\ b \in auth /\ r \in Role /\ n \in auth
      /\ docQueue' = [docQueue EXCEPT ![d] = @ \cup {w}]
      /\ nodeQueue' = [nodeQueue EXCEPT ![d] = Append(@, v)]
      /\ \A x \in Person : risks[x] \subseteq risks'[x]
      /\ b # n => "mixed" \in risks'[n]
      /\ \A e \in Phone \ {d} : calls'[e] = calls[e]
      /\ UNCHANGED storeVars
  BY <1>0, CreatedStep
<1>2. auth' = auth /\ docs' = docs /\ nodes' = nodes /\ auth \subseteq Person
  BY <1>1 DEF TypeInv, TypeOK, storeVars
<1>3. w \in docQueue'[d] /\ \A e \in Phone : docQueue[e] \subseteq docQueue'[e]
  BY <1>1 DEF TypeInv, TypeOK
<1>4. v \in Sent(d)' /\ \A e \in Phone : Sent(e) \subseteq Sent(e)'
  <2>1. v \in Node /\ nodeQueue[d] \in Seq(Node)
    BY <1>1 DEF Node, TypeInv, TypeOK
  <2> HIDE DEF v
  <2>2. ToSet(Append(nodeQueue[d], v)) = ToSet(nodeQueue[d]) \cup {v}
    BY <2>1, Queued
  <2>3. nodeQueue'[d] = Append(nodeQueue[d], v) /\ \A e \in Phone \ {d} : nodeQueue'[e] = nodeQueue[e]
    BY <1>1 DEF TypeInv, TypeOK
  <2>4. QED
    BY <2>2, <2>3 DEF Sent
<1>5. w.who = n /\ w.by = b /\ v.who = b
  OBVIOUS
<1> HIDE DEF w, v
<1>6. /\ \A u \in Person : Known(u) => Known(u)'
      /\ b # n => Known(n)'
  BY <1>1, <1>2 DEF Known
<1>7. \A t \in Slot : t # s /\ Minted(d, t) => Minted(d, t)' /\ calls'[d][t].who = calls[d][t].who
  <2>1. "landing" \in Pages
    BY DEF Pages
  <2>2. Leave(d, "landing", Answered(d, s)) \/ Drop(d, s)
    BY DEF Created
  <2>3. QED
    BY <1>2, <2>1, <2>2, OthersStay
<1>8. /\ \A t \in Slot : t \in ToSet(due[d]) /\ t # s => t \in ToSet(due'[d])
      /\ \A e \in Phone \ {d} : due'[e] = due[e]
  BY RanOthers DEF Created
<1>9. \A e \in Phone : \A t \in Slot : \A u \in auth :
        Called(e, t, u) => Called(e, t, u)' \/ (e = d /\ t = s)
  BY <1>1, <1>7, <1>8 DEF Called, Minted
<1>10. \A u \in auth : Called(d, s, u) => u = n
  BY <1>0 DEF Called
<1>11. ASSUME b = n
       PROVE  /\ \E e \in Phone : \E x \in docQueue'[e] : x.who = n /\ x.by = n
              /\ \E e \in Phone : \E x \in Sent(e)' : x.who = n
  BY <1>3, <1>4, <1>5, <1>11
<1>12. SUFFICES ASSUME NEW u \in auth, ~Known(u)'
                PROVE  \/ \E e \in Phone : \E t \in Slot : Called(e, t, u)'
                       \/ /\ docs'[u] # Nobody \/ \E e \in Phone : \E x \in docQueue'[e] : x.who = u /\ x.by = u
                          /\ nodes'[u] # Nobody \/ \E e \in Phone : \E x \in Sent(e)' : x.who = u
  BY <1>2 DEF SignupsNotForgotten
<1>13. CASE u = n
  BY <1>6, <1>11, <1>12, <1>13
<1>14. CASE u # n
  <2>1. CASE \E e \in Phone : \E t \in Slot : Called(e, t, u)
    BY <1>9, <1>10, <1>14, <2>1
  <2>2. CASE ~\E e \in Phone : \E t \in Slot : Called(e, t, u)
    <3>1. /\ docs[u] # Nobody \/ \E e \in Phone : \E x \in docQueue[e] : x.who = u /\ x.by = u
          /\ nodes[u] # Nobody \/ \E e \in Phone : \E x \in Sent(e) : x.who = u
      BY <1>2, <1>6, <1>12, <2>2 DEF SignupsNotForgotten
    <3>2. QED
      BY <1>2, <1>3, <1>4, <3>1
  <2>3. QED
    BY <2>1, <2>2
<1>15. QED
  BY <1>13, <1>14

LEMMA StepRemembered ==
  TypeInv /\ SignupsNotForgotten /\ [Next]_vars => SignupsNotForgotten'
<1> SUFFICES ASSUME TypeInv, SignupsNotForgotten, [Next]_vars
             PROVE  SignupsNotForgotten'
  OBVIOUS
<1>1. ASSUME NEW d \in Phone, PhoneNext(d)
      PROVE  SignupsNotForgotten'
  <2>1. CASE \/ OpenApp(d) \/ Back(d) \/ SignOut(d)
             \/ \E p \in {"signup", "login"} : OpenPage(d, p)
             \/ \E role \in Role : RoleTapped(d, role)
    BY <2>1, CarriedPages, CarriedKept
  <2>2. ASSUME NEW s \in Slot,
               \/ \E u \in Person : SignupTapped(d, s, u) \/ LoginTapped(d, s, u)
               \/ CreateRefused(d, s) \/ SignIn(d, s) \/ SignInFailed(d, s)
               \/ SignedIn(d, s) \/ Routed(d, s) \/ NotRouted(d, s)
        PROVE  SignupsNotForgotten'
    BY <2>2, CarriedSteps, CarriedKept
  <2>3. CASE Kill(d) \/ \E s \in Slot : CreatedCrash(d, s)
    BY <2>3, CarriedStops, CarriedKept
  <2>4. CASE NodeStored(d) \/ NodeAnswerLost(d) \/ NodeRefused(d)
    BY <2>4, CarriedNodes, CarriedKept
  <2>5. ASSUME NEW w \in Doc, DocStored(d, w) \/ DocRefused(d, w)
        PROVE  SignupsNotForgotten'
    BY <2>5, CarriedDocs, CarriedKept
  <2>6. ASSUME NEW s \in Slot, Create(d, s) \/ Created(d, s)
        PROVE  SignupsNotForgotten'
    BY <2>6, CreateRemembered, CreatedRemembered
  <2>7. QED
    BY <1>1, <2>1, <2>2, <2>3, <2>4, <2>5, <2>6 DEF PhoneNext
<1>2. ASSUME NEW x \in Person, Assign(x)
      PROVE  SignupsNotForgotten'
  <2>1. /\ UNCHANGED <<auth, docs, nodes, calls, due, docQueue, nodeQueue>>
        /\ \A u \in Person : risks[u] \subseteq risks'[u]
    BY <1>2, TypeAssign DEF callVars, queueVars
  <2>2. Carried
    BY <2>1 DEF Carried, Known, Called, Minted, Sent
  <2>3. QED
    BY <2>2, CarriedKept
<1>3. CASE UNCHANGED vars
  <2>1. UNCHANGED <<auth, docs, nodes, calls, due, docQueue, nodeQueue, risks>>
    BY <1>3 DEF vars, storeVars, callVars, queueVars
  <2>2. Carried
    BY <2>1 DEF Carried, Known, Called, Minted, Sent
  <2>3. QED
    BY <2>2, CarriedKept
<1>4. QED
  BY <1>1, <1>2, <1>3 DEF Next

(* What the liveness of signing up rests on: on any number of phones and   *)
(* with every event, an account whose profile is incomplete has a callback *)
(* due or the missing part queued.  Only its user staying signed in, and   *)
(* the services answering, are left to fairness.                           *)
THEOREM SignupsRemembered == Spec => []SignupsNotForgotten
<1>1. Init => SignupsNotForgotten
  BY DEF Init, SignupsNotForgotten
<1>2. QED
  BY <1>1, StepRemembered, InitType, StepType, PTL DEF Spec
=============================================================================
