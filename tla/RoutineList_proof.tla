------------------------ MODULE RoutineList_proof ------------------------
(***************************************************************************)
(* For any patients, routines and number of unanswered requests, with      *)
(* every event allowed: the page's states are well formed, the routine     *)
(* opened or removed is the one in the row, and only haste crashes it or   *)
(* makes it show anything but the routines it was told of; and until they  *)
(* are changed elsewhere those are the routines the server holds.          *)
(***************************************************************************)
EXTENDS RoutineList, SequenceTheorems, FiniteSetTheorems, TLAPS

(* Where the page is, and what its callbacks may count on. *)
OnPage == page \in {"patient", "routine"}

Opened ==
  /\ page # "none" => app = "running"
  /\ app # "running" => asked = << >>
  /\ OnPage => patient \in Patient
  /\ ~OnPage => cells = << >>
  /\ \A i \in DOMAIN asked : asked[i].here => OnPage /\ asked[i].of = patient

TypeInv == TypeOK /\ Opened

---------------------------------------------------------------------------
(* Sequences. *)

LEMMA RemoveAtProperties ==
  ASSUME NEW S, NEW s \in Seq(S), NEW i \in DOMAIN s
  PROVE  /\ RemoveAt(s, i) \in Seq(S)
         /\ Len(RemoveAt(s, i)) = Len(s) - 1
         /\ \A j \in DOMAIN RemoveAt(s, i) : \E k \in DOMAIN s : RemoveAt(s, i)[j] = s[k]
         /\ DOMAIN RemoveAt(s, i) = 1 .. Len(s) - 1
         /\ \A j \in 1 .. Len(s) - 1 : RemoveAt(s, i)[j] = IF j < i THEN s[j] ELSE s[j + 1]
<1> DEFINE a == SubSeq(s, 1, i - 1)
           b == SubSeq(s, i + 1, Len(s))
<1>1. Len(s) \in Nat /\ i \in 1 .. Len(s) /\ DOMAIN s = 1 .. Len(s)
  BY LenProperties
<1>2. \A k \in 1 .. Len(s) : s[k] \in S
  BY ElementOfSeq
<1>3. /\ a \in Seq(S) /\ Len(a) = i - 1
      /\ \A j \in 1 .. i - 1 : a[j] = s[j]
  BY <1>1, <1>2, SubSeqProperties
<1>4. /\ b \in Seq(S) /\ Len(b) = Len(s) - i
      /\ \A j \in 1 .. Len(s) - i : b[j] = s[i + j]
  BY <1>1, <1>2, SubSeqProperties
<1>5. /\ a \o b \in Seq(S)
      /\ Len(a \o b) = Len(s) - 1
      /\ \A j \in 1 .. Len(s) - 1 : (a \o b)[j] = IF j <= i - 1 THEN a[j] ELSE b[j - (i - 1)]
  <2>1. Len(a) + Len(b) = Len(s) - 1
    BY <1>1, <1>3, <1>4
  <2>2. /\ a \o b \in Seq(S)
        /\ Len(a \o b) = Len(a) + Len(b)
        /\ \A j \in 1 .. Len(a) + Len(b) : (a \o b)[j] = IF j <= Len(a) THEN a[j] ELSE b[j - Len(a)]
    BY <1>3, <1>4, ConcatProperties
  <2>3. QED
    BY <1>3, <2>1, <2>2
<1>6. \A j \in 1 .. Len(s) - 1 : /\ \E k \in DOMAIN s : (a \o b)[j] = s[k]
                                 /\ (a \o b)[j] = IF j < i THEN s[j] ELSE s[j + 1]
  <2> TAKE j \in 1 .. Len(s) - 1
  <2>1. CASE j <= i - 1
    <3>1. j \in 1 .. i - 1 /\ j \in DOMAIN s
      BY <1>1, <2>1
    <3>2. (a \o b)[j] = s[j]
      BY <1>3, <1>5, <2>1, <3>1
    <3>3. QED
      BY <1>1, <2>1, <3>1, <3>2
  <2>2. CASE ~(j <= i - 1)
    <3>1. j - (i - 1) \in 1 .. Len(s) - i /\ i + (j - (i - 1)) = j + 1 /\ j + 1 \in DOMAIN s
      BY <1>1, <2>2
    <3>2. (a \o b)[j] = s[j + 1]
      BY <1>4, <1>5, <2>2, <3>1
    <3>3. ~(j < i)
      BY <1>1, <2>2
    <3>4. (a \o b)[j] = IF j < i THEN s[j] ELSE s[j + 1]
      BY <3>2, <3>3
    <3>5. QED
      BY <3>1, <3>2, <3>4
  <2>3. QED
    BY <2>1, <2>2
<1>7. DOMAIN (a \o b) = 1 .. Len(s) - 1
  BY <1>5, LenProperties
<1>8. RemoveAt(s, i) = a \o b
  BY DEF RemoveAt
<1> HIDE DEF a, b
<1>9. QED
  BY <1>5, <1>6, <1>7, <1>8

LEMMA TailElements ==
  ASSUME NEW S, NEW s \in Seq(S), s # << >>
  PROVE  /\ Head(s) \in S /\ Head(s) = s[1] /\ 1 \in DOMAIN s
         /\ Tail(s) \in Seq(S)
         /\ \A i \in DOMAIN Tail(s) : i + 1 \in DOMAIN s /\ Tail(s)[i] = s[i + 1]
<1>1. /\ Head(s) \in S /\ Tail(s) \in Seq(S) /\ Len(Tail(s)) = Len(s) - 1
      /\ \A i \in 1 .. Len(Tail(s)) : Tail(s)[i] = s[i + 1]
  BY HeadTailProperties
<1>2. Len(s) \in Nat \ {0} /\ DOMAIN s = 1 .. Len(s) /\ DOMAIN Tail(s) = 1 .. Len(Tail(s))
  BY <1>1, EmptySeq, LenProperties
<1>3. QED
  BY <1>1, <1>2

(* The rows a read appends. *)
LEMMA ReadRows ==
  ASSUME TypeOK, NEW p \in Patient, NEW names \in SetToSeqs(Told(p))
  PROVE  /\ [i \in DOMAIN names |-> [of |-> p, name |-> names[i]]] \in Seq(Row)
         /\ Told(p) = {} => [i \in DOMAIN names |-> [of |-> p, name |-> names[i]]] = << >>
         /\ Told(p) \in SUBSET Routine
<1> DEFINE n == Cardinality(Told(p))
           m == [i \in DOMAIN names |-> [of |-> p, name |-> names[i]]]
<1>1. Told(p) \in SUBSET Routine
  BY DEF Told, TypeOK
<1>2. IsFiniteSet(Told(p)) /\ n \in Nat
  BY <1>1, FiniteRoutines, FS_Subset, FS_CardinalityType
<1>3. names \in [1 .. n -> Told(p)]
  BY DEF SetToSeqs
<1>4. m \in [1 .. n -> Row]
  BY <1>1, <1>3 DEF Row
<1>5. m \in Seq(Row)
  BY <1>2, <1>4, SeqDef
<1>6. Told(p) = {} => m = << >>
  <2>1. SUFFICES ASSUME Told(p) = {}
                 PROVE  m = << >>
    OBVIOUS
  <2>2. n = 0
    BY <2>1, FS_EmptySet
  <2>3. Len(m) = 0
    BY <1>4, <1>5, <2>2, LenProperties
  <2>4. QED
    BY <1>5, <2>3, EmptySeq
<1>7. QED
  BY <1>1, <1>5, <1>6

---------------------------------------------------------------------------
(* Type correctness. *)

LEMMA AskedHead ==
  ASSUME TypeOK, asked # << >>
  PROVE  /\ Head(asked) \in Read \cup Removal
         /\ Head(asked) = asked[1] /\ 1 \in DOMAIN asked
         /\ Tail(asked) \in Seq(Read \cup Removal)
         /\ \A i \in DOMAIN Tail(asked) : i + 1 \in DOMAIN asked /\ Tail(asked)[i] = asked[i + 1]
BY TailElements DEF TypeOK

LEMMA TailHere ==
  ASSUME TypeInv, asked # << >>, asked' = Tail(asked)
  PROVE  \A i \in DOMAIN asked' : asked'[i].here => OnPage /\ asked'[i].of = patient
<1>1. TAKE i \in DOMAIN asked'
<1>2. i + 1 \in DOMAIN asked /\ asked'[i] = asked[i + 1]
  BY AskedHead DEF TypeInv
<1>3. QED
  BY <1>2 DEF TypeInv, Opened

LEMMA HeadHere ==
  ASSUME TypeInv, asked # << >>, Head(asked).here
  PROVE  OnPage /\ Head(asked).of = patient
BY AskedHead DEF TypeInv, Opened

LEMMA AskedMore ==
  ASSUME TypeOK, NEW q \in Read \cup Removal, Ask(q)
  PROVE  /\ asked' \in Seq(Read \cup Removal)
         /\ Len(asked') = Len(asked) + 1
         /\ DOMAIN asked \subseteq DOMAIN asked'
         /\ \A i \in DOMAIN asked : asked'[i] = asked[i]
         /\ \A i \in DOMAIN asked' : i \in DOMAIN asked \/ i = Len(asked) + 1
         /\ asked'[Len(asked) + 1] = q
         /\ Last(asked') = q
<1>1. asked' = Append(asked, q) /\ asked \in Seq(Read \cup Removal) /\ Len(asked) \in Nat
  BY LenProperties DEF Ask, TypeOK
<1>2. asked' \in Seq(Read \cup Removal) /\ Len(asked') = Len(asked) + 1
  BY <1>1
<1>3. DOMAIN asked = 1 .. Len(asked) /\ DOMAIN asked' = 1 .. Len(asked) + 1
  BY <1>1, <1>2
<1>4. \A i \in 1 .. Len(asked) + 1 :
        asked'[i] = IF i = Len(asked) + 1 THEN q ELSE asked[i]
  BY <1>1
<1>5. Last(asked') = asked'[Len(asked) + 1]
  BY <1>2 DEF Last
<1>6. QED
  BY <1>1, <1>2, <1>3, <1>4, <1>5

LEMMA AbandonedType ==
  ASSUME TypeOK
  PROVE  /\ Abandoned \in Seq(Read \cup Removal)
         /\ \A i \in DOMAIN Abandoned : ~Abandoned[i].here
<1>1. asked \in [1 .. Len(asked) -> Read \cup Removal] /\ Len(asked) \in Nat
      /\ DOMAIN asked = 1 .. Len(asked)
  BY LenProperties DEF TypeOK
<1>2. ASSUME NEW q \in Read \cup Removal
      PROVE  [q EXCEPT !.here = FALSE] \in Read \cup Removal /\ ~[q EXCEPT !.here = FALSE].here
  BY DEF Read, Removal
<1>3. Abandoned \in [1 .. Len(asked) -> Read \cup Removal]
  BY <1>1, <1>2 DEF Abandoned
<1>4. Abandoned \in Seq(Read \cup Removal)
  BY <1>1, <1>3, SeqDef
<1>5. \A i \in DOMAIN Abandoned : ~Abandoned[i].here
  BY <1>1, <1>2 DEF Abandoned
<1>6. QED
  BY <1>4, <1>5

LEMMA InitType == Init => TypeInv
<1> SUFFICES ASSUME Init
             PROVE  TypeInv
  OBVIOUS
<1>1. << >> \in Seq(Row) /\ << >> \in Seq(Read \cup Removal) /\ DOMAIN << >> = {}
  OBVIOUS
<1>2. TypeOK
  BY <1>1 DEF Init, TypeOK
<1>3. Opened
  BY <1>1 DEF Init, Opened, OnPage
<1>4. QED
  BY <1>2, <1>3 DEF TypeInv

LEMMA StopType ==
  ASSUME TypeInv, NEW how \in {"closed", "crashed"}, Stop(how), asked' = << >>,
         routines' \in [Patient -> SUBSET Routine], risks' \in SUBSET Risks
  PROVE  TypeInv'
<1>1. << >> \in Seq(Row) /\ << >> \in Seq(Read \cup Removal) /\ DOMAIN << >> = {}
  OBVIOUS
<1>2. TypeOK'
  BY <1>1 DEF Stop, TypeOK
<1>3. Opened'
  BY <1>1 DEF Stop, Opened, OnPage
<1>4. QED
  BY <1>2, <1>3 DEF TypeInv

(* What changes the routines behind the page leaves the page as it is.     *)
Elsewhere ==
  \/ EmptyRoutine
  \/ \E r \in Routine : EditRoutine(r)
  \/ \E p \in Patient, r \in Routine : Colleague(p, r)

LEMMA ElsewhereUnseen ==
  ASSUME Elsewhere
  PROVE  /\ UNCHANGED <<app, page, patient, listed, cells, selected, asked, kept>>
         /\ risks \subseteq risks' /\ risks' \subseteq risks \cup {"changed"}
         /\ TypeInv => routines' \in [Patient -> SUBSET Routine]
         /\ TypeInv => \/ "changed" \in risks'
                       \/ ~OnPage
                       \/ routines'[patient] = routines[patient]
<1> USE DEF pageVars, Changed, OnPage
<1>1. CASE EmptyRoutine
  BY <1>1 DEF EmptyRoutine, TypeInv, TypeOK
<1>2. CASE \E r \in Routine : EditRoutine(r)
  BY <1>2 DEF EditRoutine, TypeInv, TypeOK
<1>3. CASE \E p \in Patient, r \in Routine : Colleague(p, r)
  <2>1. PICK p \in Patient, r \in Routine : Colleague(p, r)
    BY <1>3
  <2>2. /\ UNCHANGED <<app, page, patient, listed, cells, selected, asked, kept>>
        /\ risks \subseteq risks' /\ risks' \subseteq risks \cup {"changed"}
    BY <2>1 DEF Colleague
  <2>3. \E S \in SUBSET Routine : TypeInv => routines' = [routines EXCEPT ![p] = S]
    <3>1. TypeInv => routines[p] \cup {r} \in SUBSET Routine /\ routines[p] \ {r} \in SUBSET Routine
      BY DEF TypeInv, TypeOK
    <3>2. QED
      BY <2>1, <3>1 DEF Colleague
  <2>4. TypeInv => routines' \in [Patient -> SUBSET Routine]
    BY <2>3 DEF TypeInv, TypeOK
  <2>5. CASE p = patient
    BY <2>1, <2>2, <2>4, <2>5 DEF Colleague
  <2>6. CASE p # patient
    BY <2>2, <2>3, <2>4, <2>6 DEF TypeInv, TypeOK, Opened
  <2>7. QED
    BY <2>2, <2>4, <2>5, <2>6
<1>4. QED
  BY <1>1, <1>2, <1>3 DEF Elsewhere

(* Every step keeps the types and what the callbacks count on. *)
LEMMA StepType == TypeInv /\ [Next]_vars => TypeInv'
<1> SUFFICES ASSUME TypeInv, [Next]_vars
             PROVE  TypeInv'
  OBVIOUS
<1> USE DEF TypeInv, pageVars
<1>0. /\ asked \in Seq(Read \cup Removal) /\ listed \in Seq(Row) /\ cells \in Seq(Row)
      /\ << >> \in Seq(Row) /\ << >> \in Seq(Read \cup Removal) /\ DOMAIN << >> = {}
  BY DEF TypeOK
<1>1. CASE OpenApp
  <2>1. asked = << >> /\ ~OnPage /\ cells = << >>
    BY <1>1 DEF OpenApp, Opened, OnPage
  <2>2. TypeOK'
    BY <1>1 DEF OpenApp, TypeOK
  <2>3. Opened'
    BY <1>0, <1>1, <2>1 DEF OpenApp, Opened, OnPage
  <2>4. QED
    BY <2>2, <2>3
<1>2. CASE Kill
  <2>1. routines' = routines /\ risks' = risks /\ asked' = << >> /\ Stop("closed")
    BY <1>2 DEF Kill
  <2>2. QED
    BY <2>1, StopType DEF TypeOK
<1>3. ASSUME NEW p \in Patient, OpenPatient(p)
      PROVE  TypeInv'
  <2> DEFINE q == [op |-> "read", of |-> p, name |-> Nothing, row |-> 0, here |-> TRUE]
  <2>1. Ask(q) /\ q \in Read \cup Removal /\ q.of = p
    BY <1>3 DEF OpenPatient, Read
  <2>2. /\ asked' \in Seq(Read \cup Removal)
        /\ \A i \in DOMAIN asked : asked'[i] = asked[i]
        /\ \A i \in DOMAIN asked' : i \in DOMAIN asked \/ i = Len(asked) + 1
        /\ asked'[Len(asked) + 1] = q
    BY <2>1, AskedMore
  <2>3. TypeOK'
    BY <1>0, <1>3, <2>2 DEF OpenPatient, TypeOK
  <2>4. app = "running" /\ app' = app /\ page' = "patient" /\ patient' = p /\ ~OnPage
    BY <1>3 DEF OpenPatient, Opened, OnPage
  <2>5. \A i \in DOMAIN asked : ~asked[i].here
    BY <2>4 DEF Opened
  <2>6. \A i \in DOMAIN asked' : asked'[i].here => asked'[i].of = p
    BY <2>1, <2>2, <2>5
  <2>7. Opened'
    BY <2>4, <2>6 DEF Opened, OnPage
  <2>8. QED
    BY <2>3, <2>7
<1>4. CASE LeavePatient
  <2>1. asked' \in Seq(Read \cup Removal) /\ \A i \in DOMAIN asked' : ~asked'[i].here
    BY <1>4, AbandonedType DEF LeavePatient
  <2>2. TypeOK'
    BY <1>0, <1>4, <2>1 DEF LeavePatient, TypeOK
  <2>3. Opened'
    BY <1>4, <2>1 DEF LeavePatient, Opened, OnPage
  <2>4. QED
    BY <2>2, <2>3
<1>5. CASE ReadAnswered
  <2> DEFINE p == Head(asked).of
  <2>1. /\ asked # << >> /\ asked' = Tail(asked) /\ Head(asked).op = "read"
        /\ UNCHANGED <<routines, app, page, patient, selected>>
    BY <1>5 DEF ReadAnswered
  <2>2. p \in Patient /\ asked' \in Seq(Read \cup Removal)
    BY <2>1, AskedHead DEF Read, Removal
  <2>3. PICK names \in SetToSeqs(Told(p)) :
          listed' = listed \o [i \in DOMAIN names |-> [of |-> p, name |-> names[i]]]
    BY <1>5 DEF ReadAnswered
  <2>4. listed' \in Seq(Row) /\ Told(p) \in SUBSET Routine
    BY <1>0, <2>2, <2>3, ReadRows, ConcatProperties
  <2>5. \/ Head(asked).here /\ cells' \in {cells, listed'} /\ kept' = Told(p) /\ risks' = risks
        \/ risks' = risks \cup {"late"} /\ cells' = cells /\ kept' = kept
    BY <1>5 DEF ReadAnswered
  <2>6. cells' \in Seq(Row) /\ kept' \in SUBSET Routine /\ risks' \in SUBSET Risks
    BY <1>0, <2>4, <2>5 DEF TypeOK, Risks
  <2>7. TypeOK'
    BY <2>1, <2>2, <2>4, <2>6 DEF TypeOK
  <2>8. ~OnPage => cells' = << >>
    BY <2>1, <2>5, HeadHere DEF Opened
  <2>9. asked # << >>  /\ \A i \in DOMAIN asked' : asked'[i].here => OnPage /\ asked'[i].of = patient
    BY <2>1, TailHere
  <2>10. Opened'
    BY <2>1, <2>8, <2>9 DEF Opened, OnPage
  <2>11. QED
    BY <2>7, <2>10
<1>6. ASSUME NEW i \in DOMAIN cells, TapRow(i)
      PROVE  TypeInv'
  <2>1. listed[i] \in Row
    BY <1>0, <1>6, ElementOfSeq, LenProperties DEF TapRow
  <2>2. TypeOK'
    BY <1>6, <2>1 DEF TapRow, TypeOK
  <2>3. Opened'
    BY <1>6 DEF TapRow, Opened, OnPage
  <2>4. QED
    BY <2>2, <2>3
<1>7. CASE RoutineBack
  <2>1. TypeOK'
    BY <1>7 DEF RoutineBack, TypeOK
  <2>2. Opened'
    BY <1>7 DEF RoutineBack, Opened, OnPage
  <2>3. QED
    BY <2>1, <2>2
<1>8. ASSUME NEW i \in DOMAIN cells, SwipeRow(i)
      PROVE  TypeInv'
  <2> DEFINE q == [op |-> "remove", of |-> patient, name |-> listed[i].name, row |-> i, here |-> TRUE]
  <2>1. /\ page = "patient" /\ i \in DOMAIN listed /\ Ask(q) /\ risks' \in SUBSET Risks
        /\ UNCHANGED <<routines, app, page, patient, listed, cells, selected, kept>>
    BY <1>8 DEF SwipeRow, TypeOK, Risks
  <2>2. patient \in Patient /\ listed[i].name \in Routine /\ i \in Nat \ {0}
    <3>1. listed[i] \in Row /\ i \in 1 .. Len(listed) /\ Len(listed) \in Nat
      BY <1>0, <2>1, ElementOfSeq, LenProperties
    <3>2. QED
      BY <2>1, <3>1 DEF Row, Opened, OnPage
  <2>3. q \in Read \cup Removal /\ q.of = patient
    BY <2>2 DEF Removal
  <2>4. /\ asked' \in Seq(Read \cup Removal)
        /\ \A j \in DOMAIN asked : asked'[j] = asked[j]
        /\ \A j \in DOMAIN asked' : j \in DOMAIN asked \/ j = Len(asked) + 1
        /\ asked'[Len(asked) + 1] = q
    BY <2>1, <2>3, AskedMore
  <2>5. TypeOK'
    BY <2>1, <2>4 DEF TypeOK
  <2>6. \A j \in DOMAIN asked' : asked'[j].here => asked'[j].of = patient
    BY <2>3, <2>4 DEF Opened
  <2>7. Opened'
    BY <2>1, <2>6 DEF Opened, OnPage
  <2>8. QED
    BY <2>5, <2>7
<1>9. CASE RemovalAnswered
  <2> DEFINE q == Head(asked)
  <2>1. /\ asked # << >> /\ asked' = Tail(asked) /\ q.op = "remove"
        /\ q.row \in DOMAIN listed /\ routines' = Removed(q) /\ listed' = RemoveAt(listed, q.row)
        /\ UNCHANGED <<app, page, patient, selected>>
    BY <1>9 DEF RemovalAnswered
  <2>2. \/ /\ q.here /\ q.row \in DOMAIN cells /\ cells' = RemoveAt(cells, q.row)
           /\ kept' = kept \ {q.name} /\ risks' = risks
        \/ risks' = risks \cup {"late"} /\ cells' = cells /\ kept' = kept
    BY <1>9 DEF RemovalAnswered
  <2>3. q \in Removal /\ asked' \in Seq(Read \cup Removal)
    BY <2>1, AskedHead DEF Read
  <2>4. routines' \in [Patient -> SUBSET Routine]
    BY <2>1, <2>3 DEF Removed, Removal, TypeOK
  <2>5. listed' \in Seq(Row)
    BY <1>0, <2>1, RemoveAtProperties
  <2>6. cells' \in Seq(Row)
    BY <1>0, <2>2, RemoveAtProperties
  <2>7. TypeOK'
    BY <2>1, <2>2, <2>3, <2>4, <2>5, <2>6 DEF TypeOK, Risks
  <2>8. ~OnPage => cells' = << >>
    BY <2>1, <2>2, HeadHere DEF Opened
  <2>9. \A i \in DOMAIN asked' : asked'[i].here => OnPage /\ asked'[i].of = patient
    BY <2>1, TailHere
  <2>10. Opened'
    BY <2>1, <2>8, <2>9 DEF Opened, OnPage
  <2>11. QED
    BY <2>7, <2>10
<1>10. CASE RemovalCrash
  <2> DEFINE q == Head(asked)
  <2>1. /\ asked # << >> /\ q.op = "remove" /\ routines' = Removed(q)
        /\ Stop("crashed") /\ asked' = << >>
        /\ risks' = risks \cup {x \in {"late"} : ~q.here}
    BY <1>10 DEF RemovalCrash
  <2>2. q \in Removal
    BY <2>1, AskedHead DEF Read
  <2>3. routines' \in [Patient -> SUBSET Routine] /\ risks' \in SUBSET Risks
    BY <2>1, <2>2 DEF Removed, Removal, TypeOK, Risks
  <2>4. QED
    BY <2>1, <2>3, StopType
<1>11. CASE RemovalDenied
  <2>1. /\ asked # << >> /\ asked' = Tail(asked) /\ risks' = risks \cup {"denied"}
        /\ UNCHANGED <<routines, app, pageVars, kept>>
    BY <1>11 DEF RemovalDenied
  <2>2. asked' \in Seq(Read \cup Removal)
    BY <2>1, AskedHead
  <2>3. TypeOK'
    BY <2>1, <2>2 DEF TypeOK, Risks
  <2>4. \A i \in DOMAIN asked' : asked'[i].here => OnPage /\ asked'[i].of = patient
    BY <2>1, TailHere
  <2>5. Opened'
    BY <2>1, <2>4 DEF Opened, OnPage
  <2>6. QED
    BY <2>3, <2>5
<1>12. CASE Elsewhere
  <2>1. routines' \in [Patient -> SUBSET Routine] /\ risks' \in SUBSET Risks
    BY <1>12, ElsewhereUnseen DEF TypeOK, Risks
  <2>2. UNCHANGED <<app, pageVars, asked, kept>>
    BY <1>12, ElsewhereUnseen
  <2>3. TypeOK' /\ Opened'
    BY <2>1, <2>2 DEF TypeOK, Opened, OnPage
  <2>4. QED
    BY <2>3
<1>13. CASE UNCHANGED vars
  BY <1>13 DEF vars, TypeOK, Opened, OnPage
<1>14. QED
  BY <1>1, <1>2, <1>3, <1>4, <1>5, <1>6, <1>7, <1>8, <1>9, <1>10, <1>11, <1>12, <1>13 DEF Next, Elsewhere

LEMMA TypesAlways == Spec => []TypeInv
BY InitType, StepType, PTL DEF Spec

(* The page is always in a well-formed state: no removal names a routine   *)
(* or a row that cannot exist.                                             *)
THEOREM ListTypeOK == Spec => []TypeOK
<1>1. TypeInv => TypeOK
  BY DEF TypeInv
<1>2. QED
  BY <1>1, TypesAlways, PTL

---------------------------------------------------------------------------
(* The table shows the global list, and rows of this patient only.         *)
RowsInv ==
  "late" \notin risks /\ OnPage =>
    /\ cells = listed
    /\ \A i \in DOMAIN listed : listed[i].of = patient

LEMMA RowsStep == TypeInv /\ RowsInv /\ [Next]_vars => RowsInv'
<1> SUFFICES ASSUME TypeInv, RowsInv, [Next]_vars, "late" \notin risks', OnPage'
             PROVE  cells' = listed' /\ \A i \in DOMAIN listed' : listed'[i].of = patient'
  BY DEF RowsInv
<1> USE DEF pageVars
<1>0. listed \in Seq(Row) /\ cells \in Seq(Row) /\ DOMAIN << >> = {}
  BY DEF TypeInv, TypeOK
<1>1. CASE OpenApp
  BY <1>1 DEF OpenApp, OnPage
<1>2. CASE Kill
  BY <1>2 DEF Kill, Stop, OnPage
<1>3. ASSUME NEW p \in Patient, OpenPatient(p)
      PROVE  cells' = listed' /\ \A i \in DOMAIN listed' : listed'[i].of = patient'
  BY <1>0, <1>3 DEF OpenPatient
<1>4. CASE LeavePatient
  BY <1>4 DEF LeavePatient, OnPage
<1>5. CASE ReadAnswered
  <2> DEFINE p == Head(asked).of
  <2>1. /\ asked # << >> /\ Head(asked).op = "read"
        /\ UNCHANGED <<app, page, patient>>
    BY <1>5 DEF ReadAnswered
  <2>2. /\ Head(asked).here /\ risks' = risks
        /\ cells' = IF Told(p) = {} THEN cells ELSE listed'
    BY <1>5 DEF ReadAnswered
  <2>3. OnPage /\ p = patient /\ p \in Patient
    BY <2>1, <2>2, HeadHere, AskedHead DEF TypeInv, Read, Removal
  <2>4. cells = listed /\ \A i \in DOMAIN listed : listed[i].of = patient
    BY <2>2, <2>3 DEF RowsInv
  <2>5. PICK names \in SetToSeqs(Told(p)) :
          listed' = listed \o [i \in DOMAIN names |-> [of |-> p, name |-> names[i]]]
    BY <1>5 DEF ReadAnswered
  <2> DEFINE m == [i \in DOMAIN names |-> [of |-> p, name |-> names[i]]]
  <2>6. m \in Seq(Row) /\ (Told(p) = {} => m = << >>)
    BY <2>3, ReadRows DEF TypeInv
  <2>7. \A i \in DOMAIN m : m[i].of = p
    OBVIOUS
  <2> HIDE DEF m
  <2>8. Told(p) = {} => listed' = listed
    BY <1>0, <2>5, <2>6 DEF m
  <2>9. cells' = listed'
    BY <2>2, <2>4, <2>8
  <2>10. listed' = listed \o m
    BY <2>5 DEF m
  <2>11. \A i \in DOMAIN listed' : listed'[i].of = patient
    <3> TAKE i \in DOMAIN listed'
    <3>1. /\ Len(listed') = Len(listed) + Len(m) /\ i \in 1 .. Len(listed) + Len(m)
          /\ listed'[i] = IF i <= Len(listed) THEN listed[i] ELSE m[i - Len(listed)]
          /\ DOMAIN listed = 1 .. Len(listed) /\ DOMAIN m = 1 .. Len(m)
          /\ Len(listed) \in Nat /\ Len(m) \in Nat
      BY <1>0, <2>6, <2>10, ConcatProperties, LenProperties
    <3>2. CASE i <= Len(listed)
      BY <2>4, <3>1, <3>2
    <3>3. CASE ~(i <= Len(listed))
      <4>1. i - Len(listed) \in DOMAIN m
        BY <3>1, <3>3
      <4>2. QED
        BY <2>3, <2>7, <3>1, <3>3, <4>1
    <3>4. QED
      BY <3>2, <3>3
  <2>12. QED
    BY <2>1, <2>9, <2>11
<1>6. ASSUME NEW i \in DOMAIN cells, TapRow(i)
      PROVE  cells' = listed' /\ \A j \in DOMAIN listed' : listed'[j].of = patient'
  BY <1>6 DEF TapRow, RowsInv, OnPage
<1>7. CASE RoutineBack
  BY <1>7 DEF RoutineBack, RowsInv, OnPage
<1>8. ASSUME NEW i \in DOMAIN cells, SwipeRow(i)
      PROVE  cells' = listed' /\ \A j \in DOMAIN listed' : listed'[j].of = patient'
  BY <1>8 DEF SwipeRow, RowsInv, OnPage
<1>9. CASE RemovalAnswered
  <2> DEFINE q == Head(asked)
  <2>1. /\ asked # << >> /\ q.row \in DOMAIN listed /\ listed' = RemoveAt(listed, q.row)
        /\ UNCHANGED <<app, page, patient, selected>>
    BY <1>9 DEF RemovalAnswered
  <2>2. q.here /\ cells' = RemoveAt(cells, q.row) /\ risks' = risks
    BY <1>9 DEF RemovalAnswered
  <2>3. cells = listed /\ \A i \in DOMAIN listed : listed[i].of = patient
    BY <2>2, <2>1, HeadHere DEF RowsInv
  <2>4. \A j \in DOMAIN listed' : \E k \in DOMAIN listed : listed'[j] = listed[k]
    BY <1>0, <2>1, RemoveAtProperties
  <2>5. QED
    BY <2>1, <2>2, <2>3, <2>4
<1>10. CASE RemovalCrash
  BY <1>10 DEF RemovalCrash, Stop, OnPage
<1>11. CASE RemovalDenied
  BY <1>11 DEF RemovalDenied, RowsInv, OnPage
<1>12. CASE Elsewhere
  BY <1>12, ElsewhereUnseen DEF RowsInv, OnPage
<1>13. CASE UNCHANGED vars
  BY <1>13 DEF vars, RowsInv, OnPage
<1>14. QED
  BY <1>1, <1>2, <1>3, <1>4, <1>5, <1>6, <1>7, <1>8, <1>9, <1>10, <1>11, <1>12, <1>13 DEF Next, Elsewhere

(* Callbacks of earlier pages come before those of this one: the table is  *)
(* filled by its own read, when none of them is left.                      *)
TableInv ==
  /\ \A i, j \in DOMAIN asked : i < j /\ asked[i].here => asked[j].here
  /\ (\E i \in DOMAIN asked : ~asked[i].here) => cells = << >>
  /\ cells = << >> \/ cells = listed

LEMMA AppendHere ==
  ASSUME TypeInv, TableInv, NEW q \in Read \cup Removal, q.here, Ask(q)
  PROVE  /\ \A i, j \in DOMAIN asked' : i < j /\ asked'[i].here => asked'[j].here
         /\ (\E i \in DOMAIN asked' : ~asked'[i].here) => \E i \in DOMAIN asked : ~asked[i].here
<1>1. /\ \A i \in DOMAIN asked : asked'[i] = asked[i]
      /\ \A i \in DOMAIN asked' : i \in DOMAIN asked \/ i = Len(asked) + 1
      /\ asked'[Len(asked) + 1] = q
  BY AskedMore DEF TypeInv
<1>2. DOMAIN asked = 1 .. Len(asked) /\ Len(asked) \in Nat
  BY LenProperties DEF TypeInv, TypeOK
<1>3. ASSUME NEW i \in DOMAIN asked', NEW j \in DOMAIN asked', i < j, asked'[i].here
      PROVE  asked'[j].here
  <2>1. CASE j = Len(asked) + 1
    BY <1>1, <2>1
  <2>2. CASE j \in DOMAIN asked
    <3>1. i \in DOMAIN asked
      BY <1>1, <1>2, <1>3, <2>2
    <3>2. QED
      BY <1>1, <1>3, <2>2, <3>1 DEF TableInv
  <2>3. QED
    BY <1>1, <2>1, <2>2
<1>4. (\E i \in DOMAIN asked' : ~asked'[i].here) => \E i \in DOMAIN asked : ~asked[i].here
  BY <1>1
<1>5. QED
  BY <1>3, <1>4

LEMMA TailOrder ==
  ASSUME TypeInv, TableInv, asked # << >>, asked' = Tail(asked)
  PROVE  /\ \A i, j \in DOMAIN asked' : i < j /\ asked'[i].here => asked'[j].here
         /\ \A i \in DOMAIN asked' : ~asked'[i].here => ~Head(asked).here
         /\ (\E i \in DOMAIN asked' : ~asked'[i].here) => cells = << >>
         /\ ~Head(asked).here => cells = << >>
<1>1. /\ Head(asked) = asked[1] /\ 1 \in DOMAIN asked
      /\ \A i \in DOMAIN asked' : i + 1 \in DOMAIN asked /\ asked'[i] = asked[i + 1]
      /\ asked' \in Seq(Read \cup Removal)
  BY AskedHead DEF TypeInv
<1>2. DOMAIN asked' = 1 .. Len(asked') /\ Len(asked') \in Nat
  BY <1>1, LenProperties
<1>3. ASSUME NEW i \in DOMAIN asked', NEW j \in DOMAIN asked', i < j, asked'[i].here
      PROVE  asked'[j].here
  <2>1. i + 1 < j + 1 /\ i + 1 \in DOMAIN asked /\ j + 1 \in DOMAIN asked
    BY <1>1, <1>2, <1>3
  <2>2. QED
    BY <1>1, <1>3, <2>1 DEF TableInv
<1>4. ASSUME NEW i \in DOMAIN asked', ~asked'[i].here
      PROVE  ~Head(asked).here
  <2>1. 1 < i + 1 /\ i + 1 \in DOMAIN asked
    BY <1>1, <1>2
  <2>2. QED
    BY <1>1, <1>4, <2>1 DEF TableInv
<1>5. ~Head(asked).here => cells = << >>
  BY <1>1 DEF TableInv
<1>6. QED
  BY <1>3, <1>4, <1>5

LEMMA TableStep == TypeInv /\ TableInv /\ [Next]_vars => TableInv'
<1> SUFFICES ASSUME TypeInv, TableInv, [Next]_vars
             PROVE  TableInv'
  OBVIOUS
<1> USE DEF pageVars
<1>0. listed \in Seq(Row) /\ cells \in Seq(Row) /\ DOMAIN << >> = {}
  BY DEF TypeInv, TypeOK
<1>1. CASE OpenApp
  BY <1>1 DEF OpenApp, TableInv
<1>2. CASE Kill
  BY <1>0, <1>2 DEF Kill, Stop, TableInv
<1>3. ASSUME NEW p \in Patient, OpenPatient(p)
      PROVE  TableInv'
  <2> DEFINE q == [op |-> "read", of |-> p, name |-> Nothing, row |-> 0, here |-> TRUE]
  <2>1. Ask(q) /\ q \in Read \cup Removal /\ q.here /\ cells' = << >>
    BY <1>3 DEF OpenPatient, Read
  <2>2. \A i, j \in DOMAIN asked' : i < j /\ asked'[i].here => asked'[j].here
    BY <2>1, AppendHere
  <2>3. QED
    BY <2>1, <2>2 DEF TableInv
<1>4. CASE LeavePatient
  <2>1. cells' = << >> /\ asked' = Abandoned
    BY <1>4 DEF LeavePatient
  <2>2. \A i \in DOMAIN asked' : ~asked'[i].here
    BY <2>1, AbandonedType DEF TypeInv
  <2>3. QED
    BY <2>1, <2>2 DEF TableInv
<1>5. CASE ReadAnswered
  <2> DEFINE p == Head(asked).of
  <2>1. asked # << >> /\ asked' = Tail(asked) /\ Head(asked).op = "read"
    BY <1>5 DEF ReadAnswered
  <2>2. p \in Patient
    BY <2>1, AskedHead DEF TypeInv, Read, Removal
  <2>3. PICK names \in SetToSeqs(Told(p)) :
          listed' = listed \o [i \in DOMAIN names |-> [of |-> p, name |-> names[i]]]
    BY <1>5 DEF ReadAnswered
  <2>4. Told(p) = {} => listed' = listed
    BY <1>0, <2>2, <2>3, ReadRows DEF TypeInv
  <2>5. CASE Head(asked).here
    <3>1. cells' = IF Told(p) = {} THEN cells ELSE listed'
      BY <1>5, <2>5 DEF ReadAnswered
    <3>2. cells' = << >> \/ cells' = listed'
      BY <2>4, <3>1 DEF TableInv
    <3>3. QED
      BY <2>1, <2>5, <3>2, TailOrder DEF TableInv
  <2>6. CASE ~Head(asked).here
    <3>1. cells' = cells
      BY <1>5, <2>6 DEF ReadAnswered
    <3>2. QED
      BY <2>1, <2>6, <3>1, TailOrder DEF TableInv
  <2>7. QED
    BY <2>5, <2>6
<1>6. ASSUME NEW i \in DOMAIN cells, TapRow(i)
      PROVE  TableInv'
  BY <1>6 DEF TapRow, TableInv
<1>7. CASE RoutineBack
  BY <1>7 DEF RoutineBack, TableInv
<1>8. ASSUME NEW i \in DOMAIN cells, SwipeRow(i)
      PROVE  TableInv'
  <2> DEFINE q == [op |-> "remove", of |-> patient, name |-> listed[i].name, row |-> i, here |-> TRUE]
  <2>1. page = "patient" /\ i \in DOMAIN listed /\ Ask(q) /\ listed' = listed /\ cells' = cells
    BY <1>8 DEF SwipeRow
  <2>2. patient \in Patient /\ listed[i] \in Row /\ i \in Nat \ {0}
    BY <1>0, <2>1, ElementOfSeq, LenProperties DEF TypeInv, Opened, OnPage
  <2>3. q \in Read \cup Removal /\ q.here
    BY <1>0, <2>2 DEF Removal, Row
  <2>4. /\ \A j, k \in DOMAIN asked' : j < k /\ asked'[j].here => asked'[k].here
        /\ (\E j \in DOMAIN asked' : ~asked'[j].here) => \E j \in DOMAIN asked : ~asked[j].here
    BY <2>1, <2>3, AppendHere
  <2>5. QED
    BY <2>1, <2>4 DEF TableInv
<1>9. CASE RemovalAnswered
  <2> DEFINE q == Head(asked)
  <2>1. asked # << >> /\ asked' = Tail(asked) /\ listed' = RemoveAt(listed, q.row)
    BY <1>9 DEF RemovalAnswered
  <2>2. CASE q.here
    <3>1. q.row \in DOMAIN cells /\ cells' = RemoveAt(cells, q.row)
      BY <1>9, <2>2 DEF RemovalAnswered
    <3>2. cells' = listed'
      BY <1>0, <2>1, <3>1 DEF TableInv
    <3>3. QED
      BY <2>1, <2>2, <3>2, TailOrder DEF TableInv
  <2>3. CASE ~q.here
    <3>1. cells' = cells
      BY <1>9, <2>3 DEF RemovalAnswered
    <3>2. QED
      BY <2>1, <2>3, <3>1, TailOrder DEF TableInv
  <2>4. QED
    BY <2>2, <2>3
<1>10. CASE RemovalCrash
  BY <1>0, <1>10 DEF RemovalCrash, Stop, TableInv
<1>11. CASE RemovalDenied
  <2>1. asked # << >> /\ asked' = Tail(asked) /\ listed' = listed /\ cells' = cells
    BY <1>11 DEF RemovalDenied
  <2>2. QED
    BY <2>1, TailOrder DEF TableInv
<1>12. CASE Elsewhere
  BY <1>12, ElsewhereUnseen DEF TableInv
<1>13. CASE UNCHANGED vars
  BY <1>13 DEF vars, TableInv
<1>14. QED
  BY <1>1, <1>2, <1>3, <1>4, <1>5, <1>6, <1>7, <1>8, <1>9, <1>10, <1>11, <1>12, <1>13 DEF Next, Elsewhere

(* The property of one step, as it is checked. *)
RowIsRoutine ==
  \A i \in DOMAIN cells :
    /\ i \in DOMAIN listed
    /\ TapRow(i) => selected' = cells[i]
    /\ SwipeRow(i) => Last(asked').name = cells[i].name
    /\ "late" \in risks \/ cells[i].of = patient

LEMMA RowIsRoutineStep == TypeInv /\ TableInv /\ RowsInv => RowIsRoutine
<1> SUFFICES ASSUME TypeInv, TableInv, RowsInv, NEW i \in DOMAIN cells
             PROVE  /\ i \in DOMAIN listed
                    /\ TapRow(i) => selected' = cells[i]
                    /\ SwipeRow(i) => Last(asked').name = cells[i].name
                    /\ "late" \in risks \/ cells[i].of = patient
  BY DEF RowIsRoutine
<1>1. cells # << >> /\ DOMAIN << >> = {}
  OBVIOUS
<1>2. OnPage /\ cells = listed
  BY <1>1 DEF TypeInv, Opened, TableInv
<1>3. "late" \in risks \/ cells[i].of = patient
  BY <1>2 DEF RowsInv
<1>4. ASSUME TapRow(i)
      PROVE  selected' = cells[i]
  BY <1>2, <1>4 DEF TapRow
<1>5. ASSUME SwipeRow(i)
      PROVE  Last(asked').name = cells[i].name
  <2> DEFINE q == [op |-> "remove", of |-> patient, name |-> listed[i].name, row |-> i, here |-> TRUE]
  <2>1. Ask(q) /\ i \in DOMAIN listed
    BY <1>5 DEF SwipeRow
  <2>2. patient \in Patient /\ listed[i] \in Row /\ i \in Nat \ {0}
    BY <1>2, <2>1, ElementOfSeq, LenProperties DEF TypeInv, TypeOK, Opened
  <2>3. q \in Removal /\ q.name = listed[i].name
    BY <2>2 DEF Removal, Row
  <2>4. Last(asked') = q
    BY <2>1, <2>3, AskedMore DEF TypeInv
  <2>5. QED
    BY <1>2, <2>3, <2>4
<1>6. QED
  BY <1>2, <1>3, <1>4, <1>5

LEMMA RowsAlways == Spec => [](TypeInv /\ TableInv /\ RowsInv)
<1>1. Init => TableInv /\ RowsInv
  BY DEF Init, TableInv, RowsInv, OnPage
<1>2. QED
  BY <1>1, InitType, StepType, TableStep, RowsStep, PTL DEF Spec

(* A tap or a swipe always means the routine its row shows, however fast   *)
(* rows are swiped and however late the server answers, and one of this    *)
(* patient as long as no callback of an earlier page has run.              *)
THEOREM RowsMeanRoutines == Spec => RowMeansRoutine
<1>1. TypeInv /\ TableInv /\ RowsInv => [RowIsRoutine]_vars
  BY RowIsRoutineStep
<1>2. Spec => [][RowIsRoutine]_vars
  BY <1>1, RowsAlways, PTL DEF Spec
<1>3. QED
  BY <1>2 DEF RowMeansRoutine, RowIsRoutine

---------------------------------------------------------------------------
(* With at most one removal of this page unanswered, its row is there.     *)
Ours == {i \in Removing : asked[i].here}

CalmInv ==
  risks \cap {"late", "ahead"} = {} =>
    /\ app # "crashed"
    /\ \A i \in Ours : asked[i].row \in DOMAIN listed
    /\ \A i, j \in Ours : i = j

LEMMA OursTail ==
  ASSUME TypeInv, asked # << >>, asked' = Tail(asked)
  PROVE  /\ \A i \in Ours' : i + 1 \in Ours /\ asked'[i] = asked[i + 1] /\ i \in Nat \ {0}
         /\ Head(asked).op = "remove" /\ Head(asked).here => 1 \in Ours
<1>1. /\ Head(asked) = asked[1] /\ 1 \in DOMAIN asked
      /\ \A i \in DOMAIN asked' : i + 1 \in DOMAIN asked /\ asked'[i] = asked[i + 1]
      /\ asked' \in Seq(Read \cup Removal)
  BY AskedHead DEF TypeInv
<1>2. \A i \in DOMAIN asked' : i \in Nat \ {0}
  BY <1>1, LenProperties
<1>3. QED
  BY <1>1, <1>2 DEF Ours, Removing

LEMMA CalmStep == TypeInv /\ RowsInv /\ CalmInv /\ [Next]_vars => CalmInv'
<1> SUFFICES ASSUME TypeInv, RowsInv, CalmInv, [Next]_vars, risks' \cap {"late", "ahead"} = {}
             PROVE  /\ app' # "crashed"
                    /\ \A i \in Ours' : asked'[i].row \in DOMAIN listed'
                    /\ \A i, j \in Ours' : i = j
  BY DEF CalmInv
<1> DEFINE Goal == /\ app' # "crashed"
                   /\ \A i \in Ours' : asked'[i].row \in DOMAIN listed'
                   /\ \A i, j \in Ours' : i = j
<1> USE DEF pageVars
<1>0. listed \in Seq(Row) /\ cells \in Seq(Row) /\ asked \in Seq(Read \cup Removal) /\ DOMAIN << >> = {}
  BY DEF TypeInv, TypeOK
<1>1. CASE OpenApp
  <2>1. asked' = << >> /\ app' = "running"
    BY <1>1 DEF OpenApp, TypeInv, Opened
  <2>2. Ours' = {}
    BY <1>0, <2>1 DEF Ours, Removing
  <2>3. QED
    BY <2>1, <2>2
<1>2. CASE Kill
  <2>1. asked' = << >> /\ app' = "closed"
    BY <1>2 DEF Kill, Stop
  <2>2. Ours' = {}
    BY <1>0, <2>1 DEF Ours, Removing
  <2>3. QED
    BY <2>1, <2>2
<1>3. ASSUME NEW p \in Patient, OpenPatient(p)
      PROVE  Goal
  <2> DEFINE q == [op |-> "read", of |-> p, name |-> Nothing, row |-> 0, here |-> TRUE]
  <2>1. Ask(q) /\ q \in Read \cup Removal /\ q.op = "read"
    BY <1>3 DEF OpenPatient, Read
  <2>2. /\ \A i \in DOMAIN asked : asked'[i] = asked[i]
        /\ \A i \in DOMAIN asked' : i \in DOMAIN asked \/ i = Len(asked) + 1
        /\ asked'[Len(asked) + 1] = q
    BY <2>1, AskedMore DEF TypeInv
  <2>3. app' = "running" /\ \A i \in DOMAIN asked : ~asked[i].here
    BY <1>3 DEF OpenPatient, TypeInv, Opened, OnPage
  <2>4. Ours' = {}
    BY <2>1, <2>2, <2>3 DEF Ours, Removing
  <2>5. QED
    BY <2>3, <2>4
<1>4. CASE LeavePatient
  <2>1. asked' = Abandoned /\ app' = app /\ risks' = risks
    BY <1>4 DEF LeavePatient
  <2>2. Ours' = {}
    BY <2>1, AbandonedType DEF Ours, Removing, TypeInv
  <2>3. QED
    BY <2>1, <2>2 DEF CalmInv
<1>5. CASE ReadAnswered
  <2> DEFINE p == Head(asked).of
  <2>1. /\ asked # << >> /\ asked' = Tail(asked) /\ Head(asked).op = "read" /\ app' = app
        /\ risks' = risks
    BY <1>5 DEF ReadAnswered
  <2>2. PICK names \in SetToSeqs(Told(p)) :
          listed' = listed \o [i \in DOMAIN names |-> [of |-> p, name |-> names[i]]]
    BY <1>5 DEF ReadAnswered
  <2>3. p \in Patient
    BY <2>1, AskedHead DEF TypeInv, Read, Removal
  <2> DEFINE m == [i \in DOMAIN names |-> [of |-> p, name |-> names[i]]]
  <2>4. m \in Seq(Row)
    BY <2>3, ReadRows DEF TypeInv
  <2> HIDE DEF m
  <2>5. listed' = listed \o m
    BY <2>2 DEF m
  <2>6. DOMAIN listed \subseteq DOMAIN listed'
    <3>1. /\ Len(listed \o m) = Len(listed) + Len(m) /\ listed \o m \in Seq(Row)
          /\ Len(listed) \in Nat /\ Len(m) \in Nat
      BY <1>0, <2>4, ConcatProperties, LenProperties
    <3>2. DOMAIN listed = 1 .. Len(listed) /\ DOMAIN listed' = 1 .. Len(listed) + Len(m)
      BY <1>0, <2>5, <3>1, LenProperties
    <3>3. QED
      BY <3>1, <3>2
  <2>7. \A i \in Ours' : i + 1 \in Ours /\ asked'[i] = asked[i + 1] /\ i \in Nat \ {0}
    BY <2>1, OursTail
  <2>8. /\ app # "crashed"
        /\ \A i \in Ours : asked[i].row \in DOMAIN listed
        /\ \A i, j \in Ours : i = j
    BY <2>1 DEF CalmInv
  <2>9. \A i \in Ours' : asked'[i].row \in DOMAIN listed'
    BY <2>6, <2>7, <2>8
  <2>10. \A i, j \in Ours' : i + 1 = j + 1
    BY <2>7, <2>8
  <2>11. \A i, j \in Ours' : i = j
    BY <2>7, <2>10
  <2>12. QED
    BY <2>1, <2>8, <2>9, <2>11
<1>6. ASSUME NEW i \in DOMAIN cells, TapRow(i)
      PROVE  Goal
  BY <1>6 DEF TapRow, CalmInv, Ours, Removing
<1>7. CASE RoutineBack
  BY <1>7 DEF RoutineBack, CalmInv, Ours, Removing
<1>8. ASSUME NEW i \in DOMAIN cells, SwipeRow(i)
      PROVE  Goal
  <2> DEFINE q == [op |-> "remove", of |-> patient, name |-> listed[i].name, row |-> i, here |-> TRUE]
  <2>1. /\ page = "patient" /\ i \in DOMAIN listed /\ Ask(q)
        /\ risks' = risks \cup {x \in {"ahead"} : Removing # {}}
        /\ app' = app /\ listed' = listed
    BY <1>8 DEF SwipeRow
  <2>2. risks \cap {"late", "ahead"} = {} /\ Removing = {}
    BY <2>1
  <2>3. patient \in Patient /\ listed[i] \in Row /\ i \in Nat \ {0}
    BY <1>0, <2>1, ElementOfSeq, LenProperties DEF TypeInv, Opened, OnPage
  <2>4. q \in Read \cup Removal /\ q.row = i
    BY <2>3 DEF Removal, Row
  <2>5. /\ \A j \in DOMAIN asked : asked'[j] = asked[j]
        /\ \A j \in DOMAIN asked' : j \in DOMAIN asked \/ j = Len(asked) + 1
        /\ asked'[Len(asked) + 1] = q
    BY <2>1, <2>4, AskedMore DEF TypeInv
  <2>6. \A j \in Ours' : j = Len(asked) + 1
    BY <2>2, <2>5 DEF Ours, Removing
  <2>7. QED
    BY <2>1, <2>2, <2>4, <2>5, <2>6 DEF CalmInv
<1>9. CASE RemovalAnswered
  <2> DEFINE q == Head(asked)
  <2>1. asked # << >> /\ asked' = Tail(asked) /\ q.op = "remove" /\ app' = app
    BY <1>9 DEF RemovalAnswered
  <2>2. q.here /\ risks' = risks
    BY <1>9 DEF RemovalAnswered
  <2>3. /\ \A i \in Ours' : i + 1 \in Ours /\ i \in Nat \ {0}
        /\ 1 \in Ours
    BY <2>1, <2>2, OursTail
  <2>4. \A i \in Ours : i = 1
    BY <2>2, <2>3 DEF CalmInv
  <2>5. \A i \in Ours' : i + 1 = 1 /\ i \in Nat \ {0}
    BY <2>3, <2>4
  <2>6. Ours' = {}
    BY <2>5
  <2>7. QED
    BY <2>1, <2>2, <2>6 DEF CalmInv
<1>10. CASE RemovalCrash
  <2> DEFINE q == Head(asked)
  <2>1. /\ asked # << >> /\ q.op = "remove"
        /\ risks' = risks \cup {x \in {"late"} : ~q.here}
        /\ (q.row \notin DOMAIN listed \/ ~q.here \/ q.row \notin DOMAIN cells \/ Len(cells) # Len(listed))
    BY <1>10 DEF RemovalCrash
  <2>2. q.here /\ risks \cap {"late", "ahead"} = {}
    BY <2>1
  <2>3. 1 \in Ours /\ asked[1] = q
    BY <2>1, <2>2, AskedHead DEF Ours, Removing, TypeInv
  <2>4. q.row \in DOMAIN listed
    BY <2>2, <2>3 DEF CalmInv
  <2>5. cells = listed
    BY <2>1, <2>2, HeadHere DEF RowsInv
  <2>6. QED
    BY <2>1, <2>2, <2>4, <2>5
<1>11. CASE RemovalDenied
  <2>1. /\ asked # << >> /\ asked' = Tail(asked) /\ app' = app /\ listed' = listed
        /\ risks' = risks \cup {"denied"}
    BY <1>11 DEF RemovalDenied
  <2>2. risks \cap {"late", "ahead"} = {}
    BY <2>1
  <2>3. \A i \in Ours' : i + 1 \in Ours /\ asked'[i] = asked[i + 1] /\ i \in Nat \ {0}
    BY <2>1, OursTail
  <2>4. /\ app # "crashed"
        /\ \A i \in Ours : asked[i].row \in DOMAIN listed
        /\ \A i, j \in Ours : i = j
    BY <2>2 DEF CalmInv
  <2>5. \A i \in Ours' : asked'[i].row \in DOMAIN listed'
    BY <2>1, <2>3, <2>4
  <2>6. \A i, j \in Ours' : i + 1 = j + 1
    BY <2>3, <2>4
  <2>7. \A i, j \in Ours' : i = j
    BY <2>3, <2>6
  <2>8. QED
    BY <2>1, <2>4, <2>5, <2>7
<1>12. CASE Elsewhere
  BY <1>12, ElsewhereUnseen DEF CalmInv, Ours, Removing
<1>13. CASE UNCHANGED vars
  BY <1>13 DEF vars, CalmInv, Ours, Removing
<1>14. QED
  BY <1>1, <1>2, <1>3, <1>4, <1>5, <1>6, <1>7, <1>8, <1>9, <1>10, <1>11, <1>12, <1>13 DEF Next, Elsewhere

(* The page crashes only after a callback of an earlier page, or a row     *)
(* swiped before the removal of another was answered: no index is out of   *)
(* range otherwise.                                                        *)
THEOREM CalmNeverCrashes == Spec => []CrashNeedsHaste
<1>1. Init => CalmInv
  BY DEF Init, CalmInv, Ours, Removing
<1>2. CalmInv => CrashNeedsHaste
  BY DEF CalmInv, CrashNeedsHaste
<1>3. QED
  BY <1>1, <1>2, RowsAlways, CalmStep, PTL DEF Spec

---------------------------------------------------------------------------
(* Without haste the list holds each routine once. *)
Distinct(q) == \A i, j \in DOMAIN q : q[i].name = q[j].name => i = j

LEMMA DistinctCount ==
  ASSUME NEW q \in Seq(Row), Distinct(q)
  PROVE  Len(q) = Cardinality(Names(q))
<1> DEFINE n == Len(q)
           f == [i \in 1 .. n |-> q[i].name]
<1>1. n \in Nat /\ DOMAIN q = 1 .. n
  BY LenProperties
<1>2. f \in [1 .. n -> Names(q)] /\ \A i, j \in 1 .. n : f[i] = f[j] => i = j
  BY <1>1 DEF Names, Distinct
<1>3. \A x \in Names(q) : \E i \in 1 .. n : f[i] = x
  BY <1>1 DEF Names
<1>4. f \in Bijection(1 .. n, Names(q))
  BY <1>2, <1>3 DEF Bijection, Injection, Surjection, IsInjective
<1>5. IsFiniteSet(1 .. n) /\ Cardinality(1 .. n) = n
  BY <1>1, FS_Interval
<1>6. QED
  BY <1>4, <1>5, FS_Bijection DEF ExistsBijection

LEMMA RowRemoved ==
  ASSUME NEW q \in Seq(Row), Distinct(q), NEW i \in DOMAIN q
  PROVE  Distinct(RemoveAt(q, i)) /\ Names(RemoveAt(q, i)) = Names(q) \ {q[i].name}
<1> DEFINE r == RemoveAt(q, i)
           old(j) == IF j < i THEN j ELSE j + 1
<1>1. Len(q) \in Nat /\ DOMAIN q = 1 .. Len(q) /\ i \in 1 .. Len(q)
  BY LenProperties
<1>2. DOMAIN r = 1 .. Len(q) - 1 /\ \A j \in 1 .. Len(q) - 1 : r[j] = q[old(j)]
  BY RemoveAtProperties
<1>3. \A j \in 1 .. Len(q) - 1 : old(j) \in DOMAIN q /\ old(j) # i
  BY <1>1
<1>4. \A j, k \in 1 .. Len(q) - 1 : old(j) = old(k) => j = k
  BY <1>1
<1>5. \A k \in DOMAIN q : k # i => \E j \in 1 .. Len(q) - 1 : old(j) = k
  <2> SUFFICES ASSUME NEW k \in 1 .. Len(q), k # i
               PROVE  \E j \in 1 .. Len(q) - 1 : old(j) = k
    BY <1>1
  <2>1. CASE k < i
    BY <1>1, <2>1
  <2>2. CASE k > i
    <3>1. k - 1 \in 1 .. Len(q) - 1 /\ old(k - 1) = k
      BY <1>1, <2>2
    <3>2. QED
      BY <3>1
  <2>3. QED
    BY <1>1, <2>1, <2>2
<1> HIDE DEF r, old
<1>6. Distinct(r)
  BY <1>2, <1>3, <1>4 DEF Distinct
<1>7. Names(r) \subseteq Names(q) \ {q[i].name}
  BY <1>2, <1>3 DEF Names, Distinct
<1>8. Names(q) \ {q[i].name} \subseteq Names(r)
  <2> SUFFICES ASSUME NEW k \in DOMAIN q, q[k].name # q[i].name
               PROVE  q[k].name \in Names(r)
    BY DEF Names
  <2>1. PICK j \in 1 .. Len(q) - 1 : old(j) = k
    BY <1>5
  <2>2. QED
    BY <1>2, <2>1 DEF Names
<1>9. QED
  BY <1>6, <1>7, <1>8 DEF r

(* The rows a read puts into an empty list. *)
LEMMA RowsRead ==
  ASSUME TypeOK, NEW p \in Patient, NEW names \in SetToSeqs(Told(p)),
         NEW q, q = [i \in DOMAIN names |-> [of |-> p, name |-> names[i]]]
  PROVE  Distinct(q) /\ Names(q) = Told(p)
<1> DEFINE S == Told(p)
           n == Cardinality(S)
<1>1. IsFiniteSet(S) /\ n \in Nat
  BY FiniteRoutines, FS_Subset, FS_CardinalityType DEF Told, TypeOK
<1>2. names \in [1 .. n -> S] /\ \A i, j \in 1 .. n : i # j => names[i] # names[j]
  BY DEF SetToSeqs
<1>3. names \in Injection(1 .. n, S)
  BY <1>2 DEF Injection, IsInjective
<1>4. Cardinality(1 .. n) = n
  BY <1>1, FS_Interval
<1>5. names \in Surjection(1 .. n, S)
  BY <1>1, <1>3, <1>4, FS_Injection
<1> HIDE DEF S, n
<1>6. \A x \in S : \E i \in 1 .. n : names[i] = x
  BY <1>5 DEF Surjection
<1>7. DOMAIN q = 1 .. n /\ \A i \in 1 .. n : q[i].name = names[i]
  BY <1>2
<1>8. Distinct(q)
  BY <1>2, <1>7 DEF Distinct
<1>9. Names(q) = S
  BY <1>2, <1>6, <1>7 DEF Names
<1>10. QED
  BY <1>8, <1>9 DEF S

(* The reads of this page that are unanswered, and what the list is until  *)
(* they are answered and from then on.                                     *)
OurReads == {i \in DOMAIN asked : asked[i].op = "read" /\ asked[i].here}

ExactInv ==
  /\ app # "running" => listed = << >> /\ kept = {}
  /\ risks \cap {"late", "ahead"} = {} =>
       /\ Distinct(listed) /\ Names(listed) = kept
       /\ OurReads # {} => listed = << >> /\ kept = {}
       /\ \A i, j \in OurReads : i = j
       /\ \A i \in Ours : asked[i].name = listed[asked[i].row].name

(* The page's requests after the oldest has been answered. *)
LEMMA OursAfter ==
  ASSUME TypeInv, asked # << >>, asked' = Tail(asked)
  PROVE  /\ \A i \in OurReads' : i + 1 \in OurReads /\ i \in Nat \ {0}
         /\ \A i \in Ours' : i + 1 \in Ours /\ asked'[i] = asked[i + 1] /\ i \in Nat \ {0}
         /\ Head(asked).here /\ Head(asked).op = "read" => 1 \in OurReads
         /\ Head(asked).here /\ Head(asked).op = "remove" => 1 \in Ours
         /\ Head(asked) = asked[1]
<1>1. /\ Head(asked) = asked[1] /\ 1 \in DOMAIN asked
      /\ \A i \in DOMAIN asked' : i + 1 \in DOMAIN asked /\ asked'[i] = asked[i + 1]
      /\ asked' \in Seq(Read \cup Removal)
  BY AskedHead DEF TypeInv
<1>2. \A i \in DOMAIN asked' : i \in Nat \ {0}
  BY <1>1, LenProperties
<1>3. QED
  BY <1>1, <1>2 DEF OurReads, Ours, Removing

(* What a step has to do. *)
Exact ==
  /\ app' # "running" => listed' = << >> /\ kept' = {}
  /\ Distinct(listed') /\ Names(listed') = kept'
  /\ OurReads' # {} => listed' = << >> /\ kept' = {}
  /\ \A i, j \in OurReads' : i = j
  /\ \A i \in Ours' : asked'[i].name = listed'[asked'[i].row].name

LEMMA ExactStopped ==
  ASSUME listed' = << >>, kept' = {}, asked' = << >>
  PROVE  Exact
<1>1. DOMAIN << >> = {} /\ Distinct(<< >>) /\ Names(<< >>) = {}
  BY DEF Distinct, Names
<1>2. OurReads' = {} /\ Ours' = {}
  BY <1>1 DEF OurReads, Ours, Removing
<1>3. QED
  BY <1>1, <1>2 DEF Exact

LEMMA ExactStep == TypeInv /\ RowsInv /\ CalmInv /\ ExactInv /\ [Next]_vars => ExactInv'
<1> SUFFICES ASSUME TypeInv, RowsInv, CalmInv, ExactInv, [Next]_vars
             PROVE  ExactInv'
  OBVIOUS
<1> DEFINE Hasty == risks' \cap {"late", "ahead"} # {}
           Ended == app' # "running" => listed' = << >> /\ kept' = {}
<1> USE DEF pageVars
<1>0. /\ listed \in Seq(Row) /\ cells \in Seq(Row) /\ asked \in Seq(Read \cup Removal)
      /\ DOMAIN << >> = {} /\ Distinct(<< >>) /\ Names(<< >>) = {}
  BY DEF TypeInv, TypeOK, Distinct, Names
<1>1. Exact \/ (Ended /\ Hasty) => ExactInv'
  BY DEF Exact, ExactInv, Distinct, Names
<1> HIDE DEF Hasty, Ended
<1>2. CASE OpenApp
  <2>1. asked' = << >> /\ listed' = << >> /\ kept' = {}
    BY <1>2 DEF OpenApp, TypeInv, Opened, ExactInv
  <2>2. QED
    BY <1>1, <2>1, ExactStopped
<1>3. ASSUME Kill \/ RemovalCrash
      PROVE  ExactInv'
  <2>1. asked' = << >> /\ listed' = << >> /\ kept' = {}
    BY <1>3 DEF Kill, RemovalCrash, Stop
  <2>2. QED
    BY <1>1, <2>1, ExactStopped
<1>4. ASSUME NEW p \in Patient, OpenPatient(p)
      PROVE  ExactInv'
  <2> DEFINE q == [op |-> "read", of |-> p, name |-> Nothing, row |-> 0, here |-> TRUE]
  <2>1. Ask(q) /\ q \in Read \cup Removal /\ q.op = "read" /\ listed' = << >> /\ kept' = {}
    BY <1>4 DEF OpenPatient, Read
  <2>2. /\ \A i \in DOMAIN asked : asked'[i] = asked[i]
        /\ \A i \in DOMAIN asked' : i \in DOMAIN asked \/ i = Len(asked) + 1
        /\ asked'[Len(asked) + 1] = q
    BY <2>1, AskedMore DEF TypeInv
  <2>3. \A i \in DOMAIN asked : ~asked[i].here
    BY <1>4 DEF OpenPatient, TypeInv, Opened, OnPage
  <2>4. Ours' = {} /\ \A i \in OurReads' : i = Len(asked) + 1
    BY <2>1, <2>2, <2>3 DEF Ours, OurReads, Removing
  <2>5. Exact
    BY <1>0, <2>1, <2>4 DEF Exact
  <2>6. QED
    BY <1>1, <2>5
<1>5. CASE LeavePatient
  <2>1. asked' = Abandoned /\ UNCHANGED <<app, listed, kept, risks>>
    BY <1>5 DEF LeavePatient
  <2>2. OurReads' = {} /\ Ours' = {}
    BY <2>1, AbandonedType DEF OurReads, Ours, Removing, TypeInv
  <2>3. QED
    BY <2>1, <2>2 DEF ExactInv, Distinct, Names
<1>6. CASE ReadAnswered
  <2> DEFINE p == Head(asked).of
  <2>1. /\ asked # << >> /\ asked' = Tail(asked) /\ Head(asked).op = "read" /\ app' = app
    BY <1>6 DEF ReadAnswered
  <2>2. app = "running"
    BY <2>1 DEF TypeInv, Opened
  <2>3. CASE ~Head(asked).here
    <3>1. risks' = risks \cup {"late"}
      BY <1>6, <2>3 DEF ReadAnswered
    <3>2. Ended /\ Hasty
      BY <2>1, <2>2, <3>1 DEF Ended, Hasty
    <3>3. QED
      BY <1>1, <3>2
  <2>4. CASE Head(asked).here /\ risks \cap {"late", "ahead"} # {}
    <3>1. risks' = risks
      BY <1>6, <2>4 DEF ReadAnswered
    <3>2. Ended /\ Hasty
      BY <2>1, <2>2, <2>4, <3>1 DEF Ended, Hasty
    <3>3. QED
      BY <1>1, <3>2
  <2>5. CASE Head(asked).here /\ risks \cap {"late", "ahead"} = {}
    <3>1. kept' = Told(p) /\ p \in Patient
      BY <1>6, <2>1, <2>5, AskedHead DEF ReadAnswered, TypeInv, Read, Removal
    <3>2. PICK names \in SetToSeqs(Told(p)) :
            listed' = listed \o [i \in DOMAIN names |-> [of |-> p, name |-> names[i]]]
      BY <1>6 DEF ReadAnswered
    <3> DEFINE m == [i \in DOMAIN names |-> [of |-> p, name |-> names[i]]]
    <3>3. m \in Seq(Row) /\ Distinct(m) /\ Names(m) = Told(p)
      BY <3>1, ReadRows, RowsRead DEF TypeInv
    <3>4. 1 \in OurReads /\ \A i \in OurReads' : i + 1 \in OurReads /\ i \in Nat \ {0}
      BY <2>1, <2>5, OursAfter
    <3>5. listed = << >> /\ \A i, j \in OurReads : i = j
      BY <2>5, <3>4 DEF ExactInv
    <3> HIDE DEF m
    <3>6. listed' = m
      BY <3>2, <3>3, <3>5 DEF m
    <3>7. \A i \in OurReads' : i + 1 = 1 /\ i \in Nat \ {0}
      BY <3>4, <3>5
    <3>8. OurReads' = {}
      BY <3>7
    <3>9. \A i \in Ours : asked[i].row \in DOMAIN listed
      BY <2>5 DEF CalmInv
    <3>10. Ours = {}
      BY <1>0, <3>5, <3>9
    <3>11. Ours' = {}
      BY <2>1, <3>10, OursAfter
    <3>12. Exact
      BY <2>1, <2>2, <3>1, <3>3, <3>6, <3>8, <3>11 DEF Exact
    <3>13. QED
      BY <1>1, <3>12
  <2>6. QED
    BY <2>3, <2>4, <2>5
<1>7. ASSUME NEW i \in DOMAIN cells, TapRow(i)
      PROVE  ExactInv'
  BY <1>7 DEF TapRow, ExactInv, Distinct, Names, OurReads, Ours, Removing
<1>8. CASE RoutineBack
  BY <1>8 DEF RoutineBack, ExactInv, Distinct, Names, OurReads, Ours, Removing
<1>9. ASSUME NEW i \in DOMAIN cells, SwipeRow(i)
      PROVE  ExactInv'
  <2> DEFINE q == [op |-> "remove", of |-> patient, name |-> listed[i].name, row |-> i, here |-> TRUE]
  <2>1. /\ page = "patient" /\ i \in DOMAIN listed /\ Ask(q)
        /\ risks' = risks \cup {x \in {"ahead"} : Removing # {}}
        /\ UNCHANGED <<app, listed, kept>>
    BY <1>9 DEF SwipeRow
  <2>2. app = "running"
    BY <2>1 DEF TypeInv, Opened
  <2>3. CASE Hasty
    <3>1. Ended
      BY <2>1, <2>2 DEF Ended
    <3>2. QED
      BY <1>1, <2>3, <3>1
  <2>4. CASE ~Hasty
    <3>1. risks \cap {"late", "ahead"} = {} /\ Removing = {}
      BY <2>1, <2>4 DEF Hasty
    <3>2. patient \in Patient /\ listed[i] \in Row /\ i \in Nat \ {0}
      BY <1>0, <2>1, ElementOfSeq, LenProperties DEF TypeInv, Opened, OnPage
    <3>3. q \in Read \cup Removal /\ q.op = "remove" /\ q.row = i /\ q.name = listed[i].name
      BY <3>2 DEF Removal, Row
    <3>4. /\ \A j \in DOMAIN asked : asked'[j] = asked[j]
          /\ \A j \in DOMAIN asked' : j \in DOMAIN asked \/ j = Len(asked) + 1
          /\ asked'[Len(asked) + 1] = q
      BY <2>1, <3>3, AskedMore DEF TypeInv
    <3>5. /\ \A j \in OurReads' : j \in OurReads
          /\ \A j \in Ours' : asked'[j] = q
      BY <3>1, <3>3, <3>4 DEF OurReads, Ours, Removing
    <3>6. Exact
      BY <2>1, <2>2, <3>1, <3>3, <3>5 DEF Exact, ExactInv, Distinct, Names
    <3>7. QED
      BY <1>1, <3>6
  <2>5. QED
    BY <2>3, <2>4
<1>10. CASE RemovalAnswered
  <2> DEFINE q == Head(asked)
  <2>1. /\ asked # << >> /\ asked' = Tail(asked) /\ q.op = "remove" /\ app' = app
        /\ q.row \in DOMAIN listed /\ listed' = RemoveAt(listed, q.row)
    BY <1>10 DEF RemovalAnswered
  <2>2. app = "running"
    BY <2>1 DEF TypeInv, Opened
  <2>3. \/ q.here /\ kept' = kept \ {q.name} /\ risks' = risks
        \/ risks' = risks \cup {"late"}
    BY <1>10 DEF RemovalAnswered
  <2>4. CASE Hasty
    <3>1. Ended
      BY <2>1, <2>2 DEF Ended
    <3>2. QED
      BY <1>1, <2>4, <3>1
  <2>5. CASE ~Hasty
    <3>1. q.here /\ kept' = kept \ {q.name} /\ risks' = risks /\ risks \cap {"late", "ahead"} = {}
      BY <2>3, <2>5 DEF Hasty
    <3>2. /\ 1 \in Ours /\ asked[1] = q
          /\ \A i \in OurReads' : i + 1 \in OurReads /\ i \in Nat \ {0}
          /\ \A i \in Ours' : i + 1 \in Ours /\ i \in Nat \ {0}
      BY <2>1, <3>1, OursAfter
    <3>3. /\ \A i, j \in Ours : i = j
          /\ Distinct(listed) /\ Names(listed) = kept
          /\ OurReads # {} => listed = << >>
          /\ q.name = listed[q.row].name
      BY <3>1, <3>2 DEF CalmInv, ExactInv
    <3>4. OurReads' = {}
      BY <1>0, <2>1, <3>2, <3>3
    <3>5. \A i \in Ours' : i + 1 = 1 /\ i \in Nat \ {0}
      BY <3>2, <3>3
    <3>6. Ours' = {}
      BY <3>5
    <3>7. Distinct(listed') /\ Names(listed') = kept'
      BY <1>0, <2>1, <3>1, <3>3, RowRemoved
    <3>8. Exact
      BY <2>1, <2>2, <3>4, <3>6, <3>7 DEF Exact
    <3>9. QED
      BY <1>1, <3>8
  <2>6. QED
    BY <2>4, <2>5
<1>11. CASE RemovalDenied
  <2>1. /\ asked # << >> /\ asked' = Tail(asked) /\ risks' = risks \cup {"denied"}
        /\ UNCHANGED <<app, listed, kept>>
    BY <1>11 DEF RemovalDenied
  <2>2. app = "running"
    BY <2>1 DEF TypeInv, Opened
  <2>3. /\ \A i \in OurReads' : i + 1 \in OurReads /\ i \in Nat \ {0}
        /\ \A i \in Ours' : i + 1 \in Ours /\ asked'[i] = asked[i + 1]
    BY <2>1, OursAfter
  <2>4. CASE Hasty
    <3>1. Ended
      BY <2>1, <2>2 DEF Ended
    <3>2. QED
      BY <1>1, <2>4, <3>1
  <2>5. CASE ~Hasty
    <3>1. risks \cap {"late", "ahead"} = {}
      BY <2>1, <2>5 DEF Hasty
    <3>2. /\ Distinct(listed) /\ Names(listed) = kept
          /\ OurReads # {} => listed = << >> /\ kept = {}
          /\ \A i, j \in OurReads : i = j
          /\ \A i \in Ours : asked[i].name = listed[asked[i].row].name
      BY <3>1 DEF ExactInv
    <3>3. \A i, j \in OurReads' : i + 1 = j + 1
      BY <2>3, <3>2
    <3>4. \A i, j \in OurReads' : i = j
      BY <2>3, <3>3
    <3>5. \A i \in Ours' : asked'[i].name = listed'[asked'[i].row].name
      BY <2>1, <2>3, <3>2
    <3>6. Distinct(listed') /\ Names(listed') = kept'
      BY <2>1, <3>2
    <3>7. OurReads' # {} => listed' = << >> /\ kept' = {}
      BY <2>1, <2>3, <3>2
    <3>8. Exact
      BY <2>1, <2>2, <3>4, <3>5, <3>6, <3>7 DEF Exact
    <3>9. QED
      BY <1>1, <3>8
  <2>6. QED
    BY <2>4, <2>5
<1>12. CASE Elsewhere
  BY <1>12, ElsewhereUnseen DEF ExactInv, Distinct, Names, OurReads, Ours, Removing
<1>13. CASE UNCHANGED vars
  BY <1>13 DEF vars, ExactInv, Distinct, Names, OurReads, Ours, Removing
<1>14. QED
  BY <1>2, <1>3, <1>4, <1>5, <1>6, <1>7, <1>8, <1>9, <1>10, <1>11, <1>12, <1>13 DEF Next, Elsewhere

(* Without such haste the page shows each routine it was told of once, but *)
(* those removed since, whatever is refused, ended or changed by others.   *)
THEOREM ListsExact == Spec => []ListedExact
<1>1. Init => CalmInv /\ ExactInv
  BY DEF Init, CalmInv, ExactInv, Ours, OurReads, Removing, Distinct, Names
<1>2. TypeInv /\ ExactInv => ListedExact
  BY DistinctCount DEF TypeInv, TypeOK, ExactInv, ListedExact
<1>3. QED
  BY <1>1, <1>2, RowsAlways, CalmStep, ExactStep, PTL DEF Spec

---------------------------------------------------------------------------
(* What the page shows is what the server holds, from the answer to the    *)
(* page's own read on: the requests of earlier pages were answered before  *)
(* it, so that none of their removals is still to come.  The routines may  *)
(* not have changed behind the page.                                       *)
Shown == OnPage /\ OurReads = {} /\ risks \cap {"late", "ahead", "changed"} = {}

ServerInv ==
  Shown =>
    /\ \A i \in DOMAIN asked : asked[i].here
    /\ kept = routines[patient]

PageShowsServer == Shown => Names(cells) = routines[patient]

(* A step that answers a request of this page, not its read, leaves the    *)
(* page as it was: with its read answered or not.                          *)
LEMMA ReadsLeft ==
  ASSUME TypeInv, asked # << >>, asked' = Tail(asked), Head(asked).op = "remove"
  PROVE  OurReads' = {} => OurReads = {}
<1>1. /\ Head(asked) = asked[1] /\ 1 \in DOMAIN asked
      /\ asked \in Seq(Read \cup Removal) /\ asked' = Tail(asked)
  BY AskedHead DEF TypeInv, TypeOK
<1>2. /\ Len(asked) \in Nat \ {0} /\ DOMAIN asked = 1 .. Len(asked)
      /\ DOMAIN asked' = 1 .. Len(asked) - 1
      /\ \A i \in 1 .. Len(asked) - 1 : asked'[i] = asked[i + 1]
  <2>1. Len(asked) \in Nat \ {0} /\ DOMAIN asked = 1 .. Len(asked)
    BY <1>1, EmptySeq, LenProperties
  <2>2. /\ asked' \in Seq(Read \cup Removal) /\ Len(asked') = Len(asked) - 1
        /\ \A i \in 1 .. Len(asked') : asked'[i] = asked[i + 1]
    BY <1>1, HeadTailProperties
  <2>3. DOMAIN asked' = 1 .. Len(asked')
    BY <2>2, LenProperties
  <2>4. QED
    BY <2>1, <2>2, <2>3
<1>3. ASSUME NEW i \in OurReads
      PROVE  i - 1 \in OurReads'
  <2>1. i \in DOMAIN asked /\ asked[i].op = "read" /\ asked[i].here /\ i # 1
    BY <1>1 DEF OurReads
  <2>2. i - 1 \in 1 .. Len(asked) - 1 /\ asked'[i - 1] = asked[(i - 1) + 1] /\ (i - 1) + 1 = i
    BY <1>2, <2>1
  <2>3. QED
    BY <1>2, <2>1, <2>2 DEF OurReads
<1>4. QED
  BY <1>3

LEMMA ServerStep ==
  TypeInv /\ TableInv /\ CalmInv /\ ExactInv /\ ServerInv /\ [Next]_vars => ServerInv'
<1> SUFFICES ASSUME TypeInv, TableInv, CalmInv, ExactInv, ServerInv, [Next]_vars,
                    Shown'
             PROVE  (\A i \in DOMAIN asked' : asked'[i].here) /\ kept' = routines'[patient']
  BY DEF ServerInv
<1> USE DEF pageVars
<1> DEFINE Goal == (\A i \in DOMAIN asked' : asked'[i].here) /\ kept' = routines'[patient']
<1>0. asked \in Seq(Read \cup Removal) /\ routines \in [Patient -> SUBSET Routine]
  BY DEF TypeInv, TypeOK
<1>1. ASSUME UNCHANGED <<routines, page, patient, asked, kept, risks>>
      PROVE  Goal
  BY <1>1 DEF ServerInv, Shown, OnPage, OurReads
<1>2. CASE OpenApp \/ Kill \/ RemovalCrash \/ LeavePatient
  BY <1>2 DEF OpenApp, Kill, RemovalCrash, LeavePatient, Stop, Shown, OnPage
<1>3. ASSUME NEW p \in Patient, OpenPatient(p)
      PROVE  Goal
  <2> DEFINE q == [op |-> "read", of |-> p, name |-> Nothing, row |-> 0, here |-> TRUE]
  <2>1. Ask(q) /\ q \in Read \cup Removal /\ q.op = "read" /\ q.here
    BY <1>3 DEF OpenPatient, Read
  <2>2. asked' = Append(asked, q) /\ Len(asked) \in Nat
    BY <1>0, <2>1, LenProperties DEF Ask
  <2>3. Len(asked) + 1 \in DOMAIN asked' /\ asked'[Len(asked) + 1] = q
    BY <1>0, <2>1, <2>2
  <2>4. QED
    BY <2>1, <2>3 DEF Shown, OurReads
<1>4. CASE ReadAnswered
  <2> DEFINE p == Head(asked).of
  <2>1. /\ asked # << >> /\ asked' = Tail(asked) /\ Head(asked).op = "read"
        /\ UNCHANGED <<routines, page, patient>>
    BY <1>4 DEF ReadAnswered
  <2>2. Head(asked).here /\ kept' = Told(p) /\ risks' = risks
    BY <1>4 DEF ReadAnswered, Shown
  <2>3. p = patient /\ OnPage
    BY <2>1, <2>2, HeadHere
  <2>4. \A i \in DOMAIN asked' : asked'[i].here
    BY <2>1, <2>2, TailOrder
  <2>5. /\ Head(asked) = asked[1] /\ 1 \in DOMAIN asked /\ 1 \in OurReads
    BY <2>1, <2>2, OursAfter
  <2>6. \A i \in DOMAIN asked : asked[i].here
    <3>1. SUFFICES ASSUME NEW i \in DOMAIN asked, i # 1
                   PROVE  asked[i].here
      BY <2>2, <2>5
    <3>2. 1 < i
      BY <1>0, <3>1, LenProperties
    <3>3. QED
      BY <2>2, <2>5, <3>1, <3>2 DEF TableInv
  <2>7. Ours = {}
    <3>1. listed = << >> /\ \A i \in Ours : asked[i].row \in DOMAIN listed
      BY <2>2, <2>5 DEF ExactInv, CalmInv, Shown
    <3>2. DOMAIN << >> = {}
      OBVIOUS
    <3>3. QED
      BY <3>1, <3>2
  <2>8. Removing = {}
    BY <2>6, <2>7 DEF Ours, Removing
  <2>9. Told(p) = routines[patient]
    BY <2>3, <2>8 DEF Told
  <2>10. QED
    BY <2>1, <2>2, <2>4, <2>9
<1>5. ASSUME NEW i \in DOMAIN cells, TapRow(i)
      PROVE  Goal
  BY <1>5 DEF TapRow, ServerInv, Shown, OnPage, OurReads
<1>6. CASE RoutineBack
  BY <1>6 DEF RoutineBack, ServerInv, Shown, OnPage, OurReads
<1>7. ASSUME NEW i \in DOMAIN cells, SwipeRow(i)
      PROVE  Goal
  <2> DEFINE q == [op |-> "remove", of |-> patient, name |-> listed[i].name, row |-> i, here |-> TRUE]
  <2>1. /\ page = "patient" /\ i \in DOMAIN listed /\ Ask(q)
        /\ risks' = risks \cup {x \in {"ahead"} : Removing # {}}
        /\ UNCHANGED <<routines, page, patient, kept>>
    BY <1>7 DEF SwipeRow
  <2>2. patient \in Patient /\ listed[i] \in Row /\ i \in Nat \ {0}
    BY <2>1, ElementOfSeq, LenProperties DEF TypeInv, TypeOK, Opened, OnPage
  <2>3. q \in Read \cup Removal
    BY <2>2 DEF Removal, Row
  <2>4. /\ DOMAIN asked \subseteq DOMAIN asked'
        /\ \A j \in DOMAIN asked : asked'[j] = asked[j]
        /\ \A j \in DOMAIN asked' : j \in DOMAIN asked \/ j = Len(asked) + 1
        /\ asked'[Len(asked) + 1] = q
    BY <2>1, <2>3, AskedMore DEF TypeInv
  <2>5. OurReads \subseteq OurReads'
    BY <2>4 DEF OurReads
  <2>6. Shown
    BY <2>1, <2>5 DEF Shown, OnPage
  <2>7. (\A j \in DOMAIN asked : asked[j].here) /\ kept = routines[patient]
    BY <2>6 DEF ServerInv
  <2>8. q.here
    OBVIOUS
  <2>9. QED
    BY <2>1, <2>4, <2>7, <2>8
<1>8. CASE RemovalAnswered
  <2> DEFINE q == Head(asked)
  <2>1. /\ asked # << >> /\ asked' = Tail(asked) /\ q.op = "remove"
        /\ routines' = Removed(q) /\ UNCHANGED <<page, patient>>
    BY <1>8 DEF RemovalAnswered
  <2>2. q.here /\ kept' = kept \ {q.name} /\ risks' = risks
    BY <1>8 DEF RemovalAnswered, Shown
  <2>3. Shown
    BY <2>1, <2>2, ReadsLeft DEF Shown, OnPage
  <2>4. q.of = patient /\ patient \in Patient
    BY <2>1, <2>2, HeadHere DEF TypeInv, Opened
  <2>5. \A i \in DOMAIN asked' : asked'[i].here
    BY <2>1, <2>2, TailOrder
  <2>6. routines'[patient] = routines[patient] \ {q.name}
    BY <1>0, <2>1, <2>4 DEF Removed
  <2>7. QED
    BY <2>1, <2>2, <2>3, <2>5, <2>6 DEF ServerInv
<1>9. CASE RemovalDenied
  <2>1. /\ asked # << >> /\ asked' = Tail(asked) /\ Head(asked).op = "remove"
        /\ risks' = risks \cup {"denied"} /\ UNCHANGED <<routines, page, patient, kept>>
    BY <1>9 DEF RemovalDenied
  <2>2. Shown
    BY <2>1, ReadsLeft DEF Shown, OnPage
  <2>3. (\A i \in DOMAIN asked : asked[i].here) /\ kept = routines[patient]
    BY <2>2 DEF ServerInv
  <2>4. \A i \in DOMAIN asked' : i + 1 \in DOMAIN asked /\ asked'[i] = asked[i + 1]
    BY <2>1, AskedHead DEF TypeInv
  <2>5. QED
    BY <2>1, <2>3, <2>4
<1>10. CASE Elsewhere
  <2>1. UNCHANGED <<page, patient, asked, kept>> /\ risks \subseteq risks'
    BY <1>10, ElsewhereUnseen
  <2>2. Shown /\ OnPage /\ "changed" \notin risks'
    BY <2>1 DEF Shown, OnPage, OurReads
  <2>3. routines'[patient] = routines[patient]
    BY <1>10, <2>2, ElsewhereUnseen
  <2>4. QED
    BY <2>1, <2>2, <2>3 DEF ServerInv
<1>11. CASE UNCHANGED vars
  BY <1>1, <1>11 DEF vars
<1>12. QED
  BY <1>2, <1>3, <1>4, <1>5, <1>6, <1>7, <1>8, <1>9, <1>10, <1>11 DEF Next, Elsewhere

(* A page whose read was answered shows exactly the routines the server    *)
(* holds of the patient, also while removals are unanswered and after some *)
(* were refused - unless, since it was opened, a routine of the patient    *)
(* was added or removed on another phone or another page of this one, a    *)
(* callback of an earlier page ran, or two removals were on their way at   *)
(* once.                                                                   *)
THEOREM PageAlwaysShowsServer == Spec => []PageShowsServer
<1>1. Init => CalmInv /\ ExactInv /\ ServerInv
  BY DEF Init, CalmInv, ExactInv, ServerInv, Shown, OnPage, Ours, OurReads, Removing, Distinct, Names
<1>2. RowsInv /\ ExactInv /\ ServerInv => PageShowsServer
  BY DEF RowsInv, ExactInv, ServerInv, PageShowsServer, Shown, OnPage
<1>3. QED
  BY <1>1, <1>2, RowsAlways, CalmStep, ExactStep, ServerStep, PTL DEF Spec
=============================================================================
