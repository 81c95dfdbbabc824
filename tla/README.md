# StabilityLink in TLA+

StabilityLink12 is an iOS app for home physiotherapy. A physiotherapist keeps a
list of patients, gives each of them routines, and fills a routine with
exercises from a catalogue. The patient opens a routine, does its exercises,
presses *Done*, says how it went, and may send a video. The physiotherapist reads
counts and feedback back. There is no server code: both apps talk directly to
Firebase, and every rule the program has lives in view controllers, in a dozen
global variables and in callbacks of the database SDK. This directory states
what that code guarantees, checks it with TLC and proves part of it with TLAPS.

In what follows `SL` is `src/StabilityLink12/StabilityLink12`.

## 1. Inventory

### Components

| component | state it keeps | operations | what makes it correct |
|---|---|---|---|
| **Exercise records** (`ExerciseList`, `PhysioRoutineInformation`, `PhysioViewExercise`, `PhysioViewStatistics`, `PatientExecuteRoutineScreen`, `PatientViewExercise`, `PatientGiveFeedback`) | `users/{patient}/routines/{routine}/{exercise}` in the database; globals `patientAssignedExercises`, `patientTapsExercise`, `routineExercises`, `physioTapsExercise`; per page the count read when it was loaded | save a record, delete a record, list them, merge `patientdone`, merge `patientfeedback`, read counts and feedback | a record is whole; counts and feedback are the patient's and belong to that exercise; nothing given is lost; no forced unwrap fails |
| **Realtime Database and its SDK** (the server external, the SDK under `Pods`) | server tree; per device a copy, and writes not yet acknowledged | apply locally and queue, send in order, value events, single reads | in-order delivery, own writes visible at once, unacknowledged writes sent again after a lost connection. The app enables no persistence (`SL/AppDelegate.swift:18-22`), so unsent writes die with the app |
| **Patient roster** (`PhysicalTherapistHomeScene`, `PhysioAddPatientScene`, `PhysioPatientInfo.removepatient`) | `users/{physio}/patientDoc`; globals `allPatients`, `currentPatient` | list, add by e-mail (one query, then one read), swipe to delete, remove from the patient's page | the list shows who is in the database; no physiotherapist and no duplicate is added; the patient opened is the row tapped |
| **Routine list** (`PhysioPatientInfo`) | names under `users/{patient}/routines`; globals `currentPatient`, `allPatientRoutines` | list, open, delete (the row goes when the server answers) | the routine removed and opened is the row's; one patient's page never means another's routine |
| **Patient's routines** (`PatientRoutineTableScreen` and the pages it leads to) | globals `allAssignedPatientRoutines`, `patientRoutineTapped`, `patientAssignedExercises`, `patientTapsExercise` | list, open, go back, and everything done to the exercise opened | the exercise opened is the row's, in the routine that is open |
| **Routine editor** (`NewRoutineName`, `ExerciseNameList`, `ExerciseList`, `ExerciseHomePage`) | globals `currentRoutine`, `newRoutine`, `allExercises`, the steppers | name a routine, choose exercises, save them | saved under the routine and patient it was made for |
| **Accounts** (`SignUpPage`, `LoginPage`, `Utilities`, both home pages) | authentication user, Firestore `users/{uid}`, database `users/{key}` | sign up (three writes), log in and route by role, sign out | a user who can log in has a role and a profile; each sees their own home |
| **Video exchange** (`PatientSendVideo`, `PhysioPatientInfo`) | one storage object per patient | record, upload, fetch the address, play | the video played is the patient's last |
| **Screens and controls** | none of their own | layout | not modelled |
| **Superseded sources** (`SL/LoginSystem`, `SL/ExerciseHomePage.swift`, `src/StabilityLink`) | | not built by the current target | not modelled |
| **Third-party libraries** (`src/StabilityLink12/Pods`) | | vendored | only the functions of the Firebase SDK the app rests on |

### How they interact

* The physiotherapist's app and the patient's app share nothing but the database.
  Nothing is a transaction: a record is written as a whole by
  `ExerciseList.saveButtonTapped` (line 136), removed as a whole by
  `PhysioRoutineInformation` (line 82), and *merged into*, one key at a time, by
  `PatientViewExercise` (line 72) and `PatientGiveFeedback` (36-49).
* Inside an app, pages hand data to each other through globals
  (`patientTapsExercise`, `currentRoutine`, `allPatients`, ...). A page reads the
  global when a button is pressed, not when it was opened.
* Observers are never removed effectively. `removeAllObservers` is called on another
  path, or by nobody at all, so a callback of a page long gone still refills its global.
* Answers outlive pages. A callback of a query, a read, a login or a removal runs when it
  comes, and reads globals, the current user and tables as they are then.
* Some pages are sheets: on iOS 13 they can be swiped down, and the page below comes
  back exactly as it was left, without a `viewDidLoad`. Other pages are full
  screen and every "back" button presents a *new* page.

### What is hard here

Interleavings of the two apps on one record; a value read when a page was loaded
and used when a button is pressed; globals overwritten between the two; writes lost
with the app or delayed by the network; tables reloaded inside a loop that may not
run; forced unwraps (`!`, `as!`) on keys another device may not have written.
`PROJECT.json` lists these hazards one by one, each at its line.

## 2. Modules

| module | what it is |
|---|---|
| `Prescription` | abstract: what a physiotherapist may believe about the exercises of one routine |
| `SharedList` | abstract: what a physiotherapist with several phones may believe about the list of patients |
| `ExerciseRecords` | detailed: both apps, their devices, the SDK and the database, for the records of one routine of one patient |
| `MCExerciseRecords` | the events and the symmetry of its runs |
| `ExerciseRecords_proof` | type correctness (`TypeInv`) |
| `ExerciseRecordsSafety_proof` | no nameless child, no crash (`SafeInv`) |
| `ExerciseRecordsPromise_proof` | nothing invented, and the refinement of `Prescription` (`GenuineInv`) |
| `PatientRoster` | the patients of one physiotherapist on any number of phones: home page, add page, removal |
| `MCPatientRoster` | the events and the symmetry of its runs |
| `PatientRoster_proof` | type correctness (`TypeInv`), nobody uninvited (`InvitedInv`), rows mean patients (`RowsInv`) |
| `RoutineEditor` | writing routines of several patients on one phone: the globals, the catalogue, the save in a callback, the observers left behind |
| `MCRoutineEditor`, `RoutineEditor_proof` | its run; `TypeInv`, `CatalogueInv`, `SaveInv`, `RowsInv` |
| `RoutineList` | the routines of several patients on the physiotherapist's phone: the single read and the removals answered late |
| `MCRoutineList`, `RoutineList_proof` | its run and its theorems |
| `PatientRoutines` | a patient going from one routine to another on one phone |
| `MCPatientRoutines`, `PatientRoutines_proof` | its run; `TypeInv`, `RowsInv`, `CauseInv` |
| `Accounts` | sign-up across three stores, login, routing by role, sign-out |
| `MCAccounts`, `Accounts_proof` | its run and its theorems |

The modules cut the program where its state can be cut. `ExerciseRecords` looks at one routine
and at what its records hold, on all phones at once. `RoutineEditor`, `RoutineList` and
`PatientRoutines` look at one phone and at *which* routine, patient and exercise its globals mean,
with everybody else as an environment that may change any routine at any time; the
server's tree and the phone's pending writes are one variable there, the tree as the phone is told of it. `PatientRoster` has
`users/{physio}/patientDoc`, `Accounts` the three stores of a profile. A step of one that another
takes as its environment stands for the other's handlers: `Colleague` and `Progress` of
`RoutineEditor` are `SaveExercise`, `DeleteRow` and `DoneButtonPressed` of `ExerciseRecords`;
`Prescribe`, `Withdraw` and `Touch` of `PatientRoutines` are the same three. Two of the modules also share a
phone: what the pages of a patient and of a routine remove is `RemoveOnInfo` in `RoutineEditor`, and what the routine's page and
the editor change is `EmptyRoutine` and `EditRoutine` in `RoutineList`.

In all of them, a definition named `...Fault` is a faulty variant of the definition it
stands before (a dropped guard, a forgotten reset). None is part of a
specification: each is there to show that a property would notice.

### ExerciseRecords

*State.* `db` holds the routine's records; a record is `prescribed` (the keys
`exercisename`, `physioset` and `physioreps`, which only a save writes and always together),
`done` (`patientdone`, or `NoCount` if the key is missing) and `feedback`. Every
device has `app`, `outbox` (unacknowledged writes), `local` (the SDK's copy) and
the pair `listed`/`rows`: the global array and the rows its table shows, which
are two things, because `reloadData` stands inside the loop over the children
and an empty answer empties the array only (`PatientExecuteRoutineScreen.swift:47`,
`PhysioRoutineInformation.swift`). A patient's device has a stack of `pages` and
the global `tapped`; a physiotherapist's has the page on top and the reads not yet
answered. `presses` and `said` are history: what the patient really did.

*Actions.* One per handler or callback, each with all it does: `DoneButtonPressed`
writes the count plus one to the exercise the *global* holds, leaves for a new
list page and loads its table from the global array. Where the Swift code
unwraps, casts or indexes by force there is a `...Crash` action with exactly the
condition under which that fails, and it ends the app: `RoutineChangedCrash` (`name!`),
`CountLoadedCrash` (`as! String`), `DoneButtonCrash` (`Int(count)!`),
`TapExerciseCrash` and `RowCrash` (index out of range), `PhysioReadCrash`.
`Flush` is the network: the server takes the oldest write of one device.

*Events.* `Events` says what else may happen, so that a theorem can name what it
needs: `dismiss` (a sheet is swiped away), `delete`, `resave` (an exercise the
routine already has is saved again), `kill` (an app ends), `hasty` (*Done* before
the count was loaded), `resend` (below).

*Lost acknowledgements.* `FPersistentConnection` keeps a write among `outstandingPuts` until it is
answered, and `restoreState` (lines 988-1018) sends all of them again on the next connection; the server may have
taken one already. `AnswerLost` is that: any queued write is applied and stays queued. With one
unsent write this is exact; with more it allows orders that a real connection, which sends
oldest first, does not, which can only make the safety properties harder to hold. `PatientRoster` and
`Accounts` have the same step; `RoutineEditor`, `RoutineList` and `PatientRoutines` have no queue.

*Abstractions.* One routine of one patient. A feedback is a button. Sets and
repetitions are part of `prescribed`. The catalogue has found the exercise that is
saved; the choice among catalogue entries belongs to the routine editor. A
device that reads receives the server's current tree under its own pending
writes; a device that loses its connection is one whose `Flush` and reads do not
happen.

### PatientRoster

*State.* `doc` is the server's list; an entry is written whole (`setValue`), so the list is a
set of accounts, ordered by uid because the key order decides which row is which
and where the add page's loop stops. Per phone: the SDK's `outbox`, `local`, `synced` and
`due` (an event of the observer is on its way), the `page` on top, the pair `listed`/`rows`
as above, `opened` (`currentPatient`) and `asking`, the additions under way. An addition is what the
callbacks of `donetapped` have captured: who, which answer is awaited, and whether the
page that asked is still there (`self.view.window?` is nil otherwise, so that the write happens and the page does
not change).

*Actions.* `HomeChanged` is the observer, of this home page and of all earlier ones:
`removehandle` and `removeAllObservers` name other paths than the one observed, so
none is ever removed. `TapRow` and `DeleteRow` look the row's *index* up in `allPatients`, as
the code does, so that whether it means the patient in the row is a question.
`DoneTapped`, `QueryAnswered` and `ReadAnswered` are the three parts of `donetapped`, each of which empties
`allPatients`. `ReadAnswered` writes the entry once per entry before the duplicate
(the write is inside the loop, `PhysioAddPatientScene.swift:162`). `Cancel` makes a new
home page, `InfoBack` unwinds to the old one, `Dismiss` leaves the old one as it
was. `RowCrash` and `QueryCrash` are the indexes out of range and `querrySnapshot!`.

*Events.* `dismiss`, `kill` as above; `hasty` (Done, Cancel or a swipe while an addition is unanswered),
`delete`, `remove`, `fault` (the query fails), `resend`.

*Abstractions.* One physiotherapist's account; the names and ages in an entry; the e-mail query is
answered by the account, by nobody or by an error. The read of the list
is served from the SDK's copy once that is synced, as the home page observes the
same path.

### RoutineEditor

*State.* `seen` is every routine as the phone is told of it, own writes applied. `patient`, `routine` and `exercise` are the globals
`currentPatient`, `currentRoutine`, and `exerciseID` while its page is open; `edited` is the routine the pages of the editor were opened
for. `under` says that an `ExerciseHomePage` lies below the home page on top. `catalogue` counts how often `allExercises` holds the
catalogue, `listing` the unanswered queries for it. `listed`, `rows` and `marked` are `newRoutine`, the rows of the
`ExerciseHomePage` on top or below the sheet, and whether its table has been reloaded but not laid out yet (UIKit does
that in the run loop, after the callbacks that are queued and before a touch). `observed` are the routines any page so far has observed,
`due` those with an event to come, `saving` the saves whose query is unanswered.

*Actions.* `SaveTapped` asks and goes on to the next page at once; `SaveAnswered` writes the record where the globals
point *then* (`ExerciseList.swift:138`). `EditorChanged` is the observer of one routine, of the page on top and of all
left behind: each refills `newRoutine`, only the page on top, or below the sheet, reloads its table; `EditorChangedCrash` is the `name!` of line 75 on
a record without a name. `DeleteRow` looks the row's index up in
`newRoutine` and removes under what the globals spell (line 140).
`Done` presents the home page as a sheet (`physioCreateRoutine.storyboard:293` to `physioHome.storyboard:14`, no
`modalPresentationStyle`), where another patient may be opened; `Dismiss` swipes it away, and the editor comes back with the globals as they are then.
`NewHome`, which the roster's pages present, and the catalogue are full screen: the editor is gone. `UnkeyableCrash` is the exception `child()` raises for a name with a character
a key may not have, which `NewRoutineName` accepts.

*Events.* `colleague`, `progress` (other phones), `orphan` (a patient's phone merges into a record that was removed), `fault` (a Firestore query fails), `offline` (the
catalogue is answered from an empty cache; no row, and no way off the page), `kill`.

*Abstractions.* A record is there or not. Which records lack a name is not kept: with `orphan` allowed any event may come upon one, more
than in the program, where one must have been removed before; `ExerciseRecords` and `PatientRoutines` keep count of them. The catalogue is not edited between its listing and the save, which
therefore finds its exercise.

### RoutineList

*State.* `routines` is the server's; `listed`, `cells` are the global `allPatientRoutines` and the
table of the patient's page; a row carries its patient for the checks only. `asked` is the connection: requests not yet answered, oldest first, each
with the index it was made for and whether the page that asked is still there. What a
request does at the server and what its answer does on the phone are one step.

*Actions.* `ReadAnswered` appends to the global, in the order of a dictionary, without emptying it: that
happened when the page was opened. `SwipeRow` only asks; `RemovalAnswered` takes the row out by the index it had when
it was swiped (`PhysioPatientInfo.swift:286`), and `RemovalCrash` is that index or the table's count not fitting any more.
A tap's index always fits, which is part of `RowMeansRoutine`: a callback of an earlier page only ever runs before this page's own.
A table whose page has been released may go either way.
The routines also change under an open page: `EmptyRoutine` is the removal of a routine's last exercise on the routine's page
(`PhysioRoutineInformation.swift:82`), from which one goes back without a reload; `EditRoutine` is the editor of this phone, whose save may be
answered when another page is on top; `Colleague` is another phone.

*Events.* `colleague` (other phones), `deny` (the server refuses a removal), `kill`.

### PatientRoutines

*State.* `named` and `nameless` are the whole and the nameless records of each routine. `table`/`cells` and `listed`/`rows`/`marked` are the two
global arrays and the tables over them; `observed` and `due` as in the editor. `source` is
history: the routine `listed` was last filled for.

*Actions.* `ListChanged` is the observer of one routine, of this page and of all left behind. `TapExercise` looks the row's index up in the array, whoever
filled it. `Merge` is what *Done* and the feedback buttons do: at the path the
two globals spell, and making a nameless child where there was none.

*Abstractions.* A dictionary of the same keys is enumerated in the same order throughout one run of the
app, so a routine's row means it as long as table and array hold the same set. No sheet is
swiped away and *Done* waits for its count, both of which `ExerciseRecords` has.

### Accounts

*State.* `auth`, `docs`, `nodes`: the authentication service, the role in the Firestore document and in
the database node of each account; `routines`, the accounts under whose node somebody has written routines. Per phone the page, `user` (`Auth.currentUser`), `chosen` (`current_role`),
`calls` not yet answered and `due`, those that are answered and whose callback waits for the main
queue: FirebaseAuth changes the user on a queue of its own and dispatches the
callback afterwards (`FIRAuth.m:1731-1757`). `docQueue` is Firestore's queue, kept on disk and per user; `nodeQueue` the
database's, in memory.

*Actions.* `Created` writes the document for the account created, the node for the
user signed in when it runs (`SignUpPage.swift:177`, `:184`), both with the role chosen *then*. `CreatedCrash` is
`(Auth.auth().currentUser?.uid)!` after a sign-out. `SignedIn` asks for the role of the current user,
`Routed` shows that role's home page if the page that asked is still there. `NodeStored` replaces the whole
node and with it any routines.

*Events.* `assign` (a physiotherapist gives a patient routines), `fault`, `kill`, `resend`. An answer to `createUser` may be lost
after the account was made.

## 3. What the runs check

| run | properties | instance | shows |
|---|---|---|---|
| `colleagues` | `TypeOK`, `PrescriptionHolds` | 1 patient phone, 2 physio phones, 1 exercise; delete, resave, resend | two phones editing one routine: every state well formed, no write to "no exercise", a table outliving a deletion made elsewhere, and still a `Prescription` |
| `phones` | `NothingInvented` | 2 patient phones, 1 physio phone; delete, resave, kill, hasty | stale counts of two phones never claim a completion too many |
| `sheets` | `EveryChildNamed`, `NeverCrashes` | 1 + 1 phones, 2 exercises; dismiss, resave, kill, resend | without deletions no child loses its name and no forced operation fails |
| `solo` | `ProgressAgrees`, `ProgressStays`, `ProgressArrives` | 1 + 1 phones, 2 exercises, 2 presses, 2 feedbacks, nothing exceptional, with fairness | counts and feedback are exact once sent; no count is ever taken back; every completion and the last feedback arrive and stay |
| `roster_phones` | `OnlyInvited`, `RowMeansPatient`, `ListShared` | 2 phones, 2 patients, every event but resend | nobody uninvited on the list, in a copy or in a table; the patient opened or deleted is the one in the row; the phones implement `SharedList` |
| `roster_solo` | `TypeOK`, `NeverCrashes`, `RowsConverge`, `AddedShown` | 1 phone, 3 patients, 1 physio; delete, remove, resend; with fairness | patience is enough: no index fails, the table comes to show the list, an added patient reaches both |
| `editor` | `TypeOK`, `CatalogueOnce`, `SavedWhereTapped`, `SwipeMeansRow`, `SaveLands`, `TableShowsRoutine` | 2 patients, 2 routine names (one not a key), 2 exercises, every event, with fairness | exercises are offered once, land where Save was tapped, are shown, and are removed by their row, with the exceptions below |
| `page` | `TypeOK`, `ListedExact`, `CrashNeedsHaste`, `RowMeansRoutine`, `RemovalDone` | 2 patients, 2 routines, 2 requests under way, every event, with fairness | rows mean routines, the list is exact, removals are done, with the exceptions below |
| `routines` | `TypeOK`, `OrphansHaveCause`, `CrashHasCause`, `TapMeansRow`, `ListShowsRoutine` | 2 routines, 2 exercises, every event, with fairness | taps mean rows, records keep their names and the app runs, with the exceptions below |
| `accounts` | `TypeOK`, `StoresAgree`, `HomeFitsUser`, `CrashNeedsRace`, `RoutinesKept`, `SignupCompletes`, `LoginArrives` | 1 phone, 2 accounts that may be complete already, 2 calls at once, 2 taps, every event, with fairness | the stores agree, the home page fits the user, routines survive, sign-ups and logins complete, with the exceptions below |
| `orphan` | `EveryChildNamed` violated | delete allowed | a finding, below |
| `roster_stale` | `RowsConverge` violated | 2 phones, 1 patient, deletion | a finding, below |

*Exceptions.* Where the code keeps a promise only part of the time, the property says when, and the
exception is a history variable as narrow as the runs allow:

* a save lands elsewhere if another routine was opened before its query was answered, or if the editor was come back to, by a
  swipe, with another patient opened (`strayed`);
* the editor's table and its swipes mean the routine open while one routine only has been edited since the app
  was opened, as the observers left behind read the others (`Mixed`), and while that is the routine the globals spell: an editor come
  back to after another patient was opened still lists the first patient's routine, and a swipe removes from the second's
  (`edited # Now` for `SwipeMeansRow`; for `TableShowsRoutine` `strayed`). Saving an exercise the routine already
  has empties the array, perhaps without an event that would fill it again (`resaved`, until the next event);
* the routine list shows rows of another patient after the callback of an earlier page (`late`), and shows the wrong
  rows or crashes when one is swiped before the last removal was answered (`ahead`), as the second row's
  index is then one too high; a row means what it shows even then. A page already filled does not follow routines that are added or
  removed elsewhere, be it on another page of the same phone (`changed`, for the theorem `PageAlwaysShowsServer`);
* a patient's tap means its row while `source` is the routine open. Otherwise it may open an exercise of another
  routine; its feedback then makes a nameless child in the routine open, without any deletion, and
  the list crashes on it (`strayed`). A withdrawn exercise does the same (`withdrawn`);
* a call made before the callback of an earlier one (`raced`) may route to the wrong home page or crash; the callback of
  one sign-up may write the node of another account (`mixed`), and a node that is
  sent, or sent again, after routines were assigned wipes them (`early`);
* `ProgressAgrees` and `ProgressStays` are about one phone of each user. They leave out a page swiped back to, which holds
  its old count and repeats it (`PatientViewExercise.swift:68`), a second phone, which does the same, a re-save,
  which resets the count, and a save that is sent again. `ProgressStays` holds through killed apps and hasty
  presses; `ProgressAgrees` does not, as a press may die with the app.

*Bounds.* `MaxPresses` and `MaxFeedback` bound the history, `MaxOutbox` the unsent
writes, `MaxPages` the sheets on top of each other and `MaxReads` the reads a physiotherapist's
device waits for. Two presses or two feedbacks are what it takes for an older one to be
mistaken for a newer one; two unsent writes, for one to be overtaken. `sheets`
has four pages because a page above a feedback page above an exercise page above
the list is the first stack whose lower pages were opened for another exercise;
with that it can afford one unsent write only, and the theorems about the same
two properties hold for every bound. `colleagues` needs the second physio
phone: a table only outlives its array when somebody else removed the last
exercise. Exercises and devices are symmetric in every run without liveness.

`roster_solo` needs three patients and a queue of two: only the third patient is written
twice by the loop. `roster_phones` needs two, as one row has one index, and no physio,
which never gets past the query; it leaves lost answers to `roster_solo` and, on several phones, to the theorems, as they double its states. `editor`, `page` and `routines` need two of everything: two
routines for the globals to mean the wrong one, two exercises for a row to have a wrong index, two requests
for the second to overtake the first's row. `accounts` needs two accounts and two calls for one callback to find the other's
user, and two taps (`MaxTaps`), with accounts that may be complete at the start: two
sign-ups, two logins or one of each overtaking the other. The
safety theorems cover all of them for every bound. The runs have between 15 thousand and 2.9 million states and take
up to four minutes each with two workers.

*Stopping.* `orphan` runs without the deadlock check, as a crashed app need not be started
again; the others include the starting of an app and never stop.

*Fairness.* Weak fairness, and only of what happens by itself on a phone that is alive and connected: what a
person taps is never forced, so the liveness properties are about things already asked for.

* `ExerciseRecords`: `RoutineChanged` and `Flush`, the SDK's observer and its queue; the SDK retries both on its own.
* `PatientRoster`: the observer and the queue of each phone, and the answers to an addition.
* `RoutineEditor` and `PatientRoutines`: `Layout`, which the run loop does, and the observers; in the editor also the answers to saves.
* `RoutineList`: the answers, in order, each of them by whichever action can take it.
* `Accounts`: the callbacks waiting for the main queue, the answers to role queries, and the two queues. `Create` and
  `SignIn` are not fair, since a call may go unanswered for ever.

### Findings

* **A deleted exercise comes back without its name** (`orphan`). The patient has an exercise open, the
  physiotherapist deletes it, the patient presses *Done*: `updateChildValues` creates the node
  again with `patientdone` alone. Every list then runs `name!` on nil
  (`PatientExecuteRoutineScreen.swift:44`), on both apps and at every start. `PatientRoutines` reaches the same without a deletion, by a tap looked up in another
routine's array.
* **A deleted row stays** (`roster_stale`). An empty list empties `allPatients` but reloads no table
  (`PhysicalTherapistHomeScene.swift:107` is inside the loop), although line 191 says
  "the number of cells is the number of patients". The row of the last
  patient, deleted on another phone, stays and crashes the app when tapped.

## 4. What is proved

For `ExerciseRecords`, TLAPS proves these for all devices, exercises, events and bounds, from the
assumptions of `ExerciseRecords` (the two users' devices are disjoint, `NoExercise` is no exercise,
"Good" is a button, bounds are natural numbers).

* `TypeOKAlways`, `TypesCorrect`: `Spec => []TypeInv`. `TypeOK` is not inductive:
  *Done* writes to `tapped`, which may be `NoExercise` as far as types go.
  `TypeInv` adds that a page with buttons is only ever presented after a tap (the
  global is an exercise while any View or Feedback page is on the stack).
* `ChildrenNamed` assumes `"delete" \notin Events`; `AppsNeverCrash` also
  `"hasty" \notin Events`. `SafeInv` says why: a
  record, on the server or in a copy, is whole or missing; a name a device knows is known to the
  server too, or a save of its own is on the way; a merge waiting in an outbox is for an
  exercise the server has; every row is backed by the array and every
  entry of the array by the device's copy; a page is open only for
  exercises in that copy; a page that has read has a count.
* `PhonesShowOwnWrites`, without assumptions on events: a device's copy of an exercise has, key by key, what the newest of its
  unsent writes to that key makes of it (`OwnWritesShown`). An acknowledgement, an event of the server and a write sent again
  all leave that so, because `Overlay` applies the queue again to whatever the server says.
* `ProgressNeverTakenBack` (one phone of each user, `Events` within kill and hasty) and `ProgressExact` (no event). Both rest on
  `ProgressInv`, which takes `OwnWritesShown` and adds: what is waiting in the patient's queue rises
  from the server's count to the patient's own (`Rising`); where nothing waits, that copy agrees with the server (`Known`); the physiotherapist's queue saves an
  exercise once, and the server does not have it yet (`SavedOnce`), so that no press was made for it; a page that has
  loaded shows the exercise tapped and the count of now (`PageFresh`). With no event nothing is lost either: the patient's copy is the
  number of presses and the last feedback (`Reported`).
* `NothingIsInvented` and `PrescriptionImplemented` assume
  `"dismiss" \notin Events`: then a page's exercise is the global's, which the
  inductive invariant `GenuineInv` carries through the stack, the outboxes and every
  copy: a count anywhere is at most the presses made for that exercise, a
  waiting merge carries a count between 1 and those presses, a feedback is
  one that was given. With it each step is a step of `Prescription` or a stutter.
  With sheets swiped away the page below may show another exercise than the
  global, and the press for one would be written to the other.

For `PatientRoster` (accounts are finitely many natural numbers, the roles are disjoint,
`NoAccount` is nobody), with every event allowed:

* `RosterTypeOK`: `TypeInv` adds that a patient's page is open only for an account, which the
  removal then writes.
* `NobodyUninvited`: `InvitedInv` follows a patient from the e-mail address through the
  requests, the unsent writes and the copies to the server and the tables.
* `CarefulNeverCrashes`, for one phone whose user waits for answers: `Settled` says that its copy of an entry is what
  the last unsent write makes of it, or else the server's, so that no event brings news, and that
  on the home and the info page the table is the array.
* `PhonesShowOwnWrites`: as for the records, the copy of an entry is what the last unsent write to it makes of it.
* `RestingTablesShowList`: a phone with nothing unsent and nothing to hear shows the list. `TablesCurrent`: a table whose
  observer has no event to come is the phone's copy, or that copy is empty. The empty list is the only exception, and it is the finding of
  `roster_stale`.
* `ListImplemented`: the phones implement `SharedList`. A phone's view is mapped to its copy as it is once the news that are due have come
  (`Overlay` of the server's list under the unsent writes), its unsaved changes to the entries with an unsent write. That a
  write being taken changes no view of the phone that sent it needs `OwnWritesShown`; that what is saved was invited needs
  `InvitedInv`. Taps are `Change`, a write taken, for the first time or again, is `Save`, the end of an app `Forget`; all else, the
  answers and observers among it, stutters.
* `AdditionsNeverDropped`: whatever became of the list and of the page that asked, the answer to the read puts its patient on the phone's list.
* `RowsMeanPatients`: `RowsInv`, a phone's array is empty or equal to its table, and the lemma
  `IndexMeansOne`, an index into a finite ordered set means one element.

For `RoutineEditor` (exercises are finitely many natural numbers, `Nothing` is the empty string):

* `EditorTypesCorrect`, `EditorTypeOK`: wherever a page reads the globals they spell what it needs (`Spelled`).
* `ExercisesOfferedOnce`: no page but the catalogue's is open while a query for it is under way (`CatalogueInv`).
* `SavesLandWhereTapped`: as long as nobody strayed, every unanswered save has the path the globals spell, and so have the editor's pages while one is on top (`SaveInv`).
* `SwipesMeanRows`: with one routine observed, that of the globals, a laid-out table is the array, or the array is empty (`RowsInv`).
* `RestingEditorShowsRoutine`: an editor with no event to come and nothing to lay out lists the routine as the server holds it (`ArrayCurrent`:
  the array is what the last event told). The exceptions are pages of several routines, an editor come back to with another
  patient opened, a repeated save with no event since, and an emptied routine.

For `RoutineList` (finitely many routines):

* `ListTypeOK`, with what an open page may count on (`Opened`).
* `RowsMeanRoutines`: `TableInv`. Requests are answered in order, so the callbacks of earlier pages run before this page's own; the table
  is filled by that, and from then on it is the array.
* `CalmNeverCrashes`, from every waiting removal's index being in range.
* `ListsExact`: `ExactInv`, the array names what was told, once each.
* `PageAlwaysShowsServer`, with every event allowed: from the answer to its own read on, a page lists the routines the server
  holds, at every moment and not only at rest, until one of the patient's routines is added or removed by other means than a row of
  the page (`changed`: another phone, the routine's page or the editor of the same phone), a late answer comes, or a row is swiped too early.
  `ServerInv` adds to `ExactInv` that no request of an earlier page is left once its own read was answered, so that none of its removals is still to come.

For `PatientRoutines` (exercises as in the editor), with every event allowed:

* `RoutinesTypeOK`: a page's globals always spell a path that is observed, and no record is both whole and nameless.
* `TapsMeanRows`: `RowsInv` with `source`, and the lemma `IndexGrows`.
* `OrphansCaused`, `CrashesCaused`: `CauseInv` says of every routine without a withdrawal or a stray tap that its records are whole, that it has some
  once the phone knows of it, that the array filled for it holds some of them only, and
  that the exercise open is one of them.
* `RestingPagesShowServer`: with no event to come, the page of the routines shows those assigned, and the page of a routine its
  exercises while the array is its own. `ListCurrent` and `TableCurrent`: what is not due was told, and told it was laid out.

For `Accounts`, on any number of phones: `AccountsTypeOK`; `RolesAgree` and `RoutinesSurvive`, which follow a role from the page through the call
and the two queues into the stores; `OnlyRacesCrash` and `HomesFit`, which rest on a phone's only call, as long as it has not raced, being of the user signed in.
`SignupsRemembered` is what completing a sign-up rests on: an account without a full profile has its callback waiting for the main queue, or each
missing part is in a queue, the document in that of the user who will send it; unless the answer was lost or the node written for another
account. `Carried` says what no step may drop of that.

Every safety property of the passing runs is proved for every bound, some under the assumptions named above.
Only model-checked: the liveness properties `ProgressArrives`, `RowsConverge`,
`AddedShown`, `SaveLands`, `TableShowsRoutine`, `RemovalDone`, `ListShowsRoutine`, `SignupCompletes` and `LoginArrives`:
liveness under fairness and ENABLED are out of the prover's reach. What can be proved of them is the part that is safety,
that nothing they wait for is lost on the way: `RestingTablesShowList`, `AdditionsNeverDropped`, `RestingEditorShowsRoutine`, `PageAlwaysShowsServer`,
`RestingPagesShowServer`, `SignupsRemembered` and `ProgressNeverTakenBack`; fairness then only has to make the phone come to rest.
The formulas without a run of their own were checked by TLC on the instances of the runs before they were proved.

## 5. Not modelled

* *Sign-out with roster or editor work under way*: `Accounts` signs out, the other modules have one user for ever.
* *Values* of sets, repetitions, descriptions, names and ages: no property depends on them.
* *Two writes to one key merged by the server in another order than sent*: the SDK sends in order.
* *Validation of fields*: a form is accepted or not. `Utilities.swift:50` accepts passwords that the message of `SignUpPage.swift:128` describes
  otherwise; no state depends on it.
* *The steppers* of `ExerciseList`, and a catalogue that is edited between its listing and a save.
* *Video exchange*: keeps no state in the app but the last file of each patient; its error branch (`error as! String`) fails at its first
  step, which no model is needed to see.
* *Screens and controls, superseded sources, third-party libraries*: see the inventory. The
  vendored libraries under `Pods` (Firebase, gRPC, BoringSSL, leveldb, Charts) are nearly all of the repository's lines; only the functions the
  models rest on are mapped: the write queue, listens, overlay of pending writes and events of the Realtime Database, the sign-in flow of
  FirebaseAuth, the acknowledgement of a Firestore write. The UI tests
  (`src/StabilityLink12/StabilityLink12UITests`) walk the storyboards and state no property of the data.

## 6. Plan

Done: the records, the roster, the editor, both lists of routines, the accounts. What is left, in order:

1. Sign-out and a second user on one phone in `PatientRoster` and `PatientRoutines`: their observers keep the path of the first user.
2. The queue of the database in `RoutineEditor` and `PatientRoutines`, so that lost acknowledgements reach the globals.
3. `VideoExchange`.
