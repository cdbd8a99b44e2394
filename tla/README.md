# Santa I Wish: a verification development

Santa I Wish is an iOS app: a parent signs up or logs in with Firebase Auth,
creates profiles of children, and for each child adds items to a wish list and
letters to Santa. Everything is kept twice: in Core Data on the phone and, by
one HTTP PUT per document, in the Firebase Realtime Database. A sign-up also
adds a document to Firestore, whose client, with LevelDB below it, is vendored
in `Pods`. This directory holds TLA+ models of the app and of the write path of
the client, the TLC runs that check them and TLAPS proofs. Swift paths below are
relative to `src/Santa I Wish/Santa I Wish/`, C++ paths to
`src/Santa I Wish/Pods/FirebaseFirestore/Firestore/core/src/firebase/firestore/`
or, for LevelDB, `src/Santa I Wish/Pods/leveldb-library/`.

## The system

| Component | State | Operations | Talks to |
| --- | --- | --- | --- |
| `SantaIWishController` (writes) | `userID` per instance | `addChild`, `addItemToWishList`, `addLetterToChild`, `createParentProfile`, `putChild`, `putItem`, `putLetter`, `put(parentRepresentation:)` | Core Data, URLSession |
| `SantaIWishController` (fetches) | none | `fetchKidsFromServer`, `fetchItemsFromServer` | URLSession, UserDefaults |
| `SantaIWishController` (credentials) | `token` and `userID` in UserDefaults | `getCredentials`, `signOut` | Firebase Auth |
| `CoreDataStack`, managed objects | main context, store | `save(context:)`, `saveToPersistentStore` (both reset the context on an error), `...Representation` | the forms, the lists |
| Login and sign-up screens | navigation, `childParent` | `login`, `registerNewAccount`, `checkLoginStatis`, `logout` | Auth, Firestore, controller |
| Profile, detail, wish-list, letter-list screens | the child they were given, rows fetched by name | open, back, reload | Core Data |
| Child, item and letter forms | text fields, the child | save, back | Core Data, controller |
| Firebase Auth (vendored) | current user (keychain), access token | sign in, create user, `getIDToken`, forced sign-out | main queue |
| Realtime Database (external) | a tree of JSON nodes | PUT, GET | |
| Firestore `SyncEngine`, `LocalStore` (vendored) | mutation queue of each user in LevelDB, completion blocks, next batch id | `WriteMutations`, `HandleSuccessfulWrite`, `HandleRejectedWrite`, `HandleCredentialChange`, `RegisterPendingWritesCallback` | `RemoteStore`, LevelDB |
| Firestore `RemoteStore`, `Stream`, `WriteStream` (vendored) | write pipeline, state of the stream, stream token | `FillWritePipeline`, `EnableNetwork`, `DisableNetwork`, the stream's callbacks and timers | `SyncEngine`, `GrpcStream` |
| Firestore `GrpcStream`, `GrpcCompletion` (vendored) | buffered writes, completions, one gRPC call | `Start`, `Write`, `FinishImmediately`, `FinishAndNotify`, `WriteAndFinish`, `OnOperationFailed` | gRPC, polling thread, `Stream` |
| LevelDB (vendored) | log files, memtables, tables, manifest, writers | `Write`, background compaction, `Open` | files |

What is hard about it:

* **Two stores, no transaction.** A document is saved on the phone and then
  sent. The save may fail (and reset the context under the screens that hold
  its objects), the request may fail, be refused, or die with the process, and
  nothing is tried again.
* **Unordered requests over overlapping places.** Each PUT is a data task of
  its own. The place of a document is made of names the user typed, the PUT of
  a child replaces the node that holds its wishes, and namesakes share a place.
* **Callbacks behind callbacks.** A tap on Login starts a request; Auth changes
  its user on its own queue, then queues a callback on the main thread, which
  starts a token fetch, whose own callback stores the credentials. A second
  tap, a logout, a forced sign-out or a kill can fall between any two of these.
* **An answer without a name.** A write response of Firestore does not say
  which write it is about. Pipeline, queue, stream and completion blocks must
  stay in step through refills, restarts of the stream, user changes, kills and
  errors, though each of them is changed by a different operation.
* **Three threads around one call.** The worker queue, the thread that polls
  gRPC and gRPC itself each hold a piece of a stream that the worker may destroy
  at any moment; to do so it blocks until the other two let go.
* **Death between two file operations.** LevelDB keeps what it promised through
  a log, tables and a manifest that are written one after the other, while
  writers and a background thread take turns with one mutex.
* **A user cached in five places.** Auth's current user, `token` and `userID`
  in UserDefaults, and `userID` in each controller. Logout clears one of them.

What makes each component correct:

* writes: only saved documents are sent, once, filed under the account that
  saved them; a document leaves the server only under another document's PUT;
* fetches: what is decoded is what was saved;
* credentials: the stored id is the user's, or on its way;
* login and sign-up: a logout lasts, a profile has a user, an account made here
  gets one Parent;
* lists: whatever a fetch returns is listed on the phone that saved it;
* Firestore's write path: a write is committed or refused or still queued, its
  block is called at most once and with success only if it is committed, the
  queue drains;
* `GrpcStream`: gRPC's rules are kept, no callback reaches a destroyed stream,
  messages pass in order, the worker never blocks for good;
* LevelDB: what was answered with success is found after any restart, sequence
  numbers are never used twice, every writer is answered.

## Modules

| Module | What it is |
| --- | --- |
| `Documents` | children, wishes, requests, their places on the server, `Put` |
| `WishLedger` | abstract specification: saved, pending and published documents |
| `WishSync` | the screens that save, the controller's PUTs, the network, the server; implements `WishLedger` |
| `MCWishSync` | constants and symmetry for TLC |
| `WishSyncProofs` | theorems about `WishSync` |
| `Session` | login, sign-up, Auth, UserDefaults, logout, relaunch, the local Parent |
| `MCSession` | symmetry for TLC |
| `SessionProofs` | theorems about `Session` |
| `Screens` | the navigation stack above the profile, what its screens show, the queued pop of the letter form |
| `MCScreens` | symmetry for TLC |
| `ScreensProofs` | theorems about `Screens` |
| `WriteAnswers` | abstract specification: what the caller of a Firestore write sees |
| `FirestoreWrites` | `SyncEngine`, `LocalStore`, `RemoteStore`, `WriteStream` and the backend; implements `WriteAnswers` |
| `MCFirestoreWrites` | symmetry for TLC |
| `FirestoreWritesProofs` | theorems about `FirestoreWrites` |
| `MessageStream` | abstract specification: two directions of messages and one finish |
| `GrpcStream` | `GrpcStream`, `GrpcCompletion`, the polling thread, gRPC; implements `MessageStream` |
| `MCGrpcStream` | the module TLC runs |
| `GrpcStreamProofs` | theorems about `GrpcStream` |
| `GrpcStreamOrder` | the proof that `GrpcStream` implements `MessageStream` |
| `DurableWrites` | abstract specification: what the callers of `DB::Write` are promised |
| `LevelDb` | writers, logs, memtables, compaction, manifest, recovery, faults; implements `DurableWrites` |
| `MCLevelDb` | symmetry for TLC |
| `LevelDbNumbers` | theorems about the types and file numbers of `LevelDb` |
| `LevelDbProofs` | theorems about what its files hold, and that it implements `DurableWrites` |

The models share no variables; each keeps of its neighbours what its own
properties need. `WishSync` keeps of the screens only the child they hold,
`Screens` of the stores only what Core Data has saved, and `Session` ends where
the profile opens. `Session` takes Firestore's answer to be a step at any time;
`FirestoreWrites` says when it comes, and takes two things from the layers below
that are checked there: that a call that ends drops what it had not delivered
and answers in order (`GrpcStream`), and that each of its transactions is one
durable step (`LevelDb`).

A definition whose comment begins with *Mutant* is not part of the models. It is
a plausible bug of the definition that follows it, and PROJECT.json pairs it
with the property that then fails, so that every property is known to be able
to fail.

### Documents and WishSync

`children` and `wishes` are Core Data. An Item and a Letter are one kind of
record, told apart by `kind`, whose value is the key they are filed under
(`Items`, `LetterToSanta`). `network` is the data tasks that have not ended,
`remote` the requests whose body the server still holds, `lost` (history) the
requests that never reached it. `held` is the child the detail, list and editor
screens were given, `Detached` once a failed save has reset its context.
`currentUser` is Auth's user, `userID` the cached id of the profile's
controller. `by` and `hasty` in a document are history: the program stores no
owner with a child or a wish.

A name or a title is a text, and `Components` gives what it adds to a URL: no
component for the empty text and for `/`, two for a name with a slash inside.
Texts that differ may add the same components (`appendingPathComponent` makes one
place of `doll` and `/doll`); the phone compares the texts, the server the
places. `Path` builds the place as `putChild`, `putItem` and `putLetter` do,
without the constant components `ParentAccount` and `children`. `Put` is the
server: the subtree at the place is replaced.

| Action | Code |
| --- | --- |
| `AddChild` | `AddChildOBJCViewController.doneBUtton`, `addChild`, `putChild` |
| `AddItem` | `AddItemViewController.saveButton`, `addItemToWishList`, `putItem` |
| `AddLetter` | `SendSantaLetterViewController.saveButton`, `addLetterToChild`, `putLetter` |
| `OpenChild`, `GoBack` | the profile's `prepare(for:sender:)`, the back buttons |
| `ContextReset` | the save of a new Parent fails (`saveToPersistentStore`) and resets the one main context, with the child the screens hold |
| `ChangeUser` | Auth's `updateCurrentUser`, at any time (module `Session` says when) |
| `Deliver`, `Drop` | the server applies a PUT; the completion handlers on errors |
| `Terminate` | the app is killed or crashes; any of its PUTs may still arrive |

The save and the start of the PUT are one action: both run in one turn of the
main thread. Each save has a second outcome, the failed one. The save that
`putItem`'s and `putLetter`'s completions make has nothing to save and changes
no state.

Assumptions about what is not in the repository: an object whose context was
reset reads as nil (so the representation guard returns and nothing is sent);
adding to the wishes of such a child is a crash, which `Terminate` covers; a
PUT to a child's place with an empty name addresses the node above, or is
refused, which `Drop` covers; names are not the reserved keys `Items`,
`LetterToSanta`, `name` or `age`.

### Session

`attempts` are sign-ins and sign-ups Auth is working on, `fetches` its
`getIDToken` calls, `mainQueue` the callbacks queued on the main thread, in
order. A token is modelled as present or absent, which is all the program asks
of it. `screen` is the top of the navigation stack; `formSince` tells the
sign-up form a callback belongs to from a later one; `closing` says that the form
was left and its animated transition has not ended, in which time it still has
its navigation controller. `writes` are the accounts
whose `addDocument` is not answered, `parents` counts the Parent objects
that were saved. `broken`, `orphans`, `forced` and `out` are history.

| Action | Code |
| --- | --- |
| `TapLogin`, `TapNext` | `login`, `registerNewAccount` up to the call of Auth |
| `AttemptSucceeds`, `AttemptFails` | Auth: the user is changed (saved in the keychain), then the callback is queued |
| `FetchSucceeds`, `FetchFails`, `SignedOutByAuth` | `FIRUser` `getIDToken`, forced sign-out |
| `RunAuthCallback` | the completion of `signIn` and `createUser`: `getCredentials` (on an error too), then alert or profile, and `addDocument` after a sign-up |
| `RunTokenCallback` | the completion of `getIDToken` in `getCredentials` |
| `DocumentAnswered` | the completion of `addDocument`: `createParentProfile`, on an error too; its save may fail, which resets the context and leaves no Parent |
| `OpenSignup`, `BackFromSignup`, `FormCloses` | the segue to the sign-up form, its back button, and the end of the transition that takes it away |
| `Logout` | the unwind segue and `signOut` |
| `Relaunch` | a kill and a launch, `checkLoginStatis` |

`getIDToken` reaches the main thread in two hops; the model queues its callback
at the second. The answer of `addDocument` is a step at any time: when Firestore
gives it depends on which user's mutations it is sending.

### Screens

`stack` is the navigation controller's stack with the profile at the bottom,
`held` the child the screens above it were given, `cells` the children the
profile's cells were made for, `rows` the rows of the list on the stack,
`counts` the two labels of the detail screen. `pops` is the queue of blocks
that close a letter form, each with the form that captured itself in it;
letter forms are numbered, so that a block is told from one of a later form.
`leaving` are the letter forms that were popped and whose animated transition
has not ended.
A name is a number, in the order the fetches sort by; 0 is the empty name.

Every fetch makes a new `NSFetchedResultsController` that nothing keeps, so
the delegate methods of the lists never run and are not modelled: rows change
when the screen appears and at no other time. `Show` is that: the stack
changes and its top screen gets `viewWillAppear`.

| Action | Code |
| --- | --- |
| `Back` | the back buttons of all screens |
| `OpenChildForm`, `ChildDone` | the child form: saved or not, it closes |
| `TapCell` | the profile's `prepare(for:sender:)`: a fetch made now, asked for the index of the cell; the detail screen writes its labels |
| `OpenList`, `OpenItemForm`, `OpenLetterForm` | the segues below the detail screen, all handing on the child |
| `SaveItem` | `AddItemViewController.saveButton`: saves and closes at once |
| `SaveLetter`, `RunPop` | `SendSantaLetterViewController.saveButton`: saves, and closes by a block on the main queue |
| `TransitionEnds` | UIKit: the transition of a popped letter form ends |
| `ContextReset` | the save of a new Parent fails and resets the context under the screens |
| `Relaunch` | a kill, a crash, or a logout and a login: the profile is made anew |

Between `SaveLetter` and its `RunPop` the user may tap Save again or Back, and
open another form. Assumed of UIKit: `popViewController(animated: true)` takes the
top of the stack away at once, and the controller that was popped keeps its
`navigationController` until the transition has ended. A second queued pop that
runs in that time therefore pops the screen below the form: two taps on Save can
close the letter list as well (`PopClosesItsForm` says that this is the only
case). How long a transition lasts is left open. Two fetches may order namesakes
differently.

### FirestoreWrites

Every action but the backend's is one operation of the client's worker queue,
which runs one at a time. `queue` and `savedToken` are LevelDB's rows by user;
`callbacks` and `waits` the blocks `SyncEngine` holds; `pipeline`, `enabled` the
write side of `RemoteStore`; `stream` the state machine of `Stream` with the
`GetToken` calls under way (by the count of closes they captured), the
handshake, the idle timer and the token. `wire` is the gRPC call: requests not
handled, responses not delivered, the backend's verdict, and the requests that
abandoned calls may still bring to the backend. `log` is what the backend
committed. `issued`, `answered` and `refused` are history.

| Action | Code |
| --- | --- |
| `WriteMutations` | `SyncEngine::WriteMutations`, `LocalStore::WriteLocally`, `FillWritePipeline` |
| `WaitForPendingWrites` | `RegisterPendingWritesCallback` |
| `HandleCredentialChange` | the same, of `SyncEngine`, `LocalStore` and `RemoteStore` |
| `DisableNetwork`, `EnableNetwork` | the same, with `DisableNetworkInternal` |
| `TokenReceived`, `TokenRefused` | `Stream::ResumeStartWithCredentials`, `OnStreamStart` |
| `HandshakeComplete` | `OnWriteStreamHandshakeComplete` |
| `MutationResult`, `AcknowledgeBatch` | `OnWriteStreamMutationResult`, `HandleSuccessfulWrite`: blocks first, then the store and the refill; a kill may fall between |
| `StreamFinished` | `OnStreamFinish`, `Close`, `OnWriteStreamClose` with `HandleWriteError` or `HandleHandshakeError` |
| `IdleTimeout`, `BackoffElapsed` | the stream's two timers |
| `BackendAnswers`, `BackendRefuses`, `BackendCommitsStray` | external |
| `KillAndLaunch` | a kill and `FirestoreClient::Initialize` |

`FillWritePipeline` is one operator, since every path ends in it: it takes what
fits from the queue behind the last batch, sends what an open stream may send,
marks the idle timer, starts a stream that is needed.

Abstractions: a batch has one write; its contents, the local view of documents
and the base versions are left out. All tokens of one stream are one number, the
number of the call. `TearDown`'s empty last request changes nothing at the
backend and is left out here (`GrpcStream` has it). A stream is closed with an
error status; a call that ends with status OK would trip the assertion at
`remote/remote_store.cc:434`, and the backend is taken not to do that. What an
abandoned call had accepted arrives at the backend in its order or not at all,
before or after what later calls bring.

### GrpcStream

One call. `stream` is the object with the operations gRPC holds for it; a
completion is known by its `tag`, `completions` are those the object waits for
and `armed` those whose callback is not cancelled. `task` says what the worker is
blocked in. A completion goes from `stream.ops` (gRPC) to `poller` (the polling
thread, which has fulfilled the promise `off_queue_`) to `queue` (the worker's).
The layers above are the environment: `Start`, then any writes, one of the three
ways to finish, and the object is destroyed when it is finished.

| Action | Code |
| --- | --- |
| `Start`, `WriteMessage` | `Start`, `Write`, `BufferedWriter` |
| `FinishImmediately`, `WriteAndFinish`, `ConnectivityChanged` | `FinishImmediately`, `WriteAndFinish`, `FinishAndNotify`, each up to where the worker blocks |
| `CallFinished`, `Drained`, `LastWriteEnds` | the rest of `FinishGrpcCall`, `Shutdown` and `TryLastWrite` after each wait |
| `OnRead`, `OnWrite`, `OnFinish`, `OnOperationFailed`, `RunCancelled` | the block `GrpcCompletion::Complete` puts on the worker queue |
| `Enqueue` | the polling thread's enqueueing |
| `ReadReturns`, `WriteReturns`, `OverReturns`, `ServerSends`, `CallEnds` | external: gRPC and the server |

Of gRPC it is assumed what its documentation of asynchronous streams says: an
operation is returned once, operations of a call that is over fail, messages
that have come are still read unless the call was cancelled.

### LevelDb

`disk` is what survives the process; `db` is `DBImpl` and `VersionSet` under
`mutex_`; `writing` the queue of writers, who sleeps, and what the first of them
is at; `bg` what the background thread is at. The mutex is not a variable: a
step runs from where the mutex is taken to where it is released, and the file
operations made without it are steps of their own. A file holds entries, a
sequence number and a write; keys do not matter to what is promised here.

| Action | Code |
| --- | --- |
| `Write`, `WriteFails`, `WriteWaits`, `WriteHasRoom`, `SwitchMemTable`, `SwitchFails` | `DBImpl::Write` and `MakeRoomForWrite` up to `BuildBatchGroup` |
| `LogAppend`, `LogSync`, `InsertInto` and their failures | the unlocked part of `Write` and its end |
| `BackgroundStarts` | `BackgroundCall`, `BackgroundCompaction`: `StartDump`, `StartMerge` or `NothingToDo` |
| `BuildTable`, `LogMemTable`, `InstallMemTable` and failures | `CompactMemTable`, `LogAndApply`, `DeleteObsoleteFiles` |
| `MergeTables`, `MemTableFirst`, `MergeDone`, `LogMerge`, `InstallMerge` and failures | `DoCompactionWork`, `InstallCompactionResults` |
| `Recover`, `ReplayLog`, `NewLog`, `SaveManifest`, `SetCurrentFile`, `Opened`, `OpenFails` | `DB::Open` |
| `Kill`, `Crash` | death of the process, of the machine |

Damage. `log::Writer` counts its blocks by itself: `EmitPhysicalRecord` advances
`block_offset_` also when the append or the flush failed (`db/log_writer.cc:106`),
whether it left nothing or a part of the record. From then on it is out of step
with the blocks of the reader (`inStep`), and each record appended behind is
found by `log::Reader` or dropped, at a block boundary or behind the part that
was left; the model leaves it open which. In a log that goes unnoticed
(`paranoid_checks` is off in the defaults Firestore opens with); in a manifest an
edit is dropped or the whole manifest is refused (`corrupt`, see
`VersionSet::Recover`). `ReplayLogFails` is a log that `DB::Open` cannot open, or
not read to its end: `RecoverLogFile` ignores the error, the new manifest passes
that log and `DeleteObsoleteFiles` removes it. `MaxDamage` bounds these two
events, `MaxErrors` all other failed operations: files that cannot be made, syncs,
tables and edits whose append succeeded and whose sync failed (which are there or
not, as a whole). `disk.lost` is history: the writes that one of the damages may
have cost. A machine that dies may also cut a log anywhere; nothing is appended
to that log again, so its reader takes the part of a record for the end.

Assumptions: directory operations (create, rename, remove) are durable in order
when the machine dies; the fragments of two records, one on each side of a failed
append, are never put together to one that passes its checksum and its type; a
replayed log makes one table; any
two tables of level 0 overlap, the levels above are one. The destructor is a
`Kill` at a moment when nothing is being written. Left out: reads, snapshots and
iterators, the one-millisecond slowdown (a pause), manual and seek compactions,
trivial moves, `reuse_logs` (off), repair.

## Runs

| Run | Bounds | Shows |
| --- | --- | --- |
| `stores` | 1 account, 2 children, 2 wishes, texts `""`, `/`, `doll` | safety of the two stores |
| `accounts` | 2 accounts, 2 children, 1 wish, texts `doll`, `doll/red` | the same with users changing: who a document is filed under, what is fetched; `WishSync` implements `WishLedger` |
| `session` | 2 accounts, 2 taps | safety of the session; the id is stored in the end |
| `screens` | 3 children, 2 names, 2 wishes, 2 letter forms | what the screens show and the pops close |
| `screens_liveness` | 1 child, 2 wishes, 3 letter forms | a sent letter's form closes |
| `writes` | 2 users, 3 writes, pipeline of 2, 1 fault, 1 user change or kill, 1 `disableNetwork`, 1 waiter | safety of Firestore's write path |
| `writes_settle` | 2 users, 2 writes, pipeline of 1, 1 fault, 2 user changes or kills, 1 waiter | `FirestoreWrites` implements `WriteAnswers`; the queue drains, waiters return |
| `writes_reject` | 1 user, 2 writes | the violation below |
| `grpc` | 4 messages each way | everything about one gRPC call |
| `leveldb` | 4 writes, none sync, memtable of 1 entry, groups of 2, level 0 merged at 2 and stopped at 3, 1 error, 1 damage, 1 kill, 1 crash | safety of LevelDB |
| `leveldb_liveness` | the same with 3 writes, one of them sync, and no damage | every writer is answered; a failed sync stops the database; LevelDB implements `DurableWrites` |
| `leveldb_torn` | 2 writes, 1 damage, 1 kill | the violation below |

Why they are enough. Two children are needed for namesakes and two wishes for
one to erase another; a third of either adds no new relation between places.
The three texts of `stores` make two texts of one place, and that place is the
node above the one of the third; in `accounts` one place is below another. With two
accounts everything may be a namesake; the two texts are one path component,
which names and decodes a child, and two, which do not. Two sign-ins can
race, before and after a logout; what a third tap adds, a race of two after a
logout of a third, is covered by the theorems about `IdsAgree`, `LogoutHolds`,
`ProfileHasUser` and `ParentOnce`, which hold for any `MaxTaps`. Kills,
logouts, failed saves and changes of user in the app are not bounded. In
`Screens` three children make two namesakes and one other, two letter forms
make a queued pop of a form that is gone meet a form that is not; `MaxForms`
bounds the forms opened.

`kMaxPendingWrites` is 10 in the code; with 1 or 2 the pipeline fills and is
refilled behind its last batch, and the theorems hold for any capacity. Faults,
user changes, kills and `disableNetwork` are counted (`MaxFaults`, `MaxChanges`,
`MaxToggles`). Two user changes make a user go away and come back, with a kill as
one of them; `writes_settle` leaves the network alone, whose disabling would
only excuse its properties. Four messages each way let a call have a message
unread, one in each of gRPC, poller and queue, and one to be buffered; `MaxSent`
and `MaxWritten` bound them. In LevelDB four writes with memtables of one entry
make two flushes, a merge and a flush inside it, and a recovery between; three,
of which one is sync, make groups that mix and a sync that fails. One error,
one damage, a kill and a crash may be combined in any order; `leveldb` has some
1.7 million states, `leveldb_liveness` 360,000, `screens` 380,000, `session` 65,000. The
code's `write_buffer_size` of 4 MB and triggers of 4 and 12 scale the same
comparisons.

Symmetry is used only in runs without liveness properties, over identities the
actions and properties treat alike; `LedgerSpec`, checked with it, is a symmetric
property of single steps. Types are proved for every module with actions, and
not checked again by the runs. Runs say `CHECK_DEADLOCK FALSE` where the system may
come to rest: every write issued and answered, a stream destroyed.

Properties of `WishSync`:

* `NothingForeign`: every request in flight, on the server or lost is the one
  request of a saved document, under the account that saved it.
* `EveryDocumentAccounted`: a document saved under an account is on the
  server, on its way, or lost with its request, unless another document's PUT
  covers its place. The PUT of its own child excuses it only if that PUT was
  in flight when the wish was saved.
* `FetchedKidsWhenQuiet`: once the PUTs of a parent's children were answered
  and none was lost, `fetchKidsFromServer` decodes exactly those children. Its
  hypotheses say what breaks it in the program: a name that is not one path
  component, a lost child, a wish for another parent's child.
* `FetchedItemsAreListed`: what `fetchItemsFromServer` returns is on the
  child's list, which is by name, as long as no other child's name was typed
  differently for the same place (`OwnPlace`): two such children share a node of
  the server and not a list, and the items of one are fetched for the other.
* `LedgerSpec`: refinement of `WishLedger`.

Properties of `Session`:

* `IdsAgree`: the id in UserDefaults is the user's, or a callback that will
  store it is on its way, or the chain was cut.
* `LogoutHolds`: after a logout with nothing outstanding the app stays logged
  out through any launches, until the next tap. With a callback outstanding it
  does not, which is why the hypothesis is there: a token callback after the
  logout stores the token again, and so does a failed login, since `signOut`
  leaves Auth's user alone and `getCredentials` runs on errors too.
* `ProfileHasUser`: a profile, or a token that will open one, without a user
  is the result of a forced sign-out.
* `ParentOnce`: an account made on this phone has one Parent, exactly one step
  on the way to it, or lost it to a kill, a lost answer or a failed save, which
  nobody is told of and nobody tries again.
* `IdIsStored`: liveness of `IdsAgree`.

Properties of `Screens`:

* `ListIsFresh`: the list on the screen shows what is saved under the name of
  its child. After a failed save that name is the empty one, and the list
  shows the wishes of a nameless child, if there is one.
* `LabelWithinList`: the labels of the detail screen, which are never written
  again, promise no more than the lists show. They may promise less: a wish
  added since, or a namesake's.
* `TapOpensCell`: a tap opens a child of the name on the cell, although the
  child is looked up again by index.
* `PopClosesItsForm`: after any double taps, a queued pop closes its own form,
  or another screen while the transition of that form still runs. Once it is
  over the late pop does nothing, whatever screens and forms were opened since.
* `LetterFormCloses`: a letter form closes after Save, also when the save
  failed. That a double tap saves two letters is allowed: the program
  nowhere says it may not.

Properties of `FirestoreWrites`:

* `PipelineIsPrefix`: the pipeline, with the batch being acknowledged, is the
  head of the current user's queue.
* `ResponsesInOrder`: what a stream past its handshake still has to answer is
  the pipeline, in its order. This is what makes an answer without a name safe.
* `OkMeansCommitted`, `NothingLost`, `CommittedInOrder`: what a write's caller
  is told, what the store keeps and what the backend did agree.
* `CallbacksAreQueued`: a completion block belongs to a batch that is queued,
  across the restarts of the batch ids. `WaitersHold`: a waiter is told only
  when what it waited for is settled.
* `TokenOfStream`: a request has the token of its own stream.
* `AssertsHold`: the `HARD_ASSERT`s of `stream.cc`, `remote_store.cc` and
  `local_store.cc`.
* `AnswersSpec`: refinement of `WriteAnswers`. `Drains`: liveness, every write
  is settled and every waiter told, unless the network stays disabled.

Properties of `GrpcStream`:

* `OneOfEachType`, `FinishedProperly`: gRPC's rules, and one finish of each
  call, whichever of a failure, a stop and a connectivity change comes first.
* `NothingDangles`: no pointer to a destroyed stream is used, and it owns no
  completion (the destructor's `HARD_ASSERT`).
* `AlwaysListening`: while the call is good one read is on its way, and a
  buffered write waits for one that is.
* `ChannelSpec`: refinement of `MessageStream`. `EndIsNoticed`,
  `WorkerReturns`: liveness, the second also freedom from the deadlock between
  worker and polling thread.

Properties of `LevelDb`:

* `AckedSurvives`: a write that was answered with success is found by whatever
  `DB::Open` comes next; after a death of the machine, a sync write is (of which
  `StoreSpec` is the check, in the run that has one). What is excused is what
  one damage costs: the record or the memtable behind a failed append, the rest
  of a log that could not be read, everything if the manifest is refused.
* `RestartChangesNothing`: a restart shows what the open database showed, but
  for those losses and, after a background error, no less. A write accepted
  after a failed sync would break it: the record of the failed one is in the log
  and in no memtable.
* `SequencesUnique`: a number belongs to one write, and new ones are above those
  in use.
* `OpensAgain`: the tables the manifest names exist, and the manifest can be
  read unless an edit was appended to it behind a failed one.
* `StoreSpec`: refinement of `DurableWrites`, where there is no damage. What the
  tables of the manifest hold is `stored`, the batch groups that a restart would
  replay are `logged`. A group becomes durable as a whole, is moved to tables as a
  whole, and goes only with the machine, if none of its sync writes was answered.
  A recovery may bring back a log that was passed before, by an edit whose sync
  failed or that a merge sets back (`LogAndApply` of an edit without a log number
  writes the old one); its groups are then in tables already.
  `EveryWriteIsAnswered`: liveness.

Fairness. `WishSync` states none: nothing in the app waits for a PUT to end.
`Session`: Auth answers each call (URLSession answers every task with a
response, an error or a timeout), and the main thread runs what is queued. `Screens`:
the main thread runs what is queued. `FirestoreWrites`: the worker queue runs
its operations and timers, `GetToken` answers, the backend handles requests; its
faults are finite, as are those of a backend that is up. `GrpcStream`: worker and
poller run, and gRPC returns the operations of a call that is over; it need not
return those of a live one. `LevelDb`: its threads run, and the app opens its
database. No tap, kill, sign-out, user change, fault or call of the layer above
is fair.

## Findings

* `writes_reject`: `remote/remote_store.cc:490` says of a permanent error that
  "the request itself was the problem". `HandleWriteError` gives up the first
  write of the pipeline. When acknowledgements that had arrived were dropped
  with the failed call (`remote/grpc_stream.cc:237-247`), the first write is one
  the backend committed, and another was refused: its caller gets an error for
  a document that is there.
* `leveldb_torn`: `include/leveldb/options.h:174-176` says that no write is lost
  when only the process dies. After an append that failed (`db/db_impl.cc:1215`)
  the writer is out of step with the reader even if nothing was written
  (`db/log_writer.cc:106`): later writes are answered with success, and those at
  a block boundary, or behind the part that was left, are not found by the next
  `DB::Open`. It also skips a log that it cannot open or read
  (`db/db_impl.cc:392-403`), and deletes it.

Smaller disagreements between comments and code, met while modelling:

* `Model Controllers/SantaIWishController.swift:59` and `:74` say a wish is put
  in Firebase and then saved in Core Data; it is saved first, and the save after
  the PUT changes nothing.
* The diagram at `remote/stream.h:81-83` lets `Stop()` lead from any state to
  `INITIAL`; `Stop` of a stream in `ERROR` returns early.
* `remote/grpc_stream.h:158-159` says what `WriteAndFinish` returns; the promise
  its wait looks at is fulfilled before the result of the write is
  (`remote/grpc_completion.cc:65`), so a write that failed counts as sent.
* `db/db_impl.cc:675` says there is no more background work after an error; a
  merge that a failed flush interrupted goes on, and flushes again
  (`:908-918`). If the append of the first edit failed, the second one goes
  behind it out of step, and `DB::Open` may find a manifest it cannot read:
  that is the case `OpensAgain` excepts.
* `include/leveldb/options.h:178-181` likens a write with sync to `fsync()`;
  `MakeRoomForWrite` closes an old log without a sync, so a sync write does not
  cover writes without sync before a switch of memtables.

## Proofs

For every set of accounts, identities, texts, writes and users and every value
of the bounds, from the named assumptions (`UserAssumption`, `ComponentsAssumption`,
`HeldAssumption`, `ScreensAssumption`, `SessionAssumption`, `HandshakeAssumption`,
`BatchAssumption`: the special values are none of the ordinary ones;
`PipelineAssumption`, `BoundsAssumption`: capacities and bounds are numbers;
`WritesAssumption`, `SizesAssumption`: the sizes of LevelDB;
`NoChildAssumption`: the marks for no child are no children):

* `TypeCorrect` in `WishSyncProofs`, `SessionProofs`, `FirestoreWritesProofs`,
  `ScreensProofs`, `GrpcStreamProofs`, `LevelDbNumbers`.
* `StoresAgree`: the invariant `StoresInv`. `EveryDocumentAccounted` is not
  inductive by itself: that a delivered PUT replaces a document rightly needs
  the PUT to be that of a saved document (`NothingForeign`), and, when it is
  the document's own child, that its being in flight makes the wish hasty
  (`PromptWishes`), which needs a new child's PUT not to be that of an old
  wish's child (`WishesOfSavedChildren`). The proof treats `Covers` as an
  arbitrary relation, so it depends on no property of paths. All saves go
  through one lemma (`SaveKeepsStores`), all ends of requests through another
  (`EndKeepsStores`). `NothingForeignHolds` and `EveryDocumentAccountedHolds`
  follow.
* `Refinement`: `Spec => LedgerSpec`, one step of the ledger or none for every
  action.
* `FetchedItemsAreListedHolds`, from what paths are: `PathIs` and `CoversIs` say
  what a place is made of and when one is above another. An item that is fetched
  for a child was filed under a name of the same place, and `OwnPlace` makes that
  the same text. The theorem asks that
  no name and no title has the key `Items` as a component (`PlainTexts`, which
  the assumption on names above implies): an item `Items/foo` of the child `x`
  lies where the items of a child named `x/Items` do, and is fetched as one of
  them.
* `FetchedKidsWhenQuietHolds`, by `PlacesHeld`: the place of a document that was
  sent and not lost is held by a request, its own or one above it. The PUTs below
  an account are of its own documents (`BelowIsOwn`), and each is inside the
  whole record of a child (`QuietFetch`), so no node lacks a name; above a child
  with a name of one component there is no place but that of a namesake, so each
  child that was delivered is there (`QuietChildrenAreThere`).
* `IdsAgreeHolds`, strengthened by `NoIdWithoutUser`: without a user the auth
  callback starts no token fetch, so an id left over must be excused already.
* `ProfileHasUserHolds`, by `NeverSignedIn`: until Auth has had a user there
  is no token fetch and only failures are queued.
* `LogoutHoldsAlways`, by `LoggedOut`: after a quiet logout nothing is under way
  that could store a token, and only a tap starts something.
* `ParentOnceHolds`: the property is inductive; the proof counts the callbacks
  of the main queue (`CallsOfAppend`, `CallsOfTail`), and a Parent whose save
  failed among the accounts that will have none.
* `FirestoreWritesProofs!Invariance`: the invariant `Inv` of the write path, from
  which `SuccessIsTrue`, `BlocksAreQueued`, `NoWriteIsLost`,
  `PipelineFollowsQueue`, `ResponsesFollowPipeline`, `TokensBelong` and
  `AssertionsHold` follow. Its parts lean on each other. A response finds the
  right write because what the call carries is correlated with the pipeline
  (`StreamInv`), the pipeline with the queue (`PipelineInv`), and the queue is
  sorted below the next id (`QueueInv`), so that removing a batch by its id
  removes the first row and a refill goes on behind the last. That success is
  true needs the responses to be about committed writes (`BackendInv`), also
  for an acknowledgement that is half done (`AckInv`); that a refused write is
  rightly given up needs that only the first unanswered request can be refused.
  `TokenInv` relates the token of the stream and the stored one, which
  `EnableNetwork` reads back. There is one lemma for each action (`...Keeps`);
  the refill, the closing and the stopping of a stream are lemmas about the
  operators, for any stream, pipeline and queue (`FillKeeps`, `CloseKeeps`,
  `StopKeeps`).
* `WaitersAreTold`, by `WaitInv`: what a waiting call waits for is settled or in
  the current user's queue, in a row up to the id the call was registered with.
  The proof rests on one fact about every action, that a row of the user leaves
  the queue only when its write is settled (`RowsStay`).
* `CommitsFollowIssues`, by `OrderInv`: whatever holds writes on their way, the
  queues, the pipeline, the requests of the call and those an abandoned call may
  still bring, holds them in the order they were issued, without a gap that is
  not settled (`InOrder`). A call may bring a second copy of a write, or a first
  one after a later call has brought the next: the invariant says the log then
  has what came before already.
* `WritesAreAnswered`: `Spec => AnswersSpec`. `AnswerInv`: a completion block is
  of a write that was issued and not answered, and a write has one, across the
  tables of all users. So a step that calls a block answers a write nobody heard
  of yet, and a block that is gone without a call went with the process.

* `ScreensProofs`: `ListIsFreshHolds` and `PopClosesItsFormHolds`, for any
  children, wishes, names and number of forms. `WellStacked` is the invariant
  of the navigation stack: the profile is at its bottom and nowhere else, and
  nothing lies on a letter form, so a form that is still on the stack when its
  pop runs is the one on top (`FormIsTop`); a form that is neither on the stack
  nor in transition has no navigation controller. `LabelWithinListHolds`, by
  `LabelInv`: the detail screen is right above the profile and nowhere else, so
  its labels are those of the child the screens above it hold, and the lists of
  a child only grow until the child is given up. `TapOpensCellHolds`, by
  `CellsInv`: while the profile is on top its cells were made from the children
  there are. `NoLaterName` is the pigeonhole behind it: two orders by name of
  the same children have the same name at every index.
* `GrpcStreamProofs!Invariance`: the invariant `Inv` of a call, from which
  `OneOfEachTypeHolds`, `FinishedProperlyHolds`, `NothingDanglesHolds` and
  `AlwaysListeningHolds` follow. `Core` says of the object and of the
  completions on their way that tags tell them apart, that the object waits for
  what gRPC holds, and that of each type at most one will still be heard of.
  `FinishInv` ties `is_grpc_call_finished_` to the one finish and to what the
  worker is blocked in; `QuietInv` says that nothing is armed while it is
  blocked, which is why a step that waits never meets one that runs; `LastInv`
  says that a last write, whose completion leaves the buffer alone, is waited
  for, without which `ListenInv` (a read is alive, a buffered write waits for
  one that is) would not survive it.
* `GrpcStreamOrder!Refinement`: `Spec => ChannelSpec`. `OrderInv` says where the
  messages are: those of the server are the delivered ones, the one in a read
  that will be heard of, and the tail that is unread; those of the client the
  accepted ones, the one in a write, and the tail that is buffered, as long as
  the call is good. Every step moves one message across one of these borders
  or none (`...Simulates`, a lemma for each action).
* `LevelDbNumbers`, with no assumption about faults. `TypeInv` says that the
  next file number is above everything that is in use: what the manifest on disk
  names, what the version in memory names, which is one edit behind it while an
  edit is being installed, and what the background thread has in its hands,
  which nothing names yet. `NumbersInOrder` and `TypeCorrect` are its theorems.
  `FilesAreWrittenOnce` is the action property that matters: whatever failed
  before, a table that a version names is not written again, and a log is
  written at its end only. `DatabasesOpenAgain` holds with every damage: what it
  needs is that the manifest names no table that was deleted, which is the
  agreement of the manifest with the version or with the edit that is being
  installed (`Mirrored`), and that nothing is deleted once they may differ, which
  is after an error (`Openable`, `StepOpenable`).
* `LevelDbProofs!FilesAgree`: the invariant `Inv`, from which
  `AcknowledgedWritesSurvive`, `RestartsChangeNothing` and `SequencesStayUnique`
  follow. `AckInv` speaks of what `DB::Open` would find
  (`Found`) and of what would be left if the machine died (`Firm`); to keep it,
  a flush or a merge must have put into the new table all that its log or its
  inputs held (`OutputInv`, `ImmInv`, `LogInv`), the manifest must be the version
  or one edit ahead of it (`ManifestInv`), and a replay must lose nothing on the
  way (`Replaying`, `Replayed`). `Entitled` and `SequenceInv` say that nothing
  else comes back: a record whose sync failed stays in the log, but the
  database takes no write after it. One lemma for each action
  (`...Contained`) shows besides what the step does to `Found`, and
  `LevelDbStores` reads the refinement of `DurableWrites` off these and off the
  groups that stay whole.

  These theorems speak of the time before the first damage (`Undamaged`: no append
  has failed and no log was unreadable), with any number of other errors and
  deaths: `Spec => [](Undamaged => ...)`, and `Spec /\ []Undamaged => StoreSpec`.
  The hypothesis is needed: behind a damage the code does lose acknowledged
  writes, which is the finding `leveldb_torn`. That it loses no more than
  `disk.lost` says, and that numbers stay unique all the same, TLC checks with one
  damage (`leveldb`) and is not proved.

Only model-checked: the liveness properties (`IdIsStored`, `LetterFormCloses`,
`Drains`, `EndIsNoticed`, `WorkerReturns`, `EveryWriteIsAnswered`), which are out
of the prover's reach.

## Not modelled

Of the app: images, the image picker, keyboard, alerts, styling; the labels of
the profile's cells other than the name; blank-field validation (it changes no
state) and `isPasswordValid` (never called); `AddChildViewController` (no scene
uses it); `put(parentRepresentation:)` (never called). The completions of the
PUT functions, which may be called never or twice: every caller ignores them,
and no comment or test says when they must come.

Of the vendored code: everything but the write path of Firestore, its gRPC
stream, LevelDB's write path and the parts of Firebase Auth named above. Most of
the 558,143 lines under `Pods` are tables, generated code, cryptography (BoringSSL),
a transport runtime used through four calls (gRPC-Core) and helpers of other
products: code of other projects that carries no logic of this app. The app
listens to no Firestore query, so the watch stream, views and limbo resolution
never run. The models cover a small share of the lines for that reason, and
all of the app's own state changes.

## Plan

1. `App`: `Session` and `WishSync` composed over one current user and one kill,
   implementing both.
2. `Codec`: decoding of stored nodes against a reference definition over
   bounded trees.
3. LevelDB's reads: snapshots and the choice between levels, which need keys.
4. Proofs: `AckedSurvives`, `RestartChangesNothing` and `SequencesUnique` of
   `LevelDb` behind a damage; the refinement of the composition.
