# Kibble, verified

Kibble (`src/dogFoodTracker/dogFoodTracker`) is an iPhone app with which the
people of a household keep track of whether their pets were fed and how many
treats they got. It is some 1 600 lines of Swift over Firebase: every phone
holds the pets in the Firestore client (`Pods/FirebaseFirestore`), which keeps a
persistent queue of unsent writes and a persistent cache of server documents,
and talks to the server over two streams. There is no server code in the
repository, and the app's own tests are Xcode's empty templates.

What can go wrong in Kibble goes wrong *between* phones: a tap is a read, two
hops of the main queue and a queued write, and in between anything may happen on
another phone, on the server, or to the connection. And *between* queues of one
phone: who is signed in is known to Firebase, to a flag on disk, to a view and to
the Firestore client, each of which hears of a change at another time. That is
what this project models, checks with TLC and, for the statements that matter most, proves with
TLAPS for any number of phones, pets, taps and faults.

## Inventory

| Component (code) | State | Operations | Interacts with | Hard because | Correct when | Here |
|---|---|---|---|---|---|---|
| Pet documents and writes (`model/*mutation*`, `precondition.cc`, `document_reference.cc`, `local_documents_view.cc`) | none (values) | set, update with `Exists(true)`, delete; local view; acknowledged effect | queue, cache, server | the same write has three effects, and a write's base may have changed under it | the local view is the replay of the queue; a patch touches its fields only; no ghost of a deleted pet | `PetDocuments` |
| Local store (`local_store.cc`, `leveldb_mutation_queue.cc`) | queue, cache, last snapshot version, on disk | `WriteLocally`, `AcknowledgeBatch`, `RejectBatch`, `ApplyRemoteEvent` | sync engine, remote store | acknowledgements and snapshots arrive in either order, late or twice | the cache never goes back and catches up with the server | `Firestore` |
| Remote store (`remote_store.cc`, `online_state_tracker.cc`) | pipeline, streams, online state | fill the pipeline, match answers, close and reopen streams | server, sync engine | answers carry no id; a broken stream resends everything | each answer is for the oldest queued write; nothing is stuck | `Firestore` |
| Sync engine, event manager, query listener | views, listeners, write callbacks | start and stop listens, raise events, notify the writer | local store, the app's blocks | one listen is shared by several reads; reads wait, or are answered from the cache when offline | every read is answered, and not by a snapshot older than itself | `PetCards` |
| Watch targets and limbo (`remote_event.cc`, `remote_store.cc`, `sync_engine.cc`, `view.cc`, `local_store.cc`) | listens, resume tokens in memory and on disk, the aggregator's target states, keys, limbo resolutions | listen, stop, handle each kind of watch change, raise a snapshot, re-listen after a mismatch | server, views | messages of listens that have ended; resets; counts that do not match; tokens too old | what a listen shows when in sync is what the server had; nothing is left in limbo | `WatchTargets`, promise in `Listens` |
| Lists (`PetsViewModel`, `HomeView`, `ProfileView`, `query_listener.cc`, `event_manager.cc`, `view.cc`) | one view, its listeners, events on the main queue, the published pets | `fetchData` at every appearance and every delete; snapshots, answers, online state | local store, main queue | listeners are never removed and come late; events are withheld, stripped or held back | all lists agree, and with the server once the phone is up to date; none stays blank for ever | `PetLists` |
| Pet view models (`PetViewModel`, `PetsViewModel`), behind `HomeView` | the displayed pets; taps in progress | `updateBB`, `updateDB`, `updateTreatsUp`, `updateTreatsDown`, `save`, `delete`, `fetchData` | the client | read-modify-write over the network; callbacks and relaunches | treats not negative, not overcounted; fields independent; no tap is unanswered | `PetCards`, `PetLists` |
| Add-a-pet form (`AddPetView`) | name, alert | Submit, Got it! | `save` | the form and its alert share one `Pet` | - | `save` in `PetCards`; the form: no |
| Session (`dogFoodTrackerApp`, `ContentView`, `LoginView`, `SignUpView`, `ProfileView` Logout) | status flag (on disk), shown flag, `log_status`, Firebase's user, pending sign-ins | sign in, sign up, Google, log out, launch | notification centre, Firebase, the client's user | completions race log-out; the flag is not the user | the home screen is shown only to somebody signed in | `Session` |
| User change in the client (`firebase_credentials_provider_apple.mm`, `HandleCredentialChange`, `RestartNetwork`, `stream.cc`) | user and token counter, worker tasks, queue per user, write stream | notification, token, queue swap, restart, back-off | FIRAuth, session, local store | three queues tell the user on; tokens arrive late | no write is sent as somebody else, none is lost | `Credentials` |
| Profile and edit profile | identity shown, three edits | show, log out, change name, email, password | Firebase and Google users | forced optionals; no edit is sent | - | Logout in `Session`, the rest: no |
| Caregivers | form, list | Submit, `fetchData` | client | saved, "sent", never mailed | - | no |
| Sign in with Apple, nonce | nonce | `authenticate`, `randomNonceString` | - | its button is commented out | length and alphabet of the nonce | no |
| Image picker, dashboards, `AppDelegate.swift`, tests | - | - | - | its picture is never shown; placeholders; a comment; templates | - | no |
| gRPC and authentication pods | FIRAuth's user, keychain | sign in, sign out, load, `getToken` | session, credentials provider | vendored | - | as `Credentials` needs them |

`PROJECT.json` lists the hazards of this code at their lines, with the
properties that would catch each going wrong.

## Modules

```
PetDocuments        documents, writes and their three effects        (no state)
  Firestore         server, queues, caches, streams                  (StoreSpec)
    MCFirestore     any writes the app could make; fairness          (MCSpec, FairSpec)
    PetCards        taps, callbacks, listeners over the store        (Spec)
      MCPetCards    symmetry, fairness                               (FairSpec)
    PetLists        the view, its listeners, the lists of one phone  (ListsSpec)
      MCPetLists    bounded writes, fairness                         (FairListsSpec)
PetQueries            what the client listens to                     (no state)
  Listens             what the client promises its listeners         (Spec)
  WatchTargets        how the watch stream keeps the promise         (Spec, FairSpec)
    MCWatchTargets    one phone                                      (MCFairSpec)
Credentials           FIRAuth, the provider, the worker, the stream  (CredentialsSpec)
  Session             flag, views, sign-in, log-out, launch, taps    (Spec)
    MCSession         bounds, fairness                               (MCSpec, FairSpec)
Firestore_proofs, PetCards_proofs, PetLists_proofs,
WatchTargets_proofs, WatchPromise_proofs, WatchScreens_proofs,
Credentials_proofs, Session_proofs                                   (TLAPS)
```

The three trees are three views of the same client. `Firestore` follows documents
between phones; it takes the user for granted and every watch snapshot as whole.
`WatchTargets` is how one phone's snapshots are put together, with documents
reduced to whether they exist and at which version. `Credentials` follows the user
through one phone and reduces a write to its author.

### PetDocuments

A write is a record with a type (set, patch, delete), a pet, a field mask and
the new data. `PatchObject` is `PatchMutation::Rep::PatchObject`; `IsValidFor` is
the precondition (`updateData` requires the document to exist, `addDocument` and
`delete` require nothing). `ApplyToLocalView` and `ApplyToRemoteDocument` are the
two virtual functions of the mutations; the latter makes an `UnknownDocument` of
a patch that the server accepted and the cache cannot apply. `GetDocument` is
`LocalDocumentsView::GetDocument`. The code computes it by replaying the queue;
the definition is a closed form of that replay (the last set or delete, and for
each field the last patch after it), which needs no recursion and can be proved
about. `Replay` is the loop as the code has it, a recursive function, and the lemma
`ViewIsReplay` of `Firestore_proofs` says that the two are the same.

A pet's name is left out (nothing changes it after it was added); versions are
natural numbers, 0 for "none"; ids are the model values in `Pets`.

### Firestore

| Variable | Code |
|---|---|
| `server`, `commit` | the collection at Google (external) and its latest commit version |
| `queue[d]` | `MutationQueue`, in LevelDB |
| `results[d]` | answers on the write stream that `OnWriteStreamMutationResult` / `OnWriteStreamClose` has not handled yet |
| `cache[d]`, `snapver[d]` | `RemoteDocumentCache` and the last remote snapshot version, in LevelDB |
| `watch[d]` | the watch snapshot in flight |
| `online[d]` | `OnlineStateTracker` |
| `faults` | counts faults, bounded by `MaxFaults` |

`WriteMutations` is `WriteLocally`; `HandleSuccessfulWrite` and
`HandleRejectedWrite` are the answer at the front of the pipeline with the whole
of `AcknowledgeBatch` or `RejectBatch`; `OnWriteStreamClose` is a transient error,
after which the pipeline is written again; `ApplyRemoteEvent` takes a snapshot
into the cache, document by document (`ApplyUpdate`); `OnWatchStreamClose` steps
the online state; `Restart` kills the process and keeps what LevelDB keeps.

The server is modelled from what the client expects of it. It handles a device's
writes in order; a patch of a missing document is an error that closes the
stream; a set or patch that changes nothing keeps the document's version
(`mutation.h:54-66`) while a delete always has the version of its commit; a
snapshot is consistent and of everything committed. A write whose answer was
lost is handled again: the client does not number its writes, and whether the
server recognises a repetition is not known here, so the model lets it be
applied twice (the worse case).

Abstractions: at most one snapshot is in flight (a second would carry a state the
first could have carried, or be merged with it); a deleted pet is sent at the
version of its delete; limbo resolution, existence filters and resume tokens are in
`WatchTargets`; the ten-second timer of the online state is the second failure of
`AfterFailure` (`PetLists` and `WatchTargets` have the timer itself).

### PetCards

| Variable | Code |
|---|---|
| `shown[d]` | `PetsViewModel.pets` of the home screen |
| `target[d][p]` | the listen behind `getDocument`: none, waiting, or in sync |
| `gets[d][p]` | `ListenOnce` listeners that have had no event |
| `covered[d]` | the listens the snapshot in flight answers |
| `mainQ[d][p]` | blocks on the main queue: `getDocument` callbacks, the inner `DispatchQueue.main.async`, completions of `delete` |
| `live[d]` | queued writes made since launch: only these have callbacks (`NotifyUser`) |
| `hidden[d]` | listeners registered by `delete` on a list nobody displays |
| `taps` | counts taps, bounded by `MaxTaps` |
| `hist` | what was tapped, for the properties |

A tap (`Tap`) starts `getDocument`. It is answered at once from a view that is in
sync or from the cache when offline (`ShouldRaiseInitialEvent`), otherwise by a
snapshot that covers the listen (`SnapshotReceived`) or by going offline
(`WatchStreamLost`). `GotDocument` is the callback: it removes the listener and,
if the document exists, dispatches the block that writes (`UpdateBlock`). Every
step of the store happens here with what it sets off in the app (`Acknowledged`
runs the completion of a delete, `Relaunch` forgets all that was in memory).

Calls into the client are queued in order on its worker, which shares no state
with the main thread; each is one step with the block that makes it. The blocks
of one pet run in order; how those of different pets mix is left open, since the
client raises the events of a snapshot in the order of a hash map. `FetchData`
gives the list the present view: an event that a later one overwrites before
anybody taps is left out.

### PetLists

Over `Firestore`, for one phone's screens.

| Variable | Code |
|---|---|
| `view[d]` | the `View` of the query "pets", and whether there is one yet |
| `lists[d]` | its `QueryListener`s in order of registration: `raised_initial_event_`, and the pets the `PetsViewModel` publishes |
| `main[d]` | the main queue: events (`AsyncEventListener`), completions of deletes |
| `asked[d]` | `addSnapshotListener` calls on their way to the worker queue |
| `orphans[d]` | queued writes whose completion died with an earlier run of the app |

Every step of the store ends here as it does in the code, with
`EmitNewSnapshotsAndNotifyLocalStore` (`Emit`): the documents go through
`ComputeDocumentChanges` (`ChangeType`, with `ShouldWaitForSyncedDocument`, which
withholds what an acknowledgement leaves), each listener decides
(`OnViewSnapshot`), and each event is an item of its own on the main queue, after
the completion of the write that was answered. `HandleOnlineStateChange` is the
other way to an event, `AddQueryListener` the third: a further listener of an open
query is given the stored snapshot. `OnAppear` is `fetchData` of `HomeView` and
`ProfileView`; a completed delete calls it too, for a model no view displays.

Abstractions: a watch snapshot tells of the whole collection and is CURRENT (how,
and what limbo adds, is `WatchTargets`); housemates are reduced to the commits they
make (`HousemateWrites`); log-out and the listeners of `getDocument` are elsewhere.

### PetQueries, Listens and WatchTargets

`PetQueries` names what is listened to: the collection, the pets read by
`getDocument`, and pets in limbo (`QueryPurpose`).

| Variable | Code |
|---|---|
| `history`, `clock`, `srv` | the server (external): the pets after each commit, the commit the stream is served at, what it knows of each target |
| `up`, `down`, `stream`, `idle` | the watch stream: requests, responses, its state, its idleness timer |
| `online` | `OnlineStateTracker` |
| `listened`, `token` | `RemoteStore::listen_targets_` and the resume tokens in it |
| `states`, `updates`, `resets` | `WatchChangeAggregator`: `target_states_`, `pending_document_updates_`, `pending_target_resets_` |
| `local`, `stored`, `keys` | `LocalStore::target_data_by_target_`, and the target cache's tokens and matching keys |
| `cache`, `snapver` | the remote document cache and the last snapshot version |
| `current`, `limbo`, `received` | `View::current_`, `limbo_documents_`, and the resolutions with `document_received` |
| `listens`, `faults` | counts, bounded by `MaxListens` and, with the commits, `MaxEvents` |
| `spoilt` | history, see below |

`Listen`, `StopListening`, the life of the stream and one action for each kind of
watch change are the code's functions whole; `HandleSnapshot` is
`CreateRemoteEvent`, `RaiseWatchSnapshot`, `LocalStore::ApplyRemoteEvent` and what
`EmitNewSnapshots` does to views and limbo, in one step of the worker queue.

`Listens` is the promise, without a stream: a listen in sync has exactly the pets
the server had at one moment, all that one snapshot brings in sync had them at
the same moment, and no snapshot is of an earlier one. `PromisedSpec`
(`INSTANCE Listens WITH ...`) says that `WatchTargets` implements it: what is in
sync is `current`, its version is the token in memory.

`spoilt` is where the code does not keep the promise, and nothing else. After an
existence filter did not match, `RaiseWatchSnapshot` drops the token of its own
table but passes the event on. `ResetTarget` has cleared the target's `current`, so
the view goes out of sync; the keys are emptied, and the event's token is stored with
them. A kill before the new listen is answered leaves that token on disk: the next
launch resumes from it, the server has nothing to send since then and says `CURRENT`,
and the view is in sync with no pets (the behaviour `watch_finding` shows). And a mismatch that is found
when the pets of the target had already been sent again leaves keys of two moments.
`CurrentIsConsistent` is this finding; `ListensComeCurrent` says that such a listen,
too, becomes current.

The server is what the client relies on: it answers the requests of a target in
order, those of different targets in any; it sends a global snapshot when all its
targets are up to date with its clock, which may lag behind the collection on a new
stream; a token may be too old (`OldTokens`), and then it sends a count, after
CURRENT and before the next snapshot. Such a server is assumed not to be behind the
phone's last snapshot (`snapver <= clock` in `ServerWatch`): without that a filter of
zero for one pet, older than what the collection has been sent, would remove the pet
from the cache for good (`remote_event.cc:229`, a `NoDocument` without a version).

Abstractions: documents are a version and whether they exist; the queue of local
writes is empty (it never holds back a listen); limbo targets reuse one id per pet;
`has_pending_changes_` and tokens of single messages are folded into the global
snapshot, which has all; the order in which limbo changes of one snapshot are
requested is left out; every query of the app matches whole documents, so that a
query always scans all of them. The ten seconds of the timer may pass at any time.

### Credentials

| Variable | Code |
|---|---|
| `user`, `saved`, `loaded` | `FIRAuth._currentUser`, its copy in the keychain, and whether the first task of FIRAuth's work queue has read it |
| `object` | which `FIRUser` object `_currentUser` is: what `updateKeychainWithUser:` and `signOutByForceWithUserID:` compare by pointer |
| `autoRefresh` | `_autoRefreshTokens`: a timer refreshes the token, too |
| `refreshes` | counts tokens refreshed or refused, bounded by `MaxRefreshes` |
| `mainQ` | what FIRAuth dispatches to the main queue: notifications, completions, tokens |
| `told` | `current_user` and `token_counter` of `FirebaseCredentialsProvider` |
| `workQ` | tasks on the client's `AsyncQueue` |
| `client` | `SyncEngine::current_user_` |
| `queues`, `pipeline` | a `MutationQueue` per user, in LevelDB; how many of the client's are in `write_pipeline_` |
| `stream` | state, token and `close_count_` of the write stream |
| `requests` | `getToken` calls inside FIRAuth |
| `faults` | counts faults, bounded by `MaxFaults` |

FIRAuth's steps are `LoadUser`, `SignedIn` (`updateCurrentUser:` and the callback
after it), `SignOut`, and `AuthTakesRequest` / `AuthAnswersRequest`, between which
a token is fetched. A new token is saved and, if its user is still the current one,
announced like a new user *before* it is handed over (`FIRUser.m:1006-1012`): so the
provider's counter has risen when the token comes, the token is thrown away, the
streams restart for the same user, and a token is asked for again. `RefreshToken` is
the timer that does the same with no request under way. `ForcedSignOut` is what an
answer that finds the token invalid does (`signOutIfTokenIsInvalidWithError:`), to a
request or to the timer: user and keychain become nil and are announced; the app
hears of it only by the notification, which it does not observe. `AuthStateDidChange` is the provider's observer,
`GetTokenCallback` its test of the counter. The worker's steps are `Initialize`,
`HandleCredentialChange` (the swap of the queue and `RestartNetwork`),
`WriteMutations`, `ResumeStartWithCredentials` (with the test of the close count),
the server's answers, and the ends of a stream: an error, an idle close, a change
of connectivity, after which `FillWritePipeline` and the back-off start it again.
`App` is what *some* app may do with all this; `CredentialsSpec` is proved about
for any of them.

Abstractions: nobody signed in is an account of its own, with its own queue, as in
the code; a sign-in always brings a new token, so that every change is announced;
the constructor of the provider and the creation of the client, in one call on the
main thread, are one step; the handshake is part of opening; a token may need a
refresh at any time, and the timer may fire at any time once it is on (that it rests
while the app is in the background is left out, which allows more); the keychain does
not fail; the queue per `FIRUser` that lets one fetch run at a time is left out, so
that two fetches may both bring a new token.

### Session

| Variable | Code |
|---|---|
| `status` | `"status"` in `UserDefaults`, on disk |
| `home` | `status` of `ContentView` |
| `cover` | `show` of `LoginView`: the sign-up screen |
| `google`, `attempts` | Google flows, and sign-ins at Firebase, that have not ended |
| `gets` | taps whose `getDocument` has not led to a write |
| `signIns`, `taps` | counts, bounded by `MaxSignIns`, `MaxTaps` |
| `flagLeft` | history: the flag was left set for nobody since the last sign-in that succeeded |

`Login`, `SignUp` and `GoogleButton` with `DidSignInWithGoogle` start a sign-in;
`Accepted` and `Refused` are Firebase's answer, `Completed` the app's completion,
later, on the main queue. `Logout` is the whole of the button's action, and
`KilledInLogout` the kill between its first and its third statement.
`SignedOutByForce` is `ForcedSignOut` as the app has it: nothing of the app's changes.
`TapCard` and
`UpdateBlock` are the two ends of a tap: whoever is signed in at the second is the
author of the write. The observer of `statusChange` runs inside the post, which is
made on the main thread.

Left out: alerts, the profile's name and picture, `GIDSignIn`'s own user.
`log_status` is the constant FALSE: only `AppleLogin.swift` would set it, and its
button is commented out.

## Runs

Every run is exhaustive. Phones `d1`, `d2`; pets `koda`, `teddy`.

| Run | What it asks | Bounds |
|---|---|---|
| `firestore_sync` | `CacheCatchesUp`: a device whose snapshot covers a pet's last commit holds the server's document; `CacheNeverRegresses`; `AnswersMatchQueue`; `DevicesConverge`, `WritesLeaveTheQueue` | 2 new phones, 1 pet, 3 commits, 1 fault, fair |
| `firestore_views` | `NoGhostPets`: a device that knows a pet is gone does not show it under queued updates; `NoFlicker`: an own acknowledgement changes nothing on the screen | 2 phones, 1 pet, 4 commits, no fault |
| `watch` | `TypeOK`; `OutstandingIsUnanswered`: the aggregator waits for the answers that are due; `LimboListensAreWanted`; `TokensAgree`; `ChangesMatchKeys`: the assertions of the aggregator, the views and limbo; `SyncedScreenIsServers`: in sync means no deleted pet and no missing one; `PromisedSpec`: implements `Listens`; `ListensConverge`, `ListensComeCurrent` | 1 phone, 2 pets, 1 read, 2 commits or faults after the first, 2 listens, 1 response in flight, old tokens, fair |
| `lists` | `TypeOK`; `ListsAgree`: all lists come to show the one view; `WaitingIsJustified`: a list is told nothing only before there is anything to tell; `ViewLagsOnlyForWatch`: the view trails the store only by a content watch has to confirm; `QuietListsShowTheServer`: the lists of a phone that is up to date come to show what the server has; `AppearancesAreAnswered`: every appearance gets its list, even without a network; `ListsShowTheServer` | 1 phone and the commits of others, 1 pet, 4 commits, 2 appearances, 1 fault, fair |
| `cards_writes` | `TypeOK`; `LoneTapSurvives`: breakfast and treats of one pet, tapped on two phones, do not undo each other; `DeletedPetsStayDeleted` | 2 phones, 2 pets, 2 operations, 1 fault |
| `cards_solo` | `SoloTapsAreExact`: a housemate alone sees each of her taps counted, at every moment; `TapsAreAnswered` | 1 phone, 3 taps, 2 faults, fair |
| `cards_treats` | `TreatsNotNegative`; `TreatsNotOvercounted`: no count on the server, on a card, in a cache, a snapshot or a queued write is above the taps; `ReadsAreFresh` | 2 phones, 2 taps, 1 fault |
| `session_safety` | `SessionTypeOK`, which contains `CredentialsTypeOK`; `SentAsAuthor`: a write leaves its queue only over a stream opened with its author's token; `TokenIsOfTheUser`; `ResumeFindsStarting`: the assertion of `ResumeStartWithCredentials`; `HomeBelongsToUser` | 2 users, 5 events |
| `session` | `ClientFollowsAuth`; `WritesAreSent`: through restarts and beyond a full pipeline | 2 users, 5 events, pipeline of 1, fair |
| `cards_treats_finding` | violated: `TreatsAreCounted` | 2 phones, 2 taps |
| `cards_breakfast_finding` | violated: `BreakfastIsRecorded` | 2 phones, 2 taps |
| `watch_finding` | violated: `CurrentIsConsistent` | 1 phone, 2 pets, 2 responses in flight |

Why these bounds are enough. Every race here is between one phone's step and one other
actor's (another phone, the server, a fault), about one pet: two phones, one pet and one
fault contain each. A write's possible lives are covered by a queue of two with a
pipeline of two (one behind another, one retried behind another's commit).
`cards_writes` has a second pet because `addDocument` needs an unused id; `cards_solo`
takes three taps and two faults, since nothing else interferes. `kMaxPendingWrites` is 2
(10 in the code): with queues of up to three in `firestore_views` some writes are beyond
it. `Firestore` takes the pipeline for a beginning of the queue; that what is beyond it
enters as answers come is a matter of `FillWritePipeline`, which `Credentials` has as it
is: so a full pipeline is asked about in `session`, where it is of one write and two may
be queued. Runs with liveness use no symmetry; `session_safety` uses that of the users,
the others over two phones that of the phones. A session has two users and five events
(`MaxEvents`): a sign-in, a fault, or a token refreshed or refused is one, a tap, whose
read and write are apart, is two; log-outs, notifications, tokens and idle streams are
free. So there are two sign-ins with a tap and a fault or a refresh, in any order, with
log-outs anywhere; one sign-in with a tap, a fault and a refresh; and one with the two
taps that a full pipeline needs. `session_safety` allows three sign-ins, two faults and
two refreshes within the five; `session`, for the sake of liveness, two, one and one.
One tap is one write, of the first or of the second user, or of nobody; that two writes
of different users never meet on one stream is what the theorem `WritesAreSentAsAuthor`
adds, for queues of any length. Deadlock is not checked in these two: with the bounds
used up the login screen stands still, as it does when nobody touches the phone. The
proofs below drop the bounds for what they state.

`watch` has two pets because limbo and an existence filter need one pet that stays
and one that goes. One response in flight is enough: the server never reads the
phone's state, only its requests about each target in order, so a response it sends
later is one it could have sent earlier (the guard `snapver <= clock` is the
exception, and only makes it more careful). Two events after the first commit are a
commit and a fault, two commits, or two faults: a pet removed while the stream is down, a
reset between two snapshots, a relaunch after a mismatch. `lists` has one pet, since every
document of a view is treated alone, and two lists, since every listener is; four
commits are the housemates' and the phone's writes together, a user taps when the main
queue is empty (`MaxItems`), which loses only the order of taps and events that do not touch
each other, and a pipeline of one makes the second write wait. Deadlock is not
checked in either: with the bounds used up nothing need happen.

For every property of the passing runs `PROJECT.json` names a mutant: a definition
changed as a plausible bug would change it, under which the run must find the
property violated.

### Fairness

`FairSpec` asks weak fairness of the steps that the code retries or schedules for
as long as they are possible: the main queue runs its blocks; a stream that is
needed is started again with back-off (`OnWriteStreamClose`,
`OnWatchStreamClose`) and the server answers; an event that was raised is
delivered. It asks nothing of taps and nothing of faults, of which a behaviour
has at most `MaxFaults`: a phone that never gets its network back is not covered.

`Fairness` of `WatchTargets` asks that the worker queue runs, that a stream that was
started opens, and that the server goes on answering; faults are bounded by
`MaxEvents`. `PhoneFairness` of `MCPetLists` asks only that the phone's two queues
run and that the ten-second timer fires, and nothing of the network: an appearance
must be answered without it. `ListsShowTheServer` has the network's fairness as its
hypothesis.

For the session, `FairSpec` of `MCSession` asks that the three queues (FIRAuth's,
the main one, the worker's) run what was put on them, that FIRAuth and the server
answer, that a back-off elapses, and that a home screen that is shown makes its view
models, which create the client. It asks nothing of buttons.

### What the code does, and what the README says

* `TreatsAreCounted` (`README.md:8`, "how many treats they got"): both phones read
  the same count and write it plus one (`PetViewModel.swift:84-86`). One treat is
  lost, on a perfect network. `LoneTapSurvives`, `SoloTapsAreExact` and
  `TreatsNotOvercounted` say what does hold.
* `BreakfastIsRecorded` (`README.md:6`, "You no longer have to ask your
  housemates whether your pet was fed"): the tap toggles the value that is read,
  not the value that was seen (`PetViewModel.swift:46-50`). Two housemates who both
  tap the empty circle leave it empty.
* `CurrentIsConsistent` (`remote_event.h:158-161`, 'current' "implies that the Watch
  backend has sent us all changes up to the point at which the target was added and
  that the target is consistent with the rest of the watch stream"): see `spoilt`
  above.

Behaviours met while modelling that shape the properties:

* A no-op acknowledgement carries the version of a later write. With retries and
  two fields a phone's own next write can for a moment be hidden by it, until
  watch delivers: so `cards_solo` taps one field only and `NoFlicker` speaks of
  acknowledgements that are newer than the cache.
* An `addDocument` that is sent again after its answer was lost resets, or
  revives, its pet: `DeletedPetsStayDeleted` excludes that and nothing else.
* A read that joins a listen another read began is answered by that listen's first
  snapshot, which may be older than the second read: so `Since` notes the server's
  version only for the read that began the listen, and `ReadsAreFresh` speaks of it.
* A sign-in's completion that a log-out overtakes sets the flag for nobody, a kill
  between `signOut` and the flag leaves it set, and so does a forced sign-out, of
  which the app hears nothing (`FIRUser.m:1001-1003`): the home screen is shown with
  nobody signed in, and its taps are queued for nobody. `HomeBelongsToUser` excludes
  these three, until the next sign-in that succeeds, and nothing else.
* A tap whose read crosses a log-out is written to the queue of the next user, and
  sent as hers. `SentAsAuthor` speaks of the author the client recorded, not of who
  tapped.
* Late tokens are held off twice, by the provider's counter and by the stream's
  close count; `TokenIsOfTheUser` is about the first, `ResumeFindsStarting` about the
  second.
* Nothing closes the sign-up screen but a completed sign-in.
* `updateTreatsDown` at zero writes zero back, over a treat that a housemate
  counted in the meantime.

## Proofs

Each theorem holds for any sets of phones, pets and users, and any bounds
(the named `ASSUME`s of the modules are all that is assumed of the constants).

| Theorem | States | Argument |
|---|---|---|
| `Firestore_proofs!StoreTypeCorrect` | `StoreTypeOK` and `AnswersMatchQueue` | inductive together: an answer is given to a queued write only |
| `Firestore_proofs!CacheIsCaughtUp` | `CacheCatchesUp` | `CacheInv`, below |
| `Firestore_proofs!CacheIsMonotonic` | `CacheNeverRegresses` | the version tests of the two ways into the cache |
| `Firestore_proofs!DeletedPetsAreHidden` | `NoGhostPets` | `LatestExists`, and that a view without a set is at most its cached document |
| `Firestore_proofs!AcknowledgementsAreUnseen` | `NoFlicker` | what a view shows in closed form, below |
| `PetCards_proofs!TypeCorrect` | `TypeOK` | `CardsInv`: types, and that write callbacks are of queued writes |
| `PetCards_proofs!AppDrivesStore` | `Spec => StoreSpec` | every step of the app is a step of the store or leaves it alone |
| `PetCards_proofs!DeletedPetsHaveNoCard` | `Spec => []NoGhostPets` | the store's theorem through the refinement |
| `PetCards_proofs!CardsKeepTheStore` | `CacheCatchesUp`, `CacheNeverRegresses`, `NoFlicker`, of the app | the same |
| `PetCards_proofs!DeletedPetsAreGone` | `DeletedPetsStayDeleted` | `SetsAreNew`: the only set a phone queues is an `addDocument` |
| `PetCards_proofs!ReadsSeeCommits` | `ReadsAreFresh` | `ReadsInv`, below |
| `PetCards_proofs!TreatsStayNatural` | `TreatsNotNegative` | `TreatsInv`, below |
| `PetCards_proofs!TreatsStayBelowTaps` | `TreatsNotOvercounted` | `TreatsInv` |
| `PetCards_proofs!LoneTapsSurvive` | `LoneTapSurvives`, if `updateTreatsDown` is not among the `UserOps` (at zero it writes zero back) | `LoneInv`, below |
| `PetCards_proofs!SoloTapsCount` | `SoloTapsAreExact`, if the `UserOps` are one of the three taps that always change their field, and `save` | `SoloInv`, below |
| `WatchTargets_proofs!WatchTypeCorrect` | `TypeOK` | inductive, action by action |
| `WatchTargets_proofs!NoListenIsDeaf` | `OutstandingIsUnanswered` | `AggregatorInv`, below |
| `WatchTargets_proofs!ChangesFitTheViews` | `ChangesMatchKeys` | `AggregatorInv` |
| `WatchTargets_proofs!LimboResolutionsMatch` | `LimboListensAreWanted` | inductive with the types |
| `WatchTargets_proofs!ResumeTokensAgree` | `TokensAgree` | inductive with the types |
| `WatchPromise_proofs!ListenersGetWhatIsPromised` | `PromisedSpec`, that is `Spec => Promised!Spec` | `SyncInv`, below; every step maps to one of `Listens` or to a stutter |
| `WatchPromise_proofs!ListenersSeeOneCommit` | `Promised!InSyncIsOneCommit`, `Promised!InSyncNeverGoesBack` | inductive in `Listens`; the refinement carries it to the client |
| `WatchScreens_proofs!SyncedScreensAreRight` | `SyncedScreenIsServers` | `DocumentsInv`, below, and `SyncInv` |
| `PetLists_proofs!ListsTypeCorrect` | `TypeOK` | `ListsInv`, below |
| `PetLists_proofs!ListsNeverDisagree` | `ListsAgree` | `ListsInv` |
| `PetLists_proofs!NoListWaitsInVain` | `WaitingIsJustified` | `ListsInv` |
| `PetLists_proofs!ViewsTrailTheStore` | `ViewLagsOnlyForWatch` | inductive with `ListsInv`, below |
| `PetLists_proofs!ListsKeepTheStore` | `CacheCatchesUp`, `NoGhostPets`, of the lists | `CacheInv`, and that a housemate's commit is later than anything a phone knows |
| `PetLists_proofs!ListsNeverRegress` | `CacheNeverRegresses`, `NoFlicker`, of the lists | the same |
| `PetLists_proofs!ListsShowServersPets` | `QuietListsShowTheServer` | the four invariants together, below |
| `Credentials_proofs!CredentialsTypeCorrect` | `CredentialsTypeOK` | `CredInv`, below |
| `Credentials_proofs!WritesAreSentAsAuthor` | `SentAsAuthor` | `CredInv` |
| `Credentials_proofs!TokensAreOfTheUser` | `TokenIsOfTheUser` | `CredInv` |
| `Credentials_proofs!ResumesFindStarting` | `ResumeFindsStarting` | `StreamWaits`, below |
| `Session_proofs!SessionTypeCorrect` | `SessionTypeOK` | `AppTypeOK` is inductive; `CredentialsTypeOK` by the refinement |
| `Session_proofs!SessionImplementsCredentials` | `Spec => CredentialsSpec` | every step of the app is one that `App` allows, or one of the client |
| `Session_proofs!TapsAreSentAsAuthor` | `Spec => SentAsAuthor` | the theorem above through the refinement |
| `Session_proofs!HomeBelongs` | `HomeBelongsToUser` | `HomeInv`, below |

`CacheCatchesUp` is not inductive. `CacheInv` adds that versions are in order
(`VersionsInOrder`: nothing on a device, in an answer or on the watch stream has a
version beyond the last commit, and no snapshot carries a version of a document
beyond the server's), and what an entry at the server's own version is
(`LatestIsServers`: it is the server's document, or an acknowledgement computed
it and watch may still replace it). The second is why a snapshot with an *equal*
version must be taken when `has_pending_writes`, the disjunct of
`ApplyRemoteEvent` that a reader would be tempted to drop.

`NoFlicker` compares two views, each the outcome of a loop over a queue.
`Firestore_proofs` says what a view shows without the loop: the last set or delete in the queue decides whether
there is a card, and of each field the last patch behind it, else what is under it
(`BaseDocument`, `LastPatch`). Then the step that takes the head off the queue and puts
its result into the cache is a comparison of two such forms: the head is either not the
last write of a field, and seen in neither, or the last, and seen in both
(`AcknowledgedLooksTheSame`).

That this is what the loop computes is the lemma `ViewIsReplay`, which speaks of the
two definitions only, for queues of any length, and not of any step. `ViewOfAppend` says what one
more write at the end of a queue makes of its closed form: the write applied to it.
`Left` is the closed form, or the cached document itself when no write in the queue is of
the pet (`GetDocument` drops the cached document's mark of an acknowledgement, which no
view tells apart). The rest is an induction over the queue, which is carried out without
the library's induction rules, as those take an operator: the recursive function of
`Replay` exists, because what the writes up to each position leave is such a function;
and it is that one, because the set of positions where the two differ, were it not empty,
would have a least element (`WFMin`, the well-foundedness of `<`), and at a least
position both come from the same document by the same write.

`TreatsNotNegative` speaks of the server, the screens, the queues and the blocks,
`TreatsNotOvercounted` of the server, the screens, the caches, the snapshots in flight
and the queues. `TreatsInv` has them all, since a count travels through each, and bounds
every count between 0 and the number of treat taps
that were written. It is inductive because the tap is added to the tally when its update
is put on the main queue, and the update that is on its way there is the one place where
a count may be one ahead (`Slack`). That a view of counts within bounds is within them is
`GetDocumentTreats`.

`LoneTapSurvives` speaks of the moment when every queue is empty. `LoneInv` says what
leads there, for each field of a pet that was there from the start. Until it is tapped the
field is as in a new pet on the server, in every cache, snapshot and read, no queued write
touches it, and an update on its way to a queue carries the one value a first tap can have
(`NeverTapped`): so whichever of several such updates is queued first, the value is the
same. From then until a second one is queued, every queued write of the field carries that
value, and the server has it, or the pet is gone, or such a write is unanswered
(`TappedOnce`, `PendingStep`). An acknowledgement, a snapshot, a retry or a restart moves
none of the three, because a write leaves its queue only behind its answer. The `IsOld`
part keeps a retried `addDocument` out of it.

`SoloTapsAreExact` compares what a phone shows with a count of its taps. Once nobody
writes anything but one field (`PlainInv`), a version determines the pet's data, and
what phone d may come to show of pet p is a set of pairs of the two (`Facts`): the
server's, the cache's, the snapshot's on its way, and the data of each queued write at
the version it was answered with. `Leads` says that no two facts disagree about a
version, that the last queued write is of the counted taps, and that from the version
of its answer on (or of the cache, when nothing is queued) all facts are: so whatever is
acknowledged, applied or dropped next, nothing older can be shown (`LeadsAnswered`,
`LeadsPopped`, `LeadsStep`). `OneTap` adds that at most one tap is in progress and that it
read the counted taps, since it was begun when the view was of them. Three hypotheses are
needed, and none is for the proof's convenience. With a second field the answer to a write
sent again can carry the version of the write after it, so a version says nothing about a
field; a deletion rejects what is queued; and a down tap at zero counts nothing.
A pet that a second phone taps, or the same phone before its last tap was written, is
`"shared"` and no longer spoken of (`hist[p].owner`); other phones and pets interleave
freely.

`ReadsAreFresh` says that an answer is no older than the read that began the listen.
`ReadsInv` is why: a listen is covered only by a snapshot that was taken after it was
begun, so a snapshot that covers a pet is as new as every read that waits for it, and
while a read waits its listen is never idle, so nothing but such a snapshot, or a phone
that gives up as offline, answers it.

`OutstandingIsUnanswered` alone is inductive only with what becomes of a stream that
ends. `AggregatorInv` adds that nothing is under way or remembered without a stream
(`ClosedIsEmpty`), that an entry that is gone is a new one (`UnknownIsNew`), that what
is listened to has an entry (`ListenedIsKnown`), because the last request due for it
is a listen and not its end (`WatchComesLast`: so no `Removed` can bring the count to
zero and take the entry away), and that the changes of a target with nothing due
fit its keys (`ChangesFit`). The last needs the answer to a re-listen to clear what
was gathered for the listen before, which is a mutant of `ChangesMatchKeys`.

`PromisedSpec` is decided at a snapshot, but what the snapshot comes to was settled when
a request was written to the stream, several messages earlier; so an invariant of what
the client holds now is never inductive. `SyncInv` follows what it *will* hold: for each
target there is an `Idea` after each message in flight, the pets the client will take
the target to have and whether they can be trusted (`Told`). The ideas start from what it
believes now, or, if answers are still due and everything until the last of them will be
ignored, from the keys of the target (`Begun`); each message makes the next of the one
before (`Heard`); at each snapshot in flight an idea to be trusted is of that commit
(`Shown`); and the last one is what the server takes the phone to have (`Agreed`).
"Of that commit" is `Continues`: no pet that the commit does not have, and no missing one
but for those that were gone for a while between it and the phone's last snapshot,
because these the server sends again. At a snapshot the client does not ignore the two
coincide (`ContinuesNow`). The trust is "sure"; "spoilt" for a target resumed from a
token its keys are not of; or "lost" from the moment a filter's count differs, until the
client begins anew: then no `Current` can come, so the query is not in sync. That the
client and the server come to the same view of the count is where `Cardinality` enters
(`BelievedCount`): the client counts keys, added and removed, and never the union. The
rest of `SyncInv` is what the tokens are tokens of (`TokensAreOfKeys`, `StoredAreOfKeys`,
`ResumesAsAsked`), that requests and states go together (`Bookkeeping`), that a pet added
to a target has an update (`AddedAreUpdates`, or a pet would be found `Missing`), and the
order of the stream (`StreamInOrder`). The proof has one lemma for each kind of step: what
the server says extends the ideas by one, what the client takes drops the first, and a
snapshot does both to every target at once (`SyncSnapshot`). A proof of a step also showed
that `RaiseWatchSnapshot` had a `CASE` whose arms overlap, a target to listen to again that
had a change as well; TLC takes the first arm and TLA+ does not say which, so the
definition now does.

What the promise comes to is proved in `Listens`, where it is short, and carried to the
client by the refinement (`ListenersSeeOneCommit`): the keys of a listen in sync are the
pets of one commit, all of them and no other, and no listener is taken back to an
earlier one. That is what the comment on `current` says, and what the run
`watch_finding` refutes for a spoilt target, which is the only exception.

`SyncedScreenIsServers` is about documents, where `PromisedSpec` is about keys, and the
documents of all targets go into one cache: a target whose keys are spoilt still brings
documents that another target shows, and a target that is in sync relies on documents that
came for another listen, maybe in an earlier run of the app. So `DocumentsInv` is stated
without trust. For each target with nothing to be sent, each pet that a snapshot in flight
takes for granted, or that the server will not send again, is on its way (`WillHave`): in a
message that will count, among the pending updates, or in the cache, and in a version the
pet has kept until the commit that is told of (`Lasts`). Versions matter because of
deletions: an old document in the cache is no help if the pet was gone in between. The
other parts are what protects a document once it is there. Messages and updates can be
dated by commits, in order (`Dated`), so nothing that comes later tells of an earlier
commit, and an update that takes a document away is right to; the cache says what was so
when it was written (`CacheIsTrue`); what a token vouches for is cached (`TokensAreCached`);
limbo is what is cached and no key (`LimboIsUnkeyed`); and the keys of a target that was in
sync are those of the commit it was in sync with (`SyncedAreOfACommit`). A filter of zero
for a single pet removes its document with no commit to date it by: that the pet is then
not on the server (`Forgotten` in `Says`) follows from `SyncInv`. The conclusion is short:
in sync, the keys are the pets of the snapshot's commit, each of them is cached, and what
else is cached is in limbo.

`ListsInv` is the store's invariant (each step of the lists is a step of the store, or
leaves it alone, or a housemate's commit, which keeps types and queues), the types, and
for each phone `PhoneFine`: agreement, justified waiting, and that a phone without a
view has no list and is not current. The work is in `Tell`: events are appended in
the order of the lists, so the last one for a list that is told is the new documents,
and for a list that is not told nothing it would have shown has changed, since a change
that is not an event is metadata.

`ViewLagsOnlyForWatch` is inductive with it, phone by phone. After `Emit` each document
of a view is the store's or had no change to tell, and a document without one has the
same existence and the same data as the store's, unless the store's is an answer's guess
(`"committed"`), which a view does not take before watch confirms it. Every other step
leaves the documents of the view, the queue and the cache alone, or closes the view, as
a relaunch does; a step that moves a document and did not end in `Emit` would show here.

`QuietListsShowTheServer` needs four facts, none of which says it alone: the lists agree
with the view (`ListsInv`); the view trails the store on guessed contents only; a cache
that has heard of every commit is the server's document, so no guess (`CacheInv`); and
without a queue the store's document is the cached one (`ViewOfNoWrites`). For `CacheInv`
the housemate's commits, which the lists add to the store's steps, are writes like a
phone's own: later than everything the phones know (`HousemateWritesInv`).

`SentAsAuthor` speaks of one moment, the argument of three queues. `CredInv` says
of each what it will have told: FIRAuth's user is the last one announced on the main
queue (`Announced`); the provider's user is the one the worker will have at the end
of its queue, and each task in it carries the user of the task before, or the
client's, unless it sets the user (`WorkerInv`); a token that will pass the test
of its counter is of the user the provider will have been told by then
(`TokensInv`, with `CountersInOrder`): a refreshed token comes behind its own
announcement, so it fails the test, and the answer of a forced sign-out does too. Then each write enters the queue of its author
(`QueuesInv`) and an open stream has the client's token (`StreamInv`), because the
swap of the queue and the stop of the stream are one task.

`ResumeFindsStarting` looks only at the head of the worker queue. `StreamWaits` counts
what is under way for the stream: among the requests with FIRAuth, the tokens on the
main queue and the resumptions on the worker's, nothing is for a later life of the
stream than the present one, nothing for the present one unless it is starting, and
then one thing. A token asked for again keeps the close count of the one thrown away,
and every way out of `Starting` increments the count, except the resumption itself.

`HomeBelongsToUser` rests on `HomeInv`: flag and view are one, the keychain holds
the user once it was read, and as long as the flag was not left set it holds one
whenever the home screen is shown or a completion is about to show it. The last
part is why a kill after the sign-in, before its completion, does no harm.

Only model-checked: liveness and nothing else (`DevicesConverge`, `WritesLeaveTheQueue`,
`TapsAreAnswered`, `ListensConverge`, `ListensComeCurrent`,
`AppearancesAreAnswered`, `ListsShowTheServer`, `ClientFollowsAuth`, `WritesAreSent`),
which the prover does not reach.

## Plan

Done, in order: `PetDocuments`, `Firestore`, `PetCards`, `Credentials`, `Session`,
`WatchTargets` with its promise `Listens`, `PetLists`, their runs, and the proofs above.
Every invariant and action property of the passing runs is stated by a theorem, and so is
the refinement `PromisedSpec`.

## Not modelled

* The forms (`AddPetView`, `AddCareGiverView`, `EditProfileView`), the image picker and the
  dashboards hold the state of one view and nothing that another actor reads or that
  arrives late; what they send is one unconditional `addDocument`, which `PetCards`
  has for pets. Alerts and their wording are with them.
* Sign in with Apple: its button is commented out.
* Rejected listens and writes refused for want of permission: the security rules are not
  in the repository.
* Of the Firestore client, what no call of the app reaches: transactions, transforms,
  batches of several writes, merges, queries with filters, orders or limits, bundles,
  collection groups, `waitForPendingWrites`, disabling the network; and garbage collection,
  which starts at a cache of 100 MB.
* Layout, formatting and images. gRPC, BoringSSL, Abseil, LevelDB, nanopb and the
  other pods, which are most of the repository's lines: vendored libraries below the
  app's logic, of which the models use what the Firestore client relies on (a stream
  delivers in order or breaks; a transaction on disk is whole; a queue runs in order). The
  app and the part of the client it drives are a small fraction of the lines under `src/`,
  so the share of all lines that these modules stand for stays small whatever is added here.

## Running

```
tlc -workers 2 -config Firestore_sync.cfg MCFirestore
tlapm PetCards_proofs.tla
```
