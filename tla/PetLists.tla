-------------------------------- MODULE PetLists --------------------------------
(***************************************************************************)
(* The lists of pets on one phone's screens: from the documents that       *)
(* Firestore holds, over the one View that the client keeps of the query   *)
(* "pets", the QueryListeners that PetsViewModel.fetchData adds to it and  *)
(* never removes, and the main queue, to the pets each PetsViewModel       *)
(* publishes.  Every appearance of HomeView or ProfileView adds a listener *)
(* and so does the completion of every delete, for a model that no view    *)
(* displays.                                                               *)
(*                                                                         *)
(* Composed with Firestore, whose actions move the documents: each step of *)
(* a phone's worker queue that changes them ends in                        *)
(* EmitNewSnapshotsAndNotifyLocalStore.  A snapshot of the watch stream    *)
(* here tells of the whole collection and is CURRENT; WatchTargets models  *)
(* how it is put together and what limbo adds.  The housemates' phones are *)
(* reduced to the commits they make.                                       *)
(***************************************************************************)
EXTENDS Firestore, FiniteSets

CONSTANT
  MaxLists   \* bound: appearances of a list in one run of the app

ASSUME ListsAssumption == MaxLists \in Nat

VARIABLES
  view,     \* device -> the View of the query, and whether there is one yet
  lists,    \* device -> the listeners of this run of the app, in order of
            \* registration, each with the pets its PetsViewModel publishes
  main,     \* device -> the main queue: events, and completions of deletes
  asked,    \* device -> listeners on their way to the worker queue
  orphans   \* device -> queued writes, oldest first, whose completion died
            \* with an earlier run of the app

listVars == <<view, lists, main, asked, orphans>>
vars     == <<storeVars, listVars>>

(* A document of a view: what a listener gets of it, and its DocumentState. *)
ViewDocument == [shown : BOOLEAN, data : Fields,
                 state : {"synced", "local", "committed"}]
Missing == [shown |-> FALSE, data |-> NewPet, state |-> "synced"]

QueryView ==
  [open : BOOLEAN, current : BOOLEAN, docs : [Pets -> ViewDocument]]
Closed == [open |-> FALSE, current |-> FALSE, docs |-> [p \in Pets |-> Missing]]

(* The pets of a snapshot, as fetchData's listener decodes them. *)
Screen == [Pets -> [shown : BOOLEAN, data : Fields]]
Content(docs) ==
  [p \in Pets |-> [shown |-> docs[p].shown, data |-> docs[p].data]]
Blank == Content(Closed.docs)

List == [raised : BOOLEAN, published : BOOLEAN, pets : Screen]
Item == [type : {"event", "deleted"}, list : Nat, pets : Screen]
Event(i, docs) == [type |-> "event", list |-> i, pets |-> Content(docs)]
Completion     == [type |-> "deleted", list |-> 0, pets |-> Blank]

Init ==
  /\ StoreInit
  /\ view    = [d \in Devices |-> Closed]
  /\ lists   = [d \in Devices |-> <<>>]
  /\ main    = [d \in Devices |-> <<>>]
  /\ asked   = [d \in Devices |-> 0]
  /\ orphans = [d \in Devices |-> 0]

---------------------------------------------------------------------------------
(***************************************************************************)
(* The view.                                                               *)
(***************************************************************************)

(* The document the local store hands to the view. *)
LocalDocument(d, p) ==
  IF ~Exists(View(d, p)) THEN Missing
  ELSE [shown |-> TRUE,
        data  |-> View(d, p).data,
        state |-> IF WritesOf(queue[d], p) # {} THEN "local"
                  ELSE IF cache[d][p].committed THEN "committed" ELSE "synced"]

LocalDocuments(d) == [p \in Pets |-> LocalDocument(d, p)]

(* Mutant of ShouldWaitForSyncedDocument: what follows an own write waits. *)
WaitAfterAnyWrite(new, old) == old.state = "local" /\ new.state # "local"

(* The content an answer leaves is not shown: watch will send it again. *)
ShouldWaitForSyncedDocument(new, old) ==
  old.state = "local" /\ new.state = "committed"

(* Committed writes count as pending for a document the view saw written. *)
HasPendingMutations(new, old) ==
  new.state = "local" \/ (old.state = "local" /\ new.state = "committed")

ChangeType(old, new) ==
  CASE ~old.shown /\ ~new.shown -> "none"
    [] ~old.shown /\ new.shown  -> "added"
    [] old.shown /\ ~new.shown  -> "removed"
    [] old.shown /\ new.shown /\ old.data # new.data ->
         IF ShouldWaitForSyncedDocument(new, old) THEN "none" ELSE "modified"
    [] old.shown /\ new.shown /\ old.data = new.data ->
         IF (old.state = "local") = HasPendingMutations(new, old)
           THEN "none" ELSE "metadata"

(* Mutant of ApplyChanges: a change that waits reaches the documents. *)
ApplyEveryDocument(old, new) == new

(* View::ApplyChanges: a document without a change stays as it was. *)
ApplyChanges(old, new) ==
  [p \in Pets |-> IF ChangeType(old[p], new[p]) = "none" THEN old[p] ELSE new[p]]

Changes(old, new) == {ChangeType(old[p], new[p]) : p \in Pets} \ {"none"}

---------------------------------------------------------------------------------
(***************************************************************************)
(* The listeners.                                                          *)
(***************************************************************************)

(* An empty list from the cache is kept back while the server may answer. *)
ShouldRaiseInitialEvent(current, docs, state) ==
  current \/ (\E p \in Pets : docs[p].shown) \/ state = "Offline"

(* Metadata-only changes have been stripped. *)
ShouldRaiseEvent(changes) == changes \ {"metadata"} # {}

(* QueryListener::OnViewSnapshot. *)
OnViewSnapshot(raised, current, docs, changes, state) ==
  IF raised THEN ShouldRaiseEvent(changes)
            ELSE ShouldRaiseInitialEvent(current, docs, state)

(* Mutant of OnOnlineStateChanged: only snapshots raise events. *)
OnlyNotesTheState(raised, current, docs, state) == FALSE

OnOnlineStateChanged(raised, current, docs, state) ==
  ~raised /\ ShouldRaiseInitialEvent(current, docs, state)

(* A set of lists in the order of their registration. *)
Rank(i, S) == Cardinality({j \in S : j <= i})

InTurn(S) == [n \in 1 .. Cardinality(S) |-> CHOOSE i \in S : Rank(i, S) = n]

Informed(list, now) == [list EXCEPT !.raised = @ \/ now]

(* The listeners of d in told get an event, each on an item of its own; the
   items of first precede them on the main queue. *)
Tell(d, told, docs, first) ==
  LET turn == InTurn(told)
  IN /\ lists' = [lists EXCEPT ![d] =
          [i \in DOMAIN @ |-> Informed(@[i], i \in told)]]
     /\ main' = [main EXCEPT ![d] =
          @ \o first \o [n \in DOMAIN turn |-> Event(turn[n], docs)]]

(* SyncEngine::EmitNewSnapshotsAndNotifyLocalStore, at the end of a step that
   leaves the documents new and the online state state; a view that has not
   changed makes no snapshot. *)
EmitNewSnapshots(d, new, current, state, first) ==
  LET changes == Changes(view[d].docs, new)
      docs    == ApplyChanges(view[d].docs, new)
      told    == {i \in DOMAIN lists[d] :
                    /\ changes # {} \/ current # view[d].current
                    /\ OnViewSnapshot(lists[d][i].raised, current, docs,
                                      changes, state)}
  IN /\ view' = [view EXCEPT ![d].docs = docs, ![d].current = current]
     /\ Tell(d, told, docs, first)

(* The same before any listener is there: no view. *)
Emit(d, first, current) ==
  IF view[d].open
    THEN EmitNewSnapshots(d, LocalDocuments(d)', current, online'[d], first)
    ELSE main' = [main EXCEPT ![d] = @ \o first] /\ UNCHANGED <<view, lists>>

(* SyncEngine::HandleOnlineStateChange: off line no view is current; no raised
   listener is told, the snapshot has no changes. *)
SetAndBroadcast(d, state) ==
  LET current == view[d].current /\ state # "Offline"
      told    == {i \in DOMAIN lists[d] :
                    OnOnlineStateChanged(lists[d][i].raised, current,
                                         view[d].docs, state)}
  IN /\ view' = [view EXCEPT ![d].current = current]
     /\ Tell(d, told, view[d].docs, <<>>)

HandleOnlineStateChange(d, state) ==
  \/ state = online[d] /\ UNCHANGED <<view, lists, main>>
  \/ state # online[d] /\ SetAndBroadcast(d, state)

---------------------------------------------------------------------------------
(***************************************************************************)
(* Steps of the main thread.                                               *)
(***************************************************************************)

(* HomeView or ProfileView appears: fetchData. *)
OnAppear(d) ==
  /\ Len(lists[d]) + asked[d] < MaxLists
  /\ asked' = [asked EXCEPT ![d] = @ + 1]
  /\ UNCHANGED <<storeVars, view, lists, main, orphans>>

(* A user sees the pet on some list. *)
OnScreen(d, p) == \E i \in DOMAIN lists[d] : lists[d][i].pets[p].shown

(* An id addDocument may draw: no document ever had it. *)
Unused(p) ==
  /\ server[p] = Absent
  /\ \A d \in Devices : WritesOf(queue[d], p) = {} /\ cache[d][p] = Absent

(* The user adds a pet, taps on a card or deletes one. *)
UserWrites(d, m) ==
  /\ IF m.type = "set" THEN Unused(m.pet) ELSE OnScreen(d, m.pet)
  /\ WriteMutations(d, m)
  /\ Emit(d, <<>>, view[d].current)
  /\ UNCHANGED <<asked, orphans>>

(* The next item of the main queue: fetchData's listener publishes the pets, or
   the completion of a delete calls fetchData for its own PetsViewModel. *)
RunMainQueue(d) ==
  /\ main[d] # <<>>
  /\ main' = [main EXCEPT ![d] = Tail(@)]
  /\ LET item == Head(main[d])
     IN \/ /\ item.type = "event"
           /\ lists' = [lists EXCEPT ![d][item.list].pets = item.pets,
                                   ![d][item.list].published = TRUE]
           /\ UNCHANGED asked
        \/ /\ item.type = "deleted"
           /\ asked' = [asked EXCEPT ![d] = @ + 1]
           /\ UNCHANGED lists
  /\ UNCHANGED <<storeVars, view, orphans>>

---------------------------------------------------------------------------------
(***************************************************************************)
(* Steps of the worker queue.                                              *)
(***************************************************************************)

(* Mutant of AddedList: a further listener waits for the next snapshot. *)
AddedUntold(d) == FALSE

(* Whether a new listener of an open query is told at once: it is given the
   snapshot the EventManager stored last. *)
AddedList(d) ==
  ShouldRaiseInitialEvent(view[d].current, view[d].docs, online[d])

(* EventManager::AddQueryListener; the first of a query makes its view, from
   the local documents and not current. *)
AddQueryListener(d) ==
  LET docs == IF view[d].open THEN view[d].docs ELSE LocalDocuments(d)
      told == IF view[d].open THEN AddedList(d)
              ELSE ShouldRaiseInitialEvent(FALSE, docs, online[d])
      i    == Len(lists[d]) + 1
  IN /\ asked[d] > 0
     /\ asked' = [asked EXCEPT ![d] = @ - 1]
     /\ view'  = [view EXCEPT ![d].open = TRUE, ![d].docs = docs]
     /\ lists' = [lists EXCEPT ![d] =
          Append(@, [raised |-> told, published |-> FALSE, pets |-> Blank])]
     /\ main'  = [main EXCEPT ![d] = IF told THEN Append(@, Event(i, docs)) ELSE @]
     /\ UNCHANGED <<storeVars, orphans>>

(* Of the completions only a delete's does something, when it succeeded and was
   called in this run of the app. *)
NotifyUser(d) ==
  IF /\ orphans[d] = 0
     /\ Head(results[d]).ok
     /\ Head(queue[d]).type = "delete"
    THEN <<Completion>>
    ELSE <<>>

(* Mutant of ListsAnswer: the undo of a rejected write makes no snapshot. *)
RejectedInSilence(d) ==
  /\ \/ HandleSuccessfulWrite(d) /\ Emit(d, NotifyUser(d), view[d].current)
     \/ HandleRejectedWrite(d) /\ UNCHANGED <<view, lists, main>>
  /\ orphans' = [orphans EXCEPT ![d] = IF @ = 0 THEN 0 ELSE @ - 1]
  /\ UNCHANGED asked

(* A write is answered: its completion comes before the events. *)
ListsAnswer(d) ==
  /\ \/ HandleSuccessfulWrite(d)
     \/ HandleRejectedWrite(d)
  /\ Emit(d, NotifyUser(d), view[d].current)
  /\ orphans' = [orphans EXCEPT ![d] = IF @ = 0 THEN 0 ELSE @ - 1]
  /\ UNCHANGED asked

(* The watch stream is up while there is a query to listen to.  That the phone
   is on line is announced first: it makes no list worth showing. *)
ListsSnapshot(d) ==
  /\ view[d].open
  /\ ApplyRemoteEvent(d)
  /\ Emit(d, <<>>, TRUE)
  /\ UNCHANGED <<asked, orphans>>

ListsStreamClose(d) ==
  /\ view[d].open
  /\ OnWatchStreamClose(d)
  /\ HandleOnlineStateChange(d, online'[d])
  /\ UNCHANGED <<asked, orphans>>

(* OnlineStateTracker: the first answer took ten seconds. *)
OnlineStateTimeout(d) ==
  /\ view[d].open
  /\ online[d] = "Unknown"
  /\ online' = [online EXCEPT ![d] = "Offline"]
  /\ HandleOnlineStateChange(d, "Offline")
  /\ UNCHANGED <<server, commit, queue, results, cache, snapver, watch, faults,
                 asked, orphans>>

---------------------------------------------------------------------------------
(* Mutant of ListsRelaunched: events survive the app. *)
RelaunchedWithEvents(d) ==
  /\ view'    = [view EXCEPT ![d] = Closed]
  /\ lists'   = [lists EXCEPT ![d] = <<>>]
  /\ asked'   = [asked EXCEPT ![d] = 0]
  /\ orphans' = [orphans EXCEPT ![d] = Len(queue[d])]
  /\ UNCHANGED main

(* Nothing above the local store survives the app. *)
ListsRelaunched(d) ==
  /\ view'    = [view EXCEPT ![d] = Closed]
  /\ lists'   = [lists EXCEPT ![d] = <<>>]
  /\ main'    = [main EXCEPT ![d] = <<>>]
  /\ asked'   = [asked EXCEPT ![d] = 0]
  /\ orphans' = [orphans EXCEPT ![d] = Len(queue[d])]

(* What the server does with the phone's streams shows on no list yet. *)
ListsServerStep(d) ==
  /\ \/ ServerHandlesWrite(d)
     \/ OnWriteStreamClose(d)
     \/ view[d].open /\ SendSnapshot(d)
  /\ UNCHANGED listVars

Relaunch(d) == Restart(d) /\ ListsRelaunched(d)

(* A housemate's write is committed. *)
HousemateWrites(m) ==
  /\ IF m.type = "set" THEN Unused(m.pet) ELSE Exists(server[m.pet])
  /\ ~IsNoOp(m)
  /\ commit' = commit + 1
  /\ server' = [server EXCEPT ![m.pet] = Mutated(m, @, commit + 1)]
  /\ UNCHANGED <<queue, results, cache, snapver, watch, online, faults, listVars>>
---------------------------------------------------------------------------------
ListsNext ==
  \/ \E d \in Devices :
       \/ OnAppear(d)
       \/ RunMainQueue(d)
       \/ AddQueryListener(d)
       \/ ListsAnswer(d)
       \/ ListsSnapshot(d)
       \/ ListsStreamClose(d)
       \/ OnlineStateTimeout(d)
       \/ ListsServerStep(d)
       \/ Relaunch(d)
       \/ \E m \in Mutation : UserWrites(d, m)
  \/ \E m \in Mutation : HousemateWrites(m)

ListsSpec == Init /\ [][ListsNext]_vars

---------------------------------------------------------------------------------
(***************************************************************************)
(* Properties.                                                             *)
(***************************************************************************)

TypeOK ==
  /\ StoreTypeOK
  /\ view    \in [Devices -> QueryView]
  /\ lists   \in [Devices -> Seq(List)]
  /\ main    \in [Devices -> Seq(Item)]
  /\ asked   \in [Devices -> Nat]
  /\ orphans \in [Devices -> Nat]
  /\ \A d \in Devices : \A n \in DOMAIN main[d] :
       main[d][n].type = "event" => main[d][n].list \in DOMAIN lists[d]

EventsFor(d, i) ==
  {n \in DOMAIN main[d] : main[d][n].type = "event" /\ main[d][n].list = i}

(* What list i of d comes to show: its last event on the main queue, or else
   what it shows. *)
Upcoming(d, i) ==
  IF EventsFor(d, i) = {} THEN lists[d][i].pets
                          ELSE main[d][LastOf(EventsFor(d, i))].pets

(* Two lists of a phone never come to disagree: however late a listener was
   added, and whichever changes the client kept from it (metadata, the answer
   to a write), the events that are on their way bring every list that has been
   told anything to the documents of the one view. *)
ListsAgree ==
  \A d \in Devices : \A i \in DOMAIN lists[d] :
    lists[d][i].raised => Upcoming(d, i) = Content(view[d].docs)

(* A screen stays blank only for a reason: a listener that has been told
   nothing stands before a phone that holds no pet, has no answer yet and has
   not found out that it is off line (EventManager::AddQueryListener and the
   two handlers of QueryListener together raise every first event in time). *)
WaitingIsJustified ==
  \A d \in Devices : \A i \in DOMAIN lists[d] :
    ~lists[d][i].raised =>
      /\ ~view[d].current
      /\ \A p \in Pets : ~view[d].docs[p].shown
      /\ online[d] # "Offline"
      /\ EventsFor(d, i) = {}

(* The view trails the local store in one respect only, a content that an answer
   guessed and watch has yet to confirm (SyncEngine ends every step that moves a
   document in EmitNewSnapshotsAndNotifyLocalStore): a pet that is added,
   deleted, changed by a housemate or put back after a rejected write reaches
   the view with the step, and no pet is kept on it that the store has lost. *)
ViewLagsOnlyForWatch ==
  \A d \in Devices, p \in Pets : view[d].open =>
    LET seen   == view[d].docs[p]
        stored == LocalDocument(d, p)
    IN /\ seen.shown = stored.shown
       /\ seen.shown /\ seen.data # stored.data => stored.state = "committed"

(* A phone that has nothing left to send and has heard of every commit comes to
   show exactly the server's pets, on every list that has been told anything,
   whatever was kept back, rejected, repeated or lost on the way: no list needs
   another change to be put right. *)
QuietListsShowTheServer ==
  \A d \in Devices : \A i \in DOMAIN lists[d] :
    (/\ lists[d][i].raised
     /\ queue[d] = <<>>
     /\ \A p \in Pets : server[p].version <= snapver[d])
    => \A p \in Pets :
         /\ Upcoming(d, i)[p].shown = Exists(server[p])
         /\ Exists(server[p]) => Upcoming(d, i)[p].data = server[p].data

(* List i has been asked for in this run of the app. *)
Requested(d, i) == i <= Len(lists[d]) + asked[d]

Answered(d, i) == i \in DOMAIN lists[d] /\ lists[d][i].published

(* Every appearance gets its list, if only an empty one, even when nothing ever
   comes from the network: the timer of OnlineStateTracker sees to it. *)
AppearancesAreAnswered ==
  \A d \in Devices : \A i \in 1 .. MaxLists :
    Requested(d, i) ~> (Answered(d, i) \/ ~Requested(d, i))
=================================================================================
