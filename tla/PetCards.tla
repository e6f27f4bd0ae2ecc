------------------------------- MODULE PetCards -------------------------------
(***************************************************************************)
(* The home screen of Kibble on every housemate's phone: the cards of the  *)
(* pets, the taps on them, and the callbacks of PetViewModel, over the     *)
(* Firestore client and server of module Firestore.                        *)
(*                                                                         *)
(* A tap starts a getDocument; its callback computes the new value of one  *)
(* field and dispatches a second block, which queues the write.  Between   *)
(* the three steps anything else may happen on the phone, on the other     *)
(* phones and on the server.  The calls an app makes into the client are   *)
(* queued in order on its worker, which shares no state with the main      *)
(* thread: each is taken together with the block that makes it.  Blocks    *)
(* about different pets touch different documents: the main queue keeps    *)
(* the order of the blocks of each pet and leaves open how they mix (the   *)
(* client raises the events of a snapshot in the order of a hash map).     *)
(***************************************************************************)
EXTENDS Firestore

CONSTANTS
  UserOps,   \* the functions of PetViewModel the housemates use
  MaxTaps    \* bound: taps in a behaviour, on all phones together

CardOps == {"updateBB", "updateDB", "updateTreatsUp", "updateTreatsDown"}

ASSUME PetCardsAssumption ==
  /\ UserOps \subseteq CardOps \cup {"save", "delete"}
  /\ MaxTaps \in Nat
  /\ Devices \cap {"nobody", "shared"} = {}    \* names of no phone, in hist

VARIABLES
  shown,    \* device -> pet -> its card: the displayed PetsViewModel.pets
  target,   \* device -> pet -> the listen behind getDocument
  gets,     \* device -> pet -> getDocument calls that wait for a snapshot
  covered,  \* device -> pets whose listen the snapshot in flight answers
  mainQ,    \* device -> pet -> the blocks waiting on the main queue
  live,     \* device -> queued writes made since launch: they have callbacks
  hidden,   \* device -> listeners registered by delete and never removed
  taps,     \* taps so far
  hist      \* pet -> what the taps on it were, for the properties only

appVars == <<shown, target, gets, covered, mainQ, live, hidden, taps, hist>>
vars    == <<storeVars, appVars>>

---------------------------------------------------------------------------------
(***************************************************************************)
(* The four functions behind a card: the data of the update, from the      *)
(* document that was read, and the one field it writes.                    *)
(***************************************************************************)
UpdateBB(data) == [NewPet EXCEPT !.breakfast = ~data.breakfast]
UpdateDB(data) == [NewPet EXCEPT !.dinner = ~data.dinner]
UpdateTreatsUp(data) == [NewPet EXCEPT !.treats = data.treats + 1]

(* Mutant of UpdateTreatsDown: no test for 0. *)
UpdateTreatsBelowZero(data) == [NewPet EXCEPT !.treats = data.treats - 1]

UpdateTreatsDown(data) ==
  [NewPet EXCEPT !.treats = IF data.treats # 0 THEN data.treats - 1
                                               ELSE data.treats]

NewValue(op, data) ==
  CASE op = "updateBB"         -> UpdateBB(data)
    [] op = "updateDB"         -> UpdateDB(data)
    [] op = "updateTreatsUp"   -> UpdateTreatsUp(data)
    [] op = "updateTreatsDown" -> UpdateTreatsDown(data)

FieldOf(op) ==
  CASE op = "updateBB" -> "breakfast"
    [] op = "updateDB" -> "dinner"
    [] op \in {"updateTreatsUp", "updateTreatsDown"} -> "treats"

(* A card, or the document in a getDocument callback. *)
Card(doc) == [exists |-> Exists(doc),
              data |-> IF Exists(doc) THEN doc.data ELSE NewPet]

Cards == [exists : BOOLEAN, data : Fields]

(* Blocks on the main queue: a document that was read ("got"), the inner block
   that writes ("update"), the completion of a delete ("deleted"). *)
Get   == [op : CardOps, since : Nat]
Block == [kind : {"got", "update", "deleted"}, op : CardOps, card : Cards]

Got(g, card) == [kind |-> "got", op |-> g.op, card |-> card]

(* The completion of a delete says nothing; its op and card are never read. *)
Deleted == [kind |-> "deleted", op |-> "updateBB", card |-> Card(Absent)]

ViewCard(d, p) == Card(View(d, p))

(* The listeners on p's listen: reads that wait, and reads answered whose
   callback, which removes the listener, is still to run. *)
Waits(d, p) == gets[d][p] # <<>>
Pending(q) == \E i \in DOMAIN q : q[i].kind = "got"

---------------------------------------------------------------------------------
(***************************************************************************)
(* History, for the properties: how many updates of each field were        *)
(* queued; which phone alone has tapped the pet, one tap at a time         *)
(* ("nobody" yet, or "shared"); whether each breakfast tap so far was on   *)
(* an empty circle.                                                        *)
(***************************************************************************)
History ==
  [tally : [breakfast : Nat, dinner : Nat, treats : Nat],
   owner : Devices \cup {"nobody", "shared"}, marks : BOOLEAN]

NoHistory == [tally |-> [breakfast |-> 0, dinner |-> 0, treats |-> 0],
              owner |-> "nobody", marks |-> TRUE]

InProgress(d, p) == gets[d][p] # <<>> \/ mainQ[d][p] # <<>>

RecordTap(d, p, op) ==
  hist' = [hist EXCEPT
    ![p].owner = IF @ \in {"nobody", d} /\ ~InProgress(d, p) THEN d ELSE "shared",
    ![p].marks = @ /\ (op = "updateBB" => ~shown[d][p].data.breakfast)]

RecordUpdate(p, op) ==
  hist' = [hist EXCEPT ![p].tally =
    [breakfast |-> @.breakfast + (IF FieldOf(op) = "breakfast" THEN 1 ELSE 0),
     dinner    |-> @.dinner + (IF FieldOf(op) = "dinner" THEN 1 ELSE 0),
     treats    |-> @.treats + (IF FieldOf(op) = "treats" THEN 1 ELSE 0)]]

---------------------------------------------------------------------------------
Init ==
  /\ StoreInit
  /\ shown   = [d \in Devices |-> [p \in Pets |->
                  Card(IF d \in Installed THEN InitDocument(p) ELSE Absent)]]
  /\ target  = [d \in Devices |-> [p \in Pets |-> "idle"]]
  /\ gets    = [d \in Devices |-> [p \in Pets |-> <<>>]]
  /\ covered = [d \in Devices |-> {}]
  /\ mainQ   = [d \in Devices |-> [p \in Pets |-> <<>>]]
  /\ live    = [d \in Devices |-> 0]
  /\ hidden  = [d \in Devices |-> 0]
  /\ taps    = 0
  /\ hist    = [p \in Pets |-> NoHistory]

(***************************************************************************)
(* The user.                                                               *)
(***************************************************************************)

(* DocumentReference::GetDocument listens for one event.  The event is raised
   at once from a view that is in sync, or from the cache when offline;
   otherwise it waits for a snapshot that answers the listen.  A listen of the
   pet that is there already is shared. *)
GetsAnswerNow(d, p) == target[d][p] = "current" \/ online[d] = "Offline"

(* For the properties: the version of the pet when the read began the listen;
   a read that shares a listen takes what the listen brings. *)
Since(d, p) == IF target[d][p] = "idle" THEN server[p].version ELSE 0

Tap(d, p, op) ==
  /\ taps < MaxTaps
  /\ shown[d][p].exists
  /\ taps' = taps + 1
  /\ RecordTap(d, p, op)
  /\ target' = [target EXCEPT ![d][p] = IF @ = "idle" THEN "listening" ELSE @]
  /\ LET g == [op |-> op, since |-> Since(d, p)]
     IN \/ /\ GetsAnswerNow(d, p)
           /\ mainQ' = [mainQ EXCEPT ![d][p] = Append(@, Got(g, ViewCard(d, p)))]
           /\ UNCHANGED gets
        \/ /\ ~GetsAnswerNow(d, p)
           /\ gets' = [gets EXCEPT ![d][p] = Append(@, g)]
           /\ UNCHANGED mainQ
  /\ UNCHANGED <<storeVars, shown, covered, live, hidden>>

Write(d, m) ==
  /\ WriteMutations(d, m)
  /\ live' = [live EXCEPT ![d] = @ + 1]

(* AddPetView: addDocument draws an id nobody has used. *)
IsFresh(p) ==
  /\ server[p].version = 0
  /\ \A d \in Devices : WritesOf(queue[d], p) = {}

Save(d, p) ==
  /\ taps < MaxTaps
  /\ IsFresh(p)
  /\ taps' = taps + 1
  /\ Write(d, SetData(p, NewPet))
  /\ UNCHANGED <<shown, target, gets, covered, mainQ, hidden, hist>>

Delete(d, p) ==
  /\ taps < MaxTaps
  /\ shown[d][p].exists
  /\ taps' = taps + 1
  /\ Write(d, DeleteDocument(p))
  /\ UNCHANGED <<shown, target, gets, covered, mainQ, hidden, hist>>

---------------------------------------------------------------------------------
(***************************************************************************)
(* Blocks on the main queue, one at a time, in order.                      *)
(***************************************************************************)
FrontIs(d, p, kind) == mainQ[d][p] # <<>> /\ Head(mainQ[d][p]).kind = kind

(* Mutant of GotDocument: the listen ends although other reads wait on it. *)
GotLastDocument(d, p) ==
  /\ FrontIs(d, p, "got")
  /\ LET b    == Head(mainQ[d][p])
         rest == Tail(mainQ[d][p])
         update == [b EXCEPT !.kind = "update",
                             !.card.data = NewValue(b.op, b.card.data)]
     IN /\ target' = [target EXCEPT ![d][p] = IF Pending(rest) THEN @ ELSE "idle"]
        /\ covered' = [covered EXCEPT ![d] = IF Pending(rest) THEN @ ELSE @ \ {p}]
        /\ mainQ' = [mainQ EXCEPT ![d][p] =
             IF b.card.exists THEN Append(rest, update) ELSE rest]
  /\ UNCHANGED <<storeVars, shown, gets, live, hidden, taps, hist>>

(* The callback of getDocument: the listener is removed first; the listen ends
   with its last listener.  A document that exists yields the update block. *)
GotDocument(d, p) ==
  /\ FrontIs(d, p, "got")
  /\ LET b    == Head(mainQ[d][p])
         rest == Tail(mainQ[d][p])
         over == ~Waits(d, p) /\ ~Pending(rest)
         update == [b EXCEPT !.kind = "update",
                             !.card.data = NewValue(b.op, b.card.data)]
     IN /\ target' = [target EXCEPT ![d][p] = IF over THEN "idle" ELSE @]
        /\ covered' = [covered EXCEPT ![d] = IF over THEN @ \ {p} ELSE @]
        /\ mainQ' = [mainQ EXCEPT ![d][p] =
             IF b.card.exists THEN Append(rest, update) ELSE rest]
  /\ UNCHANGED <<storeVars, shown, gets, live, hidden, taps, hist>>

(* DispatchQueue.main.async { document.reference.updateData([field: curr]) } *)
UpdateBlock(d, p) ==
  /\ FrontIs(d, p, "update")
  /\ LET b == Head(mainQ[d][p])
     IN /\ Write(d, UpdateData(p, {FieldOf(b.op)}, b.card.data))
        /\ RecordUpdate(p, b.op)
  /\ mainQ' = [mainQ EXCEPT ![d][p] = Tail(@)]
  /\ UNCHANGED <<shown, target, gets, covered, hidden, taps>>

(* The completion of delete registers one more listener, on a PetsViewModel
   that no view displays, and nothing removes it. *)
DeletedBlock(d, p) ==
  /\ FrontIs(d, p, "deleted")
  /\ mainQ' = [mainQ EXCEPT ![d][p] = Tail(@)]
  /\ hidden' = [hidden EXCEPT ![d] = @ + 1]
  /\ UNCHANGED <<storeVars, shown, target, gets, covered, live, taps, hist>>

(* The snapshot listener of the displayed PetsViewModel.  Its events carry the
   views in the order they occur; one that a later event overwrites before a
   tap is left out. *)
FetchData(d) ==
  /\ shown' = [shown EXCEPT ![d] = [p \in Pets |-> ViewCard(d, p)]]
  /\ shown' # shown
  /\ UNCHANGED <<storeVars, target, gets, covered, mainQ, live, hidden, taps, hist>>

---------------------------------------------------------------------------------
(***************************************************************************)
(* The network, with what it sets off in the app.                          *)
(***************************************************************************)

(* SyncEngine::NotifyUser: only a write made since launch has a callback, and
   only delete passes one. *)
HeadIsLive(d) == live[d] = Len(queue[d])

(* Mutant of ForgetCallback: writes from before the launch are counted too. *)
ForgetAnyCallback(d) == live' = [live EXCEPT ![d] = @ - 1]

ForgetCallback(d) ==
  live' = [live EXCEPT ![d] = IF HeadIsLive(d) THEN @ - 1 ELSE @]

Acknowledged(d) ==
  /\ HandleSuccessfulWrite(d)
  /\ ForgetCallback(d)
  /\ LET m == Head(queue[d])
     IN mainQ' = [mainQ EXCEPT ![d][m.pet] =
          IF HeadIsLive(d) /\ m.type = "delete" THEN Append(@, Deleted) ELSE @]
  /\ UNCHANGED <<shown, target, gets, covered, hidden, taps, hist>>

Rejected(d) ==
  /\ HandleRejectedWrite(d)
  /\ ForgetCallback(d)
  /\ UNCHANGED <<shown, target, gets, covered, mainQ, hidden, taps, hist>>

(* The snapshot answers the listens the server knows of. *)
SnapshotSent(d) ==
  /\ SendSnapshot(d)
  /\ covered' = [covered EXCEPT ![d] = {p \in Pets : target[d][p] # "idle"}]
  /\ UNCHANGED <<shown, target, gets, mainQ, live, hidden, taps, hist>>

(* The waiting reads of the pets in S get their event, in order, with the view
   as the step leaves it. *)
Raise(d, S) ==
  LET raised(p) == [i \in DOMAIN gets[d][p] |-> Got(gets[d][p][i], ViewCard(d, p)')]
  IN /\ mainQ' = [mainQ EXCEPT ![d] =
          [p \in Pets |-> IF p \in S THEN @[p] \o raised(p) ELSE @[p]]]
     /\ gets' = [gets EXCEPT ![d] =
          [p \in Pets |-> IF p \in S THEN <<>> ELSE @[p]]]

(* Mutant of SnapshotReceived: the snapshot answers every listen, those that
   began after it was sent included. *)
SnapshotAnswersAll(d) ==
  /\ ApplyRemoteEvent(d)
  /\ Raise(d, Pets)
  /\ target' = [target EXCEPT ![d] =
       [p \in Pets |-> IF @[p] = "listening" THEN "current" ELSE @[p]]]
  /\ covered' = [covered EXCEPT ![d] = {}]
  /\ UNCHANGED <<shown, live, hidden, taps, hist>>

SnapshotReceived(d) ==
  /\ ApplyRemoteEvent(d)
  /\ Raise(d, covered[d])
  /\ target' = [target EXCEPT ![d] =
       [p \in Pets |-> IF p \in covered[d] THEN "current" ELSE @[p]]]
  /\ covered' = [covered EXCEPT ![d] = {}]
  /\ UNCHANGED <<shown, live, hidden, taps, hist>>

(* Going offline takes every view out of sync and raises the reads that wait,
   from the cache. *)
WatchStreamLost(d) ==
  /\ OnWatchStreamClose(d)
  /\ covered' = [covered EXCEPT ![d] = {}]
  /\ \/ /\ online'[d] = "Offline"
        /\ Raise(d, Pets)
        /\ target' = [target EXCEPT ![d] =
             [p \in Pets |-> IF @[p] = "current" THEN "listening" ELSE @[p]]]
     \/ /\ online'[d] # "Offline"
        /\ UNCHANGED <<gets, mainQ, target>>
  /\ UNCHANGED <<shown, live, hidden, taps, hist>>

(* A launch: HomeView appears with no pets and listens again; what was only in
   memory, taps in progress included, is gone. *)
Relaunch(d) ==
  /\ Restart(d)
  /\ shown'   = [shown EXCEPT ![d] = [p \in Pets |-> Card(Absent)]]
  /\ target'  = [target EXCEPT ![d] = [p \in Pets |-> "idle"]]
  /\ gets'    = [gets EXCEPT ![d] = [p \in Pets |-> <<>>]]
  /\ covered' = [covered EXCEPT ![d] = {}]
  /\ mainQ'   = [mainQ EXCEPT ![d] = [p \in Pets |-> <<>>]]
  /\ live'    = [live EXCEPT ![d] = 0]
  /\ hidden'  = [hidden EXCEPT ![d] = 0]
  /\ UNCHANGED <<taps, hist>>

---------------------------------------------------------------------------------
User(d) ==
  \E p \in Pets :
    \/ \E op \in CardOps \cap UserOps : Tap(d, p, op)
    \/ "save" \in UserOps /\ Save(d, p)
    \/ "delete" \in UserOps /\ Delete(d, p)

MainQueue(d) ==
  \/ \E p \in Pets : GotDocument(d, p) \/ UpdateBlock(d, p) \/ DeletedBlock(d, p)
  \/ FetchData(d)

Streams(d) ==
  \/ ServerHandlesWrite(d) /\ UNCHANGED appVars
  \/ Acknowledged(d)
  \/ Rejected(d)
  \/ SnapshotSent(d)
  \/ SnapshotReceived(d)

Faults(d) ==
  \/ OnWriteStreamClose(d) /\ UNCHANGED appVars
  \/ WatchStreamLost(d)
  \/ Relaunch(d)

Next ==
  \E d \in Devices : User(d) \/ MainQueue(d) \/ Streams(d) \/ Faults(d)

Spec == Init /\ [][Next]_vars

---------------------------------------------------------------------------------
(***************************************************************************)
(* Properties.                                                             *)
(***************************************************************************)

TypeOK ==
  /\ StoreTypeOK
  /\ shown   \in [Devices -> [Pets -> Cards]]
  /\ target  \in [Devices -> [Pets -> {"idle", "listening", "current"}]]
  /\ gets    \in [Devices -> [Pets -> Seq(Get)]]
  /\ covered \in [Devices -> SUBSET Pets]
  /\ mainQ   \in [Devices -> [Pets -> Seq(Block)]]
  /\ live    \in [Devices -> Nat]
  /\ hidden  \in [Devices -> Nat]
  /\ taps    \in Nat
  /\ hist    \in [Pets -> History]

(* The treat count is never negative, on the server, in what any phone shows
   and in what is on its way, however up and down taps of several phones
   overwrite each other (updateTreatsDown's test for 0). *)
TreatsNotNegative ==
  /\ \A p \in Pets : server[p].data.treats >= 0
  /\ \A d \in Devices :
       /\ \A p \in Pets : shown[d][p].data.treats >= 0
       /\ \A i \in DOMAIN queue[d] : queue[d][i].data.treats >= 0
       /\ \A p \in Pets : \A i \in DOMAIN mainQ[d][p] :
            mainQ[d][p][i].card.data.treats >= 0

(* No count of treats exceeds the updates of it that were queued, neither on the
   server nor in what a phone shows, caches, is being sent or has queued: a write
   that is sent, and applied, twice does not count twice, and no phone ever shows
   a treat that nobody tapped. *)
TreatsNotOvercounted ==
  \A p \in Pets :
    LET Counted(data) == data.treats <= hist[p].tally.treats
    IN /\ Counted(server[p].data)
       /\ \A d \in Devices :
            /\ Counted(shown[d][p].data)
            /\ Counted(cache[d][p].data)
            /\ Counted(watch[d].docs[p].data)
            /\ \A i \in WritesOf(queue[d], p) : Counted(queue[d][i].data)

(* What the pet's data must be when every queued update took effect. *)
AllTapsCounted(p) ==
  [breakfast |-> hist[p].tally.breakfast % 2 = 1,
   dinner    |-> hist[p].tally.dinner % 2 = 1,
   treats    |-> hist[p].tally.treats]

(* A housemate who alone taps a pet, each tap after the previous one was
   written, sees every tap counted, at every moment: across her own
   acknowledgements, snapshots older than her writes, retries, offline periods
   and restarts.  (Without down taps, of which one at zero counts nothing, and
   for the pets there are: a retried addDocument resets its pet.) *)
SoloTapsAreExact ==
  \A d \in Devices, p \in InitPets :
    (hist[p].owner = d /\ Exists(View(d, p)))
      => View(d, p).data = AllTapsCounted(p)

Settled == \A d \in Devices : /\ queue[d] = <<>>
                              /\ \A p \in Pets : ~InProgress(d, p)

(* A field that was written once keeps what was written, whatever the other
   phones did to the other fields of the pet at the same time: an update
   writes its own field and no other. *)
LoneTapSurvives ==
  (\A d \in Devices : queue[d] = <<>>) =>
    \A p \in InitPets : Exists(server[p]) =>
      \A f \in FieldNames :
        hist[p].tally[f] = 1 => server[p].data[f] = AllTapsCounted(p)[f]

(* getDocument "attempts to provide up-to-date data when possible by waiting
   for data from the server" (FIRDocumentReference.h): a read that began its
   listen and waited for a snapshot sees every commit made before it began.  A
   snapshot that was on its way when the listen began does not answer it.  (A
   read that joins a listen may be answered by a snapshot older than itself.) *)
ReadsAreFresh ==
  [][\A d \in Devices :
       (watch[d] # NoSnapshot /\ watch'[d] = NoSnapshot /\ online'[d] = "Online")
       => \A p \in Pets : \A i \in DOMAIN gets[d][p] :
            \/ gets'[d][p] = gets[d][p]
            \/ cache'[d][p].version >= gets[d][p][i].since]_vars

(* No update revives a deleted pet, however late it arrives: it comes back only
   through an addDocument that is still queued, that is, sent again after its
   acknowledgement was lost. *)
DeletedPetsStayDeleted ==
  [][\A p \in Pets :
       (/\ server[p].version > 0
        /\ ~Exists(server[p])
        /\ \A d \in Devices : SetData(p, NewPet) \notin {queue[d][i] : i \in DOMAIN queue[d]})
       => ~Exists(server'[p])]_vars

(* README.md: the app is for "keep[ing] track of ... how many treats they got".
   Once nothing is pending anywhere, and if nobody took a treat back, the
   server counts every treat tap. *)
TreatsAreCounted ==
  (Settled /\ "updateTreatsDown" \notin UserOps) =>
    \A p \in InitPets : Exists(server[p]) =>
      server[p].data.treats = hist[p].tally.treats

(* README.md: "You no longer have to ask your housemates whether your pet was
   fed or not".  If every breakfast tap was on an empty circle, and there was
   one, then once nothing is pending anywhere breakfast is recorded. *)
BreakfastIsRecorded ==
  Settled =>
    \A p \in InitPets :
      (/\ Exists(server[p])
       /\ hist[p].marks
       /\ hist[p].tally.breakfast > 0) => server[p].data.breakfast
=================================================================================
