------------------------------- MODULE Firestore -------------------------------
(***************************************************************************)
(* The part of Firestore the app relies on: the collection on the server,  *)
(* and on every device the persisted queue of unacknowledged writes, the   *)
(* persisted cache of server documents, the write stream and the watch     *)
(* stream.  The client is modelled from Pods/FirebaseFirestore; the server *)
(* is outside the repository and is modelled from what the client expects  *)
(* of it: commits get increasing versions, a device's writes are handled   *)
(* in order, watch snapshots are consistent, and a write whose             *)
(* acknowledgement is lost is sent, and may be applied, again.             *)
(***************************************************************************)
EXTENDS PetDocuments

CONSTANTS
  Devices,            \* the housemates' phones
  InitPets,           \* the pets that exist at the start
  Installed,          \* the phones that hold them; the others launch for the
                      \* first time
  kMaxPendingWrites,  \* how many queued writes are on the write stream at once
  MaxFaults           \* bound: stream failures and app restarts in a behaviour

ASSUME FirestoreAssumption ==
  /\ InitPets \subseteq Pets
  /\ Installed \subseteq Devices
  /\ kMaxPendingWrites \in Nat \ {0}
  /\ MaxFaults \in Nat

VARIABLES
  server,   \* pet -> the document on the server
  commit,   \* the version of the latest commit
  queue,    \* device -> MutationQueue, oldest write first (persisted)
  results,  \* device -> answers on the write stream, to queue[1], queue[2], ...
  cache,    \* device -> pet -> RemoteDocumentCache entry (persisted)
  snapver,  \* device -> last remote snapshot version (persisted)
  watch,    \* device -> the snapshot in flight on the watch stream, at most one
  online,   \* device -> OnlineState
  faults    \* faults so far

serverVars == <<server, commit>>
writeVars  == <<queue, results>>
watchVars  == <<snapver, watch, online>>
storeVars  == <<server, commit, queue, results, cache, snapver, watch, online,
                faults>>

Result   == [ok : BOOLEAN, version : Nat]
Snapshot == [version : Nat, docs : [Pets -> MaybeDocument]]

(* Every snapshot has a version above 0, so this is none. *)
NoSnapshot == [version |-> 0, docs |-> [p \in Pets |-> Absent]]

InitDocument(p) == IF p \in InitPets THEN Document(NewPet, 1) ELSE Absent

StoreInit ==
  /\ server  = [p \in Pets |-> InitDocument(p)]
  /\ commit  = 1
  /\ queue   = [d \in Devices |-> <<>>]
  /\ results = [d \in Devices |-> <<>>]
  /\ cache   = [d \in Devices |-> [p \in Pets |->
                  IF d \in Installed THEN InitDocument(p) ELSE Absent]]
  /\ snapver = [d \in Devices |-> IF d \in Installed THEN 1 ELSE 0]
  /\ watch   = [d \in Devices |-> NoSnapshot]
  /\ online  = [d \in Devices |-> "Unknown"]
  /\ faults  = 0

(* What device d shows and reads of pet p. *)
View(d, p) == GetDocument(queue[d], cache[d][p], p)

---------------------------------------------------------------------------------
(***************************************************************************)
(* Writes.                                                                 *)
(***************************************************************************)

(* LocalStore::WriteLocally: the write is queued and shown at once. *)
WriteMutations(d, m) ==
  /\ queue' = [queue EXCEPT ![d] = Append(@, m)]
  /\ UNCHANGED <<server, commit, results, cache, snapver, watch, online, faults>>

(* A write that leaves the document as it is has no new version; a delete
   always has one. *)
IsNoOp(m) == m.type # "delete" /\ Exists(server[m.pet])
             /\ Mutated(m, server[m.pet], 0).data = server[m.pet].data

(* The writes of d the server has yet to answer, in the order of the stream.
   After an error the stream is closed: nothing behind it is handled. *)
Unanswered(d) ==
  {i \in DOMAIN queue[d] : i = Len(results[d]) + 1 /\ i <= kMaxPendingWrites}

StreamIsOpen(d) == \A i \in DOMAIN results[d] : results[d][i].ok

Answer(d, ok, v) ==
  results' = [results EXCEPT ![d] = Append(@, [ok |-> ok, version |-> v])]

(* The server handles the next write on d's stream. *)
ServerHandlesWrite(d) ==
  /\ StreamIsOpen(d)
  /\ \E i \in Unanswered(d) :
       LET m == queue[d][i]
       IN \/ /\ ~IsValidFor(m, server[m.pet])        \* NOT_FOUND
             /\ Answer(d, FALSE, 0)
             /\ UNCHANGED serverVars
          \/ /\ IsValidFor(m, server[m.pet])
             /\ IsNoOp(m)
             /\ Answer(d, TRUE, server[m.pet].version)
             /\ UNCHANGED serverVars
          \/ /\ IsValidFor(m, server[m.pet])
             /\ ~IsNoOp(m)
             /\ commit' = commit + 1
             /\ server' = [server EXCEPT ![m.pet] = Mutated(m, @, commit + 1)]
             /\ Answer(d, TRUE, commit + 1)
  /\ UNCHANGED <<queue, cache, snapver, watch, online, faults>>

(* Mutant of ApplyBatchResult: an acknowledged write is only dropped from the
   queue. *)
AcknowledgeOnly(m, doc, ackVersion) == doc

(* LocalStore::ApplyBatchResult: the cache takes the write's effect unless it
   already holds that version or a later one. *)
ApplyBatchResult(m, doc, ackVersion) ==
  IF doc.version < ackVersion THEN ApplyToRemoteDocument(m, doc, ackVersion)
                              ELSE doc

(* Mutant of PopWrite: the answer stays on the stream. *)
PopQueueOnly(d) ==
  /\ queue' = [queue EXCEPT ![d] = Tail(@)]
  /\ UNCHANGED results

(* The answer at the front of the stream belongs to the oldest queued write. *)
PopWrite(d) ==
  /\ queue'   = [queue EXCEPT ![d] = Tail(@)]
  /\ results' = [results EXCEPT ![d] = Tail(@)]

HandleSuccessfulWrite(d) ==
  /\ results[d] # <<>>
  /\ Head(results[d]).ok
  /\ PopWrite(d)
  /\ LET m == Head(queue[d])
     IN cache' = [cache EXCEPT ![d][m.pet] =
                    ApplyBatchResult(m, @, Head(results[d]).version)]
  /\ UNCHANGED <<server, commit, snapver, watch, online, faults>>

(* Mutant of HandleRejectedWrite: a rejected write stays in the queue. *)
RetryRejectedWrite(d) ==
  /\ results[d] # <<>>
  /\ ~Head(results[d]).ok
  /\ results' = [results EXCEPT ![d] = Tail(@)]
  /\ UNCHANGED <<server, commit, queue, cache, snapver, watch, online, faults>>

HandleRejectedWrite(d) ==
  /\ results[d] # <<>>
  /\ ~Head(results[d]).ok
  /\ PopWrite(d)
  /\ UNCHANGED <<server, commit, cache, snapver, watch, online, faults>>

(* A transient error: the answers in flight are lost, and after the next
   handshake the whole pipeline is written again. *)
OnWriteStreamClose(d) ==
  /\ faults < MaxFaults
  /\ results[d] # <<>>
  /\ results' = [results EXCEPT ![d] = <<>>]
  /\ faults'  = faults + 1
  /\ UNCHANGED <<server, commit, queue, cache, snapver, watch, online>>

---------------------------------------------------------------------------------
(***************************************************************************)
(* Watch.  A deleted pet is sent as a NoDocument at the version of its     *)
(* delete: the client stamps it with the snapshot's version, which no      *)
(* comparison can tell apart, no commit of the pet lying between the two.  *)
(***************************************************************************)

(* The server sends d everything committed so far. *)
SendSnapshot(d) ==
  /\ watch[d] = NoSnapshot
  /\ watch' = [watch EXCEPT ![d] = [version |-> commit, docs |-> server]]
  /\ UNCHANGED <<server, commit, queue, results, cache, snapver, online, faults>>

(* Mutants of ApplyUpdate: only later versions are taken; any version is. *)
ApplyOnlyLater(doc, existing) ==
  IF doc.version > existing.version THEN doc ELSE existing

ApplyAnyVersion(doc, existing) == doc

(* LocalStore::ApplyRemoteEvent, for one document: later versions are taken,
   and so is the version an acknowledgement only guessed the content of. *)
ApplyUpdate(doc, existing) ==
  IF \/ doc.version > existing.version
     \/ doc.version = existing.version /\ existing.committed
    THEN doc
    ELSE existing

ApplyRemoteEvent(d) ==
  /\ watch[d] # NoSnapshot
  /\ online' = [online EXCEPT ![d] = "Online"]
  /\ cache' = [cache EXCEPT ![d] =
                 [p \in Pets |-> ApplyUpdate(watch[d].docs[p], cache[d][p])]]
  /\ snapver' = [snapver EXCEPT ![d] = watch[d].version]
  /\ watch' = [watch EXCEPT ![d] = NoSnapshot]
  /\ UNCHANGED <<server, commit, queue, results, faults>>

(* OnlineStateTracker: a first failure only casts doubt, the next one, or ten
   seconds without an answer, means offline. *)
AfterFailure(state) == IF state = "Online" THEN "Unknown" ELSE "Offline"

OnWatchStreamClose(d) ==
  /\ faults < MaxFaults
  /\ online' = [online EXCEPT ![d] = AfterFailure(@)]
  /\ watch'  = [watch EXCEPT ![d] = NoSnapshot]
  /\ faults' = faults + 1
  /\ UNCHANGED <<server, commit, queue, results, cache, snapver>>

(* The app is killed and launched again: LevelDB keeps the queue, the cache
   and the snapshot version. *)
Restart(d) ==
  /\ faults < MaxFaults
  /\ results' = [results EXCEPT ![d] = <<>>]
  /\ watch'   = [watch EXCEPT ![d] = NoSnapshot]
  /\ online'  = [online EXCEPT ![d] = "Unknown"]
  /\ faults'  = faults + 1
  /\ UNCHANGED <<server, commit, queue, cache, snapver>>

---------------------------------------------------------------------------------
Network(d) ==
  \/ ServerHandlesWrite(d)
  \/ HandleSuccessfulWrite(d)
  \/ HandleRejectedWrite(d)
  \/ OnWriteStreamClose(d)
  \/ SendSnapshot(d)
  \/ ApplyRemoteEvent(d)
  \/ OnWatchStreamClose(d)
  \/ Restart(d)

StoreNext ==
  \E d \in Devices : \/ Network(d)
                     \/ \E m \in Mutation : WriteMutations(d, m)

StoreSpec == StoreInit /\ [][StoreNext]_storeVars

---------------------------------------------------------------------------------
(***************************************************************************)
(* Properties.                                                             *)
(***************************************************************************)

StoreTypeOK ==
  /\ server  \in [Pets -> MaybeDocument]
  /\ commit  \in Nat
  /\ queue   \in [Devices -> Seq(Mutation)]
  /\ results \in [Devices -> Seq(Result)]
  /\ cache   \in [Devices -> [Pets -> MaybeDocument]]
  /\ snapver \in [Devices -> Nat]
  /\ watch   \in [Devices -> Snapshot]
  /\ online  \in [Devices -> {"Unknown", "Online", "Offline"}]
  /\ faults  \in 0 .. MaxFaults

(* Once a device has received a snapshot that covers the last commit of a pet,
   its cache holds exactly the server's document, whatever acknowledgements,
   old snapshots, retries and restarts came in between (the version tests of
   LocalStore::ApplyBatchResult and ApplyRemoteEvent). *)
CacheCatchesUp ==
  \A d \in Devices, p \in Pets :
    server[p].version <= snapver[d] => cache[d][p] = server[p]

(* A device never replaces what it knows of a pet by an older version of it,
   in whatever order acknowledgements and snapshots arrive. *)
CacheNeverRegresses ==
  [][\A d \in Devices, p \in Pets :
       cache'[d][p].version >= cache[d][p].version]_cache

(* Every answer on a write stream is for a write that is still queued on the
   device: OnWriteStreamMutationResult pairs it with the front of the pipeline
   ("Got result for empty write pipeline" never fires), even after stream
   failures and restarts. *)
AnswersMatchQueue ==
  \A d \in Devices : Len(results[d]) <= Len(queue[d])

(* A device that knows of a pet's latest commit and finds the pet deleted does
   not show it, not even under updates it queued before it knew: updateData
   requires the document to exist. *)
NoGhostPets ==
  \A d \in Devices, p \in Pets :
    (/\ cache[d][p].version = server[p].version
     /\ ~Exists(server[p])
     /\ \A i \in WritesOf(queue[d], p) : queue[d][i].type # "set")
    => ~Exists(View(d, p))

(* The acknowledgement of a device's own write changes nothing the user sees
   (no flicker back to the value before the write), unless the cache already
   holds what the server made of it or of a later write. *)
NoFlicker ==
  [][\A d \in Devices :
       (/\ HandleSuccessfulWrite(d)
        /\ LET p == Head(queue[d]).pet
           IN cache[d][p].version < Head(results[d]).version)
       => \A p \in Pets :
            /\ Exists(View(d, p)') = Exists(View(d, p))
            /\ Exists(View(d, p)) => View(d, p)'.data = View(d, p).data]_storeVars
=================================================================================
