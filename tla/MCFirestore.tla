------------------------------ MODULE MCFirestore ------------------------------
(***************************************************************************)
(* Firestore alone, for TLC: clients that may issue any of the writes the  *)
(* app issues, to any pet, in any order and at any time.                   *)
(***************************************************************************)
EXTENDS Firestore, FiniteSetsExt, TLC

CONSTANT
  MaxCommits   \* bound: commits and queued writes together, the initial one
               \* included; a retry may still commit beyond it

DeviceSymmetry == Permutations(Devices)

(* addDocument, delete, a meal marked, a treat counted. *)
ClientWrites ==
  UNION {{SetData(p, NewPet), DeleteDocument(p),
          UpdateData(p, {"breakfast"}, [NewPet EXCEPT !.breakfast = TRUE]),
          UpdateData(p, {"treats"}, [NewPet EXCEPT !.treats = 1])} : p \in Pets}

Queued == MapThenSumSet(LAMBDA d : Len(queue[d]), Devices)

ClientNext ==
  \E d \in Devices :
    \/ Network(d)
    \/ /\ commit + Queued < MaxCommits
       /\ \E m \in ClientWrites : WriteMutations(d, m)

MCSpec == StoreInit /\ [][ClientNext]_storeVars

(* Reconnecting streams are retried with backoff for as long as they are
   needed, and the server answers: the streams of a device never stay idle. *)
NetworkFairness ==
  \A d \in Devices :
    /\ WF_storeVars(ServerHandlesWrite(d))
    /\ WF_storeVars(HandleSuccessfulWrite(d))
    /\ WF_storeVars(HandleRejectedWrite(d))
    /\ WF_storeVars(SendSnapshot(d))
    /\ WF_storeVars(ApplyRemoteEvent(d))

FairSpec == MCSpec /\ NetworkFairness

(* The devices converge: every device keeps coming to hold the server's version
   of every pet, through stream failures and restarts, with no further tap
   needed (an entry guessed from an acknowledgement is confirmed by watch). *)
DevicesConverge ==
  \A d \in Devices, p \in Pets : []<>(cache[d][p] = server[p])

(* No write is stuck: a device's queue keeps running empty, or at least writes
   keep leaving it, also when one of them is rejected, the write stream breaks
   or the app is killed meanwhile. *)
WritesLeaveTheQueue ==
  \A d \in Devices :
    \/ []<>(queue[d] = <<>>)
    \/ []<><<Len(queue'[d]) < Len(queue[d])>>_queue
=================================================================================
