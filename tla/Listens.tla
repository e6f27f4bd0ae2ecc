-------------------------------- MODULE Listens --------------------------------
(***************************************************************************)
(* What the client promises its listeners, whatever the network does: a    *)
(* listen that is in sync has exactly the pets the server had at one       *)
(* moment, all listens that a snapshot brings in sync had them at the same *)
(* moment, and no snapshot is of an earlier moment than one before it.     *)
(***************************************************************************)
EXTENDS PetQueries, Naturals, Sequences

VARIABLES
  history,   \* the pets on the server after each commit
  listened,  \* the queries somebody listens to
  insync,    \* those of them that are in sync with the server
  version,   \* query -> the commit its pets are of
  keys,      \* query -> its pets
  latest     \* the version of the latest snapshot

listensVars == <<history, listened, insync, version, keys, latest>>

Init ==
  /\ history \in [{1} -> SUBSET Pets]
  /\ listened = {}
  /\ insync   = {}
  /\ version \in [UserTargets -> Nat]
  /\ keys \in [UserTargets -> SUBSET Pets]
  /\ latest \in Nat

Commit ==
  /\ \E S \in SUBSET Pets : history' = Append(history, S)
  /\ UNCHANGED <<listened, insync, version, keys, latest>>

Kept(t) == version'[t] = version[t] /\ keys'[t] = keys[t]

BroughtTo(t, v) == version'[t] = v /\ keys'[t] = Matching(t, history[v])

(* A listen starts with what the phone still knows, and never in sync. *)
Listen(t) ==
  /\ t \notin listened
  /\ listened' = listened \cup {t}
  /\ \A u \in insync : Kept(u)
  /\ UNCHANGED <<history, insync, latest>>

StopListening(t) ==
  /\ t \in listened
  /\ listened' = listened \ {t}
  /\ insync'   = insync \ {t}
  /\ \A u \in insync' : Kept(u)
  /\ UNCHANGED <<history, latest>>

(* A snapshot of commit v: every listen comes in sync at v, stays in sync where
   it was, or falls out of sync. *)
Snapshot ==
  /\ \E v \in DOMAIN history :
       /\ latest <= v
       /\ latest' = v
       /\ insync' \subseteq listened
       /\ \A t \in insync' : BroughtTo(t, v) \/ (t \in insync /\ Kept(t))
  /\ UNCHANGED <<history, listened>>

(* The phone finds that it is offline. *)
GoOffline ==
  /\ insync' = {}
  /\ UNCHANGED <<history, listened, version, keys, latest>>

(* The app is killed; it will be launched again. *)
Relaunch ==
  /\ listened' = {}
  /\ insync'   = {}
  /\ UNCHANGED <<history, latest>>

Next ==
  \/ Commit
  \/ \E t \in UserTargets : Listen(t) \/ StopListening(t)
  \/ Snapshot
  \/ GoOffline
  \/ Relaunch

Spec == Init /\ [][Next]_listensVars

---------------------------------------------------------------------------------
(***************************************************************************)
(* What the promise comes to.                                              *)
(***************************************************************************)

(* A listen in sync has the pets of one commit, all of them and no other, and
   no snapshot was of a commit before it. *)
InSyncIsOneCommit ==
  \A t \in insync :
    /\ t \in listened
    /\ version[t] \in DOMAIN history
    /\ version[t] <= latest
    /\ keys[t] = Matching(t, history[version[t]])

(* No listener is taken back to an earlier commit while its listen stays in
   sync, whichever snapshots pass it by. *)
InSyncNeverGoesBack ==
  [][\A t \in insync \cap insync' : version[t] <= version'[t]]_listensVars
================================================================================
