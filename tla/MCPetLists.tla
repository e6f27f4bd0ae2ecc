------------------------------- MODULE MCPetLists -------------------------------
(***************************************************************************)
(* The lists of a phone for TLC: the writes the app makes, a bounded       *)
(* number of them.                                                         *)
(***************************************************************************)
EXTENDS PetLists, MCFirestore

CONSTANTS
  Kinds,      \* the writes: "set", "delete", "breakfast", "treats"
  MaxItems    \* bound: items on the main queue when the user taps

ListWrites ==
  {m \in ClientWrites : IF m.type = "patch" THEN m.mask \cap Kinds # {}
                                          ELSE m.type \in Kinds}

MayWrite == commit + Queued < MaxCommits

MayTap(d) == MayWrite /\ Len(main[d]) <= MaxItems

BoundedListsNext ==
  \/ \E d \in Devices :
       \/ OnAppear(d)
       \/ RunMainQueue(d)
       \/ AddQueryListener(d)
       \/ ListsAnswer(d)
       \/ ListsSnapshot(d)
       \/ ListsStreamClose(d)
       \/ OnlineStateTimeout(d)
       \/ ListsServerStep(d)
       \/ Relaunch(d)
       \/ MayTap(d) /\ \E m \in ListWrites : UserWrites(d, m)
  \/ MayWrite /\ \E m \in ListWrites : HousemateWrites(m)

(* The main queue and the worker queue run what is put on them and the timer
   fires.  Nothing is asked of the network. *)
PhoneFairness ==
  \A d \in Devices :
    /\ WF_vars(RunMainQueue(d))
    /\ WF_vars(AddQueryListener(d))
    /\ WF_vars(OnlineStateTimeout(d))

FairListsSpec == Init /\ [][BoundedListsNext]_vars /\ PhoneFairness

(* The streams of the phone never stay idle. *)
ListsNetworkFairness ==
  \A d \in Devices :
    /\ WF_vars(ListsAnswer(d))
    /\ WF_vars(ListsSnapshot(d))
    /\ WF_vars(ServerHandlesWrite(d) /\ UNCHANGED listVars)
    /\ WF_vars(view[d].open /\ SendSnapshot(d) /\ UNCHANGED listVars)

(* Every list of a phone that reaches the network keeps coming to show the
   server's pets: no change is kept back for good, not even one that an answer
   to a write made and the view waits for watch to confirm. *)
ListsShowTheServer ==
  ListsNetworkFairness =>
    \A d \in Devices :
      []<>(\A i \in DOMAIN lists[d] : \A p \in Pets :
             /\ lists[d][i].pets[p].shown = Exists(server[p])
             /\ lists[d][i].pets[p].data = server[p].data)
================================================================================
