------------------------------ MODULE MCPetCards ------------------------------
(* The home screens of a few phones, for TLC. *)
EXTENDS PetCards, TLC

DeviceSymmetry == Permutations(Devices)

(* The main queue runs its blocks; streams are retried for as long as they are
   needed, and the server answers.  Nobody has to tap. *)
Fairness ==
  \A d \in Devices :
    /\ \A p \in Pets : /\ WF_vars(GotDocument(d, p))
                      /\ WF_vars(UpdateBlock(d, p))
                      /\ WF_vars(DeletedBlock(d, p))
    /\ WF_vars(FetchData(d))
    /\ WF_vars(ServerHandlesWrite(d) /\ UNCHANGED appVars)
    /\ WF_vars(Acknowledged(d))
    /\ WF_vars(Rejected(d))
    /\ WF_vars(SnapshotSent(d))
    /\ WF_vars(SnapshotReceived(d))

FairSpec == Spec /\ Fairness

(* Every tap is answered: no getDocument waits for ever, whichever taps share
   its listen and whatever happens to the connection meanwhile. *)
TapsAreAnswered ==
  \A d \in Devices, p \in Pets : (gets[d][p] # <<>>) ~> (gets[d][p] = <<>>)
=================================================================================
