------------------------------- MODULE MCSession -------------------------------
(* One phone, for TLC. *)
EXTENDS Session, TLC

CONSTANT
  MaxEvents   \* bound: sign-ins, faults, refreshes and both ends of taps together

BoundedNext ==
  Next /\ signIns' + 2 * taps' + faults' + refreshes' <= MaxEvents

MCSpec == Init /\ [][BoundedNext]_vars

(* Safety treats the users alike. *)
Symmetry == Permutations(Users)

(* One queue each of FIRAuth, of the main thread and of the client's worker: the
   task at its head is run. *)
WorkQueueOfAuth == (LoadUser \/ AuthTakesRequest) /\ UNCHANGED appVars

MainQueue == (Provider /\ UNCHANGED appVars) \/ Completed

WorkQueueOfClient ==
  /\ \/ Initialize
     \/ HandleCredentialChange
     \/ WriteMutations
     \/ ResumeStartWithCredentials
  /\ UNCHANGED appVars

(* The three queues run what was put on them; FIRAuth and the server answer; the
   back-off elapses; a home screen that is shown makes its view models. *)
Fairness ==
  /\ WF_vars(WorkQueueOfAuth)
  /\ WF_vars(MainQueue)
  /\ WF_vars(WorkQueueOfClient)
  /\ WF_vars(AuthAnswersRequest /\ UNCHANGED appVars)
  /\ WF_vars(OnWriteStreamMutationResult /\ UNCHANGED appVars)
  /\ WF_vars(BackoffElapsed /\ UNCHANGED appVars)
  /\ WF_vars(ShowHome)

FairSpec == MCSpec /\ Fairness

(* The client comes to work for the user FIRAuth has, whoever that was at the
   launch and however often it changed: the notification is never missed,
   although the user is read, announced and listened for at different times. *)
ClientFollowsAuth ==
  \A u \in Accounts :
    <>[](user = u /\ told.user # None) => <>[](client = u)

(* The taps of a user are sent once she is signed in, those that her last
   log-out or a kill left in her queue included. *)
WritesAreSent ==
  \A u \in Accounts : <>[](client = u) => <>[](queues[u] = <<>>)
=================================================================================
