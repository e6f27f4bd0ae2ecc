---------------------------- MODULE MCWatchTargets ----------------------------
(* One phone that lists the pets and reads one of them, for TLC. *)
EXTENDS WatchTargets

CONSTANTS koda, teddy

(* All pets exist at first; the phone is new, or was in sync then. *)
MCInit     == Init /\ history[1] = Pets
MCSpec     == MCInit /\ [][Next]_vars
MCFairSpec == MCSpec /\ Fairness
================================================================================
