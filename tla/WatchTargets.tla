----------------------------- MODULE WatchTargets -----------------------------
(***************************************************************************)
(* How the client of one phone keeps what it listens to in sync with the   *)
(* server: RemoteStore and its watch stream, WatchChangeAggregator, the    *)
(* target cache of LocalStore, the views and the limbo resolutions of      *)
(* SyncEngine.  Module Firestore takes for granted that a snapshot arrives *)
(* whole and is consistent; here it is put together from the messages of   *)
(* the stream, some of which belong to listens that ended long ago.        *)
(*                                                                         *)
(* Documents are present or not, and of a version; what is in them, and    *)
(* the writes of this phone, are module Firestore's.  The server is        *)
(* outside the repository: it answers the requests about a target in       *)
(* order, sends a global snapshot only when all it knows of is up to date, *)
(* and, asked to resume from a token too old to tell what was removed      *)
(* since, sends the count of the pets that match (an existence filter)     *)
(* before the next snapshot.                                               *)
(***************************************************************************)
EXTENDS PetQueries, Integers, Sequences, FiniteSets

CONSTANTS
  OldTokens,   \* whether a token may be too old for the server
  MaxEvents,   \* bound: commits after the first, stream failures, restarts,
               \* resets and relaunches, taken together
  MaxListens,  \* bound: listens in a behaviour
  MaxDown      \* bound: messages in flight to the phone

ASSUME WatchTargetsAssumption ==
  /\ OldTokens \in BOOLEAN
  /\ MaxEvents \in Nat /\ MaxListens \in Nat /\ MaxDown \in Nat

VARIABLES
  history,   \* server: the pets after each commit
  clock,     \* server: the commit this stream is served at; it may lag behind
  srv,       \* server: what it knows of each target of this stream
  up,        \* target -> requests on the stream; those of two targets commute
  down,      \* responses on the stream
  stream,    \* the watch stream
  idle,      \* its idleness timer is running
  online,    \* OnlineStateTracker
  listened,  \* RemoteStore::listen_targets_
  token,     \* the resume tokens in there; 0 is the empty one
  states,    \* WatchChangeAggregator::target_states_
  updates,   \* WatchChangeAggregator::pending_document_updates_
  resets,    \* WatchChangeAggregator::pending_target_resets_
  local,     \* LocalStore::target_data_by_target_: tokens in memory
  stored,    \* TargetCache: tokens on disk
  keys,      \* TargetCache: matching keys; View::synced_documents_
  cache,     \* RemoteDocumentCache
  snapver,   \* TargetCache: last remote snapshot version
  current,   \* the views whose current_ is set
  limbo,     \* View::limbo_documents_
  received,  \* limbo resolutions with document_received
  listens,   \* listens so far
  faults,    \* faults so far
  spoilt     \* history: targets resumed from a token their keys are not of

serverVars == <<history, clock, srv>>
streamVars == <<up, down, stream, idle>>
aggregator == <<states, updates, resets>>
storeVars  == <<local, stored, keys, cache, snapver>>
viewVars   == <<current, limbo, received>>
vars == <<serverVars, streamVars, online, listened, token, aggregator,
          storeVars, viewVars, listens, faults, spoilt>>

---------------------------------------------------------------------------------
TargetState == [known : BOOLEAN, out : Int, current : BOOLEAN,
                added : SUBSET Pets, modified : SUBSET Pets,
                removed : SUBSET Pets]

NewState == [known |-> TRUE, out |-> 0, current |-> FALSE,
             added |-> {}, modified |-> {}, removed |-> {}]

(* No entry for the target. *)
NoState == [NewState EXCEPT !.known = FALSE]

Request    == [kind : {"watch", "unwatch"}, token : Nat]
Watch(tok) == [kind |-> "watch", token |-> tok]
Unwatch    == [kind |-> "unwatch", token |-> 0]

ServerState == [on : BOOLEAN, at : Nat, told : BOOLEAN, blind : BOOLEAN, sent : Nat]

Off == [on |-> FALSE, at |-> 0, told |-> FALSE, blind |-> FALSE, sent |-> 0]

(* The pets of t at commit v; before the first commit there are none. *)
PetsAt(t, v) == IF v \in DOMAIN history THEN Matching(t, history[v]) ELSE {}

(* What the phone knows of a pet. *)
DocumentState == [is : {"none", "Document", "NoDocument"}, version : Nat]

Unknown       == [is |-> "none", version |-> 0]
Document(v)   == [is |-> "Document", version |-> v]
NoDocument(v) == [is |-> "NoDocument", version |-> v]
Forgotten     == NoDocument(0)

Nothing == [p \in Pets |-> Unknown]

(* Mutant of FreshAggregator: the states outlive the stream. *)
KeepStates ==
  /\ updates' = Nothing
  /\ resets'  = {}
  /\ UNCHANGED states

FreshAggregator ==
  /\ states'  = [t \in Targets |-> NoState]
  /\ updates' = Nothing
  /\ resets'  = {}

FreshStream ==
  /\ clock' = 0
  /\ srv'   = [t \in Targets |-> Off]
  /\ up'    = [t \in Targets |-> <<>>]
  /\ down'  = <<>>
  /\ idle'  = FALSE
  /\ FreshAggregator

(* A new installation, or a phone that was in sync at the first commit. *)
Init ==
  /\ history \in [{1} -> SUBSET Pets]
  /\ clock = 0
  /\ srv   = [t \in Targets |-> Off]
  /\ up    = [t \in Targets |-> <<>>]
  /\ down  = <<>>
  /\ stream = "off"
  /\ idle   = FALSE
  /\ online = "Unknown"
  /\ listened = {}
  /\ token   = [t \in Targets |-> 0]
  /\ states  = [t \in Targets |-> NoState]
  /\ updates = Nothing
  /\ resets  = {}
  /\ snapver \in {0, 1}
  /\ stored = [t \in UserTargets |-> snapver]
  /\ local  = stored
  /\ keys   = [t \in UserTargets |-> PetsAt(t, snapver)]
  /\ cache  = [p \in Pets |-> IF snapver = 1 /\ p \in history[1]
                                THEN Document(1) ELSE Unknown]
  /\ current  = {}
  /\ limbo    = [t \in UserTargets |-> {}]
  /\ received = {}
  /\ listens  = 0
  /\ faults   = 0
  /\ spoilt   = {}

---------------------------------------------------------------------------------
(***************************************************************************)
(* RemoteStore: requests.                                                  *)
(***************************************************************************)

MayHappen == (Len(history) - 1) + faults < MaxEvents

NoRequests == [t \in Targets |-> <<>>]

(* SendWatchRequest, SendUnwatchRequest: every request is one more response
   that is due before the target's messages count again. *)
Send(base, requests) ==
  /\ up' = [t \in Targets |-> up[t] \o requests[t]]
  /\ states' = [t \in Targets |->
       IF requests[t] = <<>> THEN base[t]
       ELSE [base[t] EXCEPT !.known = TRUE, !.out = @ + Len(requests[t])]]

(* The limbo resolutions that the views ask for. *)
Wanted(limbos, targets) ==
  {Limbo(p) : p \in UNION {limbos[t] : t \in targets \cap UserTargets}}

(* SyncEngine::Listen for a query nobody listens to yet, with
   LocalStore::AllocateTarget and RemoteStore::Listen. *)
Listen(t) ==
  /\ listens < MaxListens
  /\ t \in UserTargets \ listened
  /\ listens'  = listens + 1
  /\ listened' = listened \cup {t}
  /\ token' = [token EXCEPT ![t] = stored[t]]
  /\ local' = [local EXCEPT ![t] = stored[t]]
  /\ \/ /\ stream = "off"
        /\ stream' = "starting"
        /\ online' = "Unknown"
        /\ FreshAggregator
        /\ UNCHANGED <<up, idle>>
     \/ /\ stream = "starting"
        /\ UNCHANGED <<stream, online, aggregator, up, idle>>
     \/ /\ stream = "open"
        /\ Send(states, [NoRequests EXCEPT ![t] = <<Watch(stored[t])>>])
        /\ idle' = FALSE
        /\ UNCHANGED <<stream, online, updates, resets>>
  /\ UNCHANGED <<serverVars, down, stored, keys, cache, snapver, viewVars, faults,
                 spoilt>>

(* SyncEngine::StopListening when the last listener of a pet has gone, with
   LocalStore::ReleaseTarget and RemoteStore::StopListening.  The app removes
   no listener of the collection. *)
StopListening(t) ==
  /\ t \in listened \cap UserTargets
  /\ t # Collection
  /\ stored'  = [stored EXCEPT ![t] = local[t]]
  /\ current' = current \ {t}
  /\ limbo'   = [limbo EXCEPT ![t] = {}]
  /\ LET gone == {t} \cup ((listened \cap LimboTargets) \ Wanted(limbo', listened))
     IN /\ listened' = listened \ gone
        /\ token'    = [u \in Targets |-> IF u \in gone THEN 0 ELSE token[u]]
        /\ received' = received \ gone
        /\ \/ /\ stream = "open"
              /\ Send(states, [u \in Targets |-> IF u \in gone THEN <<Unwatch>>
                                                              ELSE <<>>])
              /\ idle' = (listened' = {})
              /\ UNCHANGED online
           \/ /\ stream # "open"
              /\ online' = IF listened' = {} THEN "Unknown" ELSE online
              /\ UNCHANGED <<up, states, idle>>
  /\ UNCHANGED <<serverVars, down, stream, updates, resets, local, keys, cache,
                 snapver, listens, faults, spoilt>>

---------------------------------------------------------------------------------
(***************************************************************************)
(* The life of the stream.                                                 *)
(***************************************************************************)

OnWatchStreamOpen ==
  /\ stream = "starting"
  /\ stream' = "open"
  /\ clock' \in DOMAIN history
  /\ Send(states, [t \in Targets |-> IF t \in listened THEN <<Watch(token[t])>>
                                                        ELSE <<>>])
  /\ UNCHANGED <<history, srv, down, idle, online, listened, token, updates,
                 resets, storeVars, viewVars, listens, faults, spoilt>>

(* Views fall out of sync when the phone is found to be offline. *)
SetAndBroadcast(state) ==
  /\ online'  = state
  /\ current' = IF state = "Offline" THEN {} ELSE current

(* A failure without an answer since the last one means offline. *)
AfterFailure(state) == IF state = "Online" THEN "Unknown" ELSE "Offline"

OnWatchStreamClose ==
  /\ MayHappen
  /\ stream # "off"
  /\ faults' = faults + 1
  /\ FreshStream
  /\ \/ /\ listened # {}
        /\ SetAndBroadcast(AfterFailure(online))
        /\ stream' = "starting"
     \/ /\ listened = {}
        /\ SetAndBroadcast("Unknown")
        /\ stream' = "off"
  /\ UNCHANGED <<history, listened, token, storeVars, limbo, received, listens,
                 spoilt>>

(* RestartNetwork, for another user or a change of connectivity. *)
RestartNetwork ==
  /\ MayHappen
  /\ faults' = faults + 1
  /\ FreshStream
  /\ stream' = IF listened # {} THEN "starting" ELSE "off"
  /\ SetAndBroadcast("Unknown")
  /\ UNCHANGED <<history, listened, token, storeVars, limbo, received, listens,
                 spoilt>>

(* Ten seconds without an answer. *)
OnlineStateTimeout ==
  /\ stream # "off" /\ listened # {}
  /\ online = "Unknown"
  /\ SetAndBroadcast("Offline")
  /\ UNCHANGED <<serverVars, streamVars, listened, token, aggregator, storeVars,
                 limbo, received, listens, faults, spoilt>>

(* Sixty seconds without a listen: the stream is closed. *)
IdleTimeout ==
  /\ stream = "open" /\ idle
  /\ stream' = "off"
  /\ FreshStream
  /\ SetAndBroadcast("Unknown")
  /\ UNCHANGED <<history, listened, token, storeVars, limbo, received, listens,
                 faults, spoilt>>

(* The app is killed: LevelDB keeps the target cache and the documents. *)
Relaunch ==
  /\ MayHappen
  /\ faults' = faults + 1
  /\ FreshStream
  /\ stream'   = "off"
  /\ online'   = "Unknown"
  /\ listened' = {}
  /\ token'    = [t \in Targets |-> 0]
  /\ local'    = stored
  /\ current'  = {}
  /\ limbo'    = [t \in UserTargets |-> {}]
  /\ received' = {}
  /\ spoilt'   = spoilt \cup {t \in listened \cap UserTargets :
                                token[t] = 0 /\ stored[t] # 0}
  /\ UNCHANGED <<history, stored, keys, cache, snapver, listens>>

---------------------------------------------------------------------------------
(***************************************************************************)
(* The server, as far as the client relies on it.                          *)
(***************************************************************************)

Latest == history[Len(history)]

Commit ==
  /\ MayHappen
  /\ \E p \in Pets : \E S \in {Latest \cup {p}, Latest \ {p}} :
       S # Latest /\ history' = Append(history, S)
  /\ UNCHANGED <<clock, srv, streamVars, online, listened, token, aggregator,
                 storeVars, viewVars, listens, faults, spoilt>>

ServerAdvances ==
  /\ stream = "open"
  /\ clock < Len(history)
  /\ clock' = clock + 1
  /\ UNCHANGED <<history, srv, streamVars, online, listened, token, aggregator,
                 storeVars, viewVars, listens, faults, spoilt>>

Response == [kind : {"Added", "Removed", "Documents", "Current", "Reset",
                     "Filter", "Snapshot"},
             target : Targets, added : SUBSET Pets, removed : SUBSET Pets,
             number : Nat]

Message(kind, t) ==
  [kind |-> kind, target |-> t, added |-> {}, removed |-> {}, number |-> 0]

(* The server says m and remembers state of the target. *)
Say(m, state) ==
  /\ Len(down) < MaxDown
  /\ srv'  = [srv EXCEPT ![m.target] = state]
  /\ down' = Append(down, m)
  /\ UNCHANGED <<history, clock, stream, idle, online, listened, token,
                 aggregator, storeVars, viewVars, listens, spoilt>>

ServerWatch(t) ==
  /\ up[t] # <<>> /\ Head(up[t]).kind = "watch"
  /\ Head(up[t]).token <= clock
  /\ up' = [up EXCEPT ![t] = Tail(@)]
  /\ LET from == Head(up[t]).token
     IN \E blind \in {FALSE, OldTokens /\ from > 0 /\ snapver <= clock} :
          Say(Message("Added", t),
              [Off EXCEPT !.on = TRUE, !.at = from, !.blind = blind])
  /\ UNCHANGED faults

ServerUnwatch(t) ==
  /\ up[t] # <<>> /\ Head(up[t]).kind = "unwatch"
  /\ up' = [up EXCEPT ![t] = Tail(@)]
  /\ Say(Message("Removed", t), Off)
  /\ UNCHANGED faults

(* The pets of t to send for commit v to who has those of commit u: all that
   were written in between. *)
Written(t, u, v) ==
  {p \in PetsAt(t, v) : u = 0 \/ \E w \in u..v : p \notin history[w]}

(* The version of pet p at commit v: the first commit of those in a row up to v
   that have it. *)
WrittenAt(p, v) ==
  (v + 1) - Cardinality({w \in 1..v : \A u \in w..v : p \in history[u]})

(* What changed for t since it was last told; a blind server cannot say what
   was removed. *)
ServerSendsDocuments(t) ==
  /\ srv[t].on /\ srv[t].at # clock
  /\ LET gone == PetsAt(t, srv[t].at) \ PetsAt(t, clock)
         m    == [Message("Documents", t) EXCEPT
                    !.added   = Written(t, srv[t].at, clock),
                    !.removed = IF srv[t].blind THEN {} ELSE gone,
                    !.number  = clock]
         state == [srv[t] EXCEPT !.at = clock]
     IN IF m.added = {} /\ m.removed = {}
          THEN /\ srv' = [srv EXCEPT ![t] = state]
               /\ UNCHANGED <<history, clock, down, stream, idle, online,
                              listened, token, aggregator, storeVars, viewVars,
                              listens, spoilt>>
          ELSE Say(m, state)
  /\ UNCHANGED <<up, faults>>

ServerSendsCurrent(t) ==
  /\ srv[t].on /\ srv[t].at = clock /\ ~srv[t].told
  /\ Say(Message("Current", t), [srv[t] EXCEPT !.told = TRUE])
  /\ UNCHANGED <<up, faults>>

ServerSendsFilter(t) ==
  /\ srv[t].told /\ srv[t].blind /\ srv[t].at = clock
  /\ Say([Message("Filter", t) EXCEPT !.number = Cardinality(PetsAt(t, clock))],
         [srv[t] EXCEPT !.blind = FALSE])
  /\ UNCHANGED <<up, faults>>

(* The server loses what it knows of t and sends it from the start. *)
ServerReset(t) ==
  /\ MayHappen
  /\ faults' = faults + 1
  /\ srv[t].on
  /\ Say(Message("Reset", t), [Off EXCEPT !.on = TRUE])
  /\ UNCHANGED up

(* The whole stream has reached the consistent snapshot of commit clock. *)
ServerSendsSnapshot ==
  /\ Len(down) < MaxDown
  /\ \E t \in Targets : srv[t].on /\ srv[t].sent # clock
  /\ \A t \in Targets : srv[t].on =>
       srv[t].at = clock /\ srv[t].told /\ ~srv[t].blind
  /\ srv' = [t \in Targets |-> IF srv[t].on THEN [srv[t] EXCEPT !.sent = clock]
                                           ELSE srv[t]]
  /\ down' = Append(down, [Message("Snapshot", Collection) EXCEPT !.number = clock])
  /\ UNCHANGED <<history, clock, up, stream, idle, online, listened, token,
                 aggregator, storeVars, viewVars, listens, faults, spoilt>>

---------------------------------------------------------------------------------
(***************************************************************************)
(* OnWatchStreamChange: one message of the stream.                         *)
(***************************************************************************)

(* Receive the oldest message, if it is of that kind. *)
Receive(kind) ==
  /\ down # <<>> /\ Head(down).kind = kind
  /\ down'   = Tail(down)
  /\ online' = "Online"

(* Messages that leave alone everything but the aggregator. *)
Received(kind) ==
  /\ Receive(kind)
  /\ UNCHANGED <<serverVars, up, stream, idle, listened, token, storeVars,
                 viewVars, listens, faults, spoilt>>

(* Mutant of IsActiveTarget: answers that are due do not matter. *)
IsListened(t) == t \in listened

(* Nothing is due for the target: its messages count. *)
IsActiveTarget(t) == t \in listened /\ ~(states[t].known /\ states[t].out # 0)

(* GetRemoteKeysForTarget *)
RemoteKeys(t) == IF t \in UserTargets THEN keys[t]
                 ELSE {t.path} \cap {p \in Pets : Limbo(p) \in received}

(* AddDocumentToTarget for the pets of A, RemoveDocumentFromTarget for those of
   R: what was sent before the last snapshot is removed, the rest forgotten. *)
Changed(t, state, A, R) ==
  LET K == RemoteKeys(t)
  IN [state EXCEPT !.known    = TRUE,
                   !.added    = (@ \ R) \cup (A \ K),
                   !.modified = (@ \ R) \cup (A \cap K),
                   !.removed  = (@ \ A) \cup (R \cap K)]

Removed(R, as) == [p \in Pets |-> IF p \in R THEN as ELSE updates[p]]

HandleDocumentChange ==
  LET m == Head(down)
  IN /\ Received("Documents")
     /\ IF IsActiveTarget(m.target)
          THEN /\ states'  = [states EXCEPT ![m.target] =
                                Changed(m.target, @, m.added, m.removed)]
               /\ updates' = [p \in Pets |->
                    IF p \in m.added THEN Document(WrittenAt(p, m.number))
                    ELSE Removed(m.removed, NoDocument(m.number))[p]]
          ELSE UNCHANGED <<states, updates>>
     /\ UNCHANGED resets

(* Mutant of ClearPendingChanges. *)
KeepPendingChanges(state) == state

ClearPendingChanges(state) ==
  [state EXCEPT !.added = {}, !.modified = {}, !.removed = {}]

Answered(t) == [states[t] EXCEPT !.known = TRUE, !.out = @ - 1]

HandleTargetAdded ==
  LET t == Head(down).target
  IN /\ Received("Added")
     /\ states' = [states EXCEPT ![t] =
          IF Answered(t).out = 0 THEN ClearPendingChanges(Answered(t))
                                 ELSE Answered(t)]
     /\ UNCHANGED <<updates, resets>>

(* Mutant of HandleTargetRemoved: whatever else is due, the entry goes. *)
ForgetTarget ==
  /\ Received("Removed")
  /\ states' = [states EXCEPT ![Head(down).target] = NoState]
  /\ UNCHANGED <<updates, resets>>

HandleTargetRemoved ==
  LET t == Head(down).target
  IN /\ Received("Removed")
     /\ states' = [states EXCEPT ![t] =
          IF Answered(t).out = 0 THEN NoState ELSE Answered(t)]
     /\ UNCHANGED <<updates, resets>>

HandleTargetCurrent ==
  LET t == Head(down).target
  IN /\ Received("Current")
     /\ states' = [states EXCEPT ![t].known   = TRUE,
                                 ![t].current = @ \/ IsActiveTarget(t)]
     /\ UNCHANGED <<updates, resets>>

(* Mutant of ResetTarget: what the target had stays. *)
ResetState(t) == NewState

(* All that the target had is removed, unless it is sent again. *)
ResetTarget(t) == Changed(t, NewState, {}, RemoteKeys(t))

HandleTargetReset ==
  LET t == Head(down).target
  IN /\ Received("Reset")
     /\ states' = [states EXCEPT ![t] = IF IsActiveTarget(t) THEN ResetTarget(t)
                                        ELSE [@ EXCEPT !.known = TRUE]]
     /\ UNCHANGED <<updates, resets>>

(* GetCurrentDocumentCountForTarget *)
CurrentDocumentCount(t) ==
  Cardinality(RemoteKeys(t)) + Cardinality(states[t].added)
    - Cardinality(states[t].removed)

HandleExistenceFilter ==
  LET t     == Head(down).target
      count == Head(down).number
  IN /\ Received("Filter")
     /\ \/ /\ IsActiveTarget(t) /\ IsDocumentQuery(t) /\ count = 0
           /\ states'  = [states EXCEPT ![t] = Changed(t, @, {}, {t.path})]
           /\ updates' = Removed({t.path}, Forgotten)
           /\ UNCHANGED resets
        \/ /\ IsActiveTarget(t) /\ ~IsDocumentQuery(t)
           /\ CurrentDocumentCount(t) # count
           /\ states' = [states EXCEPT ![t] = ResetTarget(t)]
           /\ resets' = resets \cup {t}
           /\ UNCHANGED updates
        \/ /\ \/ ~IsActiveTarget(t)
              \/ IsDocumentQuery(t) /\ count # 0
              \/ ~IsDocumentQuery(t) /\ CurrentDocumentCount(t) = count
           /\ UNCHANGED <<states, updates, resets>>

---------------------------------------------------------------------------------
(***************************************************************************)
(* RaiseWatchSnapshot, SyncEngine::ApplyRemoteEvent,                       *)
(* LocalStore::ApplyRemoteEvent and EmitNewSnapshots.                      *)
(***************************************************************************)

(* The targets the event has a change for: every one is given a token. *)
Ready == {t \in listened : states[t].known /\ IsActiveTarget(t)}

(* CreateRemoteEvent: a pet that is read or resolved, and that the server had
   nothing to say about, does not exist. *)
Missing == {t \in Ready : /\ states[t].current
                          /\ IsDocumentQuery(t)
                          /\ updates[t.path] = Unknown
                          /\ t.path \notin RemoteKeys(t)}

Change(t) == IF t \in Missing THEN Changed(t, states[t], {}, {t.path})
                              ELSE states[t]

DocumentUpdates(v) == Removed({t.path : t \in Missing}, NoDocument(v))

Cached(documents) == {p \in Pets : documents[p].is = "Document"}

(* The keys, the views and what is in limbo once the event is applied. *)
KeysAfter ==
  [t \in UserTargets |->
     IF t \in Ready THEN (keys[t] \ Change(t).removed) \cup Change(t).added
                    ELSE keys[t]]

CacheAfter(v) ==
  [p \in Pets |->
     LET doc == DocumentUpdates(v)[p]
     IN CASE doc = Forgotten                -> Unknown
          [] doc.version > cache[p].version -> doc
          [] OTHER                          -> cache[p]]

CurrentAfter == {t \in UserTargets \cap listened :
                   IF t \in Ready THEN states[t].current ELSE t \in current}

(* Mutant of LimboAfter: nothing is ever in limbo. *)
NoLimbo(v) == [t \in UserTargets |-> {}]

LimboAfter(v) ==
  [t \in UserTargets |->
     IF t \in CurrentAfter THEN Matching(t, Cached(CacheAfter(v))) \ KeysAfter[t]
                           ELSE limbo[t]]

(* Mutant of ReceivedAfter: it looks at every listen. *)
ReceivedByAny ==
  {t \in listened : t \in Ready /\ states[t].added # {}}

ReceivedAfter ==
  {t \in LimboTargets \cap listened :
     IF t \in Ready
       THEN Change(t).added # {} \/ (t \in received /\ Change(t).removed = {})
       ELSE t \in received}

(* Mutant of ListenedAfter: a resolution that is over is not stopped. *)
ListenedEver(v) == listened \cup Wanted(LimboAfter(v), listened)

ListenedAfter(v) ==
  (listened \cap UserTargets) \cup Wanted(LimboAfter(v), listened)

(* ShouldPersistTargetData; a token may also be stored for its age. *)
MustPersist ==
  {t \in Ready \cap UserTargets :
     \/ local[t] = 0
     \/ Change(t).added \cup Change(t).modified \cup Change(t).removed # {}}

(* Mutant of LocalAfter: the token in memory follows the one on disk. *)
LocalIfStored(v) == [t \in UserTargets |-> IF t \in MustPersist THEN v ELSE local[t]]

LocalAfter(v) == [t \in UserTargets |-> IF t \in Ready THEN v ELSE local[t]]

(* Mutant of Rewatch: the listen is only ended. *)
UnwatchOnly == <<Unwatch>>

(* A target whose keys are known to be wrong is sent again from the start. *)
Rewatch == <<Unwatch, Watch(0)>>

Mismatched == resets \cap listened

Requests(v) ==
  [t \in Targets |-> CASE t \in Mismatched                  -> Rewatch
                       [] t \in ListenedAfter(v) \ listened -> <<Watch(0)>>
                       [] t \in listened \ ListenedAfter(v) -> <<Unwatch>>
                       [] OTHER                             -> <<>>]

RaiseWatchSnapshot(v) ==
  /\ Send([t \in Targets |-> IF t \in Ready THEN ClearPendingChanges(states[t])
                                            ELSE states[t]], Requests(v))
  /\ idle'  = (idle /\ Requests(v) = NoRequests)
  /\ token' = [t \in Targets |-> IF Requests(v)[t] # <<>> THEN 0
                                  ELSE IF t \in Ready THEN v ELSE token[t]]
  /\ listened' = ListenedAfter(v)
  /\ updates'  = Nothing
  /\ resets'   = {}
  /\ local'    = LocalAfter(v)
  /\ \E S \in SUBSET (Ready \cap UserTargets) :
       /\ MustPersist \subseteq S
       /\ stored' = [t \in UserTargets |-> IF t \in S THEN v ELSE stored[t]]
  /\ keys'     = KeysAfter
  /\ cache'    = CacheAfter(v)
  /\ snapver'  = v
  /\ current'  = CurrentAfter
  /\ limbo'    = LimboAfter(v)
  /\ received' = ReceivedAfter \cap ListenedAfter(v)
  /\ spoilt'   = (spoilt \ Mismatched) \cup {t \in Mismatched : KeysAfter[t] # {}}

HandleSnapshot ==
  LET v == Head(down).number
  IN /\ Receive("Snapshot")
     /\ IF v >= snapver
          THEN RaiseWatchSnapshot(v)
          ELSE UNCHANGED <<up, idle, listened, token, aggregator, storeVars,
                           viewVars, spoilt>>
     /\ UNCHANGED <<serverVars, stream, listens, faults>>

---------------------------------------------------------------------------------
OnWatchStreamChange ==
  \/ HandleDocumentChange
  \/ HandleTargetAdded
  \/ HandleTargetRemoved
  \/ HandleTargetCurrent
  \/ HandleTargetReset
  \/ HandleExistenceFilter
  \/ HandleSnapshot

ServerStep(t) ==
  \/ ServerWatch(t)
  \/ ServerUnwatch(t)
  \/ ServerSendsDocuments(t)
  \/ ServerSendsCurrent(t)
  \/ ServerSendsFilter(t)

Next ==
  \/ Commit
  \/ ServerAdvances
  \/ \E t \in Targets : ServerStep(t) \/ ServerReset(t)
  \/ ServerSendsSnapshot
  \/ \E t \in UserTargets : Listen(t) \/ StopListening(t)
  \/ OnWatchStreamOpen
  \/ OnWatchStreamClose
  \/ RestartNetwork
  \/ OnlineStateTimeout
  \/ IdleTimeout
  \/ Relaunch
  \/ OnWatchStreamChange

Spec == Init /\ [][Next]_vars

(* The queue of the client runs what is put into it, a stream that is started
   opens, and the server goes on answering. *)
Fairness ==
  /\ WF_vars(OnWatchStreamOpen)
  /\ WF_vars(OnWatchStreamChange)
  /\ WF_vars(ServerAdvances)
  /\ WF_vars(ServerSendsSnapshot)
  /\ \A t \in Targets : WF_vars(ServerStep(t))

FairSpec == Spec /\ Fairness

---------------------------------------------------------------------------------
(***************************************************************************)
(* Properties.                                                             *)
(***************************************************************************)

(* Every variable holds what the code's types allow. *)
TypeOK ==
  /\ history \in Seq(SUBSET Pets) /\ history # <<>>
  /\ clock \in Nat
  /\ srv \in [Targets -> ServerState]
  /\ up \in [Targets -> Seq(Request)]
  /\ down \in Seq(Response)
  /\ stream \in {"off", "starting", "open"}
  /\ idle \in BOOLEAN
  /\ online \in {"Unknown", "Online", "Offline"}
  /\ listened \subseteq Targets
  /\ token \in [Targets -> Nat]
  /\ states \in [Targets -> TargetState]
  /\ updates \in [Pets -> DocumentState]
  /\ resets \subseteq UserTargets
  /\ local \in [UserTargets -> Nat] /\ stored \in [UserTargets -> Nat]
  /\ keys \in [UserTargets -> SUBSET Pets]
  /\ cache \in [Pets -> DocumentState]
  /\ snapver \in Nat
  /\ current \subseteq UserTargets
  /\ limbo \in [UserTargets -> SUBSET Pets]
  /\ received \subseteq LimboTargets
  /\ listens \in Nat /\ faults \in Nat
  /\ spoilt \subseteq UserTargets

(* The places in the responses d of the answers to the requests about t. *)
IsAnswer(m, t) == m.target = t /\ m.kind \in {"Added", "Removed"}
Answers(d, t)  == {i \in DOMAIN d : IsAnswer(d[i], t)}

(* The aggregator waits for as many answers about a target as are still due on
   the stream: never for one that will not come, which would deafen the client
   to the target, and never for too few, which would let in messages of a listen
   that has ended. *)
OutstandingIsUnanswered ==
  \A t \in Targets :
    states[t].out = Len(up[t]) + Cardinality(Answers(down, t))

(* The client listens to exactly the pets that some view of a query somebody
   listens to has in limbo: no resolution is left behind and none is missing,
   whatever ends first, the listen, the limbo or the stream. *)
LimboListensAreWanted == listened \cap LimboTargets = Wanted(limbo, listened)

(* RemoteStore and LocalStore each keep the resume token of a listen; a stream
   that reconnects resumes from what is in the keys or from nothing, and the
   token on disk is never ahead of the one in memory. *)
TokensAgree ==
  /\ \A t \in listened \cap UserTargets : token[t] \in {0, local[t]}
  /\ \A t \in UserTargets : stored[t] <= local[t] /\ local[t] <= snapver

(* The assertions of the aggregator, the views and the resolutions.  "Should only
   reset active targets": a target whose messages count has an entry, whichever
   listens of it ended on this stream.  And the changes that wait for the next
   snapshot fit the keys they will be applied to: a pet that is modified or
   removed is one the view has, one that is added is new to it. *)
ChangesMatchKeys ==
  \A t \in listened : IsActiveTarget(t) =>
    /\ stream = "open" => states[t].known
    /\ states[t].modified \cup states[t].removed \subseteq RemoteKeys(t)
    /\ states[t].added \cap RemoteKeys(t) = {}

(* A query that is in sync, with nothing in limbo, shows what the server had at
   the last snapshot: no pet that was deleted there, and all that were not. *)
SyncedScreenIsServers ==
  \A t \in current \ spoilt :
    local[t] = snapver /\ limbo[t] = {} =>
      Matching(t, Cached(cache)) = Matching(t, history[snapver])

(* The 'current' of remote_event.h: all changes up to the token have been sent,
   and the target is consistent with them. *)
CurrentIsConsistent ==
  \A t \in current : keys[t] = Matching(t, history[local[t]])

(* What the watch protocol is for: what the client promises its listeners. *)
Promised == INSTANCE Listens WITH
  listened <- listened \cap UserTargets,
  insync   <- current \ spoilt,
  version  <- local,
  latest   <- snapver

PromisedSpec == Promised!Spec

(* A query that stays listened to is in the end in sync for good, with nothing
   in limbo, and shows what the server has. *)
ListensConverge ==
  \A t \in UserTargets :
    <>[](t \in listened \ spoilt) =>
      <>[](/\ t \in current
           /\ limbo[t] = {}
           /\ Matching(t, Cached(cache)) = Matching(t, Latest))

(* Even one that was resumed from a token its keys are not of, or reset before
   its keys were sent again, is in the end current. *)
ListensComeCurrent ==
  \A t \in UserTargets : <>[](t \in listened) => <>[](t \in current)
================================================================================
