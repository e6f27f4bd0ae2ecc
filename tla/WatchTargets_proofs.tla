-------------------------- MODULE WatchTargets_proofs --------------------------
(***************************************************************************)
(* Theorems about module WatchTargets, for any pets, any number of         *)
(* listens, faults, commits and messages in flight.                        *)
(***************************************************************************)
EXTENDS WatchTargets, FiniteSetTheorems, SequenceTheorems, FunctionTheorems, TLAPS

LEMMA KindsOfTargets ==
  /\ \A t \in UserTargets : t.purpose = "Listen"
  /\ \A t \in LimboTargets : t.purpose = "LimboResolution" /\ t.path \in Pets
  /\ UserTargets \cap LimboTargets = {}
  /\ Targets = UserTargets \cup LimboTargets
  /\ Collection \in UserTargets
  /\ \A p \in Pets : Limbo(p) \in LimboTargets
  BY DEF UserTargets, LimboTargets, Targets, Collection, Read, Limbo

LEMMA WantedAreLimbo ==
  ASSUME NEW limbos \in [UserTargets -> SUBSET Pets], NEW targets
  PROVE  Wanted(limbos, targets) \subseteq LimboTargets
  BY DEF Wanted, LimboTargets

LEMMA MatchingIsPart ==
  ASSUME NEW t, NEW S
  PROVE  Matching(t, S) \subseteq S
  BY DEF Matching

LEMMA PetsAtType ==
  ASSUME TypeOK, NEW t, NEW v
  PROVE  PetsAt(t, v) \in SUBSET Pets
  <1>1. history \in Seq(SUBSET Pets)
    BY DEF TypeOK
  <1>2. v \in DOMAIN history => history[v] \in SUBSET Pets
    BY <1>1
  <1> QED BY <1>2, MatchingIsPart DEF PetsAt

LEMMA RemoteKeysType ==
  ASSUME TypeOK, NEW t \in Targets
  PROVE  RemoteKeys(t) \in SUBSET Pets
  BY DEF TypeOK, RemoteKeys

LEMMA ChangedType ==
  ASSUME TypeOK, NEW t \in Targets, NEW state \in TargetState,
         NEW A \in SUBSET Pets, NEW R
  PROVE  Changed(t, state, A, R) \in TargetState
  <1>1. RemoteKeys(t) \in SUBSET Pets
    BY RemoteKeysType
  <1> QED BY <1>1 DEF Changed, TargetState

LEMMA StatesType ==
  /\ NewState \in TargetState /\ NoState \in TargetState
  /\ Off \in ServerState
  /\ Unwatch \in Request /\ \A v \in Nat : Watch(v) \in Request
  /\ Nothing \in [Pets -> DocumentState]
  /\ Unknown \in DocumentState /\ Forgotten \in DocumentState
  /\ \A v \in Nat : Document(v) \in DocumentState /\ NoDocument(v) \in DocumentState
  <1>1. NewState \in TargetState
    BY DEF NewState, TargetState
  <1>2. NoState \in TargetState
    BY <1>1 DEF NoState, TargetState
  <1>3. Off \in ServerState
    BY DEF Off, ServerState
  <1>4. Unwatch \in Request /\ \A v \in Nat : Watch(v) \in Request
    BY DEF Unwatch, Watch, Request
  <1>5. \A v \in Nat : Document(v) \in DocumentState /\ NoDocument(v) \in DocumentState
    BY DEF Document, NoDocument, DocumentState
  <1>6. Unknown \in DocumentState /\ Forgotten \in DocumentState
    BY <1>5 DEF Unknown, Forgotten, DocumentState
  <1>7. Nothing \in [Pets -> DocumentState]
    BY <1>6 DEF Nothing
  <1> QED BY <1>1, <1>2, <1>3, <1>4, <1>5, <1>6, <1>7

LEMMA WrittenAtType ==
  ASSUME NEW p, NEW v \in Nat
  PROVE  WrittenAt(p, v) \in Nat
  <1> DEFINE run == {w \in 1..v : \A u \in w..v : p \in history[u]}
  <1>1. IsFiniteSet(1..v) /\ Cardinality(1..v) = v
    BY FS_Interval
  <1>2. IsFiniteSet(run) /\ Cardinality(run) <= v
    BY <1>1, FS_Subset
  <1>3. Cardinality(run) \in Nat
    BY <1>2, FS_CardinalityType
  <1> QED BY <1>2, <1>3 DEF WrittenAt

LEMMA SendType ==
  ASSUME TypeOK, NEW base \in [Targets -> TargetState],
         NEW requests \in [Targets -> Seq(Request)],
         Send(base, requests)
  PROVE  up' \in [Targets -> Seq(Request)] /\ states' \in [Targets -> TargetState]
  <1>1. \A t \in Targets : up[t] \o requests[t] \in Seq(Request)
    BY DEF TypeOK
  <1>2. ASSUME NEW t \in Targets
        PROVE  [base[t] EXCEPT !.known = TRUE, !.out = @ + Len(requests[t])]
                 \in TargetState
    <2>1. requests[t] \in Seq(Request) /\ base[t] \in TargetState
      OBVIOUS
    <2>2. Len(requests[t]) \in Nat
      BY <2>1
    <2> DEFINE n == Len(requests[t])
    <2>3. n \in Nat
      BY <2>2
    <2> HIDE DEF n
    <2>4. [base[t] EXCEPT !.known = TRUE, !.out = @ + n] \in TargetState
      <3>1. base[t].out + n \in Int
        BY <2>1, <2>3 DEF TargetState
      <3> QED BY <2>1, <3>1 DEF TargetState
    <2> QED BY <2>4 DEF n
  <1> QED BY <1>1, <1>2 DEF Send

LEMMA FreshType ==
  ASSUME FreshAggregator
  PROVE  /\ states' \in [Targets -> TargetState]
         /\ updates' \in [Pets -> DocumentState]
         /\ resets' \subseteq UserTargets
  BY StatesType DEF FreshAggregator

LEMMA FreshStreamType ==
  ASSUME FreshStream
  PROVE  /\ clock' \in Nat
         /\ srv' \in [Targets -> ServerState]
         /\ up' \in [Targets -> Seq(Request)]
         /\ down' \in Seq(Response)
         /\ idle' \in BOOLEAN
         /\ states' \in [Targets -> TargetState]
         /\ updates' \in [Pets -> DocumentState]
         /\ resets' \subseteq UserTargets
  <1>1. up' \in [Targets -> Seq(Request)] /\ down' \in Seq(Response)
    BY DEF FreshStream
  <1>2. srv' \in [Targets -> ServerState]
    BY StatesType DEF FreshStream
  <1> QED BY <1>1, <1>2, FreshType DEF FreshStream

LEMMA InitType == Init => TypeOK
  <1> SUFFICES ASSUME Init PROVE TypeOK
    OBVIOUS
  <1>1. /\ history \in [{1} -> SUBSET Pets] /\ history[1] \in SUBSET Pets
    BY DEF Init
  <1>2. history \in Seq(SUBSET Pets)
    <2>1. {1} = 1..1
      OBVIOUS
    <2>2. history \in [1..1 -> SUBSET Pets]
      BY <1>1, <2>1, Zenon
    <2>3. \A S : \A h \in [1..1 -> S] : h \in Seq(S)
      BY SeqDef
    <2> QED BY <2>2, <2>3, Zenon
  <1>3. \A t \in Targets : PetsAt(t, snapver) \in SUBSET Pets
    <2>1. \A v \in DOMAIN history : history[v] \in SUBSET Pets
      BY <1>2
    <2> QED BY <2>1, MatchingIsPart DEF PetsAt
  <1>4. keys \in [UserTargets -> SUBSET Pets]
    BY <1>3, KindsOfTargets DEF Init
  <1>5. snapver \in Nat /\ stored \in [UserTargets -> Nat] /\ local \in [UserTargets -> Nat]
    BY DEF Init
  <1>6. cache \in [Pets -> DocumentState]
    <2>1. Document(1) \in DocumentState /\ Unknown \in DocumentState
      BY StatesType
    <2> QED BY <2>1 DEF Init
  <1>7. /\ srv \in [Targets -> ServerState] /\ states \in [Targets -> TargetState]
        /\ updates \in [Pets -> DocumentState]
    BY StatesType DEF Init
  <1>8. /\ up \in [Targets -> Seq(Request)] /\ down \in Seq(Response)
        /\ token \in [Targets -> Nat] /\ limbo \in [UserTargets -> SUBSET Pets]
    BY DEF Init
  <1>9. history # <<>>
    <2>1. DOMAIN history = {1} /\ DOMAIN <<>> = {}
      BY <1>1
    <2> QED BY <2>1
  <1> QED BY <1>2, <1>4, <1>5, <1>6, <1>7, <1>8, <1>9 DEF Init, TypeOK

LEMMA ListenType ==
  ASSUME TypeOK, NEW t \in UserTargets, Listen(t)
  PROVE  TypeOK'
  <1>1. /\ listens' \in Nat /\ listened' \subseteq Targets
        /\ token' \in [Targets -> Nat] /\ local' \in [UserTargets -> Nat]
    BY KindsOfTargets DEF TypeOK, Listen
  <1>2. /\ stream' \in {"off", "starting", "open"} /\ idle' \in BOOLEAN
        /\ online' \in {"Unknown", "Online", "Offline"}
    BY DEF TypeOK, Listen
  <1>3. /\ up' \in [Targets -> Seq(Request)] /\ states' \in [Targets -> TargetState]
        /\ updates' \in [Pets -> DocumentState] /\ resets' \subseteq UserTargets
    <2>1. CASE FreshAggregator /\ up' = up
      BY <2>1, FreshType DEF TypeOK
    <2>2. CASE UNCHANGED <<aggregator, up>>
      BY <2>2 DEF TypeOK, aggregator
    <2>3. CASE /\ Send(states, [NoRequests EXCEPT ![t] = <<Watch(stored[t])>>])
               /\ UNCHANGED <<updates, resets>>
      <3>1. Watch(stored[t]) \in Request
        BY StatesType DEF TypeOK
      <3>2. <<Watch(stored[t])>> \in Seq(Request)
        BY <3>1
      <3>3. [NoRequests EXCEPT ![t] = <<Watch(stored[t])>>] \in [Targets -> Seq(Request)]
        <4>1. NoRequests \in [Targets -> Seq(Request)]
          BY DEF NoRequests
        <4> QED BY <3>2, <4>1
      <3> QED BY <2>3, <3>3, SendType DEF TypeOK
    <2> QED BY <2>1, <2>2, <2>3 DEF Listen
  <1> QED
    BY <1>1, <1>2, <1>3 DEF TypeOK, Listen, serverVars, viewVars

LEMMA StopListeningType ==
  ASSUME TypeOK, NEW t \in UserTargets, StopListening(t)
  PROVE  TypeOK'
  <1>1. /\ stored' \in [UserTargets -> Nat] /\ current' \subseteq UserTargets
        /\ limbo' \in [UserTargets -> SUBSET Pets]
    BY DEF TypeOK, StopListening
  <1>2. PICK gone :
          /\ listened' = listened \ gone
          /\ token' = [u \in Targets |-> IF u \in gone THEN 0 ELSE token[u]]
          /\ received' = received \ gone
          /\ \/ /\ Send(states, [u \in Targets |-> IF u \in gone THEN <<Unwatch>>
                                                                 ELSE <<>>])
                /\ idle' = (listened' = {})
                /\ UNCHANGED online
             \/ /\ online' = IF listened' = {} THEN "Unknown" ELSE online
                /\ UNCHANGED <<up, states, idle>>
    BY DEF StopListening
  <1>3. /\ listened' \subseteq Targets /\ token' \in [Targets -> Nat]
        /\ received' \subseteq LimboTargets
        /\ idle' \in BOOLEAN /\ online' \in {"Unknown", "Online", "Offline"}
    BY <1>2 DEF TypeOK
  <1>4. up' \in [Targets -> Seq(Request)] /\ states' \in [Targets -> TargetState]
    <2> DEFINE requests == [u \in Targets |-> IF u \in gone THEN <<Unwatch>> ELSE <<>>]
    <2>1. <<Unwatch>> \in Seq(Request)
      BY StatesType
    <2>2. requests \in [Targets -> Seq(Request)]
      BY <2>1
    <2>3. \/ Send(states, requests)
          \/ UNCHANGED <<up, states>>
      BY <1>2
    <2> HIDE DEF requests
    <2> QED BY <2>2, <2>3, SendType DEF TypeOK
  <1> QED
    BY <1>1, <1>3, <1>4 DEF TypeOK, StopListening, serverVars

(* The stream is closed or opened, the app is killed. *)
LEMMA StreamType ==
  ASSUME TypeOK,
         \/ OnWatchStreamOpen \/ OnWatchStreamClose \/ RestartNetwork
         \/ OnlineStateTimeout \/ IdleTimeout \/ Relaunch
  PROVE  TypeOK'
  <1>1. CASE OnWatchStreamOpen
    <2> DEFINE requests ==
          [t \in Targets |-> IF t \in listened THEN <<Watch(token[t])>> ELSE <<>>]
    <2>1. \A t \in Targets : Watch(token[t]) \in Request
      BY StatesType DEF TypeOK
    <2>2. \A t \in Targets : <<Watch(token[t])>> \in Seq(Request)
      BY <2>1
    <2>3. requests \in [Targets -> Seq(Request)]
      BY <2>2
    <2>4. Send(states, requests)
      BY <1>1 DEF OnWatchStreamOpen
    <2> HIDE DEF requests
    <2>5. up' \in [Targets -> Seq(Request)] /\ states' \in [Targets -> TargetState]
      BY <2>3, <2>4, SendType DEF TypeOK
    <2>6. clock' \in Nat
      BY <1>1 DEF OnWatchStreamOpen, TypeOK
    <2> QED BY <1>1, <2>5, <2>6 DEF OnWatchStreamOpen, TypeOK, storeVars, viewVars
  <1>2. \A state : SetAndBroadcast(state) =>
          online' = state /\ current' \subseteq current
    BY DEF SetAndBroadcast
  <1>3. AfterFailure(online) \in {"Unknown", "Online", "Offline"}
    BY DEF AfterFailure
  <1>4. CASE OnWatchStreamClose
    <2>1. /\ online' \in {"Unknown", "Online", "Offline"} /\ current' \subseteq current
          /\ stream' \in {"off", "starting", "open"} /\ faults' \in Nat
          /\ UNCHANGED <<history, listened, token, storeVars, limbo, received,
                         listens, spoilt>>
      BY <1>2, <1>3, <1>4 DEF OnWatchStreamClose, TypeOK
    <2>2. FreshStream
      BY <1>4 DEF OnWatchStreamClose
    <2> QED BY <2>1, <2>2, FreshStreamType DEF TypeOK, storeVars
  <1>5. CASE RestartNetwork
    <2>1. /\ online' \in {"Unknown", "Online", "Offline"} /\ current' \subseteq current
          /\ stream' \in {"off", "starting", "open"} /\ faults' \in Nat
          /\ UNCHANGED <<history, listened, token, storeVars, limbo, received,
                         listens, spoilt>>
      BY <1>2, <1>5 DEF RestartNetwork, TypeOK
    <2>2. FreshStream
      BY <1>5 DEF RestartNetwork
    <2> QED BY <2>1, <2>2, FreshStreamType DEF TypeOK, storeVars
  <1>6. CASE OnlineStateTimeout
    BY <1>2, <1>6
    DEF OnlineStateTimeout, TypeOK, serverVars, streamVars, aggregator, storeVars
  <1>7. CASE IdleTimeout
    <2>1. /\ online' \in {"Unknown", "Online", "Offline"} /\ current' \subseteq current
          /\ stream' \in {"off", "starting", "open"}
          /\ UNCHANGED <<history, listened, token, storeVars, limbo, received,
                         listens, faults, spoilt>>
      BY <1>2, <1>7 DEF IdleTimeout
    <2>2. FreshStream
      BY <1>7 DEF IdleTimeout
    <2> QED BY <2>1, <2>2, FreshStreamType DEF TypeOK, storeVars
  <1>8. CASE Relaunch
    <2>1. /\ online' \in {"Unknown", "Online", "Offline"} /\ current' = {}
          /\ stream' \in {"off", "starting", "open"} /\ faults' \in Nat
          /\ listened' = {} /\ received' = {}
          /\ token' \in [Targets -> Nat] /\ local' = stored
          /\ limbo' \in [UserTargets -> SUBSET Pets]
          /\ spoilt' \subseteq UserTargets
          /\ UNCHANGED <<history, stored, keys, cache, snapver, listens>>
      BY <1>8 DEF Relaunch, TypeOK
    <2>2. FreshStream
      BY <1>8 DEF Relaunch
    <2> QED BY <2>1, <2>2, FreshStreamType DEF TypeOK
  <1> QED BY <1>1, <1>4, <1>5, <1>6, <1>7, <1>8

LEMMA SayType ==
  ASSUME TypeOK, NEW m \in Response, NEW state \in ServerState, Say(m, state),
         up' \in [Targets -> Seq(Request)], faults' \in Nat
  PROVE  TypeOK'
  <1>1. m.target \in Targets
    BY DEF Response
  <1>2. srv' \in [Targets -> ServerState]
    BY DEF Say, TypeOK
  <1>3. down' \in Seq(Response)
    BY DEF Say, TypeOK
  <1>4. UNCHANGED <<history, clock, stream, idle, online, listened, token, states,
                    updates, resets, storeVars, viewVars, listens, spoilt>>
    BY DEF Say, aggregator
  <1> QED BY <1>2, <1>3, <1>4 DEF TypeOK, storeVars, viewVars

(* What the server remembers of a target may change in one place. *)
LEMMA ServerStateType ==
  ASSUME TypeOK, NEW t \in Targets, NEW n \in Nat
  PROVE  /\ [srv[t] EXCEPT !.at = n] \in ServerState
         /\ [srv[t] EXCEPT !.sent = n] \in ServerState
         /\ [srv[t] EXCEPT !.told = TRUE] \in ServerState
         /\ [srv[t] EXCEPT !.blind = FALSE] \in ServerState
  <1>1. srv[t] \in ServerState
    BY DEF TypeOK
  <1> QED BY <1>1 DEF ServerState

LEMMA MessageType ==
  ASSUME NEW t \in Targets,
         NEW kind \in {"Added", "Removed", "Documents", "Current", "Reset", "Filter",
                       "Snapshot"},
         NEW A \in SUBSET Pets, NEW R \in SUBSET Pets, NEW n \in Nat
  PROVE  /\ Message(kind, t) \in Response
         /\ [Message(kind, t) EXCEPT !.number = n] \in Response
         /\ [Message(kind, t) EXCEPT !.added = A, !.removed = R, !.number = n] \in Response
  BY DEF Message, Response

LEMMA ServerType ==
  ASSUME TypeOK,
         \/ Commit \/ ServerAdvances \/ ServerSendsSnapshot
         \/ \E t \in Targets : ServerStep(t) \/ ServerReset(t)
  PROVE  TypeOK'
  <1>1. CASE Commit
    <2>1. PICK S : S \in SUBSET Pets /\ history' = Append(history, S)
      <3>1. PICK p \in Pets : \E S \in {Latest \cup {p}, Latest \ {p}} :
                                S # Latest /\ history' = Append(history, S)
        BY <1>1 DEF Commit
      <3>2. Latest \in SUBSET Pets
        <4>1. Len(history) \in Nat /\ Len(history) # 0
          BY EmptySeq DEF TypeOK
        <4>2. Len(history) \in DOMAIN history
          BY <4>1 DEF TypeOK
        <4> QED BY <4>2 DEF TypeOK, Latest
      <3> QED BY <3>1, <3>2
    <2>2. history' \in Seq(SUBSET Pets) /\ history' # <<>>
      <3>1. history' \in Seq(SUBSET Pets) /\ Len(history') = Len(history) + 1
        BY <2>1 DEF TypeOK
      <3>2. Len(history) \in Nat
        BY DEF TypeOK
      <3>3. Len(history') # 0
        BY <3>1, <3>2
      <3> QED BY <3>1, <3>3, EmptySeq
    <2> QED BY <1>1, <2>2 DEF Commit, TypeOK, streamVars, aggregator, storeVars, viewVars
  <1>2. CASE ServerAdvances
    BY <1>2 DEF ServerAdvances, TypeOK, streamVars, aggregator, storeVars, viewVars
  <1>3. CASE ServerSendsSnapshot
    <2>1. [Message("Snapshot", Collection) EXCEPT !.number = clock] \in Response
      BY MessageType, KindsOfTargets DEF TypeOK
    <2>2. down' \in Seq(Response)
      BY <1>3, <2>1 DEF ServerSendsSnapshot, TypeOK
    <2>3. \A t \in Targets : [srv[t] EXCEPT !.sent = clock] \in ServerState
      BY ServerStateType DEF TypeOK
    <2>4. srv' \in [Targets -> ServerState]
      BY <1>3, <2>3 DEF ServerSendsSnapshot, TypeOK
    <2> QED
      BY <1>3, <2>2, <2>4 DEF ServerSendsSnapshot, TypeOK, aggregator, storeVars, viewVars
  <1>4. ASSUME NEW t \in Targets, ServerStep(t) \/ ServerReset(t)
        PROVE  TypeOK'
    <2>1. CASE ServerWatch(t)
      <3>1. Head(up[t]) \in Request
        BY <2>1 DEF ServerWatch, TypeOK
      <3>2. PICK blind \in BOOLEAN :
              Say(Message("Added", t),
                  [Off EXCEPT !.on = TRUE, !.at = Head(up[t]).token, !.blind = blind])
        BY <2>1, WatchTargetsAssumption DEF ServerWatch
      <3>3. [Off EXCEPT !.on = TRUE, !.at = Head(up[t]).token, !.blind = blind]
              \in ServerState
        BY <3>1, StatesType DEF ServerState, Request
      <3>4. up' \in [Targets -> Seq(Request)] /\ faults' \in Nat
        BY <2>1 DEF ServerWatch, TypeOK
      <3>5. Message("Added", t) \in Response
        BY MessageType
      <3> QED BY <3>2, <3>3, <3>4, <3>5, SayType
    <2>2. CASE ServerUnwatch(t)
      <3>1. Say(Message("Removed", t), Off)
        BY <2>2 DEF ServerUnwatch
      <3>2. up' \in [Targets -> Seq(Request)] /\ faults' \in Nat
        BY <2>2 DEF ServerUnwatch, TypeOK
      <3>3. Message("Removed", t) \in Response
        BY MessageType
      <3> QED BY <3>1, <3>2, <3>3, SayType, StatesType
    <2>3. CASE ServerSendsDocuments(t)
      <3> DEFINE gone  == PetsAt(t, srv[t].at) \ PetsAt(t, clock)
                 A     == Written(t, srv[t].at, clock)
                 R     == IF srv[t].blind THEN {} ELSE gone
                 m     == [Message("Documents", t) EXCEPT
                             !.added = A, !.removed = R, !.number = clock]
                 state == [srv[t] EXCEPT !.at = clock]
      <3>1. A \in SUBSET Pets /\ R \in SUBSET Pets
        BY PetsAtType DEF Written
      <3>2. m \in Response
        BY <3>1, MessageType DEF TypeOK
      <3>3. state \in ServerState
        BY ServerStateType DEF TypeOK
      <3>4. up' = up /\ faults' = faults
        BY <2>3 DEF ServerSendsDocuments
      <3>5. \/ Say(m, state)
            \/ /\ srv' = [srv EXCEPT ![t] = state]
               /\ UNCHANGED <<history, clock, down, stream, idle, online, listened,
                              token, aggregator, storeVars, viewVars, listens, spoilt>>
        BY <2>3 DEF ServerSendsDocuments
      <3>6. CASE Say(m, state)
        <4> HIDE DEF m, state
        <4> QED BY <3>2, <3>3, <3>4, <3>6, SayType DEF TypeOK
      <3>7. CASE /\ srv' = [srv EXCEPT ![t] = state]
                 /\ UNCHANGED <<history, clock, down, stream, idle, online, listened,
                                token, aggregator, storeVars, viewVars, listens, spoilt>>
        <4> HIDE DEF m, state
        <4> QED BY <3>3, <3>4, <3>7 DEF TypeOK, aggregator, storeVars, viewVars
      <3> QED BY <3>5, <3>6, <3>7
    <2>4. CASE ServerSendsCurrent(t)
      <3>1. [srv[t] EXCEPT !.told = TRUE] \in ServerState
        BY ServerStateType
      <3>2. Message("Current", t) \in Response
        BY MessageType
      <3> QED BY <2>4, <3>1, <3>2, SayType DEF ServerSendsCurrent, TypeOK
    <2>5. CASE ServerSendsFilter(t)
      <3> DEFINE n == Cardinality(PetsAt(t, clock))
      <3>1. CASE n \in Nat
        <4>1. [srv[t] EXCEPT !.blind = FALSE] \in ServerState
          BY ServerStateType
        <4>2. [Message("Filter", t) EXCEPT !.number = n] \in Response
          BY <3>1, MessageType
        <4> QED BY <2>5, <4>1, <4>2, SayType DEF ServerSendsFilter, TypeOK
      <3>2. n \in Nat
        <4>1. PetsAt(t, clock) \in SUBSET Pets
          BY PetsAtType
        <4>2. IsFiniteSet(PetsAt(t, clock))
          BY <4>1, FS_Subset, PetQueriesAssumption
        <4> QED BY <4>2, FS_CardinalityType
      <3> QED BY <3>1, <3>2
    <2>6. CASE ServerReset(t)
      <3>1. [Off EXCEPT !.on = TRUE] \in ServerState
        BY StatesType DEF ServerState
      <3>2. Message("Reset", t) \in Response
        BY MessageType
      <3>3. up' \in [Targets -> Seq(Request)] /\ faults' \in Nat
        BY <2>6 DEF ServerReset, TypeOK
      <3>4. Say(Message("Reset", t), [Off EXCEPT !.on = TRUE])
        BY <2>6 DEF ServerReset
      <3> QED BY <3>1, <3>2, <3>3, <3>4, SayType
    <2> QED BY <1>4, <2>1, <2>2, <2>3, <2>4, <2>5, <2>6 DEF ServerStep
  <1> QED BY <1>1, <1>2, <1>3, <1>4

LEMMA HeadType ==
  ASSUME TypeOK, down # <<>>
  PROVE  /\ Head(down) \in Response /\ Tail(down) \in Seq(Response)
         /\ Head(down).target \in Targets
         /\ Head(down).added \in SUBSET Pets /\ Head(down).removed \in SUBSET Pets
         /\ Head(down).number \in Nat
  <1>1. Head(down) \in Response /\ Tail(down) \in Seq(Response)
    BY DEF TypeOK
  <1> QED BY <1>1 DEF Response

(* A message that only the aggregator looks at. *)
LEMMA ReceivedType ==
  ASSUME TypeOK, NEW kind, Received(kind),
         states' \in [Targets -> TargetState],
         updates' \in [Pets -> DocumentState],
         resets' \subseteq UserTargets
  PROVE  TypeOK'
  <1>1. down' \in Seq(Response) /\ online' \in {"Unknown", "Online", "Offline"}
    BY HeadType DEF Received, Receive
  <1>2. UNCHANGED <<serverVars, up, stream, idle, listened, token, storeVars, viewVars,
                    listens, faults, spoilt>>
    BY DEF Received
  <1> QED BY <1>1, <1>2 DEF TypeOK, serverVars, storeVars, viewVars

LEMMA TargetStatesType ==
  ASSUME TypeOK, NEW t \in Targets
  PROVE  /\ Answered(t) \in TargetState
         /\ \A state \in TargetState : ClearPendingChanges(state) \in TargetState
         /\ ResetTarget(t) \in TargetState
         /\ [states[t] EXCEPT !.known = TRUE] \in TargetState
         /\ \A b \in BOOLEAN :
              [states[t] EXCEPT !.known = TRUE, !.current = b] \in TargetState
  <1>1. states[t] \in TargetState
    BY DEF TypeOK
  <1>2. Answered(t) \in TargetState
    <2>1. states[t].out - 1 \in Int
      BY <1>1 DEF TargetState
    <2> QED BY <1>1, <2>1 DEF Answered, TargetState
  <1>3. \A state \in TargetState : ClearPendingChanges(state) \in TargetState
    BY DEF ClearPendingChanges, TargetState
  <1>4. ResetTarget(t) \in TargetState
    BY ChangedType, StatesType DEF ResetTarget
  <1>5. /\ [states[t] EXCEPT !.known = TRUE] \in TargetState
        /\ \A b \in BOOLEAN :
             [states[t] EXCEPT !.known = TRUE, !.current = b] \in TargetState
    BY <1>1 DEF TargetState
  <1> QED BY <1>2, <1>3, <1>4, <1>5

LEMMA RemovedType ==
  ASSUME TypeOK, NEW R, NEW as \in DocumentState
  PROVE  Removed(R, as) \in [Pets -> DocumentState]
  BY DEF Removed, TypeOK

LEMMA AggregatorType ==
  ASSUME TypeOK,
         \/ HandleDocumentChange \/ HandleTargetAdded \/ HandleTargetRemoved
         \/ HandleTargetCurrent \/ HandleTargetReset \/ HandleExistenceFilter
  PROVE  TypeOK'
  <1> DEFINE m == Head(down)
             t == Head(down).target
  <1>1. CASE HandleDocumentChange
    <2>1. Received("Documents") /\ UNCHANGED resets /\ down # <<>>
      BY <1>1 DEF HandleDocumentChange, Received, Receive
    <2>2. /\ t \in Targets /\ m.added \in SUBSET Pets /\ m.removed \in SUBSET Pets
          /\ m.number \in Nat
      BY <2>1, HeadType
    <2>3. CASE UNCHANGED <<states, updates>>
      BY <2>1, <2>3, ReceivedType DEF TypeOK
    <2>4. CASE /\ states' = [states EXCEPT ![t] = Changed(t, @, m.added, m.removed)]
               /\ updates' = [p \in Pets |->
                    IF p \in m.added THEN Document(WrittenAt(p, m.number))
                    ELSE Removed(m.removed, NoDocument(m.number))[p]]
      <3>1. states[t] \in TargetState
        BY <2>2 DEF TypeOK
      <3>2. Changed(t, states[t], m.added, m.removed) \in TargetState
        BY <2>2, <3>1, ChangedType
      <3>3. states' \in [Targets -> TargetState]
        BY <2>4, <3>2 DEF TypeOK
      <3>4. \A p \in Pets : Document(WrittenAt(p, m.number)) \in DocumentState
        BY <2>2, WrittenAtType, StatesType
      <3>5. Removed(m.removed, NoDocument(m.number)) \in [Pets -> DocumentState]
        BY <2>2, RemovedType, StatesType
      <3>6. updates' \in [Pets -> DocumentState]
        BY <2>4, <3>4, <3>5
      <3> QED BY <2>1, <3>3, <3>6, ReceivedType DEF TypeOK
    <2> QED BY <1>1, <2>3, <2>4 DEF HandleDocumentChange
  <1>2. CASE HandleTargetAdded
    <2>1. Received("Added") /\ UNCHANGED <<updates, resets>> /\ down # <<>>
      BY <1>2 DEF HandleTargetAdded, Received, Receive
    <2>2. t \in Targets
      BY <2>1, HeadType
    <2>3. states' \in [Targets -> TargetState]
      BY <1>2, <2>2, TargetStatesType DEF HandleTargetAdded, TypeOK
    <2> QED BY <2>1, <2>3, ReceivedType DEF TypeOK
  <1>3. CASE HandleTargetRemoved
    <2>1. Received("Removed") /\ UNCHANGED <<updates, resets>> /\ down # <<>>
      BY <1>3 DEF HandleTargetRemoved, Received, Receive
    <2>2. t \in Targets
      BY <2>1, HeadType
    <2>3. states' \in [Targets -> TargetState]
      BY <1>3, <2>2, TargetStatesType, StatesType DEF HandleTargetRemoved, TypeOK
    <2> QED BY <2>1, <2>3, ReceivedType DEF TypeOK
  <1>4. CASE HandleTargetCurrent
    <2>1. Received("Current") /\ UNCHANGED <<updates, resets>> /\ down # <<>>
      BY <1>4 DEF HandleTargetCurrent, Received, Receive
    <2>2. t \in Targets
      BY <2>1, HeadType
    <2> DEFINE b == states[t].current \/ IsActiveTarget(t)
    <2>3. b \in BOOLEAN
      BY <2>2 DEF TypeOK, TargetState
    <2>4. states' = [states EXCEPT ![t] = [@ EXCEPT !.known = TRUE, !.current = b]]
      BY <1>4, <2>2 DEF HandleTargetCurrent, TypeOK, TargetState
    <2> HIDE DEF b
    <2>5. states' \in [Targets -> TargetState]
      BY <2>2, <2>3, <2>4, TargetStatesType DEF TypeOK
    <2> QED BY <2>1, <2>5, ReceivedType DEF TypeOK
  <1>5. CASE HandleTargetReset
    <2>1. Received("Reset") /\ UNCHANGED <<updates, resets>> /\ down # <<>>
      BY <1>5 DEF HandleTargetReset, Received, Receive
    <2>2. t \in Targets
      BY <2>1, HeadType
    <2>3. states' \in [Targets -> TargetState]
      BY <1>5, <2>2, TargetStatesType DEF HandleTargetReset, TypeOK
    <2> QED BY <2>1, <2>3, ReceivedType DEF TypeOK
  <1>6. CASE HandleExistenceFilter
    <2>1. Received("Filter") /\ down # <<>>
      BY <1>6 DEF HandleExistenceFilter, Received, Receive
    <2>2. t \in Targets
      BY <2>1, HeadType
    <2>3. CASE /\ states' = [states EXCEPT ![t] = Changed(t, @, {}, {t.path})]
               /\ updates' = Removed({t.path}, Forgotten)
               /\ UNCHANGED resets
      <3>1. states[t] \in TargetState
        BY <2>2 DEF TypeOK
      <3>2. Changed(t, states[t], {}, {t.path}) \in TargetState
        BY <2>2, <3>1, ChangedType
      <3>3. states' \in [Targets -> TargetState]
        BY <2>3, <3>2 DEF TypeOK
      <3>4. updates' \in [Pets -> DocumentState]
        BY <2>3, RemovedType, StatesType
      <3> QED BY <2>1, <2>3, <3>3, <3>4, ReceivedType DEF TypeOK
    <2>4. CASE /\ ~IsDocumentQuery(t)
               /\ states' = [states EXCEPT ![t] = ResetTarget(t)]
               /\ resets' = resets \cup {t}
               /\ UNCHANGED updates
      <3>1. t \in UserTargets
        BY <2>2, <2>4, PetQueriesAssumption, KindsOfTargets DEF IsDocumentQuery
      <3>2. states' \in [Targets -> TargetState]
        BY <2>2, <2>4, TargetStatesType DEF TypeOK
      <3> QED BY <2>1, <2>4, <3>1, <3>2, ReceivedType DEF TypeOK
    <2>5. CASE UNCHANGED <<states, updates, resets>>
      BY <2>1, <2>5, ReceivedType DEF TypeOK
    <2> QED BY <1>6, <2>3, <2>4, <2>5 DEF HandleExistenceFilter
  <1> QED BY <1>1, <1>2, <1>3, <1>4, <1>5, <1>6

(***************************************************************************)
(* One snapshot: what is applied, listened to and asked for.               *)
(***************************************************************************)

LEMMA ChangeType ==
  ASSUME TypeOK, NEW t \in Targets
  PROVE  Change(t) \in TargetState
  <1>1. states[t] \in TargetState
    BY DEF TypeOK
  <1>2. Changed(t, states[t], {}, {t.path}) \in TargetState
    BY <1>1, ChangedType
  <1> QED BY <1>1, <1>2 DEF Change

LEMMA AfterType ==
  ASSUME TypeOK, NEW v \in Nat
  PROVE  /\ KeysAfter \in [UserTargets -> SUBSET Pets]
         /\ CacheAfter(v) \in [Pets -> DocumentState]
         /\ CurrentAfter \subseteq UserTargets
         /\ LimboAfter(v) \in [UserTargets -> SUBSET Pets]
         /\ ReceivedAfter \subseteq LimboTargets
         /\ ListenedAfter(v) \subseteq Targets
         /\ LocalAfter(v) \in [UserTargets -> Nat]
  <1>1. KeysAfter \in [UserTargets -> SUBSET Pets]
    <2>1. \A t \in UserTargets : Change(t) \in TargetState
      BY ChangeType, KindsOfTargets
    <2>2. \A t \in UserTargets : Change(t).added \in SUBSET Pets
      BY <2>1 DEF TargetState
    <2> QED BY <2>2 DEF KeysAfter, TypeOK
  <1>2. CacheAfter(v) \in [Pets -> DocumentState]
    <2>1. NoDocument(v) \in DocumentState /\ Unknown \in DocumentState
      BY StatesType
    <2>2. DocumentUpdates(v) \in [Pets -> DocumentState]
      BY <2>1, RemovedType DEF DocumentUpdates
    <2> QED BY <2>1, <2>2 DEF CacheAfter, TypeOK
  <1>3. CurrentAfter \subseteq UserTargets
    BY DEF CurrentAfter
  <1>4. LimboAfter(v) \in [UserTargets -> SUBSET Pets]
    <2>1. Cached(CacheAfter(v)) \in SUBSET Pets
      BY DEF Cached
    <2>2. \A t \in UserTargets : Matching(t, Cached(CacheAfter(v))) \in SUBSET Pets
      BY <2>1, MatchingIsPart
    <2> QED BY <2>2 DEF LimboAfter, TypeOK
  <1>5. ReceivedAfter \subseteq LimboTargets
    BY DEF ReceivedAfter
  <1>6. ListenedAfter(v) \subseteq Targets
    BY <1>4, WantedAreLimbo, KindsOfTargets DEF ListenedAfter
  <1>7. LocalAfter(v) \in [UserTargets -> Nat]
    BY DEF LocalAfter, TypeOK
  <1> QED BY <1>1, <1>2, <1>3, <1>4, <1>5, <1>6, <1>7

LEMMA RequestsType ==
  ASSUME NEW v
  PROVE  Requests(v) \in [Targets -> Seq(Request)]
  <1>1. Unwatch \in Request /\ Watch(0) \in Request
    BY StatesType
  <1>2. /\ Rewatch \in Seq(Request) /\ <<Watch(0)>> \in Seq(Request)
        /\ <<Unwatch>> \in Seq(Request)
    BY <1>1 DEF Rewatch
  <1> QED BY <1>2 DEF Requests

LEMMA SnapshotType ==
  ASSUME TypeOK, HandleSnapshot
  PROVE  TypeOK'
  <1> DEFINE v == Head(down).number
  <1>1. down # <<>> /\ down' = Tail(down) /\ online' = "Online"
    BY DEF HandleSnapshot, Receive
  <1>2. v \in Nat /\ down' \in Seq(Response)
    BY <1>1, HeadType
  <1>3. UNCHANGED <<serverVars, stream, listens, faults>>
    BY DEF HandleSnapshot
  <1>4. CASE RaiseWatchSnapshot(v)
    <2> HIDE DEF v
    <2>1. /\ listened' = ListenedAfter(v) /\ updates' = Nothing /\ resets' = {}
          /\ local' = LocalAfter(v) /\ keys' = KeysAfter /\ cache' = CacheAfter(v)
          /\ snapver' = v /\ current' = CurrentAfter /\ limbo' = LimboAfter(v)
          /\ received' \subseteq ReceivedAfter
      BY <1>4 DEF RaiseWatchSnapshot
    <2>2. up' \in [Targets -> Seq(Request)] /\ states' \in [Targets -> TargetState]
      <3> DEFINE base == [t \in Targets |->
                            IF t \in Ready THEN ClearPendingChanges(states[t])
                                           ELSE states[t]]
      <3>1. base \in [Targets -> TargetState]
        BY TargetStatesType DEF TypeOK
      <3>2. Send(base, Requests(v))
        BY <1>4 DEF RaiseWatchSnapshot
      <3> HIDE DEF base
      <3> QED BY <3>1, <3>2, RequestsType, SendType
    <2>3. token' \in [Targets -> Nat]
      BY <1>2, <1>4 DEF RaiseWatchSnapshot, TypeOK
    <2>4. stored' \in [UserTargets -> Nat]
      <3>1. PICK S : stored' = [t \in UserTargets |-> IF t \in S THEN v ELSE stored[t]]
        BY <1>4 DEF RaiseWatchSnapshot
      <3> QED BY <1>2, <3>1 DEF TypeOK
    <2>5. idle' \in BOOLEAN
      BY <1>4 DEF RaiseWatchSnapshot
    <2>6. spoilt' \subseteq UserTargets
      BY <1>4 DEF RaiseWatchSnapshot, TypeOK, Mismatched
    <2>7. updates' \in [Pets -> DocumentState] /\ resets' \subseteq UserTargets
      BY <2>1, StatesType
    <2> QED
      BY <1>1, <1>2, <1>3, <2>1, <2>2, <2>3, <2>4, <2>5, <2>6, <2>7, AfterType
      DEF TypeOK, serverVars
  <1>5. CASE UNCHANGED <<up, idle, listened, token, aggregator, storeVars, viewVars,
                         spoilt>>
    BY <1>1, <1>2, <1>3, <1>5
    DEF TypeOK, serverVars, aggregator, storeVars, viewVars
  <1> QED BY <1>4, <1>5 DEF HandleSnapshot

LEMMA NextType == TypeOK /\ [Next]_vars => TypeOK'
  <1> SUFFICES ASSUME TypeOK, [Next]_vars PROVE TypeOK'
    OBVIOUS
  <1>1. CASE Commit \/ ServerAdvances \/ ServerSendsSnapshot
    BY <1>1, ServerType
  <1>2. CASE \E t \in Targets : ServerStep(t) \/ ServerReset(t)
    BY <1>2, ServerType
  <1>3. CASE \E t \in UserTargets : Listen(t) \/ StopListening(t)
    BY <1>3, ListenType, StopListeningType
  <1>4. CASE \/ OnWatchStreamOpen \/ OnWatchStreamClose \/ RestartNetwork
             \/ OnlineStateTimeout \/ IdleTimeout \/ Relaunch
    BY <1>4, StreamType
  <1>5. CASE OnWatchStreamChange
    BY <1>5, AggregatorType, SnapshotType DEF OnWatchStreamChange
  <1>6. CASE UNCHANGED vars
    BY <1>6
    DEF TypeOK, vars, serverVars, streamVars, aggregator, storeVars, viewVars
  <1> QED BY <1>1, <1>2, <1>3, <1>4, <1>5, <1>6 DEF Next

(* Every variable holds what the code's types allow, in every execution. *)
THEOREM WatchTypeCorrect == Spec => []TypeOK
  BY InitType, NextType, PTL DEF Spec

(***************************************************************************)
(* The limbo resolutions.  A query nobody listens to has nothing in limbo. *)
(***************************************************************************)

LimboInv ==
  /\ LimboListensAreWanted
  /\ \A t \in UserTargets \ listened : limbo[t] = {}

LEMMA WantedKept ==
  ASSUME NEW limbos, NEW S, NEW T,
         \A t \in UserTargets : limbos[t] # {} => (t \in S <=> t \in T)
  PROVE  Wanted(limbos, S) = Wanted(limbos, T)
  <1>1. UNION {limbos[t] : t \in S \cap UserTargets}
          = UNION {limbos[t] : t \in T \cap UserTargets}
    OBVIOUS
  <1> QED BY <1>1 DEF Wanted

LEMMA LimboStep ==
  ASSUME TypeOK, LimboInv, [Next]_vars
  PROVE  LimboInv'
  <1> USE DEF LimboInv, LimboListensAreWanted
  <1>1. CASE UNCHANGED <<listened, limbo>>
    BY <1>1 DEF Wanted
  <1>2. CASE Relaunch
    BY <1>2 DEF Relaunch, Wanted
  <1>3. ASSUME NEW t \in UserTargets, Listen(t)
        PROVE  LimboInv'
    <2>1. /\ listened' = listened \cup {t} /\ t \notin listened /\ limbo' = limbo
      BY <1>3 DEF Listen, viewVars
    <2>2. Wanted(limbo, listened') = Wanted(limbo, listened)
      BY <2>1, WantedKept
    <2>3. listened' \cap LimboTargets = listened \cap LimboTargets
      BY <2>1, KindsOfTargets
    <2>4. Wanted(limbo', listened') = Wanted(limbo, listened')
      BY <2>1
    <2> QED BY <2>1, <2>2, <2>3, <2>4
  <1>4. ASSUME NEW t \in UserTargets, StopListening(t)
        PROVE  LimboInv'
    <2>1. /\ t \in listened /\ limbo' = [limbo EXCEPT ![t] = {}]
          /\ listened' = listened \ ({t} \cup ((listened \cap LimboTargets)
                                                  \ Wanted(limbo', listened)))
      BY <1>4 DEF StopListening
    <2>2. \A u \in UserTargets : limbo'[u] = IF u = t THEN {} ELSE limbo[u]
      BY <2>1 DEF TypeOK
    <2>3. \A u \in UserTargets : u \in listened' <=> u \in listened /\ u # t
      BY <2>1, KindsOfTargets
    <2>4. Wanted(limbo', listened') = Wanted(limbo', listened)
      BY <2>2, <2>3, WantedKept
    <2>5. Wanted(limbo', listened) \subseteq Wanted(limbo, listened)
      BY <2>2 DEF Wanted
    <2>6. listened' \cap LimboTargets = Wanted(limbo', listened)
      BY <2>1, <2>5, KindsOfTargets
    <2> QED BY <2>2, <2>3, <2>4, <2>6
  <1>5. CASE RaiseWatchSnapshot(Head(down).number)
    <2> DEFINE v == Head(down).number
    <2>1. listened' = ListenedAfter(v) /\ limbo' = LimboAfter(v)
      BY <1>5 DEF RaiseWatchSnapshot
    <2> HIDE DEF v
    <2>2. \A u \in UserTargets \ listened : limbo'[u] = {}
      BY <2>1 DEF LimboAfter, CurrentAfter
    <2>3. Wanted(limbo', listened) \subseteq LimboTargets
      <3>1. Cached(CacheAfter(v)) \in SUBSET Pets
        BY DEF Cached
      <3>2. limbo' \in [UserTargets -> SUBSET Pets]
        BY <2>1, <3>1, MatchingIsPart DEF LimboAfter, TypeOK
      <3> QED BY <3>2, WantedAreLimbo
    <2>4. listened' = (listened \cap UserTargets) \cup Wanted(limbo', listened)
      BY <2>1 DEF ListenedAfter
    <2>5. \A u \in UserTargets : u \in listened' <=> u \in listened
      BY <2>3, <2>4, KindsOfTargets
    <2>6. Wanted(limbo', listened') = Wanted(limbo', listened)
      BY <2>5, WantedKept
    <2>7. listened' \cap LimboTargets = Wanted(limbo', listened)
      BY <2>3, <2>4, KindsOfTargets
    <2> QED BY <2>2, <2>5, <2>6, <2>7
  <1>6. ASSUME NEW t \in Targets, ServerStep(t) \/ ServerReset(t)
        PROVE  UNCHANGED <<listened, limbo>>
    BY <1>6 DEF ServerStep, ServerReset, ServerWatch, ServerUnwatch,
       ServerSendsDocuments, ServerSendsCurrent, ServerSendsFilter, Say, viewVars
  <1>7. CASE Commit \/ ServerAdvances \/ ServerSendsSnapshot
    BY <1>1, <1>7 DEF Commit, ServerAdvances, ServerSendsSnapshot, viewVars
  <1>8. CASE OnWatchStreamOpen \/ OnWatchStreamClose \/ RestartNetwork
             \/ OnlineStateTimeout \/ IdleTimeout
    BY <1>1, <1>8 DEF OnWatchStreamOpen, OnWatchStreamClose, RestartNetwork,
       OnlineStateTimeout, IdleTimeout, viewVars
  <1>9. CASE OnWatchStreamChange
    <2>1. CASE HandleSnapshot
      BY <1>1, <1>5, <2>1 DEF HandleSnapshot, viewVars
    <2>2. CASE ~HandleSnapshot
      BY <1>1, <1>9, <2>2 DEF OnWatchStreamChange, HandleDocumentChange,
         HandleTargetAdded, HandleTargetRemoved, HandleTargetCurrent,
         HandleTargetReset, HandleExistenceFilter, Received, viewVars
    <2> QED BY <2>1, <2>2
  <1>10. CASE UNCHANGED vars
    BY <1>1, <1>10 DEF vars, viewVars
  <1> QED BY <1>1, <1>2, <1>3, <1>4, <1>6, <1>7, <1>8, <1>9, <1>10 DEF Next

(* The client listens to exactly the pets in limbo in a query somebody listens
   to, whichever of the listen, the limbo and the stream ends first. *)
THEOREM LimboResolutionsMatch == Spec => []LimboListensAreWanted
  <1>1. Init => LimboInv
    BY DEF Init, LimboInv, LimboListensAreWanted, Wanted
  <1>2. TypeOK /\ LimboInv /\ [Next]_vars => LimboInv'
    BY LimboStep
  <1>3. LimboInv => LimboListensAreWanted
    BY DEF LimboInv
  <1> QED BY <1>1, <1>2, <1>3, WatchTypeCorrect, PTL DEF Spec

(***************************************************************************)
(* The resume tokens.                                                      *)
(***************************************************************************)

LEMMA TokensStep ==
  ASSUME TypeOK, TokensAgree, [Next]_vars
  PROVE  TokensAgree'
  <1> USE DEF TokensAgree
  <1>1. CASE UNCHANGED <<listened, token, local, stored, snapver>>
    BY <1>1
  <1>2. CASE Relaunch
    <2>1. listened' = {} /\ local' = stored /\ UNCHANGED <<stored, snapver>>
      BY <1>2 DEF Relaunch
    <2> QED BY <2>1 DEF TypeOK
  <1>3. ASSUME NEW t \in UserTargets, Listen(t)
        PROVE  TokensAgree'
    <2>1. /\ listened' = listened \cup {t}
          /\ token' = [token EXCEPT ![t] = stored[t]]
          /\ local' = [local EXCEPT ![t] = stored[t]]
          /\ UNCHANGED <<stored, snapver>>
      BY <1>3 DEF Listen
    <2>2. t \in Targets
      BY KindsOfTargets
    <2> QED BY <2>1, <2>2 DEF TypeOK
  <1>4. ASSUME NEW t \in UserTargets, StopListening(t)
        PROVE  TokensAgree'
    <2>1. /\ stored' = [stored EXCEPT ![t] = local[t]]
          /\ listened' \subseteq listened
          /\ \A u \in listened' \cap UserTargets : token'[u] = token[u]
          /\ UNCHANGED <<local, snapver>>
      BY <1>4 DEF StopListening, TypeOK
    <2> QED BY <2>1 DEF TypeOK
  <1>5. CASE HandleSnapshot /\ RaiseWatchSnapshot(Head(down).number)
                            /\ Head(down).number >= snapver
    <2> DEFINE v == Head(down).number
    <2>1. v \in Nat /\ v >= snapver /\ RaiseWatchSnapshot(v)
      BY <1>5, HeadType DEF HandleSnapshot, Receive
    <2> HIDE DEF v
    <2>2. PICK S \in SUBSET (Ready \cap UserTargets) :
            stored' = [t \in UserTargets |-> IF t \in S THEN v ELSE stored[t]]
      BY <2>1 DEF RaiseWatchSnapshot
    <2>3. /\ local' = [t \in UserTargets |-> IF t \in Ready THEN v ELSE local[t]]
          /\ snapver' = v /\ listened' = ListenedAfter(v)
          /\ token' = [t \in Targets |-> IF Requests(v)[t] # <<>> THEN 0
                                         ELSE IF t \in Ready THEN v ELSE token[t]]
      BY <2>1 DEF RaiseWatchSnapshot, LocalAfter
    <2>4. listened' \cap UserTargets \subseteq listened
      <3>1. Wanted(LimboAfter(v), listened) \subseteq LimboTargets
        BY <2>1, WantedAreLimbo, AfterType
      <3> QED BY <2>3, <3>1, KindsOfTargets DEF ListenedAfter
    <2>5. \A t \in listened' \cap UserTargets : token'[t] \in {0, local'[t]}
      BY <2>3, <2>4, KindsOfTargets
    <2>6. \A t \in UserTargets : stored'[t] <= local'[t] /\ local'[t] <= snapver'
      BY <2>1, <2>2, <2>3 DEF TypeOK
    <2> QED BY <2>5, <2>6
  <1>6. ASSUME NEW t \in Targets, ServerStep(t) \/ ServerReset(t)
        PROVE  UNCHANGED <<listened, token, local, stored, snapver>>
    BY <1>6 DEF ServerStep, ServerReset, ServerWatch, ServerUnwatch,
       ServerSendsDocuments, ServerSendsCurrent, ServerSendsFilter, Say, storeVars
  <1>7. CASE Commit \/ ServerAdvances \/ ServerSendsSnapshot
    BY <1>1, <1>7 DEF Commit, ServerAdvances, ServerSendsSnapshot, storeVars
  <1>8. CASE OnWatchStreamOpen \/ OnWatchStreamClose \/ RestartNetwork
             \/ OnlineStateTimeout \/ IdleTimeout
    BY <1>1, <1>8 DEF OnWatchStreamOpen, OnWatchStreamClose, RestartNetwork,
       OnlineStateTimeout, IdleTimeout, storeVars
  <1>9. CASE OnWatchStreamChange
    <2>1. CASE HandleSnapshot
      BY <1>1, <1>5, <2>1 DEF HandleSnapshot, storeVars
    <2>2. CASE ~HandleSnapshot
      BY <1>1, <1>9, <2>2 DEF OnWatchStreamChange, HandleDocumentChange,
         HandleTargetAdded, HandleTargetRemoved, HandleTargetCurrent,
         HandleTargetReset, HandleExistenceFilter, Received, storeVars
    <2> QED BY <2>1, <2>2
  <1>10. CASE UNCHANGED vars
    BY <1>1, <1>10 DEF vars, storeVars
  <1> QED BY <1>1, <1>2, <1>3, <1>4, <1>6, <1>7, <1>8, <1>9, <1>10 DEF Next

(* A stream resumes from the token the keys are of or from nothing, and the token
   on disk is never ahead of the one in memory. *)
THEOREM ResumeTokensAgree == Spec => []TokensAgree
  <1>1. Init => TokensAgree
    BY DEF Init, TokensAgree
  <1>2. TypeOK /\ TokensAgree /\ [Next]_vars => TokensAgree'
    BY TokensStep
  <1> QED BY <1>1, <1>2, WatchTypeCorrect, PTL DEF Spec

(***************************************************************************)
(* The answers that are due.                                               *)
(***************************************************************************)

(* The last answer about t in d, if there is one, is to a listen. *)
LastIsAdded(d, t) ==
  \A i \in Answers(d, t) : (\A j \in Answers(d, t) : j <= i) => d[i].kind = "Added"

LEMMA AnswersFinite ==
  ASSUME NEW d \in Seq(Response), NEW t
  PROVE  IsFiniteSet(Answers(d, t)) /\ Cardinality(Answers(d, t)) \in Nat
  <1>1. Len(d) \in Nat /\ DOMAIN d = 1..Len(d)
    OBVIOUS
  <1>2. IsFiniteSet(1..Len(d))
    BY <1>1, FS_Interval
  <1>3. Answers(d, t) \subseteq 1..Len(d)
    BY <1>1 DEF Answers
  <1> QED BY <1>2, <1>3, FS_Subset, FS_CardinalityType

LEMMA AnswersAppended ==
  ASSUME NEW d \in Seq(Response), NEW m \in Response, NEW t
  PROVE  /\ IsAnswer(m, t) =>
              /\ Cardinality(Answers(Append(d, m), t)) = Cardinality(Answers(d, t)) + 1
              /\ m.kind = "Added" => LastIsAdded(Append(d, m), t)
         /\ ~IsAnswer(m, t) =>
              /\ Cardinality(Answers(Append(d, m), t)) = Cardinality(Answers(d, t))
              /\ LastIsAdded(d, t) => LastIsAdded(Append(d, m), t)
  <1> DEFINE n == Len(d)
             e == Append(d, m)
  <1>1. n \in Nat /\ DOMAIN d = 1..n
    OBVIOUS
  <1>2. /\ DOMAIN e = 1..(n + 1) /\ e[n + 1] = m
        /\ \A i \in 1..n : e[i] = d[i]
    OBVIOUS
  <1> HIDE DEF n, e
  <1>3. CASE IsAnswer(m, t)
    <2>1. Answers(e, t) = Answers(d, t) \cup {n + 1}
      BY <1>1, <1>2, <1>3 DEF Answers
    <2>2. n + 1 \notin Answers(d, t)
      BY <1>1 DEF Answers
    <2>3. Cardinality(Answers(e, t)) = Cardinality(Answers(d, t)) + 1
      BY <2>1, <2>2, AnswersFinite, FS_AddElement
    <2>4. LastIsAdded(e, t) <=> m.kind = "Added"
      <3>1. \A i \in Answers(d, t) : i \in 1..n
        BY <1>1 DEF Answers
      <3>2. \A i \in Answers(e, t) :
              (\A j \in Answers(e, t) : j <= i) <=> i = n + 1
        BY <1>1, <2>1, <3>1
      <3> QED BY <1>2, <2>1, <3>2 DEF LastIsAdded
    <2> QED BY <1>3, <2>3, <2>4 DEF e
  <1>4. CASE ~IsAnswer(m, t)
    <2>1. Answers(e, t) = Answers(d, t)
      BY <1>1, <1>2, <1>4 DEF Answers
    <2>2. \A i \in Answers(d, t) : e[i] = d[i]
      BY <1>1, <1>2 DEF Answers
    <2> QED BY <1>4, <2>1, <2>2 DEF LastIsAdded, e
  <1> QED BY <1>3, <1>4

LEMMA AnswersTaken ==
  ASSUME NEW d \in Seq(Response), d # <<>>, NEW t
  PROVE  /\ IsAnswer(Head(d), t) =>
              Cardinality(Answers(Tail(d), t)) = Cardinality(Answers(d, t)) - 1
         /\ ~IsAnswer(Head(d), t) =>
              Cardinality(Answers(Tail(d), t)) = Cardinality(Answers(d, t))
         /\ LastIsAdded(d, t) => LastIsAdded(Tail(d), t)
         /\ IsAnswer(Head(d), t) /\ LastIsAdded(d, t) /\ Cardinality(Answers(d, t)) = 1
              => Head(d).kind = "Added"
  <1> DEFINE n == Len(d)
             e == Tail(d)
             A == Answers(d, t)
             B == Answers(e, t)
  <1>1. n \in Nat /\ n # 0 /\ DOMAIN d = 1..n /\ Head(d) = d[1]
    BY EmptySeq
  <1>2. e \in Seq(Response) /\ Len(e) = n - 1
    BY HeadTailProperties
  <1>3. DOMAIN e = 1..(n - 1) /\ \A i \in 1..(n - 1) : e[i] = d[i + 1]
    BY <1>2, HeadTailProperties
  <1>4. /\ \A i : i \in A <=> i \in 1..n /\ IsAnswer(d[i], t)
        /\ \A i : i \in B <=> i \in 1..(n - 1) /\ IsAnswer(d[i + 1], t)
    BY <1>1, <1>3 DEF Answers
  <1>5. IsFiniteSet(A) /\ IsFiniteSet(B)
    BY <1>2, AnswersFinite
  <1> HIDE DEF n, A, B, e
  <1>6. Cardinality(A \ {1}) = Cardinality(B)
    <2> DEFINE f == [i \in A \ {1} |-> i - 1]
    <2>1. f \in [A \ {1} -> B]
      BY <1>1, <1>4
    <2>2. \A i, j \in A \ {1} : f[i] = f[j] => i = j
      BY <1>1, <1>4
    <2>3. \A j \in B : \E i \in A \ {1} : f[i] = j
      <3> SUFFICES ASSUME NEW j \in B PROVE \E i \in A \ {1} : f[i] = j
        OBVIOUS
      <3>1. j + 1 \in A \ {1} /\ (j + 1) - 1 = j
        BY <1>1, <1>4
      <3> QED BY <3>1
    <2> HIDE DEF f
    <2>4. f \in Bijection(A \ {1}, B)
      BY <2>1, <2>2, <2>3, Fun_IsBij
    <2>5. ExistsBijection(A \ {1}, B)
      BY <2>4, Fun_ExistsBij
    <2>6. IsFiniteSet(A \ {1})
      BY <1>5, FS_RemoveElement
    <2> QED BY <2>5, <2>6, FS_Bijection
  <1>7. 1 \in A <=> IsAnswer(Head(d), t)
    BY <1>1, <1>4
  <1>8. /\ IsAnswer(Head(d), t) => Cardinality(B) = Cardinality(A) - 1
        /\ ~IsAnswer(Head(d), t) => Cardinality(B) = Cardinality(A)
    BY <1>5, <1>6, <1>7, FS_RemoveElement
  <1>9. LastIsAdded(d, t) => LastIsAdded(e, t)
    <2> SUFFICES ASSUME LastIsAdded(d, t), NEW i \in B, \A j \in B : j <= i
                 PROVE  e[i].kind = "Added"
      BY DEF LastIsAdded, B
    <2>1. i + 1 \in A /\ i \in 1..(n - 1)
      BY <1>1, <1>4
    <2>2. \A j \in A : j <= i + 1
      <3> SUFFICES ASSUME NEW j \in A PROVE j <= i + 1
        OBVIOUS
      <3>1. j \in 1..n
        BY <1>4
      <3>2. CASE j = 1
        BY <2>1, <3>2
      <3>3. CASE j # 1
        <4>1. j - 1 \in B
          BY <1>1, <1>4, <3>1, <3>3
        <4> QED BY <2>1, <3>1, <4>1
      <3> QED BY <3>2, <3>3
    <2>3. d[i + 1].kind = "Added"
      BY <2>1, <2>2 DEF LastIsAdded, A
    <2> QED BY <1>3, <2>1, <2>3
  <1>10. ASSUME IsAnswer(Head(d), t), LastIsAdded(d, t), Cardinality(A) = 1
         PROVE  Head(d).kind = "Added"
    <2>1. PICK x : A = {x}
      BY <1>5, <1>10, FS_Singleton
    <2>2. A = {1}
      BY <1>7, <1>10, <2>1
    <2> QED BY <1>1, <1>10, <2>2 DEF LastIsAdded, A
  <1> QED BY <1>8, <1>9, <1>10 DEF A, B, e

(***************************************************************************)
(* The invariant of the aggregator.                                        *)
(***************************************************************************)

(* Without a stream nothing is under way and nothing is remembered of one. *)
ClosedIsEmpty ==
  stream # "open" =>
    /\ down = <<>>
    /\ \A t \in Targets : up[t] = <<>> /\ srv[t] = Off /\ states[t] = NoState

UnknownIsNew == \A t \in Targets : ~states[t].known => states[t] = NoState

ListenedIsKnown == stream = "open" => \A t \in listened : states[t].known

(* The last that is due for a target somebody listens to is a listen. *)
WatchComesLast ==
  stream = "open" => \A t \in listened :
    /\ up[t] # <<>> => up[t][Len(up[t])].kind = "watch"
    /\ up[t] = <<>> => LastIsAdded(down, t)

(* The changes of a state fit the keys K. *)
Fits(state, K) == state.modified \cup state.removed \subseteq K /\ state.added \cap K = {}

ChangesFit ==
  \A t \in listened : states[t].out = 0 => Fits(states[t], RemoteKeys(t))

AggregatorInv ==
  /\ ClosedIsEmpty
  /\ UnknownIsNew
  /\ OutstandingIsUnanswered
  /\ ListenedIsKnown
  /\ WatchComesLast
  /\ ChangesFit

LEMMA NoStateIs ==
  /\ NoState.out = 0 /\ ~NoState.known
  /\ NoState.added = {} /\ NoState.modified = {} /\ NoState.removed = {}
  BY DEF NoState, NewState

LEMMA Joined ==
  ASSUME NEW s \in Seq(Request), NEW r \in Seq(Request)
  PROVE  /\ Len(s) \in Nat /\ Len(r) \in Nat
         /\ Len(s \o r) = Len(s) + Len(r)
         /\ r = <<>> => Len(r) = 0 /\ s \o r = s
         /\ r # <<>> => /\ Len(r) # 0 /\ s \o r # <<>>
                        /\ (s \o r)[Len(s) + Len(r)] = r[Len(r)]
  <1>1. Len(s) \in Nat /\ Len(r) \in Nat /\ Len(s \o r) = Len(s) + Len(r)
    BY ConcatProperties
  <1>2. r = <<>> => Len(r) = 0 /\ s \o r = s
    BY ConcatEmptySeq, EmptySeq
  <1>3. ASSUME r # <<>>
        PROVE  /\ Len(r) # 0 /\ s \o r # <<>>
               /\ (s \o r)[Len(s) + Len(r)] = r[Len(r)]
    <2>1. Len(r) # 0 /\ s \o r # <<>>
      BY <1>3, EmptySeq, ConcatEqualIffEmpty
    <2> DEFINE k == Len(s) + Len(r)
    <2>2. k \in 1..Len(s) + Len(r) /\ ~(k <= Len(s)) /\ k - Len(s) = Len(r)
      BY <1>1, <2>1
    <2>3. (s \o r)[k] = r[k - Len(s)]
      BY <2>2, ConcatProperties
    <2> QED BY <2>1, <2>2, <2>3
  <1> QED BY <1>1, <1>2, <1>3

LEMMA AggregatorInit == Init => AggregatorInv
  <1> SUFFICES ASSUME Init PROVE AggregatorInv
    OBVIOUS
  <1>1. /\ stream = "off" /\ down = <<>> /\ listened = {}
        /\ \A t \in Targets : up[t] = <<>> /\ srv[t] = Off /\ states[t] = NoState
    BY DEF Init
  <1>2. \A t : Answers(down, t) = {}
    BY <1>1 DEF Answers
  <1>3. OutstandingIsUnanswered
    <2>1. Len(<<>>) = 0 /\ Cardinality({}) = 0
      BY FS_EmptySet
    <2> QED BY <1>1, <1>2, <2>1, NoStateIs DEF OutstandingIsUnanswered
  <1> QED
    BY <1>1, <1>3 DEF AggregatorInv, ClosedIsEmpty, UnknownIsNew, ListenedIsKnown,
       WatchComesLast, ChangesFit

(* Nothing that the invariant is about happens. *)
LEMMA QuietStep ==
  ASSUME AggregatorInv,
         UNCHANGED <<up, down, stream, listened, states, keys, received>>,
         stream = "open" \/ UNCHANGED srv
  PROVE  AggregatorInv'
  <1>1. ClosedIsEmpty' /\ UnknownIsNew' /\ ListenedIsKnown'
    BY DEF AggregatorInv, ClosedIsEmpty, UnknownIsNew, ListenedIsKnown
  <1>2. OutstandingIsUnanswered'
    BY DEF AggregatorInv, OutstandingIsUnanswered, Answers
  <1>3. WatchComesLast'
    BY DEF AggregatorInv, WatchComesLast, LastIsAdded, Answers
  <1>4. ChangesFit'
    BY DEF AggregatorInv, ChangesFit, RemoteKeys
  <1> QED BY <1>1, <1>2, <1>3, <1>4 DEF AggregatorInv

(* A new aggregator, and nothing under way. *)
LEMMA FreshStep ==
  ASSUME TypeOK', stream' # "open", down' = <<>>,
         states' = [t \in Targets |-> NoState],
         \A t \in Targets : up'[t] = <<>> /\ srv'[t] = Off
  PROVE  AggregatorInv'
  <1>1. \A t : Answers(down', t) = {}
    BY DEF Answers
  <1>2. OutstandingIsUnanswered'
    <2>1. Len(<<>>) = 0 /\ Cardinality({}) = 0
      BY FS_EmptySet
    <2>2. ASSUME NEW t \in Targets
          PROVE  states'[t].out = Len(up'[t]) + Cardinality(Answers(down', t))
      <3>1. states'[t].out = 0 /\ up'[t] = <<>> /\ Answers(down', t) = {}
        BY <1>1, NoStateIs
      <3>2. Len(up'[t]) = 0
        BY <3>1
      <3>3. Cardinality(Answers(down', t)) = 0
        BY <2>1, <3>1
      <3> QED BY <3>1, <3>2, <3>3
    <2> QED BY <2>2 DEF OutstandingIsUnanswered
  <1>3. /\ ClosedIsEmpty' /\ UnknownIsNew' /\ ListenedIsKnown' /\ WatchComesLast'
    BY DEF ClosedIsEmpty, UnknownIsNew, ListenedIsKnown, WatchComesLast
  <1>4. ChangesFit'
    <2>1. listened' \subseteq Targets
      BY DEF TypeOK
    <2> QED BY <2>1, NoStateIs DEF ChangesFit, Fits
  <1> QED BY <1>2, <1>3, <1>4 DEF AggregatorInv

(* The server says something that answers nothing. *)
LEMMA SaidStep ==
  ASSUME TypeOK, AggregatorInv, NEW m \in Response, m.kind \notin {"Added", "Removed"},
         down' = Append(down, m), stream = "open",
         UNCHANGED <<up, stream, listened, states, keys, received>>
  PROVE  AggregatorInv'
  <1>1. down \in Seq(Response)
    BY DEF TypeOK
  <1>2. \A t : /\ Cardinality(Answers(down', t)) = Cardinality(Answers(down, t))
               /\ LastIsAdded(down, t) => LastIsAdded(down', t)
    BY <1>1, AnswersAppended DEF IsAnswer
  <1>3. OutstandingIsUnanswered'
    BY <1>2 DEF AggregatorInv, OutstandingIsUnanswered
  <1>4. WatchComesLast'
    BY <1>2 DEF AggregatorInv, WatchComesLast
  <1> QED
    BY <1>3, <1>4 DEF AggregatorInv, ClosedIsEmpty, UnknownIsNew, ListenedIsKnown,
       ChangesFit, RemoteKeys

(* The server answers a request about t. *)
LEMMA AnswerStep ==
  ASSUME TypeOK, AggregatorInv, NEW t \in Targets, NEW m \in Response,
         up[t] # <<>>, up' = [up EXCEPT ![t] = Tail(@)],
         m.target = t,
         \/ Head(up[t]).kind = "watch" /\ m.kind = "Added"
         \/ Head(up[t]).kind = "unwatch" /\ m.kind = "Removed",
         down' = Append(down, m),
         UNCHANGED <<stream, listened, states, keys, received>>
  PROVE  AggregatorInv'
  <1>1. down \in Seq(Response) /\ up[t] \in Seq(Request) /\ up \in [Targets -> Seq(Request)]
    BY DEF TypeOK
  <1>2. stream = "open"
    BY DEF AggregatorInv, ClosedIsEmpty
  <1>3. IsAnswer(m, t) /\ \A u \in Targets : u # t => ~IsAnswer(m, u)
    BY DEF IsAnswer
  <1>4. /\ Cardinality(Answers(down', t)) = Cardinality(Answers(down, t)) + 1
        /\ m.kind = "Added" => LastIsAdded(down', t)
    BY <1>1, <1>3, AnswersAppended
  <1>5. \A u \in Targets : u # t =>
          /\ Cardinality(Answers(down', u)) = Cardinality(Answers(down, u))
          /\ LastIsAdded(down, u) => LastIsAdded(down', u)
    BY <1>1, <1>3, AnswersAppended
  <1>6. /\ Len(up[t]) \in Nat /\ Len(up[t]) # 0
        /\ up'[t] = Tail(up[t]) /\ up'[t] \in Seq(Request)
        /\ Len(up'[t]) = Len(up[t]) - 1
        /\ \A i \in 1..Len(up'[t]) : up'[t][i] = up[t][i + 1]
        /\ Head(up[t]) = up[t][1]
        /\ \A u \in Targets : u # t => up'[u] = up[u]
    BY <1>1, EmptySeq, HeadTailProperties
  <1>7. OutstandingIsUnanswered'
    <2> SUFFICES ASSUME NEW u \in Targets
                 PROVE  states'[u].out = Len(up'[u]) + Cardinality(Answers(down', u))
      BY DEF OutstandingIsUnanswered
    <2>1. states'[u].out = Len(up[u]) + Cardinality(Answers(down, u))
      BY DEF AggregatorInv, OutstandingIsUnanswered
    <2>2. CASE u # t
      BY <1>5, <1>6, <2>1, <2>2
    <2>3. CASE u = t
      BY <1>1, <1>4, <1>6, <2>1, <2>3, AnswersFinite
    <2> QED BY <2>2, <2>3
  <1>8. WatchComesLast'
    <2> SUFFICES ASSUME NEW u \in listened
                 PROVE  /\ up'[u] # <<>> => up'[u][Len(up'[u])].kind = "watch"
                        /\ up'[u] = <<>> => LastIsAdded(down', u)
      BY DEF WatchComesLast
    <2>1. /\ up[u] # <<>> => up[u][Len(up[u])].kind = "watch"
          /\ up[u] = <<>> => LastIsAdded(down, u)
          /\ u \in Targets
      BY <1>2 DEF AggregatorInv, WatchComesLast, TypeOK
    <2>2. CASE u # t
      BY <1>5, <1>6, <2>1, <2>2
    <2>3. CASE u = t /\ up'[t] # <<>>
      <3>1. Len(up'[t]) \in 1..Len(up'[t])
        BY <1>6, <2>3, EmptySeq
      <3> QED BY <1>6, <2>1, <2>3, <3>1
    <2>4. CASE u = t /\ up'[t] = <<>>
      <3>1. Len(up[t]) = 1
        <4>1. Len(up'[t]) = 0
          BY <2>4
        <4> QED BY <1>6, <4>1
      <3>2. Head(up[t]).kind = "watch"
        BY <1>6, <2>1, <2>4, <3>1
      <3> QED BY <1>4, <2>4, <3>2
    <2> QED BY <2>2, <2>3, <2>4
  <1> QED
    BY <1>2, <1>7, <1>8 DEF AggregatorInv, ClosedIsEmpty, UnknownIsNew,
       ListenedIsKnown, ChangesFit, RemoteKeys

(* The client sends requests; a target that nothing is asked about was listened
   to on this stream before, and keeps changes that fit. *)
LEMMA SendStep ==
  ASSUME TypeOK, TypeOK', AggregatorInv,
         NEW base \in [Targets -> TargetState],
         NEW requests \in [Targets -> Seq(Request)], Send(base, requests),
         stream' = "open",
         \A t \in Targets :
           /\ base[t].out = states[t].out /\ base[t].known = states[t].known
           /\ ~base[t].known => base[t] = NoState
           /\ Cardinality(Answers(down', t)) = Cardinality(Answers(down, t))
           /\ LastIsAdded(down, t) => LastIsAdded(down', t),
         \A t \in listened' :
           \/ /\ requests[t] # <<>>
              /\ requests[t][Len(requests[t])].kind = "watch"
           \/ /\ requests[t] = <<>>
              /\ t \in listened /\ stream = "open"
              /\ base[t].out = 0 => Fits(base[t], RemoteKeys(t)')
  PROVE  AggregatorInv'
  <1>1. \A t \in Targets : /\ up[t] \in Seq(Request) /\ requests[t] \in Seq(Request)
                           /\ Len(up[t]) \in Nat /\ Len(requests[t]) \in Nat
                           /\ base[t].out \in Int
    BY DEF TypeOK, TargetState
  <1>2. \A t \in Targets :
          /\ up'[t] = up[t] \o requests[t]
          /\ states'[t] = IF requests[t] = <<>> THEN base[t]
                          ELSE [base[t] EXCEPT !.known = TRUE,
                                               !.out = @ + Len(requests[t])]
    BY DEF Send
  <1>3. \A t \in Targets : /\ requests[t] = <<>> => Len(requests[t]) = 0 /\ up'[t] = up[t]
                           /\ requests[t] # <<>> => Len(requests[t]) # 0 /\ up'[t] # <<>>
                           /\ Len(up'[t]) = Len(up[t]) + Len(requests[t])
    <2> SUFFICES ASSUME NEW t \in Targets
                 PROVE  /\ requests[t] = <<>> => Len(requests[t]) = 0 /\ up'[t] = up[t]
                        /\ requests[t] # <<>> => Len(requests[t]) # 0 /\ up'[t] # <<>>
                        /\ Len(up'[t]) = Len(up[t]) + Len(requests[t])
      OBVIOUS
    <2>1. up[t] \in Seq(Request) /\ requests[t] \in Seq(Request)
      BY <1>1
    <2>2. up'[t] = up[t] \o requests[t]
      BY <1>2
    <2>3. /\ Len(up[t] \o requests[t]) = Len(up[t]) + Len(requests[t])
          /\ requests[t] = <<>> => Len(requests[t]) = 0 /\ up[t] \o requests[t] = up[t]
          /\ requests[t] # <<>> => /\ Len(requests[t]) # 0
                                  /\ up[t] \o requests[t] # <<>>
      BY <2>1, Joined, Zenon
    <2> QED BY <2>2, <2>3
  <1>4. \A t \in Targets : states'[t].out = states[t].out + Len(requests[t])
    <2> SUFFICES ASSUME NEW t \in Targets
                 PROVE  states'[t].out = states[t].out + Len(requests[t])
      OBVIOUS
    <2> DEFINE n == Len(requests[t])
    <2>1. n \in Nat /\ base[t] \in TargetState /\ base[t].out = states[t].out
      BY <1>1
    <2>2. requests[t] = <<>> => n = 0
      BY <1>3
    <2>3. states'[t] = IF requests[t] = <<>> THEN base[t]
                       ELSE [base[t] EXCEPT !.known = TRUE, !.out = @ + n]
      BY <1>2
    <2> HIDE DEF n
    <2>4. states'[t].out = states[t].out + n
      BY <2>1, <2>2, <2>3 DEF TargetState
    <2> QED BY <2>4 DEF n
  <1>5. OutstandingIsUnanswered'
    <2> SUFFICES ASSUME NEW t \in Targets
                 PROVE  states'[t].out = Len(up'[t]) + Cardinality(Answers(down', t))
      BY DEF OutstandingIsUnanswered
    <2>1. states[t].out = Len(up[t]) + Cardinality(Answers(down, t))
      BY DEF AggregatorInv, OutstandingIsUnanswered
    <2>2. Cardinality(Answers(down, t)) \in Nat
      BY AnswersFinite DEF TypeOK
    <2>3. Cardinality(Answers(down', t)) = Cardinality(Answers(down, t))
      OBVIOUS
    <2> QED BY <1>1, <1>3, <1>4, <2>1, <2>2, <2>3
  <1>6. UnknownIsNew'
    BY <1>2 DEF UnknownIsNew, TargetState
  <1>7. ListenedIsKnown'
    <2> SUFFICES ASSUME NEW t \in listened' PROVE states'[t].known
      BY DEF ListenedIsKnown
    <2>1. t \in Targets
      BY DEF TypeOK
    <2>2. CASE requests[t] # <<>>
      BY <1>2, <2>1, <2>2 DEF TargetState
    <2>3. CASE requests[t] = <<>>
      <3>1. t \in listened /\ stream = "open"
        BY <2>3
      <3>2. states[t].known
        BY <3>1 DEF AggregatorInv, ListenedIsKnown
      <3> QED BY <1>2, <2>1, <2>3, <3>2
    <2> QED BY <2>2, <2>3
  <1>8. WatchComesLast'
    <2> SUFFICES ASSUME NEW t \in listened'
                 PROVE  /\ up'[t] # <<>> => up'[t][Len(up'[t])].kind = "watch"
                        /\ up'[t] = <<>> => LastIsAdded(down', t)
      BY DEF WatchComesLast
    <2>1. t \in Targets
      BY DEF TypeOK
    <2>2. CASE requests[t] # <<>>
      <3>1. requests[t][Len(requests[t])].kind = "watch"
        BY <2>2
      <3>2. up'[t][Len(up[t]) + Len(requests[t])] = requests[t][Len(requests[t])]
        <4>1. up[t] \in Seq(Request) /\ requests[t] \in Seq(Request)
          BY <1>1, <2>1
        <4>2. up'[t] = up[t] \o requests[t]
          BY <1>2, <2>1
        <4>3. (up[t] \o requests[t])[Len(up[t]) + Len(requests[t])]
                = requests[t][Len(requests[t])]
          BY <2>2, <4>1, Joined, Zenon
        <4> QED BY <4>2, <4>3
      <3> QED BY <1>3, <2>1, <2>2, <3>1, <3>2
    <2>3. CASE requests[t] = <<>>
      <3>1. t \in listened /\ stream = "open"
        BY <2>3
      <3>2. /\ up[t] # <<>> => up[t][Len(up[t])].kind = "watch"
            /\ up[t] = <<>> => LastIsAdded(down, t)
        BY <3>1 DEF AggregatorInv, WatchComesLast
      <3> QED BY <1>3, <2>1, <2>3, <3>2
    <2> QED BY <2>2, <2>3
  <1>9. ChangesFit'
    <2> SUFFICES ASSUME NEW t \in listened', states'[t].out = 0
                 PROVE  Fits(states'[t], RemoteKeys(t)')
      BY DEF ChangesFit
    <2>1. t \in Targets
      BY DEF TypeOK
    <2>2. states[t].out = Len(up[t]) + Cardinality(Answers(down, t))
      BY <2>1 DEF AggregatorInv, OutstandingIsUnanswered
    <2>3. Cardinality(Answers(down, t)) \in Nat
      BY AnswersFinite DEF TypeOK
    <2>4. Len(requests[t]) = 0
      BY <1>1, <1>4, <2>1, <2>2, <2>3
    <2>5. requests[t] = <<>>
      BY <1>3, <2>1, <2>4
    <2>6. states'[t] = base[t]
      BY <1>2, <2>1, <2>5
    <2> QED BY <2>5, <2>6
  <1> QED
    BY <1>5, <1>6, <1>7, <1>8, <1>9 DEF AggregatorInv, ClosedIsEmpty

(* The client takes the oldest message: it changes the state of one target. *)
LEMMA TakenStep ==
  ASSUME TypeOK, TypeOK', AggregatorInv, down # <<>>, down' = Tail(down),
         UNCHANGED <<up, stream, listened, keys, received>>,
         NEW t \in Targets, t = Head(down).target, NEW s \in TargetState,
         states' = [states EXCEPT ![t] = s],
         s.out = IF IsAnswer(Head(down), t) THEN states[t].out - 1 ELSE states[t].out,
         ~s.known => s = NoState,
         t \in listened => s.known,
         t \in listened /\ s.out = 0 => Fits(s, RemoteKeys(t))
  PROVE  AggregatorInv'
  <1>1. stream = "open" /\ stream' = "open"
    BY DEF AggregatorInv, ClosedIsEmpty
  <1>2. down \in Seq(Response) /\ states \in [Targets -> TargetState]
    BY DEF TypeOK
  <1>3. \A u \in Targets : u # t => ~IsAnswer(Head(down), u)
    BY DEF IsAnswer
  <1>4. \A u \in Targets : u # t => states'[u] = states[u]
    BY <1>2
  <1>5. states'[t] = s
    BY <1>2
  <1>6. OutstandingIsUnanswered'
    <2> SUFFICES ASSUME NEW u \in Targets
                 PROVE  states'[u].out = Len(up[u]) + Cardinality(Answers(down', u))
      BY DEF OutstandingIsUnanswered
    <2>1. states[u].out = Len(up[u]) + Cardinality(Answers(down, u))
      BY DEF AggregatorInv, OutstandingIsUnanswered
    <2>2. /\ IsAnswer(Head(down), u) =>
               Cardinality(Answers(down', u)) = Cardinality(Answers(down, u)) - 1
          /\ ~IsAnswer(Head(down), u) =>
               Cardinality(Answers(down', u)) = Cardinality(Answers(down, u))
      BY <1>2, AnswersTaken
    <2>3. Len(up[u]) \in Nat /\ Cardinality(Answers(down, u)) \in Nat
      BY <1>2, AnswersFinite DEF TypeOK
    <2>4. CASE u # t
      BY <1>3, <1>4, <2>1, <2>2, <2>4
    <2>5. CASE u = t
      BY <1>5, <2>1, <2>2, <2>3, <2>5
    <2> QED BY <2>4, <2>5
  <1>7. UnknownIsNew' /\ ListenedIsKnown'
    BY <1>1, <1>4, <1>5 DEF AggregatorInv, UnknownIsNew, ListenedIsKnown, TypeOK
  <1>8. WatchComesLast'
    <2>1. \A u : LastIsAdded(down, u) => LastIsAdded(down', u)
      BY <1>2, AnswersTaken
    <2> QED BY <1>1, <2>1 DEF AggregatorInv, WatchComesLast
  <1>9. ChangesFit'
    <2>1. \A u \in Targets : RemoteKeys(u)' = RemoteKeys(u)
      BY DEF RemoteKeys
    <2>2. listened' = listened /\ listened \subseteq Targets
      BY DEF TypeOK
    <2> QED BY <1>4, <1>5, <2>1, <2>2 DEF AggregatorInv, ChangesFit
  <1> QED
    BY <1>1, <1>6, <1>7, <1>8, <1>9 DEF AggregatorInv, ClosedIsEmpty

(* A target that somebody listens to and whose messages count has nothing due. *)
LEMMA ActiveHasNothingDue ==
  ASSUME TypeOK, AggregatorInv, stream = "open", NEW t \in listened
  PROVE  IsActiveTarget(t) <=> states[t].out = 0
  BY DEF AggregatorInv, ListenedIsKnown, IsActiveTarget

LEMMA ChangedFits ==
  ASSUME NEW t, NEW state \in TargetState, NEW A, NEW R,
         Fits(state, RemoteKeys(t))
  PROVE  Fits(Changed(t, state, A, R), RemoteKeys(t))
  BY DEF Fits, Changed, TargetState

LEMMA ChangedIs ==
  ASSUME NEW t, NEW state \in TargetState, NEW A, NEW R
  PROVE  Changed(t, state, A, R).known /\ Changed(t, state, A, R).out = state.out
  BY DEF Changed, TargetState

(* One message to the aggregator. *)
LEMMA ReceivedStep ==
  ASSUME TypeOK, TypeOK', AggregatorInv,
         \/ HandleDocumentChange \/ HandleTargetAdded \/ HandleTargetRemoved
         \/ HandleTargetCurrent \/ HandleTargetReset \/ HandleExistenceFilter
  PROVE  AggregatorInv'
  <1> DEFINE m == Head(down)
             t == Head(down).target
  <1>1. PICK kind : /\ Received(kind)
                    /\ kind = "Added" => HandleTargetAdded
                    /\ kind = "Removed" => HandleTargetRemoved
                    /\ kind \notin {"Added", "Removed"} =>
                         \/ HandleDocumentChange \/ HandleTargetCurrent
                         \/ HandleTargetReset \/ HandleExistenceFilter
    BY DEF HandleDocumentChange, HandleTargetAdded, HandleTargetRemoved,
       HandleTargetCurrent, HandleTargetReset, HandleExistenceFilter
  <1>2. /\ down # <<>> /\ down' = Tail(down) /\ m.kind = kind
        /\ UNCHANGED <<up, stream, listened, keys, received>>
    BY <1>1 DEF Received, Receive, storeVars, viewVars
  <1>3. /\ t \in Targets /\ states[t] \in TargetState
        /\ m.added \in SUBSET Pets /\ m.removed \in SUBSET Pets
    BY <1>2, HeadType DEF TypeOK
  <1>4. stream = "open"
    BY <1>2 DEF AggregatorInv, ClosedIsEmpty
  <1>5. /\ ~states[t].known => states[t] = NoState
        /\ t \in listened => states[t].known
        /\ t \in listened /\ states[t].out = 0 => Fits(states[t], RemoteKeys(t))
    BY <1>3, <1>4 DEF AggregatorInv, UnknownIsNew, ListenedIsKnown, ChangesFit
  <1>6. IsAnswer(m, t) <=> kind \in {"Added", "Removed"}
    BY <1>2 DEF IsAnswer
  <1>7. IsActiveTarget(t) => t \in listened /\ states[t].out = 0
    BY <1>4, ActiveHasNothingDue DEF IsActiveTarget
  <1>8. CASE kind = "Added"
    <2>1. Answered(t) \in TargetState /\ ClearPendingChanges(Answered(t)) \in TargetState
      BY <1>3, TargetStatesType
    <2>2. Answered(t).known /\ Answered(t).out = states[t].out - 1
      BY <1>3 DEF Answered, TargetState
    <2> DEFINE s == IF Answered(t).out = 0 THEN ClearPendingChanges(Answered(t))
                                          ELSE Answered(t)
    <2>3. s \in TargetState /\ s.known /\ s.out = states[t].out - 1
      BY <2>1, <2>2 DEF ClearPendingChanges, TargetState
    <2>4. s.out = 0 => Fits(s, RemoteKeys(t))
      BY <2>1, <2>2, <2>3 DEF ClearPendingChanges, TargetState, Fits
    <2>5. states' = [states EXCEPT ![t] = s]
      BY <1>1, <1>8 DEF HandleTargetAdded
    <2> HIDE DEF s
    <2> QED BY <1>2, <1>3, <1>6, <1>8, <2>3, <2>4, <2>5, TakenStep
  <1>9. CASE kind = "Removed"
    <2>1. Answered(t) \in TargetState /\ NoState \in TargetState
      BY <1>3, TargetStatesType, StatesType
    <2>2. /\ Answered(t).known /\ Answered(t).out = states[t].out - 1
          /\ Answered(t).added = states[t].added
          /\ Answered(t).modified = states[t].modified
          /\ Answered(t).removed = states[t].removed
      BY <1>3 DEF Answered, TargetState
    <2>3. t \in listened => Answered(t).out # 0
      <3> SUFFICES ASSUME t \in listened, states[t].out = 1 PROVE FALSE
        BY <1>3, <2>2 DEF TargetState
      <3>1. states[t].out = Len(up[t]) + Cardinality(Answers(down, t))
        BY <1>3 DEF AggregatorInv, OutstandingIsUnanswered
      <3>2. down \in Seq(Response) /\ up[t] \in Seq(Request) /\ Len(up[t]) \in Nat
        BY <1>3 DEF TypeOK
      <3>3. /\ Cardinality(Answers(down, t)) \in Nat
            /\ Cardinality(Answers(Tail(down), t)) \in Nat
        BY <1>2, <3>2, AnswersFinite, HeadTailProperties
      <3>4. Cardinality(Answers(Tail(down), t)) = Cardinality(Answers(down, t)) - 1
        BY <1>2, <1>6, <1>9, <3>2, AnswersTaken
      <3>5. Len(up[t]) = 0 /\ Cardinality(Answers(down, t)) = 1
        BY <3>1, <3>2, <3>3, <3>4
      <3>6. up[t] = <<>>
        BY <3>2, <3>5, EmptySeq
      <3>7. LastIsAdded(down, t)
        BY <1>4, <3>6 DEF AggregatorInv, WatchComesLast
      <3>8. Head(down).kind = "Added"
        BY <1>2, <1>6, <1>9, <3>2, <3>5, <3>7, AnswersTaken
      <3> QED BY <1>2, <1>9, <3>8
    <2> DEFINE s == IF Answered(t).out = 0 THEN NoState ELSE Answered(t)
    <2>4. /\ s \in TargetState /\ s.out = states[t].out - 1
          /\ ~s.known => s = NoState
          /\ t \in listened => s.known /\ s.out # 0
      BY <2>1, <2>2, <2>3, NoStateIs
    <2>5. states' = [states EXCEPT ![t] = s]
      BY <1>1, <1>9 DEF HandleTargetRemoved
    <2> HIDE DEF s
    <2> QED BY <1>2, <1>3, <1>6, <1>9, <2>4, <2>5, TakenStep
  <1>10. CASE kind \notin {"Added", "Removed"}
    <2>1. ~IsAnswer(m, t)
      BY <1>6, <1>10
    <2>2. ASSUME NEW s \in TargetState, states' = [states EXCEPT ![t] = s],
                 s.out = states[t].out,
                 ~s.known => s = NoState,
                 t \in listened => s.known,
                 t \in listened /\ s.out = 0 => Fits(s, RemoteKeys(t))
          PROVE  AggregatorInv'
      BY <1>2, <1>3, <2>1, <2>2, TakenStep
    <2>3. CASE UNCHANGED states
      <3>1. states' = [states EXCEPT ![t] = states[t]]
        BY <1>3, <2>3 DEF TypeOK
      <3> QED BY <1>3, <1>5, <2>2, <3>1
    <2>4. ASSUME NEW A \in SUBSET Pets, NEW R, IsActiveTarget(t),
                 states' = [states EXCEPT ![t] = Changed(t, states[t], A, R)]
          PROVE  AggregatorInv'
      <3>1. Changed(t, states[t], A, R) \in TargetState
        BY <1>3, ChangedType
      <3>2. /\ Changed(t, states[t], A, R).known
            /\ Changed(t, states[t], A, R).out = states[t].out
        BY <1>3, ChangedIs
      <3>3. Fits(Changed(t, states[t], A, R), RemoteKeys(t))
        BY <1>3, <1>5, <1>7, <2>4, ChangedFits
      <3> QED BY <2>2, <2>4, <3>1, <3>2, <3>3
    <2>5. CASE IsActiveTarget(t) /\ states' = [states EXCEPT ![t] = ResetTarget(t)]
      <3>1. NewState \in TargetState /\ ResetTarget(t) \in TargetState
        BY <1>3, StatesType, TargetStatesType
      <3>2. ResetTarget(t).known /\ ResetTarget(t).out = 0
        BY <3>1, ChangedIs DEF ResetTarget, NewState
      <3>3. Fits(NewState, RemoteKeys(t))
        BY DEF Fits, NewState
      <3>4. Fits(ResetTarget(t), RemoteKeys(t))
        BY <3>1, <3>3, ChangedFits DEF ResetTarget
      <3> QED BY <1>7, <2>2, <2>5, <3>1, <3>2, <3>4
    <2>6. ASSUME NEW b \in BOOLEAN,
                 states' = [states EXCEPT ![t] =
                              [states[t] EXCEPT !.known = TRUE, !.current = b]]
          PROVE  AggregatorInv'
      <3> DEFINE s == [states[t] EXCEPT !.known = TRUE, !.current = b]
      <3>1. s \in TargetState
        BY <1>3, TargetStatesType
      <3>2. /\ s.known /\ s.out = states[t].out
            /\ s.added = states[t].added /\ s.modified = states[t].modified
            /\ s.removed = states[t].removed
        BY <1>3 DEF TargetState
      <3>3. t \in listened /\ s.out = 0 => Fits(s, RemoteKeys(t))
        BY <1>5, <3>2 DEF Fits
      <3>4. states' = [states EXCEPT ![t] = s]
        BY <2>6
      <3> HIDE DEF s
      <3> QED BY <2>2, <3>1, <3>2, <3>3, <3>4
    <2>7. CASE HandleDocumentChange
      <3>1. CASE UNCHANGED states
        BY <2>3, <3>1
      <3>2. CASE /\ IsActiveTarget(t)
                 /\ states' = [states EXCEPT ![t] = Changed(t, @, m.added, m.removed)]
        BY <1>3, <2>4, <3>2
      <3> QED BY <2>7, <3>1, <3>2 DEF HandleDocumentChange
    <2>8. CASE HandleTargetCurrent
      <3> DEFINE b == states[t].current \/ IsActiveTarget(t)
      <3>1. b \in BOOLEAN
        BY <1>3 DEF TargetState
      <3>2. states' = [states EXCEPT ![t] = [@ EXCEPT !.known = TRUE, !.current = b]]
        BY <1>3, <2>8 DEF HandleTargetCurrent, TypeOK, TargetState
      <3> HIDE DEF b
      <3> QED BY <2>6, <3>1, <3>2
    <2>9. CASE HandleTargetReset
      <3>1. CASE IsActiveTarget(t)
        BY <2>5, <2>9, <3>1 DEF HandleTargetReset
      <3>2. CASE ~IsActiveTarget(t)
        <4>1. states[t].current \in BOOLEAN
          BY <1>3 DEF TargetState
        <4>2. states' = [states EXCEPT ![t] = [@ EXCEPT !.known = TRUE]]
          BY <2>9, <3>2 DEF HandleTargetReset
        <4>3. [states[t] EXCEPT !.known = TRUE]
                = [states[t] EXCEPT !.known = TRUE, !.current = states[t].current]
          BY <1>3 DEF TargetState
        <4> QED BY <2>6, <4>1, <4>2, <4>3
      <3> QED BY <3>1, <3>2
    <2>10. CASE HandleExistenceFilter
      <3>1. CASE UNCHANGED states
        BY <2>3, <3>1
      <3>2. CASE IsActiveTarget(t) /\ states' = [states EXCEPT ![t] = ResetTarget(t)]
        BY <2>5, <3>2
      <3>3. CASE IsActiveTarget(t) /\ states' = [states EXCEPT ![t] =
                                                  Changed(t, @, {}, {t.path})]
        BY <2>4, <3>3
      <3> QED BY <2>10, <3>1, <3>2, <3>3 DEF HandleExistenceFilter
    <2> QED BY <1>1, <1>10, <2>7, <2>8, <2>9, <2>10
  <1> QED BY <1>8, <1>9, <1>10

(* One snapshot: what is not asked about again keeps changes that fit, for a
   target that is ready has none left. *)
LEMMA SnapshotStep ==
  ASSUME TypeOK, TypeOK', AggregatorInv, HandleSnapshot
  PROVE  AggregatorInv'
  <1> DEFINE v == Head(down).number
  <1>1. /\ down # <<>> /\ down' = Tail(down) /\ Head(down).kind = "Snapshot"
        /\ stream' = stream
    BY DEF HandleSnapshot, Receive
  <1>2. stream = "open" /\ down \in Seq(Response)
    BY <1>1 DEF AggregatorInv, ClosedIsEmpty, TypeOK
  <1>3. \A t : ~IsAnswer(Head(down), t)
    BY <1>1 DEF IsAnswer
  <1>4. \A t : /\ Cardinality(Answers(down', t)) = Cardinality(Answers(down, t))
               /\ LastIsAdded(down, t) => LastIsAdded(down', t)
    BY <1>1, <1>2, <1>3, AnswersTaken
  <1>5. CASE UNCHANGED <<up, listened, states, keys, received>>
    <2>1. WatchComesLast'
      BY <1>1, <1>4, <1>5 DEF AggregatorInv, WatchComesLast
    <2>2. OutstandingIsUnanswered'
      BY <1>4, <1>5 DEF AggregatorInv, OutstandingIsUnanswered
    <2> QED
      BY <1>1, <1>2, <1>5, <2>1, <2>2 DEF AggregatorInv, ClosedIsEmpty,
         UnknownIsNew, ListenedIsKnown, ChangesFit, RemoteKeys
  <1>6. CASE RaiseWatchSnapshot(v)
    <2> HIDE DEF v
    <2> DEFINE base == [t \in Targets |-> IF t \in Ready THEN ClearPendingChanges(states[t])
                                                         ELSE states[t]]
    <2>1. Send(base, Requests(v)) /\ listened' = ListenedAfter(v)
      BY <1>6 DEF RaiseWatchSnapshot
    <2>2. \A t \in Targets :
            /\ base[t] \in TargetState
            /\ base[t].out = states[t].out /\ base[t].known = states[t].known
            /\ t \in Ready => Fits(base[t], RemoteKeys(t)')
            /\ t \notin Ready => base[t] = states[t]
      <3> SUFFICES ASSUME NEW t \in Targets
                   PROVE  /\ base[t] \in TargetState
                          /\ base[t].out = states[t].out /\ base[t].known = states[t].known
                          /\ t \in Ready => Fits(base[t], RemoteKeys(t)')
                          /\ t \notin Ready => base[t] = states[t]
        OBVIOUS
      <3>1. states[t] \in TargetState
        BY DEF TypeOK
      <3>2. base[t] = IF t \in Ready THEN ClearPendingChanges(states[t]) ELSE states[t]
        OBVIOUS
      <3> HIDE DEF base
      <3>3. /\ ClearPendingChanges(states[t]) \in TargetState
            /\ ClearPendingChanges(states[t]).out = states[t].out
            /\ ClearPendingChanges(states[t]).known = states[t].known
            /\ ClearPendingChanges(states[t]).added = {}
            /\ ClearPendingChanges(states[t]).modified = {}
            /\ ClearPendingChanges(states[t]).removed = {}
        BY <3>1 DEF ClearPendingChanges, TargetState
      <3>4. t \in Ready => Fits(base[t], RemoteKeys(t)')
        BY <3>2, <3>3 DEF Fits
      <3> QED BY <3>1, <3>2, <3>3, <3>4
    <2>3. base \in [Targets -> TargetState]
      BY <2>2
    <2>4. \A t \in Targets : ~base[t].known => base[t] = NoState
      BY <2>2 DEF AggregatorInv, UnknownIsNew, Ready
    <2>5. ASSUME NEW t \in listened'
          PROVE  \/ /\ Requests(v)[t] # <<>>
                    /\ Requests(v)[t][Len(Requests(v)[t])].kind = "watch"
                 \/ /\ Requests(v)[t] = <<>>
                    /\ t \in listened
                    /\ base[t].out = 0 => Fits(base[t], RemoteKeys(t)')
      <3>1. t \in Targets /\ t \in ListenedAfter(v)
        BY <2>1 DEF TypeOK
      <3>2. CASE t \in Mismatched
        <4>1. Requests(v)[t] = Rewatch
          BY <3>1, <3>2 DEF Requests, Mismatched
        <4>2. Rewatch # <<>> /\ Rewatch[Len(Rewatch)].kind = "watch"
          BY DEF Rewatch, Watch
        <4> QED BY <4>1, <4>2
      <3>3. CASE t \notin Mismatched /\ t \notin listened
        <4>1. Requests(v)[t] = <<Watch(0)>>
          BY <3>1, <3>3 DEF Requests
        <4>2. <<Watch(0)>> # <<>> /\ <<Watch(0)>>[Len(<<Watch(0)>>)].kind = "watch"
          BY DEF Watch
        <4> QED BY <4>1, <4>2
      <3>4. CASE t \notin Mismatched /\ t \in listened
        <4>1. Requests(v)[t] = <<>>
          BY <3>1, <3>4 DEF Requests
        <4>2. base[t].out = 0 => t \in Ready
          <5>1. states[t].known
            BY <1>2, <3>4 DEF AggregatorInv, ListenedIsKnown
          <5> QED BY <1>2, <2>2, <3>1, <3>4, <5>1, ActiveHasNothingDue DEF Ready
        <4> QED BY <2>2, <3>1, <3>4, <4>1, <4>2
      <3> QED BY <3>2, <3>3, <3>4
    <2> HIDE DEF base
    <2>6. \A t \in Targets :
            /\ base[t].out = states[t].out /\ base[t].known = states[t].known
            /\ ~base[t].known => base[t] = NoState
            /\ Cardinality(Answers(down', t)) = Cardinality(Answers(down, t))
            /\ LastIsAdded(down, t) => LastIsAdded(down', t)
      BY <1>4, <2>2, <2>4
    <2>7. Requests(v) \in [Targets -> Seq(Request)] /\ stream' = "open"
      BY <1>1, <1>2, RequestsType
    <2> QED BY <1>2, <2>1, <2>3, <2>5, <2>6, <2>7, SendStep
  <1> QED BY <1>5, <1>6 DEF HandleSnapshot, aggregator, storeVars, viewVars

LEMMA AggregatorListen ==
  ASSUME TypeOK, TypeOK', AggregatorInv, NEW t \in UserTargets, Listen(t)
  PROVE  AggregatorInv'
  <1>1. /\ listened' = listened \cup {t} /\ t \in Targets
        /\ UNCHANGED <<srv, down, keys, received>>
    BY KindsOfTargets DEF Listen, serverVars, viewVars
  <1>2. CASE stream = "off" /\ FreshAggregator /\ UNCHANGED up /\ stream' = "starting"
    BY <1>1, <1>2, FreshStep DEF AggregatorInv, ClosedIsEmpty, FreshAggregator
  <1>3. CASE stream = "starting" /\ UNCHANGED <<stream, aggregator, up>>
    <2>1. states' = [u \in Targets |-> NoState]
      BY <1>3 DEF AggregatorInv, ClosedIsEmpty, aggregator, TypeOK
    <2> QED BY <1>1, <1>3, <2>1, FreshStep DEF AggregatorInv, ClosedIsEmpty
  <1>4. CASE stream = "open" /\ stream' = "open"
             /\ Send(states, [NoRequests EXCEPT ![t] = <<Watch(stored[t])>>])
    <2> DEFINE requests == [NoRequests EXCEPT ![t] = <<Watch(stored[t])>>]
    <2>1. <<Watch(stored[t])>> \in Seq(Request)
      BY StatesType DEF TypeOK
    <2>2. /\ requests \in [Targets -> Seq(Request)]
          /\ requests[t] = <<Watch(stored[t])>>
          /\ \A u \in Targets : u # t => requests[u] = <<>>
      <3>1. NoRequests \in [Targets -> Seq(Request)] /\ \A u \in Targets : NoRequests[u] = <<>>
        BY DEF NoRequests
      <3> QED BY <1>1, <2>1, <3>1
    <2>3. /\ <<Watch(stored[t])>> # <<>>
          /\ <<Watch(stored[t])>>[Len(<<Watch(stored[t])>>)].kind = "watch"
      BY DEF Watch
    <2>4. ASSUME NEW u \in listened'
          PROVE  \/ /\ requests[u] # <<>>
                    /\ requests[u][Len(requests[u])].kind = "watch"
                 \/ /\ requests[u] = <<>>
                    /\ u \in listened
                    /\ states[u].out = 0 => Fits(states[u], RemoteKeys(u)')
      <3>1. CASE u = t
        BY <2>2, <2>3, <3>1
      <3>2. CASE u # t
        <4>1. u \in listened /\ u \in Targets
          BY <1>1, <3>2 DEF TypeOK
        <4>2. RemoteKeys(u)' = RemoteKeys(u)
          BY <1>1 DEF RemoteKeys
        <4> QED BY <2>2, <3>2, <4>1, <4>2 DEF AggregatorInv, ChangesFit
      <3> QED BY <3>1, <3>2
    <2>5. Send(states, requests)
      BY <1>4
    <2> HIDE DEF requests
    <2>6. \A u \in Targets :
            /\ ~states[u].known => states[u] = NoState
            /\ Cardinality(Answers(down', u)) = Cardinality(Answers(down, u))
            /\ LastIsAdded(down, u) => LastIsAdded(down', u)
      BY <1>1 DEF AggregatorInv, UnknownIsNew
    <2> QED BY <1>4, <2>2, <2>4, <2>5, <2>6, SendStep DEF TypeOK
  <1> QED BY <1>2, <1>3, <1>4 DEF Listen

LEMMA AggregatorStopListening ==
  ASSUME TypeOK, TypeOK', AggregatorInv, NEW t \in UserTargets, StopListening(t)
  PROVE  AggregatorInv'
  <1>1. PICK gone :
          /\ listened' = listened \ gone
          /\ received' = received \ gone
          /\ \/ /\ stream = "open"
                /\ Send(states, [u \in Targets |-> IF u \in gone THEN <<Unwatch>>
                                                                 ELSE <<>>])
             \/ /\ stream # "open"
                /\ UNCHANGED <<up, states, idle>>
    BY DEF StopListening
  <1>2. UNCHANGED <<srv, down, stream, keys>>
    BY DEF StopListening, serverVars
  <1>3. CASE stream # "open" /\ UNCHANGED <<up, states>>
    <2>1. states' = [u \in Targets |-> NoState]
      BY <1>3 DEF AggregatorInv, ClosedIsEmpty, TypeOK
    <2> QED BY <1>2, <1>3, <2>1, FreshStep DEF AggregatorInv, ClosedIsEmpty
  <1>4. CASE /\ stream = "open"
             /\ Send(states, [u \in Targets |-> IF u \in gone THEN <<Unwatch>> ELSE <<>>])
    <2> DEFINE requests == [u \in Targets |-> IF u \in gone THEN <<Unwatch>> ELSE <<>>]
    <2>1. <<Unwatch>> \in Seq(Request)
      BY StatesType
    <2>2. requests \in [Targets -> Seq(Request)]
      BY <2>1
    <2>3. ASSUME NEW u \in listened'
          PROVE  /\ requests[u] = <<>> /\ u \in listened
                 /\ states[u].out = 0 => Fits(states[u], RemoteKeys(u)')
      <3>1. u \in Targets /\ u \in listened /\ u \notin gone
        BY <1>1 DEF TypeOK
      <3>2. RemoteKeys(u)' = RemoteKeys(u)
        <4>1. CASE u \in UserTargets
          BY <1>2, <4>1 DEF RemoteKeys
        <4>2. CASE u \in LimboTargets
          <5>1. Limbo(u.path) = u
            BY <4>2 DEF LimboTargets, Limbo
          <5>2. Limbo(u.path) \in received' <=> Limbo(u.path) \in received
            BY <1>1, <3>1, <5>1
          <5>3. \A p : p \in {u.path} => (Limbo(p) \in received' <=> Limbo(p) \in received)
            BY <5>2
          <5>4. u \notin UserTargets
            BY <4>2, KindsOfTargets
          <5> QED BY <5>3, <5>4 DEF RemoteKeys
        <4> QED BY <3>1, <4>1, <4>2, KindsOfTargets
      <3> QED BY <3>1, <3>2 DEF AggregatorInv, ChangesFit
    <2>4. Send(states, requests)
      BY <1>4
    <2> HIDE DEF requests
    <2>5. \A u \in Targets :
            /\ ~states[u].known => states[u] = NoState
            /\ Cardinality(Answers(down', u)) = Cardinality(Answers(down, u))
            /\ LastIsAdded(down, u) => LastIsAdded(down', u)
      BY <1>2 DEF AggregatorInv, UnknownIsNew
    <2> QED BY <1>2, <1>4, <2>2, <2>3, <2>4, <2>5, SendStep DEF TypeOK
  <1> QED BY <1>1, <1>3, <1>4

LEMMA AggregatorStream ==
  ASSUME TypeOK, TypeOK', AggregatorInv,
         \/ OnWatchStreamOpen \/ OnWatchStreamClose \/ RestartNetwork
         \/ OnlineStateTimeout \/ IdleTimeout \/ Relaunch
  PROVE  AggregatorInv'
  <1>1. CASE OnWatchStreamOpen
    <2> DEFINE requests ==
          [t \in Targets |-> IF t \in listened THEN <<Watch(token[t])>> ELSE <<>>]
    <2>1. \A t \in Targets : <<Watch(token[t])>> \in Seq(Request)
      BY StatesType DEF TypeOK
    <2>2. requests \in [Targets -> Seq(Request)]
      BY <2>1
    <2>3. /\ Send(states, requests) /\ stream' = "open"
          /\ UNCHANGED <<down, listened, keys, received>>
      BY <1>1 DEF OnWatchStreamOpen, storeVars, viewVars
    <2>4. ASSUME NEW t \in listened'
          PROVE  requests[t] # <<>> /\ requests[t][Len(requests[t])].kind = "watch"
      <3>1. requests[t] = <<Watch(token[t])>>
        BY <2>3 DEF TypeOK
      <3>2. /\ <<Watch(token[t])>> # <<>>
            /\ <<Watch(token[t])>>[Len(<<Watch(token[t])>>)].kind = "watch"
        BY DEF Watch
      <3> QED BY <3>1, <3>2
    <2> HIDE DEF requests
    <2>5. \A u \in Targets :
            /\ ~states[u].known => states[u] = NoState
            /\ Cardinality(Answers(down', u)) = Cardinality(Answers(down, u))
            /\ LastIsAdded(down, u) => LastIsAdded(down', u)
      BY <2>3 DEF AggregatorInv, UnknownIsNew
    <2> QED BY <2>2, <2>3, <2>4, <2>5, SendStep DEF TypeOK
  <1>2. CASE OnlineStateTimeout
    BY <1>2, QuietStep DEF OnlineStateTimeout, serverVars, streamVars, aggregator,
       storeVars
  <1>3. CASE OnWatchStreamClose \/ RestartNetwork \/ IdleTimeout \/ Relaunch
    <2>1. FreshStream /\ stream' # "open"
      BY <1>3 DEF OnWatchStreamClose, RestartNetwork, IdleTimeout, Relaunch
    <2> QED BY <2>1, FreshStep DEF FreshStream, FreshAggregator
  <1> QED BY <1>1, <1>2, <1>3

LEMMA AggregatorServer ==
  ASSUME TypeOK, TypeOK', AggregatorInv,
         \/ Commit \/ ServerAdvances \/ ServerSendsSnapshot
         \/ \E t \in Targets : ServerStep(t) \/ ServerReset(t)
  PROVE  AggregatorInv'
  <1>1. CASE Commit \/ ServerAdvances
    BY <1>1, QuietStep DEF Commit, ServerAdvances, streamVars, aggregator, storeVars,
       viewVars
  <1>2. \A t \in Targets : srv[t].on \/ srv[t].told => stream = "open"
    BY DEF AggregatorInv, ClosedIsEmpty, Off
  <1>3. CASE ServerSendsSnapshot
    <2> DEFINE m == [Message("Snapshot", Collection) EXCEPT !.number = clock]
    <2>1. m \in Response /\ m.kind = "Snapshot"
      BY MessageType, KindsOfTargets DEF TypeOK, Message
    <2>2. /\ stream = "open" /\ down' = Append(down, m)
          /\ UNCHANGED <<up, stream, listened, states, keys, received>>
      BY <1>2, <1>3 DEF ServerSendsSnapshot, aggregator, storeVars, viewVars
    <2> HIDE DEF m
    <2> QED BY <2>1, <2>2, SaidStep
  <1>4. ASSUME NEW m \in Response, NEW state, Say(m, state), UNCHANGED up,
               m.kind \notin {"Added", "Removed"}, stream = "open"
        PROVE  AggregatorInv'
    <2>1. /\ down' = Append(down, m)
          /\ UNCHANGED <<stream, listened, states, keys, received>>
      BY <1>4 DEF Say, aggregator, storeVars, viewVars
    <2> QED BY <1>4, <2>1, SaidStep
  <1>5. ASSUME NEW t \in Targets, ServerStep(t) \/ ServerReset(t)
        PROVE  AggregatorInv'
    <2>1. CASE ServerWatch(t)
      <3>1. /\ up[t] # <<>> /\ Head(up[t]).kind = "watch"
            /\ up' = [up EXCEPT ![t] = Tail(@)]
            /\ down' = Append(down, Message("Added", t))
            /\ UNCHANGED <<stream, listened, states, keys, received>>
        BY <2>1 DEF ServerWatch, Say, aggregator, storeVars, viewVars
      <3>2. /\ Message("Added", t) \in Response /\ Message("Added", t).kind = "Added"
            /\ Message("Added", t).target = t
        BY MessageType DEF Message
      <3> QED BY <3>1, <3>2, AnswerStep
    <2>2. CASE ServerUnwatch(t)
      <3>1. /\ up[t] # <<>> /\ Head(up[t]).kind = "unwatch"
            /\ up' = [up EXCEPT ![t] = Tail(@)]
            /\ down' = Append(down, Message("Removed", t))
            /\ UNCHANGED <<stream, listened, states, keys, received>>
        BY <2>2 DEF ServerUnwatch, Say, aggregator, storeVars, viewVars
      <3>2. /\ Message("Removed", t) \in Response /\ Message("Removed", t).kind = "Removed"
            /\ Message("Removed", t).target = t
        BY MessageType DEF Message
      <3> QED BY <3>1, <3>2, AnswerStep
    <2>3. CASE ServerSendsDocuments(t)
      <3> DEFINE gone == PetsAt(t, srv[t].at) \ PetsAt(t, clock)
                 A    == Written(t, srv[t].at, clock)
                 R    == IF srv[t].blind THEN {} ELSE gone
                 m    == [Message("Documents", t) EXCEPT
                            !.added = A, !.removed = R, !.number = clock]
      <3>1. A \in SUBSET Pets /\ R \in SUBSET Pets
        BY PetsAtType DEF Written
      <3>2. m \in Response /\ m.kind = "Documents"
        BY <3>1, MessageType DEF TypeOK, Message
      <3>3. stream = "open" /\ UNCHANGED up
        BY <1>2, <2>3 DEF ServerSendsDocuments
      <3>4. \/ Say(m, [srv[t] EXCEPT !.at = clock])
            \/ UNCHANGED <<up, down, stream, listened, states, keys, received>>
        BY <2>3, <3>3 DEF ServerSendsDocuments, aggregator, storeVars, viewVars
      <3> HIDE DEF m
      <3> QED BY <1>4, <3>2, <3>3, <3>4, QuietStep
    <2>4. CASE ServerSendsCurrent(t)
      <3>1. Message("Current", t) \in Response /\ Message("Current", t).kind = "Current"
        BY MessageType DEF Message
      <3> QED BY <1>2, <1>4, <2>4, <3>1 DEF ServerSendsCurrent
    <2>5. CASE ServerSendsFilter(t)
      <3> DEFINE m == [Message("Filter", t) EXCEPT !.number = Cardinality(PetsAt(t, clock))]
      <3>1. Say(m, [srv[t] EXCEPT !.blind = FALSE]) /\ UNCHANGED up /\ stream = "open"
        BY <1>2, <2>5 DEF ServerSendsFilter
      <3>2. m \in Response /\ m.kind = "Filter"
        <4>1. Cardinality(PetsAt(t, clock)) \in Nat
          BY PetsAtType, FS_Subset, FS_CardinalityType, PetQueriesAssumption
        <4> QED BY <4>1, MessageType DEF Message
      <3> HIDE DEF m
      <3> QED BY <1>4, <3>1, <3>2
    <2>6. CASE ServerReset(t)
      <3>1. Message("Reset", t) \in Response /\ Message("Reset", t).kind = "Reset"
        BY MessageType DEF Message
      <3> QED BY <1>2, <1>4, <2>6, <3>1 DEF ServerReset
    <2> QED BY <1>5, <2>1, <2>2, <2>3, <2>4, <2>5, <2>6 DEF ServerStep
  <1> QED BY <1>1, <1>3, <1>5

LEMMA AggregatorStep == TypeOK /\ TypeOK' /\ AggregatorInv /\ [Next]_vars => AggregatorInv'
  <1> SUFFICES ASSUME TypeOK, TypeOK', AggregatorInv, [Next]_vars PROVE AggregatorInv'
    OBVIOUS
  <1>1. CASE \/ Commit \/ ServerAdvances \/ ServerSendsSnapshot
             \/ \E t \in Targets : ServerStep(t) \/ ServerReset(t)
    BY <1>1, AggregatorServer
  <1>2. CASE \E t \in UserTargets : Listen(t) \/ StopListening(t)
    BY <1>2, AggregatorListen, AggregatorStopListening
  <1>3. CASE \/ OnWatchStreamOpen \/ OnWatchStreamClose \/ RestartNetwork
             \/ OnlineStateTimeout \/ IdleTimeout \/ Relaunch
    BY <1>3, AggregatorStream
  <1>4. CASE OnWatchStreamChange
    BY <1>4, ReceivedStep, SnapshotStep DEF OnWatchStreamChange
  <1>5. CASE UNCHANGED vars
    BY <1>5, QuietStep DEF vars, serverVars, streamVars, aggregator, storeVars, viewVars
  <1> QED BY <1>1, <1>2, <1>3, <1>4, <1>5 DEF Next

LEMMA AggregatorAlways == Spec => []AggregatorInv
  BY AggregatorInit, AggregatorStep, WatchTypeCorrect, PTL DEF Spec

(* The aggregator waits for exactly the answers that are still due, however many
   listens of a target begin and end while the stream is slow. *)
THEOREM NoListenIsDeaf == Spec => []OutstandingIsUnanswered
  BY AggregatorAlways, PTL DEF AggregatorInv

(* A target whose messages count has an entry, and the changes that wait for the
   next snapshot fit its keys: the assertions of ResetTarget, of the views and
   of the limbo resolutions hold. *)
THEOREM ChangesFitTheViews == Spec => []ChangesMatchKeys
  <1>1. TypeOK /\ AggregatorInv => ChangesMatchKeys
    <2> SUFFICES ASSUME TypeOK, AggregatorInv, NEW t \in listened, IsActiveTarget(t)
                 PROVE  /\ stream = "open" => states[t].known
                        /\ states[t].modified \cup states[t].removed \subseteq RemoteKeys(t)
                        /\ states[t].added \cap RemoteKeys(t) = {}
      BY DEF ChangesMatchKeys
    <2>1. t \in Targets
      BY DEF TypeOK
    <2>2. states[t].out = 0
      BY <2>1, NoStateIs DEF IsActiveTarget, AggregatorInv, UnknownIsNew
    <2>3. stream = "open" => states[t].known
      BY DEF AggregatorInv, ListenedIsKnown
    <2> QED BY <2>2, <2>3 DEF AggregatorInv, ChangesFit, Fits
  <1> QED BY <1>1, AggregatorAlways, WatchTypeCorrect, PTL
================================================================================
