---------------------------- MODULE PetCards_proofs ----------------------------
(***************************************************************************)
(* Theorems about module PetCards: type correctness, that the app drives   *)
(* the store only as module Firestore allows (so that the theorems about   *)
(* the store hold of the app), that a deleted pet stays deleted, and that  *)
(* a read is answered with what was committed before it.  And theorems     *)
(* about what the taps come to: no treat count is ever negative, nor above *)
(* the number of treat taps that were written, whoever counts up and down  *)
(* on however many phones; a field that was written once keeps what was    *)
(* written; and a housemate who taps alone sees every tap counted.         *)
(***************************************************************************)
EXTENDS PetCards, Firestore_proofs

CardsInv == TypeOK /\ AnswersMatchQueue

---------------------------------------------------------------------------------
(***************************************************************************)
(* Cards, blocks and updates.                                              *)
(***************************************************************************)

LEMMA CardType ==
  ASSUME NEW doc \in MaybeDocument
  PROVE  Card(doc) \in Cards
  <1>1. NewPet \in Fields
    BY DEF NewPet, Fields
  <1> QED BY <1>1 DEF Card, Cards, Exists, MaybeDocument

LEMMA ViewCardType ==
  ASSUME NEW q \in Seq(Mutation), NEW cached \in MaybeDocument, NEW p
  PROVE  Card(GetDocument(q, cached, p)) \in Cards
  BY GetDocumentType, CardType

LEMMA NewValueType ==
  ASSUME NEW op \in CardOps, NEW data \in Fields
  PROVE  NewValue(op, data) \in Fields /\ FieldOf(op) \in FieldNames
  <1>1. op \in {"updateBB", "updateDB", "updateTreatsUp", "updateTreatsDown"}
    BY DEF CardOps
  <1>2. FieldOf(op) \in FieldNames
    BY <1>1 DEF FieldOf, FieldNames
  <1>3. /\ UpdateBB(data) \in Fields
        /\ UpdateDB(data) \in Fields
        /\ UpdateTreatsUp(data) \in Fields
        /\ UpdateTreatsDown(data) \in Fields
    <2>0. NewPet \in Fields
      BY DEF NewPet, Fields
    <2>1. (~data.breakfast) \in BOOLEAN /\ (~data.dinner) \in BOOLEAN
      OBVIOUS
    <2>2. \A b \in BOOLEAN : /\ [NewPet EXCEPT !.breakfast = b] \in Fields
                             /\ [NewPet EXCEPT !.dinner = b] \in Fields
      BY <2>0 DEF Fields
    <2>3. UpdateBB(data) \in Fields /\ UpdateDB(data) \in Fields
      <3> DEFINE b1 == ~data.breakfast
                 b2 == ~data.dinner
      <3>1. b1 \in BOOLEAN /\ b2 \in BOOLEAN
        BY <2>1
      <3>2. /\ UpdateBB(data) = [NewPet EXCEPT !.breakfast = b1]
            /\ UpdateDB(data) = [NewPet EXCEPT !.dinner = b2]
        BY DEF UpdateBB, UpdateDB
      <3> HIDE DEF b1, b2
      <3> QED BY <2>2, <3>1, <3>2
    <2>4. UpdateTreatsUp(data) \in Fields /\ UpdateTreatsDown(data) \in Fields
      BY <2>0 DEF UpdateTreatsUp, UpdateTreatsDown, Fields
    <2> QED BY <2>3, <2>4
  <1>4. NewValue(op, data) \in
          {UpdateBB(data), UpdateDB(data), UpdateTreatsUp(data), UpdateTreatsDown(data)}
    BY <1>1 DEF NewValue
  <1> QED BY <1>2, <1>3, <1>4

LEMMA GotType ==
  ASSUME NEW g \in Get, NEW card \in Cards
  PROVE  Got(g, card) \in Block
  BY DEF Got, Get, Block

LEMMA DeletedType == Deleted \in Block
  BY AbsentType, CardType DEF Deleted, Block, CardOps

(* The writes the app makes are mutations. *)
LEMMA AppWritesType ==
  ASSUME NEW p \in Pets
  PROVE  /\ SetData(p, NewPet) \in Mutation
         /\ DeleteDocument(p) \in Mutation
         /\ \A b \in Block :
              UpdateData(p, {FieldOf(b.op)}, b.card.data) \in Mutation
  <1>1. NewPet \in Fields
    BY DEF NewPet, Fields
  <1>2. SetData(p, NewPet) \in Mutation /\ DeleteDocument(p) \in Mutation
    BY <1>1 DEF SetData, DeleteDocument, Mutation
  <1>3. ASSUME NEW b \in Block
        PROVE  UpdateData(p, {FieldOf(b.op)}, b.card.data) \in Mutation
    <2>1. b.op \in CardOps /\ b.card.data \in Fields
      BY DEF Block, Cards
    <2>2. {FieldOf(b.op)} \in SUBSET FieldNames
      BY <2>1, NewValueType
    <2> QED BY <2>1, <2>2 DEF UpdateData, Mutation
  <1> QED BY <1>2, <1>3

---------------------------------------------------------------------------------
(***************************************************************************)
(* The app drives the store as StoreNext allows.                           *)
(***************************************************************************)

LEMMA StepIsStoreStep ==
  ASSUME TypeOK, [Next]_vars
  PROVE  [StoreNext]_storeVars
  <1>1. CASE UNCHANGED vars
    BY <1>1 DEF vars
  <1>2. ASSUME NEW d \in Devices, User(d)
        PROVE  [StoreNext]_storeVars
    <2> PICK p \in Pets :
          \/ \E op \in CardOps \cap UserOps : Tap(d, p, op)
          \/ Save(d, p)
          \/ Delete(d, p)
      BY <1>2 DEF User
    <2>1. CASE \E op \in CardOps \cap UserOps : Tap(d, p, op)
      BY <2>1 DEF Tap
    <2>2. CASE Save(d, p)
      BY <2>2, AppWritesType DEF Save, Write, StoreNext
    <2>3. CASE Delete(d, p)
      BY <2>3, AppWritesType DEF Delete, Write, StoreNext
    <2> QED BY <2>1, <2>2, <2>3
  <1>3. ASSUME NEW d \in Devices, MainQueue(d)
        PROVE  [StoreNext]_storeVars
    <2>1. CASE FetchData(d)
      BY <2>1 DEF FetchData
    <2>2. ASSUME NEW p \in Pets, UpdateBlock(d, p)
          PROVE  [StoreNext]_storeVars
      <3>1. Head(mainQ[d][p]) \in Block
        BY <2>2 DEF UpdateBlock, FrontIs, TypeOK
      <3> QED BY <2>2, <3>1, AppWritesType DEF UpdateBlock, Write, StoreNext
    <2>3. ASSUME NEW p \in Pets, GotDocument(d, p) \/ DeletedBlock(d, p)
          PROVE  UNCHANGED storeVars
      BY <2>3 DEF GotDocument, DeletedBlock
    <2> QED BY <1>3, <2>1, <2>2, <2>3 DEF MainQueue
  <1>4. ASSUME NEW d \in Devices, Streams(d) \/ Faults(d)
        PROVE  StoreNext
    <2>1. Network(d)
      BY <1>4 DEF Streams, Faults, Acknowledged, Rejected, SnapshotSent,
         SnapshotReceived, WatchStreamLost, Relaunch, Network
    <2> QED BY <2>1 DEF StoreNext
  <1> QED BY <1>1, <1>2, <1>3, <1>4 DEF Next

---------------------------------------------------------------------------------
(***************************************************************************)
(* Type correctness.                                                       *)
(***************************************************************************)

AppTypeOK ==
  /\ shown   \in [Devices -> [Pets -> Cards]]
  /\ target  \in [Devices -> [Pets -> {"idle", "listening", "current"}]]
  /\ gets    \in [Devices -> [Pets -> Seq(Get)]]
  /\ covered \in [Devices -> SUBSET Pets]
  /\ mainQ   \in [Devices -> [Pets -> Seq(Block)]]
  /\ live    \in [Devices -> Nat]
  /\ hidden  \in [Devices -> Nat]
  /\ taps    \in Nat
  /\ hist    \in [Pets -> History]

LEMMA TypesSplit == TypeOK <=> StoreTypeOK /\ AppTypeOK
  BY DEF TypeOK, AppTypeOK

LEMMA InitType == Init => CardsInv
  <1> SUFFICES ASSUME Init PROVE CardsInv
    OBVIOUS
  <1>1. StoreTypeOK /\ AnswersMatchQueue
    BY StoreInitType DEF Init, StoreInit, AnswersMatchQueue
  <1>2. shown \in [Devices -> [Pets -> Cards]]
    BY InitDocumentType, AbsentType, CardType DEF Init
  <1>3. hist \in [Pets -> History]
    BY DEF Init, NoHistory, History
  <1>4. AppTypeOK
    BY <1>2, <1>3 DEF Init, AppTypeOK
  <1> QED BY <1>1, <1>4, TypesSplit DEF CardsInv

LEMMA TapType ==
  ASSUME TypeOK, NEW d \in Devices, NEW p \in Pets, NEW op \in CardOps,
         Tap(d, p, op)
  PROVE  AppTypeOK'
  <1> USE DEF TypeOK
  <1> DEFINE g == [op |-> op, since |-> Since(d, p)]
             card == ViewCard(d, p)
  <1>1. server[p].version \in Nat
    BY DEF StoreTypeOK, MaybeDocument
  <1>2. g \in Get
    BY <1>1 DEF Get, Since
  <1>3. card \in Cards
    BY ViewCardType DEF StoreTypeOK, ViewCard, View
  <1>4. Got(g, card) \in Block
    BY <1>2, <1>3, GotType
  <1>5. /\ gets' \in [Devices -> [Pets -> Seq(Get)]]
        /\ mainQ' \in [Devices -> [Pets -> Seq(Block)]]
    <2>1. CASE /\ mainQ' = [mainQ EXCEPT ![d][p] = Append(@, Got(g, card))]
               /\ UNCHANGED gets
      <3> DEFINE b == Got(g, card)
      <3>1. b \in Block /\ mainQ' = [mainQ EXCEPT ![d][p] = Append(@, b)]
        BY <1>4, <2>1
      <3> HIDE DEF b
      <3> QED BY <2>1, <3>1
    <2>2. CASE gets' = [gets EXCEPT ![d][p] = Append(@, g)] /\ UNCHANGED mainQ
      <3> HIDE DEF g
      <3> QED BY <1>2, <2>2
    <2> QED BY <2>1, <2>2 DEF Tap
  <1>6. target' \in [Devices -> [Pets -> {"idle", "listening", "current"}]]
    BY DEF Tap
  <1>7. hist' \in [Pets -> History]
    <2>1. hist[p] \in History
      OBVIOUS
    <2>2. PICK o \in Devices \cup {"nobody", "shared"}, m \in BOOLEAN :
            hist' = [hist EXCEPT ![p].owner = o, ![p].marks = m]
      <3> DEFINE o == IF hist[p].owner \in {"nobody", d} /\ ~InProgress(d, p)
                        THEN d ELSE "shared"
                 m == hist[p].marks /\ (op = "updateBB" => ~shown[d][p].data.breakfast)
      <3>1. hist' = [hist EXCEPT ![p].owner = o, ![p].marks = m]
        BY <2>1 DEF Tap, RecordTap
      <3>2. o \in Devices \cup {"nobody", "shared"} /\ m \in BOOLEAN
        OBVIOUS
      <3> HIDE DEF o, m
      <3> QED BY <3>1, <3>2
    <2> QED BY <2>1, <2>2 DEF History
  <1>8. /\ shown' = shown /\ covered' = covered /\ live' = live
        /\ hidden' = hidden /\ taps' \in Nat
    BY DEF Tap
  <1> QED BY <1>5, <1>6, <1>7, <1>8 DEF AppTypeOK

(* The other actions of the user, and the list's listener. *)
LEMMA ListType ==
  ASSUME TypeOK, NEW d \in Devices,
         \/ FetchData(d)
         \/ \E p \in Pets : Save(d, p) \/ Delete(d, p)
  PROVE  AppTypeOK'
  <1> USE DEF TypeOK
  <1>1. CASE FetchData(d)
    <2>1. \A p \in Pets : ViewCard(d, p) \in Cards
      <3> TAKE p \in Pets
      <3>1. queue[d] \in Seq(Mutation) /\ cache[d][p] \in MaybeDocument
        BY DEF StoreTypeOK
      <3> QED BY <3>1, ViewCardType DEF ViewCard, View
    <2>2. shown' \in [Devices -> [Pets -> Cards]]
      BY <1>1, <2>1 DEF FetchData
    <2> QED BY <1>1, <2>2 DEF FetchData, AppTypeOK
  <1>2. ASSUME NEW p \in Pets, Save(d, p) \/ Delete(d, p)
        PROVE  AppTypeOK'
    BY <1>2 DEF Save, Delete, Write, AppTypeOK
  <1> QED BY <1>1, <1>2

LEMMA BlocksType ==
  ASSUME TypeOK, NEW d \in Devices, NEW p \in Pets,
         GotDocument(d, p) \/ UpdateBlock(d, p) \/ DeletedBlock(d, p)
  PROVE  AppTypeOK'
  <1> USE DEF TypeOK
  <1> DEFINE b == Head(mainQ[d][p])
             rest == Tail(mainQ[d][p])
  <1>1. mainQ[d][p] \in Seq(Block) /\ mainQ[d][p] # <<>>
    BY DEF GotDocument, UpdateBlock, DeletedBlock, FrontIs
  <1>2. b \in Block /\ rest \in Seq(Block)
    BY <1>1
  <1>3. CASE GotDocument(d, p)
    <2> DEFINE update == [b EXCEPT !.kind = "update",
                                   !.card.data = NewValue(b.op, b.card.data)]
    <2>1. update \in Block
      <3>1. NewValue(b.op, b.card.data) \in Fields
        BY <1>2, NewValueType DEF Block, Cards
      <3> HIDE DEF b
      <3> QED BY <1>2, <3>1 DEF Block, Cards
    <2>2. mainQ' = [mainQ EXCEPT ![d][p] =
             IF b.card.exists THEN Append(rest, update) ELSE rest]
      BY <1>3 DEF GotDocument
    <2>3. mainQ' \in [Devices -> [Pets -> Seq(Block)]]
      <3> HIDE DEF update, rest, b
      <3> QED BY <1>2, <2>1, <2>2
    <2>4. /\ target' \in [Devices -> [Pets -> {"idle", "listening", "current"}]]
          /\ covered' \in [Devices -> SUBSET Pets]
      BY <1>3 DEF GotDocument
    <2> QED BY <1>3, <2>3, <2>4 DEF GotDocument, AppTypeOK
  <1>4. CASE UpdateBlock(d, p) \/ DeletedBlock(d, p)
    <2>1. mainQ' = [mainQ EXCEPT ![d][p] = rest]
      BY <1>4 DEF UpdateBlock, DeletedBlock
    <2>2. mainQ' \in [Devices -> [Pets -> Seq(Block)]]
      <3> HIDE DEF rest
      <3> QED BY <1>2, <2>1
    <2>3. hist' \in [Pets -> History]
      <3>1. CASE UpdateBlock(d, p)
        <4> DEFINE t == hist[p].tally
                   one(f) == IF FieldOf(b.op) = f THEN 1 ELSE 0
                   new == [breakfast |-> t.breakfast + one("breakfast"),
                           dinner    |-> t.dinner + one("dinner"),
                           treats    |-> t.treats + one("treats")]
        <4>1. t \in [breakfast : Nat, dinner : Nat, treats : Nat]
          BY DEF History
        <4>2. new \in [breakfast : Nat, dinner : Nat, treats : Nat]
          <5>1. \A f \in FieldNames : one(f) \in Nat
            OBVIOUS
          <5> HIDE DEF t, one
          <5> QED BY <4>1, <5>1 DEF FieldNames
        <4>3. hist' = [hist EXCEPT ![p].tally = new]
          BY <3>1 DEF UpdateBlock, RecordUpdate
        <4> HIDE DEF new
        <4> QED BY <4>2, <4>3 DEF History
      <3>2. CASE DeletedBlock(d, p)
        BY <3>2 DEF DeletedBlock
      <3> QED BY <1>4, <3>1, <3>2
    <2>4. live' \in [Devices -> Nat] /\ hidden' \in [Devices -> Nat]
      <3>1. CASE UpdateBlock(d, p)
        BY <3>1 DEF UpdateBlock, Write
      <3>2. CASE DeletedBlock(d, p)
        BY <3>2 DEF DeletedBlock
      <3> QED BY <1>4, <3>1, <3>2
    <2> QED BY <1>4, <2>2, <2>3, <2>4 DEF UpdateBlock, DeletedBlock, AppTypeOK
  <1> QED BY <1>3, <1>4

(* Answers to writes: the callbacks of the queued writes are counted down with
   the queue. *)
LEMMA AnsweredType ==
  ASSUME CardsInv, NEW d \in Devices, Acknowledged(d) \/ Rejected(d)
  PROVE  AppTypeOK'
  <1> USE DEF CardsInv, TypeOK
  <1>1. queue[d] \in Seq(Mutation) /\ queue[d] # <<>>
    BY DEF Acknowledged, Rejected, HandleSuccessfulWrite, HandleRejectedWrite,
           AnswersMatchQueue, StoreTypeOK
  <1>2. live' \in [Devices -> Nat]
    <2>1. Len(queue[d]) \in Nat \ {0}
      BY <1>1
    <2>2. ForgetCallback(d)
      BY DEF Acknowledged, Rejected
    <2>3. HeadIsLive(d) => live[d] - 1 \in Nat
      BY <2>1 DEF HeadIsLive
    <2> QED BY <2>2, <2>3 DEF ForgetCallback
  <1>3. mainQ' \in [Devices -> [Pets -> Seq(Block)]]
    <2> DEFINE p == Head(queue[d]).pet
    <2>1. Head(queue[d]) \in Mutation
      BY <1>1
    <2>2. p \in Pets
      BY <2>1 DEF Mutation
    <2>3. \/ mainQ' = mainQ
          \/ mainQ' = [mainQ EXCEPT ![d][p] = Append(@, Deleted)]
          \/ mainQ' = [mainQ EXCEPT ![d][p] = @]
      BY DEF Acknowledged, Rejected
    <2> HIDE DEF p
    <2>4. CASE mainQ' = [mainQ EXCEPT ![d][p] = Append(@, Deleted)]
      <3>1. mainQ[d][p] \in Seq(Block)
        BY <2>2
      <3>2. Append(mainQ[d][p], Deleted) \in Seq(Block)
        BY <3>1, DeletedType
      <3> QED BY <2>2, <2>4, <3>2
    <2>5. CASE mainQ' = [mainQ EXCEPT ![d][p] = @]
      BY <2>2, <2>5
    <2> QED BY <2>3, <2>4, <2>5
  <1> QED BY <1>2, <1>3 DEF Acknowledged, Rejected, AppTypeOK

LEMMA RaiseType ==
  ASSUME TypeOK, StoreTypeOK', NEW d \in Devices, NEW S \in SUBSET Pets, Raise(d, S)
  PROVE  /\ mainQ' \in [Devices -> [Pets -> Seq(Block)]]
         /\ gets' \in [Devices -> [Pets -> Seq(Get)]]
  <1> USE DEF TypeOK
  <1> DEFINE raised(p) ==
        [i \in DOMAIN gets[d][p] |-> Got(gets[d][p][i], ViewCard(d, p)')]
  <1>1. ASSUME NEW p \in Pets
        PROVE  raised(p) \in Seq(Block)
    <2>1. ViewCard(d, p)' \in Cards
      BY ViewCardType DEF StoreTypeOK, ViewCard, View
    <2>2. gets[d][p] \in Seq(Get)
      OBVIOUS
    <2>3. \A i \in DOMAIN gets[d][p] : gets[d][p][i] \in Get
      BY <2>2
    <2>4. \A i \in DOMAIN gets[d][p] : Got(gets[d][p][i], ViewCard(d, p)') \in Block
      BY <2>1, <2>3, GotType
    <2>5. DOMAIN gets[d][p] = 1 .. Len(gets[d][p]) /\ Len(gets[d][p]) \in Nat
      BY <2>2
    <2> QED BY <2>4, <2>5
  <1>2. \A p \in Pets : mainQ[d][p] \o raised(p) \in Seq(Block)
    <2> HIDE DEF raised
    <2> QED BY <1>1
  <1>3. /\ mainQ' = [mainQ EXCEPT ![d] =
             [p \in Pets |-> IF p \in S THEN mainQ[d][p] \o raised(p) ELSE mainQ[d][p]]]
        /\ gets' = [gets EXCEPT ![d] =
             [p \in Pets |-> IF p \in S THEN <<>> ELSE gets[d][p]]]
    BY DEF Raise
  <1> HIDE DEF raised
  <1> QED BY <1>2, <1>3

LEMMA WatchType ==
  ASSUME CardsInv, StoreTypeOK', NEW d \in Devices,
         SnapshotSent(d) \/ SnapshotReceived(d) \/ WatchStreamLost(d)
  PROVE  AppTypeOK'
  <1> USE DEF CardsInv, TypeOK
  <1>1. CASE SnapshotSent(d)
    BY <1>1 DEF SnapshotSent, AppTypeOK
  <1>2. CASE SnapshotReceived(d)
    <2>1. /\ mainQ' \in [Devices -> [Pets -> Seq(Block)]]
          /\ gets' \in [Devices -> [Pets -> Seq(Get)]]
      BY <1>2, RaiseType DEF SnapshotReceived
    <2> QED BY <1>2, <2>1 DEF SnapshotReceived, AppTypeOK
  <1>3. CASE WatchStreamLost(d)
    <2>1. /\ mainQ' \in [Devices -> [Pets -> Seq(Block)]]
          /\ gets' \in [Devices -> [Pets -> Seq(Get)]]
      BY <1>3, RaiseType DEF WatchStreamLost
    <2>2. target' \in [Devices -> [Pets -> {"idle", "listening", "current"}]]
      <3>1. CASE UNCHANGED target
        BY <3>1
      <3>2. CASE target' = [target EXCEPT ![d] =
               [p \in Pets |-> IF @[p] = "current" THEN "listening" ELSE @[p]]]
        BY <3>2
      <3> QED BY <1>3, <3>1, <3>2 DEF WatchStreamLost
    <2>3. covered' \in [Devices -> SUBSET Pets]
      BY <1>3 DEF WatchStreamLost
    <2> QED BY <1>3, <2>1, <2>2, <2>3 DEF WatchStreamLost, AppTypeOK
  <1> QED BY <1>1, <1>2, <1>3

LEMMA RelaunchType ==
  ASSUME TypeOK, NEW d \in Devices, Relaunch(d)
  PROVE  AppTypeOK'
  <1>1. Card(Absent) \in Cards
    BY AbsentType, CardType
  <1> QED BY <1>1 DEF TypeOK, AppTypeOK, Relaunch

LEMMA CardsInvStep == CardsInv /\ [Next]_vars => CardsInv'
  <1> SUFFICES ASSUME CardsInv, [Next]_vars PROVE CardsInv'
    OBVIOUS
  <1>1. StoreTypeOK' /\ AnswersMatchQueue'
    BY StepIsStoreStep, StoreTypeStep, AnswersMatchStep DEF CardsInv, TypeOK
  <1>2. AppTypeOK'
    <2>1. CASE UNCHANGED vars
      BY <2>1 DEF vars, appVars, CardsInv, TypeOK, AppTypeOK
    <2>2. ASSUME NEW d \in Devices, User(d) PROVE AppTypeOK'
      BY <2>2, TapType, ListType DEF User, CardsInv
    <2>3. ASSUME NEW d \in Devices, MainQueue(d) PROVE AppTypeOK'
      BY <2>3, BlocksType, ListType DEF MainQueue, CardsInv
    <2>4. CASE UNCHANGED appVars
      BY <2>4 DEF appVars, CardsInv, TypeOK, AppTypeOK
    <2>5. ASSUME NEW d \in Devices, Streams(d) \/ Faults(d) PROVE AppTypeOK'
      BY <1>1, <2>4, <2>5, AnsweredType, WatchType, RelaunchType
         DEF Streams, Faults, CardsInv
    <2> QED BY <2>1, <2>2, <2>3, <2>5 DEF Next
  <1> QED BY <1>1, <1>2 DEF CardsInv, TypeOK, AppTypeOK

LEMMA CardsInvAlways == Spec => []CardsInv
  BY InitType, CardsInvStep, PTL DEF Spec

(* Every variable of the phones and of the store keeps its type. *)
THEOREM TypeCorrect == Spec => []TypeOK
  <1>1. CardsInv => TypeOK
    BY DEF CardsInv
  <1> QED BY <1>1, CardsInvAlways, PTL

(* Every behaviour of the app is one of the store under clients that may write
   anything: what is proved of the store holds of it. *)
THEOREM AppDrivesStore == Spec => StoreSpec
  <1>1. Init => StoreInit
    BY DEF Init
  <1>2. CardsInv /\ [Next]_vars => [StoreNext]_storeVars
    BY StepIsStoreStep DEF CardsInv
  <1> QED BY <1>1, <1>2, CardsInvAlways, PTL DEF Spec, StoreSpec

(* No phone shows a pet it knows to be deleted, unless it is about to add it. *)
THEOREM DeletedPetsHaveNoCard == Spec => []NoGhostPets
  BY AppDrivesStore, DeletedPetsAreHidden, PTL

(* Under the app, too, a phone that has heard of a pet's last commit holds it as
   it is, no phone falls back behind what it knew, and the user sees nothing of
   an acknowledgement. *)
THEOREM CardsKeepTheStore ==
  Spec => []CacheCatchesUp /\ CacheNeverRegresses /\ NoFlicker
  BY AppDrivesStore, CacheIsCaughtUp, CacheIsMonotonic, AcknowledgementsAreUnseen
---------------------------------------------------------------------------------
(***************************************************************************)
(* Deleted pets.                                                           *)
(***************************************************************************)

(* The only set of the app is addDocument's, of a new pet. *)
SetsAreNew ==
  \A d \in Devices : \A i \in DOMAIN queue[d] :
    queue[d][i].type = "set" => queue[d][i] = SetData(queue[d][i].pet, NewPet)

(* What a step leaves queued was queued before, or is no set of an old pet. *)
LEMMA QueuedWriteStep ==
  ASSUME CardsInv, [Next]_vars, NEW e \in Devices, NEW i \in DOMAIN queue'[e]
  PROVE  \/ \E j \in DOMAIN queue[e] : queue'[e][i] = queue[e][j]
         \/ queue'[e][i].type # "set"
         \/ queue'[e][i] = SetData(queue'[e][i].pet, NewPet)
  <1> USE DEF CardsInv, TypeOK
  <1>0. queue \in [Devices -> Seq(Mutation)]
    BY DEF StoreTypeOK
  <1>1. CASE UNCHANGED queue
    BY <1>1
  <1>2. ASSUME NEW d \in Devices, NEW m \in Mutation, WriteMutations(d, m),
               m.type # "set" \/ m = SetData(m.pet, NewPet)
        PROVE  \/ \E j \in DOMAIN queue[e] : queue'[e][i] = queue[e][j]
               \/ queue'[e][i].type # "set"
               \/ queue'[e][i] = SetData(queue'[e][i].pet, NewPet)
    <2>1. queue' = [queue EXCEPT ![d] = Append(@, m)]
      BY <1>2 DEF WriteMutations
    <2>2. queue'[e] = queue[e] \/ queue'[e] = Append(queue[e], m)
      BY <1>0, <2>1
    <2>3. queue'[e][i] = m \/ (i \in DOMAIN queue[e] /\ queue'[e][i] = queue[e][i])
      <3>1. queue[e] \in Seq(Mutation)
        BY <1>0
      <3>2. CASE queue'[e] = Append(queue[e], m)
        <4>1. i \in 1 .. Len(queue[e]) + 1
          BY <3>1, <3>2
        <4>2. CASE i = Len(queue[e]) + 1
          BY <3>1, <3>2, <4>2
        <4>3. CASE i \in 1 .. Len(queue[e])
          BY <3>1, <3>2, <4>3
        <4>4. DOMAIN queue[e] = 1 .. Len(queue[e]) /\ Len(queue[e]) \in Nat
          BY <3>1
        <4>5. i \in 1 .. Len(queue[e]) \/ i = Len(queue[e]) + 1
          BY <4>1, <4>4
        <4> QED BY <4>2, <4>3, <4>4, <4>5
      <3> QED BY <2>2, <3>2
    <2> QED BY <1>2, <2>3
  <1>3. ASSUME NEW d \in Devices, PopWrite(d)
        PROVE  \E j \in DOMAIN queue[e] : queue'[e][i] = queue[e][j]
    <2>1. queue'[e] = queue[e] \/ queue'[e] = Tail(queue[e])
      BY <1>0, <1>3 DEF PopWrite
    <2>2. CASE queue'[e] = queue[e]
      BY <2>2
    <2>3. CASE queue'[e] = Tail(queue[e])
      <3>1. CASE queue[e] = <<>>
        BY <2>3, <3>1
      <3>2. CASE queue[e] # <<>>
        <4>1. i + 1 \in DOMAIN queue[e] /\ queue'[e][i] = queue[e][i + 1]
          BY <1>0, <2>3, <3>2
        <4> QED BY <4>1
      <3> QED BY <3>1, <3>2
    <2> QED BY <2>1, <2>2, <2>3
  <1>4. ASSUME NEW d \in Devices, NEW p \in Pets, Save(d, p)
        PROVE  \E m \in Mutation : WriteMutations(d, m) /\ m = SetData(m.pet, NewPet)
    BY <1>4, AppWritesType DEF Save, Write, SetData
  <1>5. ASSUME NEW d \in Devices, NEW p \in Pets, Delete(d, p) \/ UpdateBlock(d, p)
        PROVE  \E m \in Mutation : WriteMutations(d, m) /\ m.type # "set"
    <2>1. CASE Delete(d, p)
      BY <2>1, AppWritesType DEF Delete, Write, DeleteDocument
    <2>2. CASE UpdateBlock(d, p)
      <3>1. Head(mainQ[d][p]) \in Block
        BY <2>2 DEF UpdateBlock, FrontIs
      <3> QED BY <2>2, <3>1, AppWritesType DEF UpdateBlock, Write, UpdateData
    <2> QED BY <1>5, <2>1, <2>2
  <1>6. ASSUME NEW d \in Devices, User(d)
        PROVE  \/ UNCHANGED queue
               \/ \E p \in Pets : Save(d, p) \/ Delete(d, p)
    BY <1>6 DEF User, Tap, storeVars
  <1>7. ASSUME NEW d \in Devices, MainQueue(d)
        PROVE  UNCHANGED queue \/ \E p \in Pets : UpdateBlock(d, p)
    BY <1>7 DEF MainQueue, GotDocument, DeletedBlock, FetchData, storeVars
  <1>8. ASSUME NEW d \in Devices, Streams(d) \/ Faults(d)
        PROVE  UNCHANGED queue \/ PopWrite(d)
    BY <1>8 DEF Streams, Faults, ServerHandlesWrite, Acknowledged, Rejected,
       HandleSuccessfulWrite, HandleRejectedWrite, SnapshotSent, SendSnapshot,
       SnapshotReceived, ApplyRemoteEvent, OnWriteStreamClose, WatchStreamLost,
       OnWatchStreamClose, Relaunch, Restart
  <1>9. CASE UNCHANGED vars
    BY <1>1, <1>9 DEF vars, storeVars
  <1> QED BY <1>1, <1>2, <1>3, <1>4, <1>5, <1>6, <1>7, <1>8, <1>9 DEF Next

LEMMA SetsAreNewAlways == Spec => [](CardsInv /\ SetsAreNew)
  <1>1. Init => SetsAreNew
    <2> SUFFICES ASSUME Init, NEW d \in Devices PROVE DOMAIN queue[d] = {}
      BY DEF SetsAreNew
    <2> QED BY DEF Init, StoreInit
  <1>2. CardsInv /\ SetsAreNew /\ [Next]_vars => SetsAreNew'
    BY QueuedWriteStep DEF SetsAreNew
  <1> QED BY <1>1, <1>2, InitType, CardsInvStep, PTL DEF Spec

(* Only a set makes a pet that does not exist exist. *)
LEMMA RevivedByASet ==
  ASSUME StoreTypeOK, [StoreNext]_storeVars, NEW p \in Pets,
         ~Exists(server[p]), Exists(server'[p])
  PROVE  \E d \in Devices : \E i \in DOMAIN queue[d] :
           queue[d][i].type = "set" /\ queue[d][i].pet = p
  <1>1. PICK d \in Devices : ServerHandlesWrite(d)
    <2>1. server' # server
      OBVIOUS
    <2> QED BY <2>1 DEF StoreNext, Network, storeVars, WriteMutations,
         HandleSuccessfulWrite, HandleRejectedWrite, OnWriteStreamClose,
         SendSnapshot, ApplyRemoteEvent, OnWatchStreamClose, Restart
  <1>2. PICK i \in Unanswered(d) : ServerHandlesWrite(d)!2!(i)
    BY <1>1 DEF ServerHandlesWrite
  <1> DEFINE m == queue[d][i]
             new == Mutated(m, server[m.pet], commit + 1)
  <1>3. i \in DOMAIN queue[d] /\ m \in Mutation /\ m.pet \in Pets
    BY QueuedIsMutation DEF Unanswered
  <1>4. /\ IsValidFor(m, server[m.pet])
        /\ server' = [server EXCEPT ![m.pet] = new]
    BY <1>2 DEF serverVars
  <1>5. p = m.pet /\ server'[p] = new
    <2>1. server \in [Pets -> MaybeDocument]
      BY DEF StoreTypeOK
    <2>2. server'[p] # server[p]
      OBVIOUS
    <2>3. m.pet \in Pets /\ server' = [server EXCEPT ![m.pet] = new]
      BY <1>3, <1>4
    <2> HIDE DEF m, new
    <2>4. ASSUME NEW x \in Pets, NEW y, server' = [server EXCEPT ![x] = y]
          PROVE  p = x /\ server'[p] = y
      BY <2>1, <2>2, <2>4
    <2> QED BY <2>3, <2>4
  <1>6. m.type # "delete"
    <2>1. server[m.pet] \in MaybeDocument /\ commit + 1 \in Nat
      BY <1>3 DEF StoreTypeOK
    <2>2. Exists(new) <=> m.type # "delete"
      BY <1>3, <2>1, MutatedType
    <2>3. Exists(new)
      BY <1>5
    <2> QED BY <2>2, <2>3
  <1>7. m.type # "patch"
    BY <1>4, <1>5 DEF IsValidFor
  <1>8. m.type = "set"
    BY <1>3, <1>6, <1>7 DEF Mutation
  <1> QED BY <1>3, <1>5, <1>8

(* A pet that was deleted does not exist again unless its addDocument is still
   queued somewhere: updateData never creates a document. *)
THEOREM DeletedPetsAreGone == Spec => DeletedPetsStayDeleted
  <1>1. CardsInv /\ SetsAreNew /\ [Next]_vars =>
          [\A p \in Pets :
             (/\ server[p].version > 0
              /\ ~Exists(server[p])
              /\ \A d \in Devices :
                   SetData(p, NewPet) \notin {queue[d][i] : i \in DOMAIN queue[d]})
             => ~Exists(server'[p])]_vars
    <2> SUFFICES ASSUME CardsInv, SetsAreNew, [Next]_vars, NEW p \in Pets,
                        ~Exists(server[p]), Exists(server'[p])
                 PROVE  \E d \in Devices :
                          SetData(p, NewPet) \in {queue[d][i] : i \in DOMAIN queue[d]}
      OBVIOUS
    <2>1. PICK d \in Devices : \E i \in DOMAIN queue[d] :
            queue[d][i].type = "set" /\ queue[d][i].pet = p
      BY StepIsStoreStep, RevivedByASet DEF CardsInv, TypeOK
    <2> QED BY <2>1 DEF SetsAreNew
  <1> QED BY <1>1, SetsAreNewAlways, PTL DEF Spec, DeletedPetsStayDeleted
---------------------------------------------------------------------------------
(***************************************************************************)
(* Fresh reads.                                                            *)
(***************************************************************************)

(* A read that waits, and a listen the snapshot in flight answers, are on a
   listen that is there; the snapshot covers what the read must see. *)
ReadsServed(d, p) ==
  /\ gets[d][p] # <<>> => target[d][p] # "idle"
  /\ p \in covered[d] => target[d][p] # "idle"
  /\ \A i \in DOMAIN gets[d][p] :
       /\ gets[d][p][i].since <= server[p].version
       /\ p \in covered[d] => gets[d][p][i].since <= watch[d].docs[p].version

ReadsInv == \A d \in Devices, p \in Pets : ReadsServed(d, p)

(* What a step does to the reads of a pet that wait on a phone: nothing; it
   sends a snapshot that covers them; one more waits; or all are answered or
   lost. *)
ReadsKept(e, p) ==
  /\ gets'[e][p] = gets[e][p]
  /\ target'[e][p] = "idle" => target[e][p] = "idle"
  /\ p \in covered'[e] => p \in covered[e] /\ watch'[e] = watch[e]

ReadsCovered(e, p) ==
  /\ gets'[e][p] = gets[e][p]
  /\ target'[e][p] = target[e][p]
  /\ p \in covered'[e] => target[e][p] # "idle"
  /\ watch'[e].docs = server
  /\ UNCHANGED server

ReadAdded(e, p) ==
  /\ \E g \in Get : /\ g.since = Since(e, p) /\ g.op \in UserOps
                    /\ gets'[e][p] = Append(gets[e][p], g)
  /\ target'[e][p] # "idle"
  /\ UNCHANGED <<covered, watch, server>>

ReadsGone(e, p) == gets'[e][p] = <<>> /\ p \notin covered'[e]

ReadsChange(e, p) ==
  ReadsKept(e, p) \/ ReadsCovered(e, p) \/ ReadAdded(e, p) \/ ReadsGone(e, p)

LEMMA ReadsStep ==
  ASSUME TypeOK, [Next]_vars, NEW e \in Devices, NEW p \in Pets
  PROVE  ReadsChange(e, p)
  <1>0. /\ gets \in [Devices -> [Pets -> Seq(Get)]]
        /\ target \in [Devices -> [Pets -> {"idle", "listening", "current"}]]
        /\ covered \in [Devices -> SUBSET Pets]
        /\ watch \in [Devices -> Snapshot]
        /\ StoreTypeOK
    BY DEF TypeOK, StoreTypeOK
  <1>1. CASE UNCHANGED <<gets, target, covered, watch>>
    BY <1>1 DEF ReadsKept, ReadsChange
  <1>2. ASSUME NEW d \in Devices, NEW q \in Pets, NEW op \in CardOps \cap UserOps, Tap(d, q, op)
        PROVE  ReadsChange(e, p)
    <2>1. /\ target' = [target EXCEPT ![d][q] = IF @ = "idle" THEN "listening" ELSE @]
          /\ UNCHANGED <<covered, watch, server>>
      BY <1>2 DEF Tap, storeVars
    <2>2. target'[e][p] = "idle" => target[e][p] = "idle"
      BY <1>0, <2>1
    <2>3. CASE UNCHANGED gets
      BY <2>1, <2>2, <2>3 DEF ReadsKept, ReadsChange
    <2>4. CASE gets' # gets
      <3> DEFINE g == [op |-> op, since |-> Since(d, q)]
      <3>1. gets' = [gets EXCEPT ![d][q] = Append(@, g)]
        BY <1>2, <2>4 DEF Tap
      <3>2. g \in Get /\ g.since = Since(d, q) /\ g.op \in UserOps
        BY <1>0 DEF Since, StoreTypeOK, MaybeDocument, Get
      <3> HIDE DEF g
      <3>3. CASE e = d /\ p = q
        <4>1. gets'[e][p] = Append(gets[e][p], g)
          BY <1>0, <3>1, <3>3
        <4>2. target'[e][p] # "idle"
          BY <1>0, <2>1, <3>3
        <4> QED BY <2>1, <3>2, <3>3, <4>1, <4>2 DEF ReadAdded, ReadsChange
      <3>4. CASE ~(e = d /\ p = q)
        <4>1. gets'[e][p] = gets[e][p]
          BY <1>0, <3>1, <3>4
        <4> QED BY <2>1, <2>2, <4>1 DEF ReadsKept, ReadsChange
      <3> QED BY <3>3, <3>4
    <2> QED BY <2>3, <2>4
  <1>3. ASSUME NEW d \in Devices, NEW q \in Pets, GotDocument(d, q)
        PROVE  ReadsChange(e, p)
    <2> DEFINE over == ~Waits(d, q) /\ ~Pending(Tail(mainQ[d][q]))
    <2>1. /\ target' = [target EXCEPT ![d][q] = IF over THEN "idle" ELSE @]
          /\ covered' = [covered EXCEPT ![d] = IF over THEN @ \ {q} ELSE @]
          /\ UNCHANGED <<gets, watch>>
      BY <1>3 DEF GotDocument, storeVars
    <2>2. over => gets[d][q] = <<>>
      BY DEF Waits
    <2> HIDE DEF over
    <2>3. CASE over /\ e = d /\ p = q
      BY <1>0, <2>1, <2>2, <2>3 DEF ReadsGone, ReadsChange
    <2>4. CASE ~(over /\ e = d /\ p = q)
      BY <1>0, <2>1, <2>4 DEF ReadsKept, ReadsChange
    <2> QED BY <2>3, <2>4
  <1>4. ASSUME NEW d \in Devices, SnapshotSent(d)
        PROVE  ReadsChange(e, p)
    <2>1. /\ watch' = [watch EXCEPT ![d] = [version |-> commit, docs |-> server]]
          /\ covered' = [covered EXCEPT ![d] = {q \in Pets : target[d][q] # "idle"}]
          /\ UNCHANGED <<gets, target, server>>
      BY <1>4 DEF SnapshotSent, SendSnapshot
    <2>2. CASE e = d
      BY <1>0, <2>1, <2>2 DEF ReadsCovered, ReadsChange
    <2>3. CASE e # d
      BY <1>0, <2>1, <2>3 DEF ReadsKept, ReadsChange
    <2> QED BY <2>2, <2>3
  <1>5. ASSUME NEW d \in Devices, SnapshotReceived(d)
        PROVE  ReadsChange(e, p)
    <2>1. /\ gets' = [gets EXCEPT ![d] =
                [q \in Pets |-> IF q \in covered[d] THEN <<>> ELSE @[q]]]
          /\ target' = [target EXCEPT ![d] =
                [q \in Pets |-> IF q \in covered[d] THEN "current" ELSE @[q]]]
          /\ covered' = [covered EXCEPT ![d] = {}]
          /\ watch' = [watch EXCEPT ![d] = NoSnapshot]
      BY <1>5 DEF SnapshotReceived, Raise, ApplyRemoteEvent
    <2>2. CASE e = d /\ p \in covered[d]
      BY <1>0, <2>1, <2>2 DEF ReadsGone, ReadsChange
    <2>3. CASE e = d /\ p \notin covered[d]
      BY <1>0, <2>1, <2>3 DEF ReadsKept, ReadsChange
    <2>4. CASE e # d
      BY <1>0, <2>1, <2>4 DEF ReadsKept, ReadsChange
    <2> QED BY <2>2, <2>3, <2>4
  <1>6. ASSUME NEW d \in Devices, WatchStreamLost(d)
        PROVE  ReadsChange(e, p)
    <2>1. /\ covered' = [covered EXCEPT ![d] = {}]
          /\ watch' = [watch EXCEPT ![d] = NoSnapshot]
      BY <1>6 DEF WatchStreamLost, OnWatchStreamClose
    <2>2. CASE UNCHANGED <<gets, target>>
      BY <1>0, <2>1, <2>2 DEF ReadsKept, ReadsChange
    <2>3. CASE /\ gets' = [gets EXCEPT ![d] =
                     [q \in Pets |-> IF q \in Pets THEN <<>> ELSE @[q]]]
               /\ target' = [target EXCEPT ![d] =
                     [q \in Pets |-> IF @[q] = "current" THEN "listening" ELSE @[q]]]
      <3>1. CASE e = d
        BY <1>0, <2>1, <2>3, <3>1 DEF ReadsGone, ReadsChange
      <3>2. CASE e # d
        BY <1>0, <2>1, <2>3, <3>2 DEF ReadsKept, ReadsChange
      <3> QED BY <3>1, <3>2
    <2> QED BY <1>6, <2>2, <2>3 DEF WatchStreamLost, Raise
  <1>7. ASSUME NEW d \in Devices, Relaunch(d)
        PROVE  ReadsChange(e, p)
    <2>1. /\ covered' = [covered EXCEPT ![d] = {}]
          /\ gets' = [gets EXCEPT ![d] = [q \in Pets |-> <<>>]]
          /\ target' = [target EXCEPT ![d] = [q \in Pets |-> "idle"]]
          /\ watch' = [watch EXCEPT ![d] = NoSnapshot]
      BY <1>7 DEF Relaunch, Restart
    <2>2. CASE e = d
      BY <1>0, <2>1, <2>2 DEF ReadsGone, ReadsChange
    <2>3. CASE e # d
      BY <1>0, <2>1, <2>3 DEF ReadsKept, ReadsChange
    <2> QED BY <2>2, <2>3
  <1>8. ASSUME NEW d \in Devices, User(d)
        PROVE  \/ UNCHANGED <<gets, target, covered, watch>>
               \/ \E q \in Pets, op \in CardOps \cap UserOps : Tap(d, q, op)
    BY <1>8 DEF User, Save, Delete, Write, WriteMutations
  <1>9. ASSUME NEW d \in Devices, MainQueue(d)
        PROVE  \/ UNCHANGED <<gets, target, covered, watch>>
               \/ \E q \in Pets : GotDocument(d, q)
    BY <1>9 DEF MainQueue, UpdateBlock, DeletedBlock, FetchData, Write,
       WriteMutations, storeVars
  <1>10. ASSUME NEW d \in Devices, Streams(d) \/ Faults(d)
         PROVE  \/ UNCHANGED <<gets, target, covered, watch>>
                \/ SnapshotSent(d) \/ SnapshotReceived(d)
                \/ WatchStreamLost(d) \/ Relaunch(d)
    BY <1>10 DEF Streams, Faults, ServerHandlesWrite, Acknowledged, Rejected,
       HandleSuccessfulWrite, HandleRejectedWrite, OnWriteStreamClose, appVars
  <1>11. CASE UNCHANGED vars
    BY <1>1, <1>11 DEF vars, storeVars, appVars
  <1>12. ASSUME NEW d \in Devices, User(d) PROVE ReadsChange(e, p)
    BY <1>1, <1>2, <1>8, <1>12
  <1>13. ASSUME NEW d \in Devices, MainQueue(d) PROVE ReadsChange(e, p)
    BY <1>1, <1>3, <1>9, <1>13
  <1>14. ASSUME NEW d \in Devices, Streams(d) \/ Faults(d) PROVE ReadsChange(e, p)
    BY <1>1, <1>4, <1>5, <1>6, <1>7, <1>10, <1>14
  <1> QED BY <1>11, <1>12, <1>13, <1>14 DEF Next

(* A read that waits keeps what its listen has to bring: a listen is never
   covered by a snapshot from before the read that began it. *)
LEMMA ReadsInvStep ==
  ASSUME CardsInv, CacheInv, ReadsInv, [Next]_vars
  PROVE  ReadsInv'
  <1> SUFFICES ASSUME NEW e \in Devices, NEW p \in Pets
               PROVE  ReadsServed(e, p)'
    BY DEF ReadsInv
  <1>1. ReadsServed(e, p)
    BY DEF ReadsInv
  <1>2. /\ gets[e][p] \in Seq(Get)
        /\ StoreTypeOK
    BY DEF CardsInv, TypeOK
  <1>3. \A i \in DOMAIN gets[e][p] : gets[e][p][i].since \in Nat
    <2> TAKE i \in DOMAIN gets[e][p]
    <2>1. gets[e][p][i] \in Get
      BY <1>2
    <2> QED BY <2>1 DEF Get
  <1>4. /\ server[p].version \in Nat /\ server'[p].version \in Nat
        /\ watch[e].docs[p].version \in Nat
        /\ server'[p].version >= server[p].version
    <2>1. [StoreNext]_storeVars /\ StoreTypeOK'
      BY StepIsStoreStep, CardsInvStep DEF CardsInv, TypeOK
    <2>2. /\ server[p].version \in Nat /\ watch[e].docs[p].version \in Nat
          /\ commit \in Nat
      BY <1>2, VersionsAreNat
    <2>3. server'[p].version \in Nat
      BY <2>1 DEF StoreTypeOK, MaybeDocument
    <2>4. server[p].version <= commit
      BY DEF CacheInv, VersionsInOrder
    <2>5. \/ server'[p] = server[p]
          \/ server'[p].version = commit' /\ commit' > commit /\ commit' \in Nat
      BY <2>1, ServerStep
    <2> QED BY <2>2, <2>3, <2>4, <2>5
  <1>5. CASE ReadsKept(e, p)
    BY <1>1, <1>3, <1>4, <1>5 DEF ReadsKept, ReadsServed
  <1>6. CASE ReadsCovered(e, p)
    BY <1>1, <1>6 DEF ReadsCovered, ReadsServed
  <1>7. CASE ReadAdded(e, p)
    <2> PICK g \in Get : g.since = Since(e, p) /\ gets'[e][p] = Append(gets[e][p], g)
      BY <1>7 DEF ReadAdded
    <2>1. g.since <= server[p].version
      BY <1>4 DEF Since
    <2>2. p \in covered[e] => g.since <= watch[e].docs[p].version
      BY <1>1, <1>4 DEF Since, ReadsServed
    <2>3. ASSUME NEW i \in DOMAIN gets'[e][p]
          PROVE  \/ gets'[e][p][i] = g
                 \/ i \in DOMAIN gets[e][p] /\ gets'[e][p][i] = gets[e][p][i]
      <3>1. i \in 1 .. Len(gets[e][p]) + 1 /\ Len(gets[e][p]) \in Nat
        BY <1>2
      <3>2. CASE i = Len(gets[e][p]) + 1
        BY <1>2, <3>2
      <3>3. CASE i \in 1 .. Len(gets[e][p])
        BY <1>2, <3>3
      <3> QED BY <3>1, <3>2, <3>3
    <2>4. /\ target'[e][p] # "idle"
          /\ UNCHANGED <<covered, watch, server>>
      BY <1>7 DEF ReadAdded
    <2> QED BY <1>1, <2>1, <2>2, <2>3, <2>4 DEF ReadsServed
  <1>8. CASE ReadsGone(e, p)
    BY <1>8 DEF ReadsGone, ReadsServed
  <1> QED BY <1>5, <1>6, <1>7, <1>8, ReadsStep DEF CardsInv, ReadsChange

LEMMA ReadsInvAlways == Spec => [](CardsInv /\ CacheInv /\ ReadsInv)
  <1>1. Init => ReadsInv
    <2> SUFFICES ASSUME Init, NEW d \in Devices, NEW p \in Pets
                 PROVE  ReadsServed(d, p)
      BY DEF ReadsInv
    <2>1. gets[d][p] = <<>> /\ DOMAIN gets[d][p] = {} /\ covered[d] = {}
      BY DEF Init
    <2> QED BY <2>1 DEF ReadsServed
  <1>2. CardsInv /\ CacheInv /\ ReadsInv /\ [Next]_vars => ReadsInv'
    BY ReadsInvStep
  <1> QED BY <1>1, <1>2, CardsInvAlways, AppDrivesStore, CacheInvAlways, PTL DEF Spec

(* A read that began its listen and waited for a snapshot sees every commit
   made before it began: no snapshot from before answers it. *)
THEOREM ReadsSeeCommits == Spec => ReadsAreFresh
  <1>1. CardsInv /\ CacheInv /\ ReadsInv /\ [Next]_vars =>
          [\A d \in Devices :
             (watch[d] # NoSnapshot /\ watch'[d] = NoSnapshot /\ online'[d] = "Online")
             => \A p \in Pets : \A i \in DOMAIN gets[d][p] :
                  \/ gets'[d][p] = gets[d][p]
                  \/ cache'[d][p].version >= gets[d][p][i].since]_vars
    <2> SUFFICES ASSUME CardsInv, CacheInv, ReadsInv, [Next]_vars, NEW d \in Devices,
                        watch[d] # NoSnapshot, watch'[d] = NoSnapshot,
                        online'[d] = "Online",
                        NEW p \in Pets, NEW i \in DOMAIN gets[d][p],
                        gets'[d][p] # gets[d][p]
                 PROVE  cache'[d][p].version >= gets[d][p][i].since
      OBVIOUS
    <2>0. /\ watch \in [Devices -> Snapshot]
          /\ cache \in [Devices -> [Pets -> MaybeDocument]]
          /\ gets \in [Devices -> [Pets -> Seq(Get)]]
          /\ online \in [Devices -> {"Unknown", "Online", "Offline"}]
          /\ StoreTypeOK
      BY DEF CardsInv, TypeOK, StoreTypeOK
    <2>1. SnapshotReceived(d)
      <3>1. PICK e \in Devices : User(e) \/ MainQueue(e) \/ Streams(e) \/ Faults(e)
        BY DEF Next, vars, appVars
      <3>2. SnapshotReceived(e) \/ WatchStreamLost(e) \/ Relaunch(e)
        <4>1. watch' # watch
          OBVIOUS
        <4>2. watch'[d] = NoSnapshot /\ gets' # gets
          OBVIOUS
        <4>3. ~User(e)
          BY <4>1 DEF User, Tap, Save, Delete, Write, WriteMutations, storeVars
        <4>4. ~MainQueue(e)
          BY <4>1 DEF MainQueue, GotDocument, UpdateBlock, DeletedBlock, FetchData,
             Write, WriteMutations, storeVars
        <4>5. ~SnapshotSent(e) /\ ~Acknowledged(e) /\ ~Rejected(e)
          BY <4>2 DEF SnapshotSent, Acknowledged, Rejected
        <4>6. ~ServerHandlesWrite(e) /\ ~OnWriteStreamClose(e)
          BY <4>1 DEF ServerHandlesWrite, OnWriteStreamClose
        <4> QED BY <3>1, <4>3, <4>4, <4>5, <4>6 DEF Streams, Faults
      <3>3. e = d
        <4>1. watch' = [watch EXCEPT ![e] = NoSnapshot]
          BY <3>2 DEF SnapshotReceived, ApplyRemoteEvent, WatchStreamLost,
             OnWatchStreamClose, Relaunch, Restart
        <4> QED BY <2>0, <4>1
      <3>4. ~WatchStreamLost(d) /\ ~Relaunch(d)
        BY <2>0 DEF WatchStreamLost, OnWatchStreamClose, AfterFailure, Relaunch, Restart
      <3> QED BY <3>2, <3>3, <3>4
    <2>2. p \in covered[d]
      BY <2>0, <2>1 DEF SnapshotReceived, Raise
    <2>3. gets[d][p][i].since <= watch[d].docs[p].version
      BY <2>2 DEF ReadsInv, ReadsServed
    <2>4. cache'[d][p] = ApplyUpdate(watch[d].docs[p], cache[d][p])
      BY <2>0, <2>1 DEF SnapshotReceived, ApplyRemoteEvent
    <2>5. /\ cache[d][p].version \in Nat /\ watch[d].docs[p].version \in Nat
          /\ gets[d][p][i].since \in Nat
      <3>1. gets[d][p] \in Seq(Get)
        BY <2>0
      <3>2. gets[d][p][i] \in Get
        BY <3>1
      <3> QED BY <2>0, <3>2, VersionsAreNat DEF Get
    <2> QED BY <2>3, <2>4, <2>5 DEF ApplyUpdate
  <1> QED BY <1>1, ReadsInvAlways, PTL DEF Spec, ReadsAreFresh

---------------------------------------------------------------------------------
(***************************************************************************)
(* What the taps on the cards come to.  A value is computed from one that  *)
(* was read, and what is read comes from the cache and the queue, what is  *)
(* cached from the server and from the queue: the invariants follow the    *)
(* values all the way round, along the lemmas that say what a step leaves  *)
(* in each of these places and where it was before.                        *)
(***************************************************************************)

(***************************************************************************)
(* What a step does to the number of updates of a field.                   *)
(***************************************************************************)
Tally(p, f) == hist[p].tally[f]

(* An update of the field that is on its way to the queue is one ahead. *)
Ahead(b, f) == IF b.kind = "update" /\ FieldOf(b.op) = f THEN 1 ELSE 0

(* It only grows, and writing an update of the field counts one. *)
LEMMA TallyStep ==
  ASSUME TypeOK, [Next]_vars, NEW p \in Pets, NEW f \in FieldNames
  PROVE  /\ Tally(p, f) \in Nat /\ Tally(p, f)' \in Nat
         /\ Tally(p, f)' >= Tally(p, f)
         /\ \A d \in Devices : UpdateBlock(d, p) =>
              Tally(p, f)' = Tally(p, f) + Ahead(Head(mainQ[d][p]), f)
         /\ Tally(p, f)' # Tally(p, f) => \E d \in Devices : UpdateBlock(d, p)
  <1>0. Tally(p, f) \in Nat /\ hist \in [Pets -> History]
    BY DEF TypeOK, History, Tally, FieldNames
  <1>1. ASSUME NEW d \in Devices, NEW q \in Pets, NEW op, RecordTap(d, q, op)
        PROVE  Tally(p, f)' = Tally(p, f)
    BY <1>0, <1>1 DEF RecordTap, Tally, History
  <1>2. ASSUME NEW d \in Devices, NEW q \in Pets, UpdateBlock(d, q)
        PROVE  Tally(p, f)' =
                 Tally(p, f) + (IF p = q THEN Ahead(Head(mainQ[d][q]), f) ELSE 0)
    <2> DEFINE b == Head(mainQ[d][q])
               one(g) == IF FieldOf(b.op) = g THEN 1 ELSE 0
               t == hist[q].tally
               new == [breakfast |-> t.breakfast + one("breakfast"),
                       dinner    |-> t.dinner + one("dinner"),
                       treats    |-> t.treats + one("treats")]
    <2>1. b.kind = "update" /\ RecordUpdate(q, b.op)
      BY <1>2 DEF UpdateBlock, FrontIs
    <2>2. hist' = [hist EXCEPT ![q].tally = new]
      BY <2>1 DEF RecordUpdate
    <2>3. new[f] = t[f] + Ahead(b, f)
      BY <2>1 DEF Ahead, FieldNames
    <2>4. ASSUME NEW r, hist' = [hist EXCEPT ![q].tally = r]
          PROVE  Tally(p, f)' = IF p = q THEN r[f] ELSE Tally(p, f)
      BY <1>0, <2>4 DEF Tally, History
    <2> HIDE DEF b, new
    <2>5. Tally(p, f)' = IF p = q THEN new[f] ELSE Tally(p, f)
      BY <2>2, <2>4
    <2>6. t[f] = Tally(q, f)
      BY DEF Tally
    <2>7. new[f] = Tally(q, f) + Ahead(b, f)
      BY <2>3, <2>6
    <2>8. CASE p = q
      BY <2>5, <2>7, <2>8 DEF b
    <2>9. CASE p # q
      BY <1>0, <2>5, <2>9
    <2> QED BY <2>8, <2>9
  <1>3. ASSUME UNCHANGED hist PROVE Tally(p, f)' = Tally(p, f)
    BY <1>3 DEF Tally
  <1>4. \A b : Ahead(b, f) \in {0, 1}
    BY DEF Ahead
  <1>5. \/ UNCHANGED hist
        \/ \E d \in Devices, q \in Pets, op \in CardOps : RecordTap(d, q, op)
        \/ \E d \in Devices, q \in Pets : UpdateBlock(d, q)
    <2>1. ASSUME NEW d \in Devices, User(d)
          PROVE  UNCHANGED hist \/ \E q \in Pets, op \in CardOps : RecordTap(d, q, op)
      BY <2>1 DEF User, Tap, Save, Delete
    <2>2. ASSUME NEW d \in Devices, MainQueue(d)
          PROVE  UNCHANGED hist \/ \E q \in Pets : UpdateBlock(d, q)
      BY <2>2 DEF MainQueue, GotDocument, DeletedBlock, FetchData
    <2>3. ASSUME NEW d \in Devices, Streams(d) \/ Faults(d)
          PROVE  UNCHANGED hist
      BY <2>3 DEF Streams, Faults, Acknowledged, Rejected, SnapshotSent,
         SnapshotReceived, WatchStreamLost, Relaunch, appVars
    <2>4. CASE UNCHANGED vars
      BY <2>4 DEF vars, appVars
    <2> QED BY <2>1, <2>2, <2>3, <2>4 DEF Next
  <1>6. CASE \E d \in Devices, q \in Pets : UpdateBlock(d, q)
    <2> PICK d \in Devices, q \in Pets : UpdateBlock(d, q)
      BY <1>6
    <2>1. CASE p = q
      <3>1. Tally(p, f)' = Tally(p, f) + 0 \/ Tally(p, f)' = Tally(p, f) + 1
        BY <1>2, <1>4, <2>1
      <3> QED BY <1>0, <1>2, <2>1, <3>1
    <2>2. CASE p # q
      <3>1. Tally(p, f)' = Tally(p, f)
        BY <1>0, <1>2, <2>2
      <3> QED BY <1>0, <1>2, <3>1
    <2> QED BY <2>1, <2>2
  <1>7. CASE ~\E d \in Devices, q \in Pets : UpdateBlock(d, q)
    <2>1. Tally(p, f)' = Tally(p, f)
      BY <1>1, <1>3, <1>5, <1>7
    <2> QED BY <1>0, <1>7, <2>1
  <1> QED BY <1>6, <1>7

---------------------------------------------------------------------------------
(***************************************************************************)
(* Where the documents of a pet come from.                                 *)
(***************************************************************************)

(* What a write leaves in a field. *)
LEMMA MutatedField ==
  ASSUME NEW m \in Mutation, m.type # "set", NEW doc \in MaybeDocument,
         NEW v \in Nat, NEW f \in FieldNames
  PROVE  LET new == IF m.type = "delete" THEN NewPet[f]
                    ELSE IF f \in m.mask THEN m.data[f] ELSE doc.data[f]
         IN /\ Mutated(m, doc, v).data[f] = new
            /\ ApplyToRemoteDocument(m, doc, v).data[f] \in {new, NewPet[f]}
  <1> DEFINE new == IF m.type = "delete" THEN NewPet[f]
                    ELSE IF f \in m.mask THEN m.data[f] ELSE doc.data[f]
  <1>1. Mutated(m, doc, v).data[f] = new
    <2>1. CASE m.type = "delete"
      BY <2>1 DEF Mutated, NoDocument
    <2>2. CASE m.type = "patch"
      <3>1. Mutated(m, doc, v).data = PatchObject(doc.data, m)
        BY <2>2 DEF Mutated, Document
      <3> QED BY <2>2, <3>1 DEF PatchObject, FieldNames
    <2> QED BY <2>1, <2>2 DEF Mutation
  <1>2. ApplyToRemoteDocument(m, doc, v).data \in {Mutated(m, doc, v).data, NewPet}
    <2>1. CASE IsValidFor(m, doc)
      <3> DEFINE d == Mutated(m, doc, v)
      <3>1. d \in MaybeDocument
        BY MutatedType
      <3>2. ApplyToRemoteDocument(m, doc, v) = [d EXCEPT !.committed = TRUE]
        BY <2>1 DEF ApplyToRemoteDocument
      <3> HIDE DEF d
      <3>3. [d EXCEPT !.committed = TRUE].data = d.data
        BY <3>1 DEF MaybeDocument
      <3> QED BY <3>2, <3>3 DEF d
    <2>2. CASE ~IsValidFor(m, doc)
      BY <2>2 DEF ApplyToRemoteDocument, UnknownDocument
    <2> QED BY <2>1, <2>2
  <1> QED BY <1>1, <1>2

(* The server takes one write of the pet. *)
ServerTakes(p, e, i) ==
  LET m == queue[e][i]
  IN /\ IsValidFor(m, server[p])
     /\ \E v \in Nat : server'[p] = Mutated(m, server[p], v)

LEMMA ServerTakesStep ==
  ASSUME StoreTypeOK, [StoreNext]_storeVars, NEW p \in Pets
  PROVE  \/ server'[p] = server[p]
         \/ \E e \in Devices : \E i \in WritesOf(queue[e], p) : ServerTakes(p, e, i)
  <1>1. CASE server' = server
    BY <1>1
  <1>2. ASSUME NEW d \in Devices, ServerHandlesWrite(d)
        PROVE  \/ server'[p] = server[p]
               \/ \E i \in WritesOf(queue[d], p) : ServerTakes(p, d, i)
    <2> PICK i \in Unanswered(d) : ServerHandlesWrite(d)!2!(i)
      BY <1>2 DEF ServerHandlesWrite
    <2> DEFINE m == queue[d][i]
               new == Mutated(m, server[m.pet], commit + 1)
    <2>1. m.pet \in Pets /\ i \in DOMAIN queue[d] /\ commit + 1 \in Nat
      BY QueuedIsMutation DEF StoreTypeOK, Unanswered
    <2>2. \/ server' = server
          \/ /\ IsValidFor(m, server[m.pet])
             /\ server' = [server EXCEPT ![m.pet] = new]
      BY DEF serverVars
    <2>3. CASE m.pet # p
      <3> HIDE DEF m, new
      <3> QED BY <2>1, <2>2, <2>3 DEF StoreTypeOK
    <2>4. CASE m.pet = p
      <3>1. i \in WritesOf(queue[d], p)
        BY <2>1, <2>4 DEF WritesOf
      <3>2. server' = server \/ (IsValidFor(m, server[p]) /\ server'[p] = new)
        <4> HIDE DEF new, m
        <4> QED BY <2>1, <2>2, <2>4 DEF StoreTypeOK
      <3> QED BY <2>1, <2>4, <3>1, <3>2 DEF ServerTakes
    <2> QED BY <2>3, <2>4
  <1> QED BY <1>1, <1>2 DEF StoreNext, Network, storeVars, WriteMutations,
         HandleSuccessfulWrite, HandleRejectedWrite, OnWriteStreamClose,
         SendSnapshot, ApplyRemoteEvent, OnWatchStreamClose, Restart

(* The document a phone caches. *)
LEMMA CacheOrigin ==
  ASSUME StoreTypeOK, AnswersMatchQueue, [StoreNext]_storeVars,
         NEW d \in Devices, NEW p \in Pets
  PROVE  \/ cache'[d][p] \in {cache[d][p], watch[d].docs[p]}
         \/ \E i \in WritesOf(queue[d], p) : \E v \in Nat :
              cache'[d][p] = ApplyToRemoteDocument(queue[d][i], cache[d][p], v)
  <1>1. ASSUME NEW e \in Devices, HandleSuccessfulWrite(e)
        PROVE  \/ cache'[d][p] = cache[d][p]
               \/ \E i \in WritesOf(queue[d], p) : \E v \in Nat :
                    cache'[d][p] = ApplyToRemoteDocument(queue[d][i], cache[d][p], v)
    <2> DEFINE m == Head(queue[e])
               v == Head(results[e]).version
               new == ApplyBatchResult(m, cache[e][m.pet], v)
    <2>1. /\ queue[e] \in Seq(Mutation) /\ queue[e] # <<>>
          /\ results[e] \in Seq(Result) /\ results[e] # <<>>
      BY <1>1 DEF HandleSuccessfulWrite, AnswersMatchQueue, StoreTypeOK
    <2>2. m \in Mutation /\ m = queue[e][1] /\ 1 \in DOMAIN queue[e]
      BY <2>1
    <2>3. Head(results[e]) \in Result
      BY <2>1
    <2>4. v \in Nat /\ m.pet \in Pets
      BY <2>2, <2>3 DEF Result, Mutation
    <2>5. cache' = [cache EXCEPT ![e][m.pet] = new]
      BY <1>1 DEF HandleSuccessfulWrite
    <2> HIDE DEF new
    <2>6. cache'[d][p] = cache[d][p] \/ (e = d /\ m.pet = p /\ cache'[d][p] = new)
      <3> HIDE DEF m, v
      <3> QED BY <2>4, <2>5 DEF StoreTypeOK
    <2>7. CASE e = d /\ m.pet = p /\ cache'[d][p] = new
      <3>1. 1 \in WritesOf(queue[d], p)
        BY <2>2, <2>7 DEF WritesOf
      <3>2. new \in {cache[d][p], ApplyToRemoteDocument(queue[d][1], cache[d][p], v)}
        BY <2>2, <2>7 DEF new, ApplyBatchResult
      <3> QED BY <2>4, <2>7, <3>1, <3>2
    <2> QED BY <2>6, <2>7
  <1>2. ASSUME NEW e \in Devices, ApplyRemoteEvent(e)
        PROVE  cache'[d][p] \in {cache[d][p], watch[d].docs[p]}
    BY <1>2 DEF ApplyRemoteEvent, ApplyUpdate, StoreTypeOK
  <1>3. CASE cache' = cache
    BY <1>3
  <1> QED BY <1>1, <1>2, <1>3 DEF StoreNext, Network, storeVars,
       WriteMutations, ServerHandlesWrite, HandleRejectedWrite,
       OnWriteStreamClose, SendSnapshot, OnWatchStreamClose, Restart

(* The document of the snapshot in flight. *)
LEMMA WatchOrigin ==
  ASSUME StoreTypeOK, [StoreNext]_storeVars, NEW d \in Devices, NEW p \in Pets
  PROVE  watch'[d].docs[p] \in {watch[d].docs[p], server[p], Absent}
  <1>1. NoSnapshot.docs[p] = Absent
    BY DEF NoSnapshot
  <1>2. ASSUME NEW e \in Devices, SendSnapshot(e)
        PROVE  watch'[d] = watch[d] \/ watch'[d].docs = server
    BY <1>2 DEF SendSnapshot, StoreTypeOK
  <1>3. ASSUME NEW e \in Devices,
               ApplyRemoteEvent(e) \/ OnWatchStreamClose(e) \/ Restart(e)
        PROVE  watch'[d] = watch[d] \/ watch'[d] = NoSnapshot
    BY <1>3 DEF ApplyRemoteEvent, OnWatchStreamClose, Restart, StoreTypeOK
  <1>4. CASE watch' = watch
    BY <1>4
  <1>5. watch'[d] = watch[d] \/ watch'[d] = NoSnapshot \/ watch'[d].docs = server
    BY <1>2, <1>3, <1>4 DEF StoreNext, Network, storeVars, WriteMutations,
       ServerHandlesWrite, HandleSuccessfulWrite, HandleRejectedWrite,
       OnWriteStreamClose
  <1> QED BY <1>1, <1>5

---------------------------------------------------------------------------------
(***************************************************************************)
(* Where the queued writes and the blocks of a pet come from.              *)
(***************************************************************************)

(* What an update block queues. *)
UpdateOf(e, p) ==
  LET b == Head(mainQ[e][p]) IN UpdateData(p, {FieldOf(b.op)}, b.card.data)

LEMMA UpdateOfType ==
  ASSUME TypeOK, NEW e \in Devices, NEW p \in Pets, UpdateBlock(e, p)
  PROVE  LET b == Head(mainQ[e][p])
         IN /\ b \in Block /\ b = mainQ[e][p][1] /\ 1 \in DOMAIN mainQ[e][p]
            /\ b.kind = "update"
            /\ WriteMutations(e, UpdateOf(e, p)) /\ UpdateOf(e, p) \in Mutation
            /\ UpdateOf(e, p).pet = p /\ UpdateOf(e, p).type = "patch"
            /\ UpdateOf(e, p).mask = {FieldOf(b.op)}
            /\ UpdateOf(e, p).data = b.card.data
            /\ RecordUpdate(p, b.op)
  <1>1. mainQ[e][p] \in Seq(Block) /\ mainQ[e][p] # <<>>
    BY DEF UpdateBlock, FrontIs, TypeOK
  <1>2. /\ Head(mainQ[e][p]) \in Block /\ Head(mainQ[e][p]) = mainQ[e][p][1]
        /\ 1 \in DOMAIN mainQ[e][p]
    BY <1>1
  <1> QED BY <1>2, AppWritesType
        DEF UpdateBlock, FrontIs, Write, UpdateOf, UpdateData

(* The queued writes of a pet: they were there before, create it or delete it,
   or are the update of the block that has just run. *)
LEMMA WritesStep ==
  ASSUME CardsInv, [Next]_vars, NEW e \in Devices, NEW p \in Pets,
         NEW i \in WritesOf(queue'[e], p)
  PROVE  \/ \E j \in WritesOf(queue[e], p) : queue'[e][i] = queue[e][j]
         \/ queue'[e][i] = DeleteDocument(p) /\ "delete" \in UserOps
         \/ queue'[e][i] = SetData(p, NewPet) /\ server[p].version = 0
         \/ UpdateBlock(e, p) /\ queue'[e][i] = UpdateOf(e, p)
  <1> USE DEF CardsInv, TypeOK
  <1>0. queue \in [Devices -> Seq(Mutation)] /\ server[p].version \in Nat
    BY DEF StoreTypeOK, MaybeDocument
  <1>1. i \in DOMAIN queue'[e] /\ queue'[e][i].pet = p
    BY DEF WritesOf
  <1>2. ASSUME NEW j \in DOMAIN queue[e], queue'[e][i] = queue[e][j]
        PROVE  \E k \in WritesOf(queue[e], p) : queue'[e][i] = queue[e][k]
    BY <1>1, <1>2 DEF WritesOf
  <1>3. ASSUME UNCHANGED queue
        PROVE  \E j \in DOMAIN queue[e] : queue'[e][i] = queue[e][j]
    BY <1>1, <1>3
  <1>4. ASSUME NEW d \in Devices, PopWrite(d)
        PROVE  \E j \in DOMAIN queue[e] : queue'[e][i] = queue[e][j]
    <2>1. queue'[e] = queue[e] \/ queue'[e] = Tail(queue[e])
      BY <1>0, <1>4 DEF PopWrite
    <2>2. CASE queue'[e] = queue[e]
      BY <1>1, <2>2
    <2>3. CASE queue'[e] = Tail(queue[e])
      <3>1. CASE queue[e] = <<>>
        BY <1>1, <2>3, <3>1
      <3>2. CASE queue[e] # <<>>
        <4>1. i + 1 \in DOMAIN queue[e] /\ queue'[e][i] = queue[e][i + 1]
          BY <1>0, <1>1, <2>3, <3>2
        <4> QED BY <4>1
      <3> QED BY <3>1, <3>2
    <2> QED BY <2>1, <2>2, <2>3
  <1>5. ASSUME NEW d \in Devices, NEW m \in Mutation, WriteMutations(d, m)
        PROVE  \/ \E j \in DOMAIN queue[e] : queue'[e][i] = queue[e][j]
               \/ d = e /\ queue'[e][i] = m
    <2>1. queue' = [queue EXCEPT ![d] = Append(@, m)]
      BY <1>5 DEF WriteMutations
    <2>2. CASE d # e
      <3>1. queue'[e] = queue[e]
        BY <1>0, <2>1, <2>2
      <3> QED BY <1>1, <3>1
    <2>3. CASE d = e
      <3>1. queue'[e] = Append(queue[e], m) /\ queue[e] \in Seq(Mutation)
        BY <1>0, <2>1, <2>3
      <3>2. i \in 1 .. Len(queue[e]) + 1
        BY <1>1, <3>1
      <3>3. queue'[e][i] = m \/ (i \in DOMAIN queue[e] /\ queue'[e][i] = queue[e][i])
        BY <3>1, <3>2
      <3> QED BY <2>3, <3>3
    <2> QED BY <2>2, <2>3
  <1>6. ASSUME NEW d \in Devices, NEW q \in Pets, Save(d, q)
        PROVE  \/ \E j \in DOMAIN queue[e] : queue'[e][i] = queue[e][j]
               \/ queue'[e][i] = SetData(p, NewPet) /\ server[p].version = 0
    <2>1. server[q].version = 0 /\ SetData(q, NewPet).pet = q
      BY <1>6 DEF Save, IsFresh, SetData
    <2>2. WriteMutations(d, SetData(q, NewPet))
      BY <1>6 DEF Save, Write
    <2>3. \/ \E j \in DOMAIN queue[e] : queue'[e][i] = queue[e][j]
          \/ queue'[e][i] = SetData(q, NewPet)
      BY <1>5, <2>2, AppWritesType
    <2> QED BY <1>1, <2>1, <2>3
  <1>7. ASSUME NEW d \in Devices, NEW q \in Pets, Delete(d, q), "delete" \in UserOps
        PROVE  \/ \E j \in DOMAIN queue[e] : queue'[e][i] = queue[e][j]
               \/ queue'[e][i] = DeleteDocument(p) /\ "delete" \in UserOps
    <2>1. DeleteDocument(q).pet = q
      BY DEF DeleteDocument
    <2>2. WriteMutations(d, DeleteDocument(q))
      BY <1>7 DEF Delete, Write
    <2>3. \/ \E j \in DOMAIN queue[e] : queue'[e][i] = queue[e][j]
          \/ queue'[e][i] = DeleteDocument(q)
      BY <1>5, <2>2, AppWritesType
    <2> QED BY <1>1, <1>7, <2>1, <2>3
  <1>8. ASSUME NEW d \in Devices, NEW q \in Pets, UpdateBlock(d, q)
        PROVE  \/ \E j \in DOMAIN queue[e] : queue'[e][i] = queue[e][j]
               \/ UpdateBlock(e, p) /\ queue'[e][i] = UpdateOf(e, p)
    BY <1>1, <1>5, <1>8, UpdateOfType
  <1>9. ASSUME NEW d \in Devices, User(d)
        PROVE  \/ UNCHANGED queue
               \/ \E q \in Pets : Save(d, q) \/ (Delete(d, q) /\ "delete" \in UserOps)
    BY <1>9 DEF User, Tap, storeVars
  <1>10. ASSUME NEW d \in Devices, MainQueue(d)
         PROVE  UNCHANGED queue \/ \E q \in Pets : UpdateBlock(d, q)
    BY <1>10 DEF MainQueue, GotDocument, DeletedBlock, FetchData, storeVars
  <1>11. ASSUME NEW d \in Devices, Streams(d) \/ Faults(d)
         PROVE  UNCHANGED queue \/ PopWrite(d)
    BY <1>11 DEF Streams, Faults, ServerHandlesWrite, Acknowledged, Rejected,
       HandleSuccessfulWrite, HandleRejectedWrite, SnapshotSent, SendSnapshot,
       SnapshotReceived, ApplyRemoteEvent, OnWriteStreamClose, WatchStreamLost,
       OnWatchStreamClose, Relaunch, Restart
  <1>12. ASSUME UNCHANGED vars PROVE UNCHANGED queue
    BY <1>12 DEF vars, storeVars
  <1>13. \/ \E j \in DOMAIN queue[e] : queue'[e][i] = queue[e][j]
         \/ queue'[e][i] = DeleteDocument(p) /\ "delete" \in UserOps
         \/ queue'[e][i] = SetData(p, NewPet) /\ server[p].version = 0
         \/ UpdateBlock(e, p) /\ queue'[e][i] = UpdateOf(e, p)
    BY <1>3, <1>4, <1>6, <1>7, <1>8, <1>9, <1>10, <1>11, <1>12 DEF Next
  <1> QED BY <1>2, <1>13

(* The block that follows one that has read. *)
UpdateAfter(b) ==
  [b EXCEPT !.kind = "update", !.card.data = NewValue(b.op, b.card.data)]

LEMMA UpdateAfterType ==
  ASSUME NEW b \in Block
  PROVE  /\ UpdateAfter(b) \in Block
         /\ UpdateAfter(b).kind = "update" /\ UpdateAfter(b).op = b.op
         /\ UpdateAfter(b).card.data = NewValue(b.op, b.card.data)
  <1>1. NewValue(b.op, b.card.data) \in Fields
    BY NewValueType DEF Block, Cards
  <1> QED BY <1>1 DEF UpdateAfter, Block, Cards

(* The blocks of the reads that are answered. *)
LEMMA RaiseOrigin ==
  ASSUME TypeOK, TypeOK', NEW e \in Devices, NEW S, Raise(e, S),
         NEW d \in Devices, NEW p \in Pets, NEW i \in DOMAIN mainQ'[d][p]
  PROVE  \/ \E j \in DOMAIN mainQ[d][p] : mainQ'[d][p][i] = mainQ[d][p][j]
         \/ \E j \in DOMAIN gets[d][p] :
              mainQ'[d][p][i] = Got(gets[d][p][j], ViewCard(d, p)')
  <1> DEFINE card == ViewCard(d, p)'
             raised == [j \in DOMAIN gets[d][p] |-> Got(gets[d][p][j], card)]
  <1>0. /\ mainQ[d][p] \in Seq(Block) /\ gets[d][p] \in Seq(Get)
        /\ mainQ \in [Devices -> [Pets -> Seq(Block)]]
    BY DEF TypeOK
  <1>1. card \in Cards
    <2>1. queue'[d] \in Seq(Mutation) /\ cache'[d][p] \in MaybeDocument
      BY DEF TypeOK, StoreTypeOK
    <2> QED BY <2>1, ViewCardType DEF ViewCard, View
  <1>2. mainQ'[d][p] = mainQ[d][p] \/ mainQ'[d][p] = mainQ[d][p] \o raised
    BY <1>0 DEF Raise
  <1> HIDE DEF card
  <1>3. /\ raised \in Seq(Block)
        /\ \A j \in DOMAIN raised :
             j \in DOMAIN gets[d][p] /\ raised[j] = Got(gets[d][p][j], card)
    <2>1. DOMAIN gets[d][p] = 1 .. Len(gets[d][p]) /\ Len(gets[d][p]) \in Nat
      BY <1>0
    <2>2. \A j \in DOMAIN gets[d][p] : gets[d][p][j] \in Get
      BY <1>0
    <2>3. \A j \in DOMAIN gets[d][p] : Got(gets[d][p][j], card) \in Block
      BY <1>1, <2>2, GotType
    <2> QED BY <2>1, <2>3
  <1> HIDE DEF raised
  <1>4. CASE mainQ'[d][p] = mainQ[d][p] \o raised
    <2>1. CASE i <= Len(mainQ[d][p])
      <3>1. i \in DOMAIN mainQ[d][p] /\ mainQ'[d][p][i] = mainQ[d][p][i]
        BY <1>0, <1>3, <1>4, <2>1
      <3> QED BY <3>1
    <2>2. CASE i > Len(mainQ[d][p])
      <3>1. /\ i - Len(mainQ[d][p]) \in DOMAIN raised
            /\ mainQ'[d][p][i] = raised[i - Len(mainQ[d][p])]
        BY <1>0, <1>3, <1>4, <2>2
      <3> QED BY <1>3, <3>1 DEF card
    <2> QED BY <1>0, <1>3, <1>4, <2>1, <2>2
  <1> QED BY <1>2, <1>4

(* An acknowledgement adds at most the completion of a delete of the pet. *)
LEMMA CompletionStep ==
  ASSUME CardsInv, NEW d \in Devices, NEW p \in Pets, NEW e \in Devices, Acknowledged(e)
  PROVE  /\ gets'[d][p] = gets[d][p]
         /\ \/ mainQ'[d][p] = mainQ[d][p]
            \/ /\ mainQ'[d][p] = Append(mainQ[d][p], Deleted)
               /\ \E i \in WritesOf(queue[d], p) : queue[d][i].type = "delete"
  <1>0. /\ mainQ \in [Devices -> [Pets -> Seq(Block)]]
        /\ queue \in [Devices -> Seq(Mutation)] /\ results \in [Devices -> Seq(Result)]
        /\ Len(results[d]) <= Len(queue[d])
    BY DEF CardsInv, TypeOK, StoreTypeOK, AnswersMatchQueue
  <1> DEFINE m == Head(queue[e])
  <1>1. /\ gets' = gets /\ results[e] # <<>>
        /\ \/ mainQ' = mainQ
           \/ m.type = "delete" /\ mainQ' = [mainQ EXCEPT ![e][m.pet] = Append(@, Deleted)]
    <2>1. mainQ' = [mainQ EXCEPT ![e][m.pet] =
                      IF HeadIsLive(e) /\ m.type = "delete" THEN Append(@, Deleted) ELSE @]
      BY DEF Acknowledged
    <2> HIDE DEF m
    <2>2. CASE HeadIsLive(e) /\ m.type = "delete"
      BY <2>1, <2>2 DEF Acknowledged, HandleSuccessfulWrite
    <2>3. CASE ~(HeadIsLive(e) /\ m.type = "delete")
      <3>1. mainQ' = mainQ
        BY <1>0, <2>1, <2>3
      <3> QED BY <3>1 DEF Acknowledged, HandleSuccessfulWrite
    <2> QED BY <2>2, <2>3
  <1>2. CASE mainQ' = mainQ
    BY <1>1, <1>2
  <1>3. CASE mainQ' = [mainQ EXCEPT ![e][m.pet] = Append(@, Deleted)] /\ m.type = "delete"
    <2>1. CASE e = d /\ m.pet = p
      <3>1. queue[d] # <<>>
        BY <1>0, <1>1, <2>1
      <3>2. m = queue[d][1] /\ 1 \in DOMAIN queue[d]
        BY <1>0, <2>1, <3>1
      <3>3. 1 \in WritesOf(queue[d], p)
        BY <2>1, <3>2 DEF WritesOf
      <3>4. mainQ'[d][p] = Append(mainQ[d][p], Deleted)
        <4> HIDE DEF m
        <4> QED BY <1>0, <1>3, <2>1
      <3> QED BY <1>1, <1>3, <3>2, <3>3, <3>4
    <2>2. CASE ~(e = d /\ m.pet = p)
      <3> HIDE DEF m
      <3>1. mainQ'[d][p] = mainQ[d][p]
        <4>1. CASE e # d
          BY <1>0, <1>3, <4>1
        <4>2. CASE e = d /\ m.pet # p
          BY <1>0, <1>3, <4>2
        <4> QED BY <2>2, <4>1, <4>2
      <3> QED BY <1>1, <3>1
    <2> QED BY <2>1, <2>2
  <1> QED BY <1>1, <1>2, <1>3

(* The blocks of a pet: they were there before, or are the completion of a
   delete, the answer of a read, or what follows such an answer. *)
LEMMA BlocksStep ==
  ASSUME CardsInv, [Next]_vars, NEW d \in Devices, NEW p \in Pets,
         NEW i \in DOMAIN mainQ'[d][p]
  PROVE  LET b == mainQ'[d][p][i]
         IN \/ \E j \in DOMAIN mainQ[d][p] : b = mainQ[d][p][j]
            \/ b = Deleted /\ \E j \in WritesOf(queue[d], p) : queue[d][j].type = "delete"
            \/ \E g \in Get : /\ \/ g.op \in UserOps
                                 \/ \E j \in DOMAIN gets[d][p] : g = gets[d][p][j]
                              /\ b = Got(g, ViewCard(d, p)')
            \/ \E j \in DOMAIN mainQ[d][p] : /\ mainQ[d][p][j].kind = "got"
                                             /\ b = UpdateAfter(mainQ[d][p][j])
  <1> USE DEF CardsInv, TypeOK
  <1> DEFINE q == mainQ[d][p]
             Known(b) ==
               \/ \E j \in DOMAIN q : b = q[j]
               \/ b = Deleted /\ \E j \in WritesOf(queue[d], p) : queue[d][j].type = "delete"
               \/ \E g \in Get : /\ \/ g.op \in UserOps
                                    \/ \E j \in DOMAIN gets[d][p] : g = gets[d][p][j]
                                 /\ b = Got(g, ViewCard(d, p)')
               \/ \E j \in DOMAIN q : q[j].kind = "got" /\ b = UpdateAfter(q[j])
  <1>0. /\ mainQ \in [Devices -> [Pets -> Seq(Block)]]
        /\ q \in Seq(Block) /\ \A j \in DOMAIN q : q[j] \in Block
    <2>1. mainQ \in [Devices -> [Pets -> Seq(Block)]] /\ q \in Seq(Block)
      OBVIOUS
    <2> QED BY <2>1
  <1>a. \A j \in DOMAIN q : Known(q[j])
    OBVIOUS
  <1> SUFFICES Known(mainQ'[d][p][i])
    OBVIOUS
  <1>1. ASSUME mainQ'[d][p] = q PROVE Known(mainQ'[d][p][i])
    BY <1>a, <1>1
  <1>2. ASSUME NEW r \in Seq(Block), NEW b \in Block, Known(b),
               mainQ'[d][p] = Append(r, b), r = q \/ (r = Tail(q) /\ q # <<>>)
        PROVE  Known(mainQ'[d][p][i])
    <2> HIDE DEF Known
    <2>1. mainQ'[d][p][i] = b \/ (i \in DOMAIN r /\ mainQ'[d][p][i] = r[i])
      BY <1>2
    <2>2. ASSUME i \in DOMAIN r PROVE \E j \in DOMAIN q : r[i] = q[j]
      <3>1. CASE r = q
        BY <2>2, <3>1
      <3>2. CASE r = Tail(q) /\ q # <<>>
        <4>1. i + 1 \in DOMAIN q /\ r[i] = q[i + 1]
          BY <1>0, <2>2, <3>2
        <4> QED BY <4>1
      <3> QED BY <1>2, <3>1, <3>2
    <2> QED BY <1>2, <1>a, <2>1, <2>2
  <1>3. ASSUME mainQ'[d][p] = Tail(q), q # <<>> PROVE Known(mainQ'[d][p][i])
    <2> HIDE DEF Known
    <2>1. i + 1 \in DOMAIN q /\ mainQ'[d][p][i] = q[i + 1]
      BY <1>0, <1>3
    <2> QED BY <1>a, <2>1
  <1> HIDE DEF Known
  <1>4. ASSUME NEW e \in Devices, User(e) PROVE Known(mainQ'[d][p][i])
    <2>1. CASE mainQ' = mainQ
      BY <1>1, <2>1
    <2>2. ASSUME NEW x \in Pets, NEW op \in CardOps \cap UserOps, Tap(e, x, op)
          PROVE  Known(mainQ'[d][p][i])
      <3> DEFINE g == [op |-> op, since |-> Since(e, x)]
                 b == Got(g, ViewCard(e, x))
      <3>1. CASE e = d /\ x = p
        <4>1. g \in Get /\ g.op \in UserOps
          BY DEF Since, StoreTypeOK, MaybeDocument, Get
        <4>2. ViewCard(d, p) \in Cards /\ ViewCard(d, p)' = ViewCard(d, p)
          <5>1. queue[d] \in Seq(Mutation) /\ cache[d][p] \in MaybeDocument
            BY DEF StoreTypeOK
          <5>2. queue' = queue /\ cache' = cache
            BY <2>2 DEF Tap, storeVars
          <5> QED BY <5>1, <5>2, ViewCardType DEF ViewCard, View
        <4>3. b \in Block /\ b = Got(g, ViewCard(d, p)')
          BY <3>1, <4>1, <4>2, GotType
        <4>4. Known(b)
          BY <4>1, <4>3 DEF Known
        <4>5. mainQ' = mainQ \/ mainQ' = [mainQ EXCEPT ![d][p] = Append(@, b)]
          BY <2>2, <3>1 DEF Tap
        <4> HIDE DEF b
        <4>6. mainQ'[d][p] = q \/ mainQ'[d][p] = Append(q, b)
          BY <1>0, <4>5
        <4> QED BY <1>0, <1>1, <1>2, <4>3, <4>4, <4>6
      <3>2. CASE ~(e = d /\ x = p)
        <4>1. PICK r : mainQ' = mainQ \/ mainQ' = [mainQ EXCEPT ![e][x] = r]
          BY <2>2 DEF Tap
        <4>2. mainQ'[d][p] = q
          <5>1. CASE mainQ' = mainQ
            BY <5>1
          <5>2. CASE mainQ' = [mainQ EXCEPT ![e][x] = r]
            <6>1. CASE e # d
              BY <1>0, <5>2, <6>1
            <6>2. CASE x # p
              BY <1>0, <5>2, <6>2
            <6> QED BY <3>2, <6>1, <6>2
          <5> QED BY <4>1, <5>1, <5>2
        <4> QED BY <1>1, <4>2
      <3> QED BY <3>1, <3>2
    <2> QED BY <1>4, <2>1, <2>2 DEF User, Save, Delete
  <1>5. ASSUME NEW e \in Devices, MainQueue(e) PROVE Known(mainQ'[d][p][i])
    <2>1. CASE FetchData(e)
      BY <1>1, <2>1 DEF FetchData
    <2>2. ASSUME NEW x \in Pets, x # p \/ e # d,
                 GotDocument(e, x) \/ UpdateBlock(e, x) \/ DeletedBlock(e, x)
          PROVE  Known(mainQ'[d][p][i])
      <3>1. PICK r : mainQ' = [mainQ EXCEPT ![e][x] = r]
        BY <2>2 DEF GotDocument, UpdateBlock, DeletedBlock
      <3>2. mainQ'[d][p] = q
        BY <2>2, <3>1
      <3> QED BY <1>1, <3>2
    <2>3. CASE UpdateBlock(d, p) \/ DeletedBlock(d, p)
      <3>1. mainQ' = [mainQ EXCEPT ![d][p] = Tail(q)] /\ q # <<>>
        BY <2>3 DEF UpdateBlock, DeletedBlock, FrontIs
      <3>2. mainQ'[d][p] = Tail(q)
        BY <1>0, <3>1
      <3> QED BY <1>3, <3>1, <3>2
    <2>4. CASE GotDocument(d, p)
      <3> DEFINE b == Head(q)
                 new == UpdateAfter(b)
      <3>1. q # <<>> /\ b.kind = "got"
        BY <2>4 DEF GotDocument, FrontIs
      <3>2. b = q[1] /\ 1 \in DOMAIN q /\ b \in Block /\ Tail(q) \in Seq(Block)
        BY <1>0, <3>1
      <3>3. new \in Block /\ Known(new)
        BY <3>1, <3>2, UpdateAfterType DEF Known
      <3>4. mainQ'[d][p] = Tail(q) \/ mainQ'[d][p] = Append(Tail(q), new)
        BY <2>4 DEF GotDocument, UpdateAfter
      <3> HIDE DEF new, b
      <3> QED BY <1>2, <1>3, <3>1, <3>2, <3>3, <3>4
    <2> QED BY <1>5, <2>1, <2>2, <2>3, <2>4 DEF MainQueue
  <1>6. ASSUME NEW e \in Devices, Acknowledged(e) PROVE Known(mainQ'[d][p][i])
    <2>1. CASE mainQ'[d][p] = q
      BY <1>1, <2>1
    <2>2. CASE /\ mainQ'[d][p] = Append(q, Deleted)
               /\ \E j \in WritesOf(queue[d], p) : queue[d][j].type = "delete"
      <3>1. Deleted \in Block /\ Known(Deleted)
        BY <2>2, DeletedType DEF Known
      <3> QED BY <1>0, <1>2, <2>2, <3>1
    <2> QED BY <1>6, <2>1, <2>2, CompletionStep
  <1>7. ASSUME NEW e \in Devices, SnapshotReceived(e) \/ WatchStreamLost(e)
        PROVE  Known(mainQ'[d][p][i])
    <2>1. CASE mainQ' = mainQ
      BY <1>1, <2>1
    <2>2. ASSUME NEW S, Raise(e, S) PROVE Known(mainQ'[d][p][i])
      <3>1. \A j \in DOMAIN gets[d][p] : gets[d][p][j] \in Get
        <4>1. gets[d][p] \in Seq(Get)
          OBVIOUS
        <4> QED BY <4>1
      <3>2. \/ \E j \in DOMAIN q : mainQ'[d][p][i] = q[j]
            \/ \E j \in DOMAIN gets[d][p] :
                 mainQ'[d][p][i] = Got(gets[d][p][j], ViewCard(d, p)')
        BY <2>2, CardsInvStep, RaiseOrigin
      <3> QED BY <3>1, <3>2 DEF Known
    <2> QED BY <1>7, <2>1, <2>2 DEF SnapshotReceived, WatchStreamLost
  <1>8. ASSUME NEW e \in Devices, Relaunch(e) PROVE Known(mainQ'[d][p][i])
    <2>1. mainQ'[d][p] = q \/ mainQ'[d][p] = <<>>
      BY <1>8 DEF Relaunch
    <2> QED BY <1>1, <2>1
  <1>9. ASSUME mainQ' = mainQ PROVE Known(mainQ'[d][p][i])
    BY <1>1, <1>9
  <1>10. ASSUME NEW e \in Devices, Streams(e) \/ Faults(e)
         PROVE  Known(mainQ'[d][p][i])
    BY <1>6, <1>7, <1>8, <1>9, <1>10 DEF Streams, Faults, Rejected,
       SnapshotSent, appVars
  <1> QED BY <1>4, <1>5, <1>9, <1>10 DEF Next, vars, appVars

---------------------------------------------------------------------------------
(***************************************************************************)
(* Counts stay within the taps.                                            *)
(***************************************************************************)

Taps(p) == Tally(p, "treats")

(* An update of the treats that is on its way to the queue is one ahead. *)
Slack(b) == Ahead(b, "treats")

(* Every count of pet p is between 0 and n. *)
CountsWithin(p, n) ==
  /\ server[p].data.treats \in 0 .. n
  /\ \A d \in Devices :
       /\ shown[d][p].data.treats \in 0 .. n
       /\ cache[d][p].data.treats \in 0 .. n
       /\ watch[d].docs[p].data.treats \in 0 .. n
       /\ \A i \in WritesOf(queue[d], p) : queue[d][i].data.treats \in 0 .. n
       /\ \A i \in DOMAIN mainQ[d][p] :
            mainQ[d][p][i].card.data.treats \in 0 .. n + Slack(mainQ[d][p][i])

TreatsInv == CardsInv /\ \A p \in Pets : CountsWithin(p, Taps(p))

LEMMA PatchTreats ==
  ASSUME NEW m \in Mutation, NEW doc \in MaybeDocument, NEW v \in Nat,
         NEW n \in Nat, m.data.treats \in 0 .. n, doc.data.treats \in 0 .. n
  PROVE  /\ Mutated(m, doc, v).data.treats \in 0 .. n
         /\ ApplyToRemoteDocument(m, doc, v).data.treats \in 0 .. n
  <1>1. Mutated(m, doc, v).data.treats \in {m.data.treats, doc.data.treats, 0}
    BY DEF Mutated, Mutation, Document, NoDocument, PatchObject, NewPet
  <1>2. Mutated(m, doc, v).data.treats \in 0 .. n
    BY <1>1
  <1>3. CASE IsValidFor(m, doc)
    <2> DEFINE new == Mutated(m, doc, v)
    <2>1. new \in MaybeDocument
      BY MutatedType
    <2>2. ApplyToRemoteDocument(m, doc, v) = [new EXCEPT !.committed = TRUE]
      BY <1>3 DEF ApplyToRemoteDocument
    <2> HIDE DEF new
    <2>3. [new EXCEPT !.committed = TRUE].data = new.data
      BY <2>1 DEF MaybeDocument
    <2> QED BY <1>2, <2>2, <2>3 DEF new
  <1>4. CASE ~IsValidFor(m, doc)
    BY <1>2, <1>4 DEF ApplyToRemoteDocument, UnknownDocument, NewPet
  <1> QED BY <1>2, <1>3, <1>4

LEMMA CardTreats ==
  ASSUME NEW doc, NEW n \in Nat, doc.data.treats \in 0 .. n
  PROVE  Card(doc).data.treats \in 0 .. n
  BY DEF Card, NewPet

LEMMA ViewCardTreats ==
  ASSUME NEW q \in Seq(Mutation), NEW cached \in MaybeDocument, NEW p,
         NEW n \in Nat, cached.data.treats \in 0 .. n,
         \A i \in WritesOf(q, p) : q[i].data.treats \in 0 .. n
  PROVE  Card(GetDocument(q, cached, p)).data.treats \in 0 .. n
  BY GetDocumentTreats, CardTreats

LEMMA NewValueTreats ==
  ASSUME NEW op \in CardOps, NEW data \in Fields,
         NEW n \in Nat, data.treats \in 0 .. n
  PROVE  NewValue(op, data).treats \in
           0 .. n + (IF FieldOf(op) = "treats" THEN 1 ELSE 0)
  <1>1. op \in {"updateBB", "updateDB", "updateTreatsUp", "updateTreatsDown"}
    BY DEF CardOps
  <1>2. data.treats \in Int
    BY DEF Fields
  <1>3. /\ UpdateBB(data).treats = 0
        /\ UpdateDB(data).treats = 0
        /\ UpdateTreatsUp(data).treats = data.treats + 1
        /\ UpdateTreatsDown(data).treats =
             IF data.treats # 0 THEN data.treats - 1 ELSE data.treats
    BY DEF UpdateBB, UpdateDB, UpdateTreatsUp, UpdateTreatsDown, NewPet
  <1> QED BY <1>1, <1>2, <1>3 DEF NewValue, FieldOf

LEMMA CountsInit ==
  ASSUME Init, NEW x \in Pets
  PROVE  CountsWithin(x, Taps(x))
  <1>1. \A p \in Pets : InitDocument(p).data.treats = 0
    BY DEF InitDocument, Document, Absent, NoDocument, NewPet
  <1>2. Absent.data.treats = 0 /\ NewPet.treats = 0
    BY DEF Absent, NoDocument, NewPet
  <1>3. \A p \in Pets : server[p].data.treats = 0
    BY <1>1 DEF Init, StoreInit
  <1>4. \A d \in Devices, p \in Pets :
          /\ cache[d][p].data.treats = 0
          /\ watch[d].docs[p].data.treats = 0
    BY <1>1, <1>2 DEF Init, StoreInit, NoSnapshot
  <1>5. \A d \in Devices, p \in Pets : shown[d][p].data.treats = 0
    BY <1>1, <1>2 DEF Init, Card
  <1>6. \A d \in Devices : DOMAIN queue[d] = {}
    BY DEF Init, StoreInit
  <1>7. \A d \in Devices, p \in Pets : DOMAIN mainQ[d][p] = {}
    <2>1. \A d \in Devices, p \in Pets : mainQ[d][p] = <<>>
      BY DEF Init
    <2> QED BY <2>1
  <1>8. Taps(x) = 0
    BY DEF Init, NoHistory, Taps, Tally
  <1> QED BY <1>3, <1>4, <1>5, <1>6, <1>7, <1>8 DEF CountsWithin, WritesOf

LEMMA TapsType == ASSUME TypeOK, NEW p \in Pets PROVE Taps(p) \in Nat
  BY DEF TypeOK, History, Taps, Tally

(* What was within the taps before a step is within those after it. *)
LEMMA CountsGrow ==
  ASSUME TreatsInv, [Next]_vars, NEW p \in Pets
  PROVE  Taps(p)' \in Nat /\ CountsWithin(p, Taps(p)')
  <1> DEFINE m == Taps(p)
             n == Taps(p)'
  <1>1. m \in Nat /\ n \in Nat /\ m <= n
    BY TallyStep DEF TreatsInv, CardsInv, Taps, FieldNames
  <1>2. CountsWithin(p, m)
    BY DEF TreatsInv
  <1> HIDE DEF m, n
  <1>3. \A x : x \in 0 .. m => x \in 0 .. n
    BY <1>1
  <1>4. \A x, b : x \in 0 .. m + Slack(b) => x \in 0 .. n + Slack(b)
    BY <1>1 DEF Slack, Ahead
  <1>5. CountsWithin(p, n)
    BY <1>2, <1>3, <1>4 DEF CountsWithin
  <1> QED BY <1>1, <1>5 DEF n

(* The queued writes: an update queues what a block computed. *)
LEMMA QueueCountStep ==
  ASSUME TreatsInv, [Next]_vars, NEW d \in Devices, NEW p \in Pets,
         NEW i \in WritesOf(queue'[d], p)
  PROVE  queue'[d][i].data.treats \in 0 .. Taps(p)'
  <1> DEFINE n == Taps(p)'
             m == queue'[d][i]
  <1>0. n \in Nat /\ CountsWithin(p, n) /\ 0 \in 0 .. n
    <2>1. n \in Nat /\ CountsWithin(p, n)
      BY CountsGrow
    <2> HIDE DEF n
    <2> QED BY <2>1
  <1>1. ASSUME NEW j \in WritesOf(queue[d], p), m = queue[d][j]
        PROVE  m.data.treats \in 0 .. n
    BY <1>0, <1>1 DEF CountsWithin
  <1>2. CASE m = DeleteDocument(p) \/ m = SetData(p, NewPet)
    <2>1. m.data.treats = 0
      BY <1>2 DEF DeleteDocument, SetData, NewPet
    <2> QED BY <1>0, <2>1
  <1>3. CASE UpdateBlock(d, p) /\ m = UpdateOf(d, p)
    <2> DEFINE b == Head(mainQ[d][p])
    <2>1. /\ b = mainQ[d][p][1] /\ 1 \in DOMAIN mainQ[d][p]
          /\ m.data = b.card.data
      BY <1>3, UpdateOfType DEF TreatsInv, CardsInv
    <2>2. b.card.data.treats \in 0 .. Taps(p) + Slack(b)
      BY <2>1 DEF TreatsInv, CountsWithin
    <2>3. n = Taps(p) + Slack(b)
      BY <1>3, TallyStep DEF TreatsInv, CardsInv, Taps, Slack, FieldNames
    <2> QED BY <2>1, <2>2, <2>3
  <1> QED BY <1>1, <1>2, <1>3, WritesStep DEF TreatsInv

(* The server, the caches and the snapshots in flight. *)
LEMMA ServerCountStep ==
  ASSUME TreatsInv, [Next]_vars, NEW p \in Pets
  PROVE  server'[p].data.treats \in 0 .. Taps(p)'
  <1> DEFINE n == Taps(p)'
  <1>0. /\ n \in Nat /\ CountsWithin(p, n)
        /\ StoreTypeOK /\ [StoreNext]_storeVars
    BY CountsGrow, StepIsStoreStep DEF TreatsInv, CardsInv, TypeOK
  <1> SUFFICES server'[p].data.treats \in 0 .. n
    OBVIOUS
  <1> HIDE DEF n
  <1>1. ASSUME NEW e \in Devices, NEW i \in WritesOf(queue[e], p), ServerTakes(p, e, i)
        PROVE  server'[p].data.treats \in 0 .. n
    <2>1. queue[e][i] \in Mutation /\ server[p] \in MaybeDocument
      BY <1>0 DEF StoreTypeOK, WritesOf
    <2>2. queue[e][i].data.treats \in 0 .. n /\ server[p].data.treats \in 0 .. n
      BY <1>0 DEF CountsWithin
    <2> PICK v \in Nat : server'[p] = Mutated(queue[e][i], server[p], v)
      BY <1>1 DEF ServerTakes
    <2> QED BY <1>0, <2>1, <2>2, PatchTreats
  <1>2. CASE server'[p] = server[p]
    BY <1>0, <1>2 DEF CountsWithin
  <1> QED BY <1>0, <1>1, <1>2, ServerTakesStep

LEMMA CacheCountStep ==
  ASSUME TreatsInv, [Next]_vars, NEW d \in Devices, NEW p \in Pets
  PROVE  /\ cache'[d][p].data.treats \in 0 .. Taps(p)'
         /\ watch'[d].docs[p].data.treats \in 0 .. Taps(p)'
  <1> DEFINE n == Taps(p)'
  <1>0. /\ n \in Nat /\ CountsWithin(p, n) /\ AnswersMatchQueue
        /\ StoreTypeOK /\ [StoreNext]_storeVars
    BY CountsGrow, StepIsStoreStep DEF TreatsInv, CardsInv, TypeOK
  <1> HIDE DEF n
  <1>1. ASSUME NEW i \in WritesOf(queue[d], p), NEW v \in Nat
        PROVE  ApplyToRemoteDocument(queue[d][i], cache[d][p], v).data.treats \in 0 .. n
    <2>1. queue[d][i] \in Mutation /\ cache[d][p] \in MaybeDocument
      BY <1>0 DEF StoreTypeOK, WritesOf
    <2>2. queue[d][i].data.treats \in 0 .. n /\ cache[d][p].data.treats \in 0 .. n
      BY <1>0 DEF CountsWithin
    <2> QED BY <1>0, <2>1, <2>2, PatchTreats
  <1>2. cache'[d][p].data.treats \in 0 .. n
    <2>1. cache[d][p].data.treats \in 0 .. n /\ watch[d].docs[p].data.treats \in 0 .. n
      BY <1>0 DEF CountsWithin
    <2> QED BY <1>0, <1>1, <2>1, CacheOrigin
  <1>3. watch'[d].docs[p].data.treats \in 0 .. n
    <2>1. Absent.data.treats = 0 /\ 0 \in 0 .. n
      BY <1>0 DEF Absent, NoDocument, NewPet
    <2>2. server[p].data.treats \in 0 .. n /\ watch[d].docs[p].data.treats \in 0 .. n
      BY <1>0 DEF CountsWithin
    <2> QED BY <1>0, <2>1, <2>2, WatchOrigin
  <1> QED BY <1>2, <1>3 DEF n

(* The card of a pet as a phone reads it. *)
LEMMA ReadCount ==
  ASSUME TypeOK, NEW n \in Nat, NEW d \in Devices, NEW p \in Pets, CountsWithin(p, n)
  PROVE  ViewCard(d, p) \in Cards /\ ViewCard(d, p).data.treats \in 0 .. n
  <1>1. queue[d] \in Seq(Mutation) /\ cache[d][p] \in MaybeDocument
    BY DEF TypeOK, StoreTypeOK
  <1>2. /\ cache[d][p].data.treats \in 0 .. n
        /\ \A i \in WritesOf(queue[d], p) : queue[d][i].data.treats \in 0 .. n
    BY DEF CountsWithin
  <1> QED BY <1>1, <1>2, ViewCardType, ViewCardTreats DEF ViewCard, View

LEMMA ShownCountStep ==
  ASSUME TreatsInv, [Next]_vars, NEW d \in Devices, NEW p \in Pets
  PROVE  shown'[d][p].data.treats \in 0 .. Taps(p)'
  <1> SUFFICES ASSUME NEW n, n = Taps(p)'
               PROVE  shown'[d][p].data.treats \in 0 .. n
    OBVIOUS
  <1> USE DEF TreatsInv, CardsInv, TypeOK
  <1>0. n \in Nat /\ CountsWithin(p, n) /\ shown[d][p].data.treats \in 0 .. n
    BY CountsGrow DEF CountsWithin
  <1>1. ASSUME NEW e \in Devices, FetchData(e)
        PROVE  shown'[d][p].data.treats \in 0 .. n
    <2>1. ViewCard(d, p).data.treats \in 0 .. n
      BY <1>0, ReadCount
    <2>2. shown'[d][p] = shown[d][p] \/ shown'[d][p] = ViewCard(d, p)
      BY <1>1 DEF FetchData
    <2> QED BY <1>0, <2>1, <2>2
  <1>2. ASSUME NEW e \in Devices, Relaunch(e)
        PROVE  shown'[d][p].data.treats \in 0 .. n
    <2>1. Card(Absent).data.treats = 0
      BY DEF Card, Absent, NoDocument, NewPet
    <2>2. shown'[d][p] = shown[d][p] \/ shown'[d][p] = Card(Absent)
      BY <1>2 DEF Relaunch
    <2>3. 0 \in 0 .. n
      BY <1>0
    <2> QED BY <1>0, <2>1, <2>2, <2>3
  <1>3. ASSUME shown' = shown
        PROVE  shown'[d][p].data.treats \in 0 .. n
    BY <1>0, <1>3
  <1>4. ASSUME NEW e \in Devices, User(e)
        PROVE  shown' = shown
    BY <1>4 DEF User, Tap, Save, Delete
  <1>5. ASSUME NEW e \in Devices, MainQueue(e)
        PROVE  shown' = shown \/ FetchData(e)
    BY <1>5 DEF MainQueue, GotDocument, UpdateBlock, DeletedBlock
  <1>6. ASSUME NEW e \in Devices, Streams(e) \/ Faults(e)
        PROVE  shown' = shown \/ Relaunch(e)
    BY <1>6 DEF Streams, Faults, appVars, Acknowledged, Rejected,
       SnapshotSent, SnapshotReceived, WatchStreamLost
  <1>7. ASSUME UNCHANGED vars PROVE shown' = shown
    BY <1>7 DEF vars, appVars
  <1> QED BY <1>1, <1>2, <1>3, <1>4, <1>5, <1>6, <1>7 DEF Next

(* The blocks: what was read is within the taps, and what follows it is at
   most one ahead. *)
LEMMA BlockCountStep ==
  ASSUME TreatsInv, [Next]_vars, NEW d \in Devices, NEW p \in Pets,
         NEW i \in DOMAIN mainQ'[d][p]
  PROVE  mainQ'[d][p][i].card.data.treats \in 0 .. Taps(p)' + Slack(mainQ'[d][p][i])
  <1> DEFINE n == Taps(p)'
             b == mainQ'[d][p][i]
             q == mainQ[d][p]
  <1>0. n \in Nat /\ CountsWithin(p, n) /\ 0 \in 0 .. n
    <2>1. n \in Nat /\ CountsWithin(p, n)
      BY CountsGrow
    <2> HIDE DEF n
    <2> QED BY <2>1
  <1>a. TypeOK /\ TypeOK'
    BY CardsInvStep DEF TreatsInv, CardsInv
  <1>b. \A j \in DOMAIN q : /\ q[j] \in Block
                           /\ q[j].card.data.treats \in 0 .. n + Slack(q[j])
    <2>1. q \in Seq(Block)
      BY <1>a DEF TypeOK
    <2> QED BY <1>0, <2>1 DEF CountsWithin
  <1> SUFFICES b.card.data.treats \in 0 .. n + Slack(b)
    OBVIOUS
  <1>1. CASE b = Deleted
    <2>1. b.card.data.treats = 0 /\ Slack(b) = 0
      BY <1>1 DEF Deleted, Card, Absent, NoDocument, NewPet, Slack, Ahead
    <2> QED BY <1>0, <2>1
  <1>2. ASSUME NEW g \in Get, b = Got(g, ViewCard(d, p)')
        PROVE  b.card.data.treats \in 0 .. n + Slack(b)
    <2>1. /\ \A k \in WritesOf(queue'[d], p) : queue'[d][k].data.treats \in 0 .. n
          /\ cache'[d][p].data.treats \in 0 .. n
      BY QueueCountStep, CacheCountStep
    <2>2. queue'[d] \in Seq(Mutation) /\ cache'[d][p] \in MaybeDocument
      BY <1>a DEF TypeOK, StoreTypeOK
    <2>3. ViewCard(d, p)'.data.treats \in 0 .. n
      BY <1>0, <2>1, <2>2, ViewCardTreats DEF ViewCard, View
    <2>4. b.card = ViewCard(d, p)' /\ Slack(b) = 0
      BY <1>2 DEF Got, Slack, Ahead
    <2> HIDE DEF b
    <2> QED BY <1>0, <2>3, <2>4
  <1>3. ASSUME NEW j \in DOMAIN q, q[j].kind = "got", b = UpdateAfter(q[j])
        PROVE  b.card.data.treats \in 0 .. n + Slack(b)
    <2> DEFINE c == q[j]
    <2>1. c \in Block /\ c.card.data.treats \in 0 .. n
      BY <1>0, <1>b, <1>3 DEF Slack, Ahead
    <2>2. c.op \in CardOps /\ c.card.data \in Fields
      BY <2>1 DEF Block, Cards
    <2>3. /\ b.card.data = NewValue(c.op, c.card.data)
          /\ Slack(b) = IF FieldOf(c.op) = "treats" THEN 1 ELSE 0
      BY <1>3, <2>1, UpdateAfterType DEF Slack, Ahead
    <2> HIDE DEF b, c
    <2> QED BY <1>0, <2>1, <2>2, <2>3, NewValueTreats
  <1> HIDE DEF b
  <1>4. ASSUME NEW j \in DOMAIN q, b = q[j]
        PROVE  b.card.data.treats \in 0 .. n + Slack(b)
    BY <1>b, <1>4
  <1> QED BY <1>1, <1>2, <1>3, <1>4, BlocksStep DEF b, TreatsInv

LEMMA TreatsInvAlways == Spec => []TreatsInv
  <1>1. Init => TreatsInv
    BY InitType, CountsInit DEF TreatsInv
  <1>2. TreatsInv /\ [Next]_vars => TreatsInv'
    <2> SUFFICES ASSUME TreatsInv, [Next]_vars PROVE TreatsInv'
      OBVIOUS
    <2>1. CardsInv'
      BY CardsInvStep DEF TreatsInv
    <2>2. ASSUME NEW p \in Pets PROVE CountsWithin(p, Taps(p))'
      BY ServerCountStep, CacheCountStep, ShownCountStep, QueueCountStep, BlockCountStep
         DEF CountsWithin
    <2> QED BY <2>1, <2>2 DEF TreatsInv
  <1> QED BY <1>1, <1>2, PTL DEF Spec

(* No treat count is negative anywhere: on the server, on a card, in a queued
   write or in a block on its way to one. *)
THEOREM TreatsStayNatural == Spec => []TreatsNotNegative
  <1>1. TreatsInv => TreatsNotNegative
    <2> SUFFICES ASSUME TreatsInv PROVE TreatsNotNegative
      OBVIOUS
    <2>1. \A p \in Pets : CountsWithin(p, Taps(p)) /\ Taps(p) \in Nat
      BY TapsType DEF TreatsInv, CardsInv
    <2>2. ASSUME NEW d \in Devices, NEW i \in DOMAIN queue[d]
          PROVE  queue[d][i].data.treats >= 0
      <3>0. queue[d][i] \in Mutation
        BY DEF TreatsInv, CardsInv, TypeOK, StoreTypeOK
      <3>1. queue[d][i].pet \in Pets
        BY <3>0 DEF Mutation
      <3>2. i \in WritesOf(queue[d], queue[d][i].pet)
        BY DEF WritesOf
      <3> QED BY <2>1, <3>1, <3>2 DEF CountsWithin
    <2>3. ASSUME NEW p \in Pets
          PROVE  /\ server[p].data.treats >= 0
                 /\ \A d \in Devices :
                      /\ shown[d][p].data.treats >= 0
                      /\ \A i \in DOMAIN mainQ[d][p] :
                           mainQ[d][p][i].card.data.treats >= 0
      BY <2>1 DEF CountsWithin, Slack, Ahead
    <2> QED BY <2>2, <2>3 DEF TreatsNotNegative
  <1> QED BY <1>1, TreatsInvAlways, PTL

(* No count of treats exceeds the treat updates that were queued, on the server,
   on a card, in a cache, a snapshot or a queued write, however often a write is
   sent again. *)
THEOREM TreatsStayBelowTaps == Spec => []TreatsNotOvercounted
  <1>1. TreatsInv => TreatsNotOvercounted
    <2> SUFFICES ASSUME TreatsInv, NEW p \in Pets
                 PROVE  /\ server[p].data.treats <= Taps(p)
                        /\ \A d \in Devices :
                             /\ shown[d][p].data.treats <= Taps(p)
                             /\ cache[d][p].data.treats <= Taps(p)
                             /\ watch[d].docs[p].data.treats <= Taps(p)
                             /\ \A i \in WritesOf(queue[d], p) :
                                  queue[d][i].data.treats <= Taps(p)
      BY DEF TreatsNotOvercounted, Taps, Tally
    <2>1. Taps(p) \in Nat /\ CountsWithin(p, Taps(p))
      BY TapsType DEF TreatsInv, CardsInv
    <2> HIDE DEF Taps
    <2> QED BY <2>1 DEF CountsWithin
  <1> QED BY <1>1, TreatsInvAlways, PTL

---------------------------------------------------------------------------------
(***************************************************************************)
(* A field that was written once keeps what was written.                   *)
(***************************************************************************)

(* What the first update of a field writes. *)
Written == [breakfast |-> TRUE, dinner |-> TRUE, treats |-> 1]

(* The writes of the field f of pet p that are queued. *)
UpdatesOf(d, p, f) ==
  {i \in WritesOf(queue[d], p) : queue[d][i].type = "patch" /\ f \in queue[d][i].mask}

(* One of them is yet to reach the server. *)
OnTheWay(p, f) ==
  \E d \in Devices : \E i \in UpdatesOf(d, p, f) : i > Len(results[d])

(* Nothing has written the field: it is as in a new pet wherever it may be
   read, and what is on its way to the queue is its first update. *)
NeverTapped(p, f) ==
  /\ server[p].data[f] = NewPet[f]
  /\ \A d \in Devices :
       /\ cache[d][p].data[f] = NewPet[f]
       /\ watch[d].docs[p].data[f] = NewPet[f]
       /\ UpdatesOf(d, p, f) = {}
       /\ \A i \in DOMAIN mainQ[d][p] :
            LET b == mainQ[d][p][i]
            IN b.card.data[f] = IF Ahead(b, f) = 1 THEN Written[f] ELSE NewPet[f]

(* It was written once: the server has what was written, or it is on its way. *)
TappedOnce(p, f) ==
  /\ \A d \in Devices : \A i \in UpdatesOf(d, p, f) :
       queue[d][i].data[f] = Written[f]
  /\ Exists(server[p]) => server[p].data[f] = Written[f] \/ OnTheWay(p, f)

(* The pet was there before the app: no addDocument is of it. *)
IsOld(p) ==
  /\ server[p].version > 0
  /\ \A d \in Devices : \A i \in WritesOf(queue[d], p) : queue[d][i].type # "set"

(* No update is a treat taken back. *)
NoneDown ==
  \A d \in Devices, p \in Pets :
    /\ \A i \in DOMAIN gets[d][p] : gets[d][p][i].op # "updateTreatsDown"
    /\ \A i \in DOMAIN mainQ[d][p] : mainQ[d][p][i].op # "updateTreatsDown"

LoneInv ==
  /\ NoneDown
  /\ \A p \in InitPets :
       /\ IsOld(p)
       /\ \A f \in FieldNames :
            /\ Tally(p, f) = 0 => NeverTapped(p, f)
            /\ Tally(p, f) = 1 => TappedOnce(p, f)

(* A field nobody has written looks as in a new pet. *)
LEMMA UntouchedView ==
  ASSUME NEW q \in Seq(Mutation), NEW cached \in MaybeDocument, NEW p,
         NEW f \in FieldNames, cached.data[f] = NewPet[f],
         \A i \in WritesOf(q, p) : /\ q[i].type # "set"
                                   /\ q[i].type = "patch" => f \notin q[i].mask
  PROVE  Card(GetDocument(q, cached, p)).data[f] = NewPet[f]
  <1> DEFINE base == BaseDocument(q, cached, p)
             seen == [breakfast |-> Seen(q, base, p, "breakfast"),
                      dinner    |-> Seen(q, base, p, "dinner"),
                      treats    |-> Seen(q, base, p, "treats")]
  <1>1. GetDocument(q, cached, p) =
          IF ~Exists(base) THEN base ELSE Document(seen, base.version)
    BY SeenIsView
  <1>2. LastPatch(q, p, f) = 0
    <2> DEFINE S == {i \in WritesOf(q, p) :
                       i > Base(q, p) /\ q[i].type = "patch" /\ f \in q[i].mask}
    <2>1. S = {}
      OBVIOUS
    <2> QED BY <2>1 DEF LastPatch, LastOf
  <1>3. Exists(base) => base = cached
    <2>1. CASE Base(q, p) = 0
      BY <2>1 DEF BaseDocument
    <2>2. CASE Base(q, p) # 0
      <3> DEFINE m == q[Base(q, p)]
      <3>1. m \in Mutation /\ m.type = "delete"
        <4>1. Base(q, p) \in WritesOf(q, p) /\ m \in Mutation /\ m.type # "patch"
          BY <2>2, WritesOfPositions DEF Base
        <4> QED BY <4>1 DEF Mutation
      <3>2. base = NoDocument(cached.version)
        BY <2>2, <3>1 DEF BaseDocument, ApplyToLocalView, IsValidFor, Mutated
      <3> QED BY <3>2 DEF NoDocument, Exists
    <2> QED BY <2>1, <2>2
  <1>4. CASE ~Exists(base)
    BY <1>1, <1>4 DEF Card
  <1>5. CASE Exists(base)
    <2>1. seen[f] = Seen(q, base, p, f)
      BY DEF FieldNames
    <2>2. seen[f] = NewPet[f]
      BY <1>2, <1>3, <1>5, <2>1 DEF Seen
    <2> HIDE DEF seen, base
    <2> QED BY <1>1, <1>5, <2>2 DEF Card, Document, Exists
  <1> QED BY <1>4, <1>5

(* The first update of a field, from what a new pet has; the other fields of
   the update's data are never looked at. *)
LEMMA FirstUpdate ==
  ASSUME NEW op \in CardOps, op # "updateTreatsDown", NEW data \in Fields,
         NEW f \in FieldNames, data[f] = NewPet[f]
  PROVE  NewValue(op, data)[f] = IF FieldOf(op) = f THEN Written[f] ELSE NewPet[f]
  <1>1. CASE op = "updateBB"
    <2>1. NewValue(op, data) = [NewPet EXCEPT !.breakfast = ~data.breakfast]
      BY <1>1 DEF NewValue, UpdateBB
    <2>2. f = "breakfast" => NewValue(op, data)[f] = TRUE
      BY <2>1 DEF NewPet
    <2>3. f # "breakfast" => NewValue(op, data)[f] = NewPet[f]
      BY <2>1 DEF NewPet, FieldNames
    <2>4. FieldOf(op) = "breakfast" /\ Written["breakfast"] = TRUE
      BY <1>1 DEF FieldOf, Written
    <2>5. CASE f = "breakfast"
      BY <2>2, <2>4, <2>5
    <2>6. CASE f # "breakfast"
      BY <2>3, <2>4, <2>6
    <2> QED BY <2>5, <2>6
  <1>2. CASE op = "updateDB"
    <2>1. NewValue(op, data) = [NewPet EXCEPT !.dinner = ~data.dinner]
      BY <1>2 DEF NewValue, UpdateDB
    <2>2. f = "dinner" => NewValue(op, data)[f] = TRUE
      BY <2>1 DEF NewPet
    <2>3. f # "dinner" => NewValue(op, data)[f] = NewPet[f]
      BY <2>1 DEF NewPet, FieldNames
    <2>4. FieldOf(op) = "dinner" /\ Written["dinner"] = TRUE
      BY <1>2 DEF FieldOf, Written
    <2>5. CASE f = "dinner"
      BY <2>2, <2>4, <2>5
    <2>6. CASE f # "dinner"
      BY <2>3, <2>4, <2>6
    <2> QED BY <2>5, <2>6
  <1>3. CASE op = "updateTreatsUp"
    <2>1. NewValue(op, data) = [NewPet EXCEPT !.treats = data.treats + 1]
      BY <1>3 DEF NewValue, UpdateTreatsUp
    <2>2. f = "treats" => NewValue(op, data)[f] = 1
      BY <2>1 DEF NewPet
    <2>3. f # "treats" => NewValue(op, data)[f] = NewPet[f]
      BY <2>1 DEF NewPet, FieldNames
    <2>4. FieldOf(op) = "treats" /\ Written["treats"] = 1
      BY <1>3 DEF FieldOf, Written
    <2>5. CASE f = "treats"
      BY <2>2, <2>4, <2>5
    <2>6. CASE f # "treats"
      BY <2>3, <2>4, <2>6
    <2> QED BY <2>5, <2>6
  <1> QED BY <1>1, <1>2, <1>3 DEF CardOps

LEMMA LoneInit == ASSUME Init PROVE LoneInv
  <1>1. \A d \in Devices : DOMAIN queue[d] = {}
    BY DEF Init, StoreInit
  <1>2. \A d \in Devices, p \in Pets : DOMAIN gets[d][p] = {} /\ DOMAIN mainQ[d][p] = {}
    <2>1. \A d \in Devices, p \in Pets : gets[d][p] = <<>> /\ mainQ[d][p] = <<>>
      BY DEF Init
    <2> QED BY <2>1
  <1>3. ASSUME NEW p \in InitPets
        PROVE  /\ IsOld(p)
               /\ \A f \in FieldNames : NeverTapped(p, f) /\ Tally(p, f) = 0
    <2>1. p \in Pets
      BY FirestoreAssumption
    <2>2. /\ server[p].version = 1 /\ server[p].data = NewPet
      BY <2>1, <1>3 DEF Init, StoreInit, InitDocument, Document
    <2>3. \A d \in Devices : cache[d][p].data = NewPet /\ watch[d].docs[p].data = NewPet
      BY <2>1, <1>3 DEF Init, StoreInit, InitDocument, Document, NoSnapshot,
         Absent, NoDocument
    <2>4. \A f \in FieldNames : Tally(p, f) = 0
      BY <2>1 DEF Init, NoHistory, Tally, FieldNames
    <2> QED BY <1>1, <1>2, <2>1, <2>2, <2>3, <2>4
           DEF IsOld, NeverTapped, WritesOf, UpdatesOf
  <1>4. NoneDown
    BY <1>2 DEF NoneDown
  <1> QED BY <1>3, <1>4 DEF LoneInv

LEMMA OldStep ==
  ASSUME CardsInv, CacheInv, [Next]_vars, NEW p \in Pets, IsOld(p)
  PROVE  IsOld(p)'
  <1>1. [StoreNext]_storeVars /\ StoreTypeOK
    BY StepIsStoreStep DEF CardsInv, TypeOK
  <1>2. server'[p].version > 0
    <2>1. commit \in Nat
      BY <1>1 DEF StoreTypeOK
    <2>2. /\ commit' \in Nat
          /\ \/ server'[p] = server[p]
             \/ server'[p].version = commit' /\ commit' > commit
      BY <1>1, ServerStep
    <2> QED BY <2>1, <2>2 DEF IsOld
  <1>3. ASSUME NEW e \in Devices, NEW i \in WritesOf(queue'[e], p)
        PROVE  queue'[e][i].type # "set"
    <2>1. \/ \E j \in WritesOf(queue[e], p) : queue'[e][i] = queue[e][j]
          \/ queue'[e][i] = DeleteDocument(p)
          \/ UpdateBlock(e, p) /\ queue'[e][i] = UpdateOf(e, p)
      BY WritesStep DEF IsOld
    <2>2. CASE queue'[e][i] = DeleteDocument(p)
      BY <2>2 DEF DeleteDocument
    <2>3. CASE UpdateBlock(e, p) /\ queue'[e][i] = UpdateOf(e, p)
      BY <2>3 DEF UpdateOf, UpdateData
    <2> QED BY <2>1, <2>2, <2>3 DEF IsOld
  <1> QED BY <1>2, <1>3 DEF IsOld

LEMMA NoneDownStep ==
  ASSUME CardsInv, NoneDown, [Next]_vars, "updateTreatsDown" \notin UserOps
  PROVE  NoneDown'
  <1> SUFFICES ASSUME NEW d \in Devices, NEW p \in Pets
               PROVE  /\ \A i \in DOMAIN gets'[d][p] :
                           gets'[d][p][i].op # "updateTreatsDown"
                      /\ \A i \in DOMAIN mainQ'[d][p] :
                           mainQ'[d][p][i].op # "updateTreatsDown"
    BY DEF NoneDown
  <1>0. gets[d][p] \in Seq(Get) /\ mainQ[d][p] \in Seq(Block)
    BY DEF CardsInv, TypeOK
  <1>1. ASSUME NEW i \in DOMAIN gets'[d][p]
        PROVE  gets'[d][p][i].op # "updateTreatsDown"
    <2>1. CASE gets'[d][p] = gets[d][p]
      BY <2>1 DEF NoneDown
    <2>2. CASE gets'[d][p] = <<>>
      <3>1. DOMAIN gets'[d][p] = {}
        BY <2>2
      <3> QED BY <3>1
    <2>3. CASE ReadAdded(d, p)
      <3> PICK g \in Get : g.op \in UserOps /\ gets'[d][p] = Append(gets[d][p], g)
        BY <2>3 DEF ReadAdded
      <3>1. gets'[d][p][i] = g \/ (i \in DOMAIN gets[d][p] /\ gets'[d][p][i] = gets[d][p][i])
        BY <1>0
      <3> QED BY <3>1 DEF NoneDown
    <2> QED BY <2>1, <2>2, <2>3, ReadsStep
           DEF CardsInv, ReadsChange, ReadsKept, ReadsCovered, ReadsGone
  <1>2. ASSUME NEW i \in DOMAIN mainQ'[d][p]
        PROVE  mainQ'[d][p][i].op # "updateTreatsDown"
    <2>1. CASE mainQ'[d][p][i] = Deleted
      BY <2>1 DEF Deleted
    <2>2. ASSUME NEW g \in Get, mainQ'[d][p][i] = Got(g, ViewCard(d, p)'),
                 g.op \in UserOps \/ \E j \in DOMAIN gets[d][p] : g = gets[d][p][j]
          PROVE  mainQ'[d][p][i].op # "updateTreatsDown"
      BY <2>2 DEF Got, NoneDown
    <2>3. ASSUME NEW j \in DOMAIN mainQ[d][p], mainQ'[d][p][i] = UpdateAfter(mainQ[d][p][j])
          PROVE  mainQ'[d][p][i].op # "updateTreatsDown"
      <3>1. mainQ[d][p][j] \in Block
        BY <1>0
      <3> QED BY <2>3, <3>1, UpdateAfterType DEF NoneDown
    <2> QED BY <2>1, <2>2, <2>3, BlocksStep DEF NoneDown
  <1> QED BY <1>1, <1>2

(* An untapped field stays as it is until an update of it is queued. *)
LEMMA NeverStep ==
  ASSUME CardsInv, NoneDown, [Next]_vars, NEW p \in Pets, NEW f \in FieldNames,
         IsOld(p), NeverTapped(p, f), Tally(p, f) = 0, Tally(p, f)' = 0
  PROVE  NeverTapped(p, f)'
  <1>0. /\ [StoreNext]_storeVars /\ StoreTypeOK /\ AnswersMatchQueue /\ TypeOK /\ TypeOK'
    BY StepIsStoreStep, CardsInvStep DEF CardsInv, TypeOK
  <1>1. ASSUME NEW e \in Devices, UpdateBlock(e, p)
        PROVE  FieldOf(Head(mainQ[e][p]).op) # f
    <2>1. Ahead(Head(mainQ[e][p]), f) = 0
      <3>1. 0 = 0 + Ahead(Head(mainQ[e][p]), f)
        BY <1>0, <1>1, TallyStep
      <3> QED BY <3>1 DEF Ahead
    <2> QED BY <1>1, <2>1 DEF Ahead, UpdateBlock, FrontIs
  <1>2. ASSUME NEW e \in Devices, NEW i \in WritesOf(queue[e], p)
        PROVE  /\ queue[e][i] \in Mutation /\ queue[e][i].type # "set"
               /\ queue[e][i].type # "delete" => f \notin queue[e][i].mask
    <2>1. queue[e][i] \in Mutation
      BY <1>0 DEF StoreTypeOK, WritesOf
    <2> QED BY <2>1 DEF IsOld, NeverTapped, UpdatesOf, Mutation
  <1>3. ASSUME NEW e \in Devices PROVE UpdatesOf(e, p, f)' = {}
    <2> SUFFICES ASSUME NEW i \in WritesOf(queue'[e], p), queue'[e][i].type = "patch"
                 PROVE  f \notin queue'[e][i].mask
      BY DEF UpdatesOf
    <2>1. CASE queue'[e][i] = DeleteDocument(p) \/ queue'[e][i] = SetData(p, NewPet)
      BY <2>1 DEF DeleteDocument, SetData
    <2>2. CASE UpdateBlock(e, p) /\ queue'[e][i] = UpdateOf(e, p)
      BY <1>0, <1>1, <2>2, UpdateOfType
    <2> QED BY <1>2, <2>1, <2>2, WritesStep
  <1>4. server'[p].data[f] = NewPet[f]
    <2>1. ASSUME NEW e \in Devices, NEW i \in WritesOf(queue[e], p), ServerTakes(p, e, i)
          PROVE  server'[p].data[f] = NewPet[f]
      <3> PICK v \in Nat : server'[p] = Mutated(queue[e][i], server[p], v)
        BY <2>1 DEF ServerTakes
      <3>1. server[p] \in MaybeDocument
        BY <1>0 DEF StoreTypeOK
      <3> QED BY <1>2, <3>1, MutatedField DEF NeverTapped
    <2> QED BY <1>0, <2>1, ServerTakesStep DEF NeverTapped
  <1>5. ASSUME NEW d \in Devices PROVE cache'[d][p].data[f] = NewPet[f]
    <2>1. ASSUME NEW i \in WritesOf(queue[d], p), NEW v \in Nat
          PROVE  ApplyToRemoteDocument(queue[d][i], cache[d][p], v).data[f] = NewPet[f]
      <3>1. cache[d][p] \in MaybeDocument
        BY <1>0 DEF StoreTypeOK
      <3> QED BY <1>2, <3>1, MutatedField DEF NeverTapped
    <2> QED BY <1>0, <2>1, CacheOrigin DEF NeverTapped
  <1>6. ASSUME NEW d \in Devices PROVE watch'[d].docs[p].data[f] = NewPet[f]
    <2>1. Absent.data = NewPet
      BY DEF Absent, NoDocument
    <2> QED BY <1>0, <2>1, WatchOrigin DEF NeverTapped
  <1>7. ASSUME NEW d \in Devices, NEW i \in DOMAIN mainQ'[d][p]
        PROVE  LET b == mainQ'[d][p][i]
               IN b.card.data[f] = IF Ahead(b, f) = 1 THEN Written[f] ELSE NewPet[f]
    <2> DEFINE b == mainQ'[d][p][i]
               Good(c) == c.card.data[f] = IF Ahead(c, f) = 1 THEN Written[f] ELSE NewPet[f]
    <2> SUFFICES Good(b)
      OBVIOUS
    <2>1. CASE b = Deleted
      BY <2>1 DEF Deleted, Card, Absent, NoDocument, Exists, Ahead
    <2>2. ASSUME NEW g \in Get, b = Got(g, ViewCard(d, p)')
          PROVE  Good(b)
      <3>1. queue'[d] \in Seq(Mutation) /\ cache'[d][p] \in MaybeDocument
        BY <1>0 DEF TypeOK, StoreTypeOK
      <3>2. \A k \in WritesOf(queue'[d], p) :
              /\ queue'[d][k].type # "set"
              /\ queue'[d][k].type = "patch" => f \notin queue'[d][k].mask
        <4> TAKE k \in WritesOf(queue'[d], p)
        <4>1. queue'[d][k].type # "set"
          <5>1. \/ \E j \in WritesOf(queue[d], p) : queue'[d][k] = queue[d][j]
                \/ queue'[d][k] = DeleteDocument(p)
                \/ UpdateBlock(d, p) /\ queue'[d][k] = UpdateOf(d, p)
            BY WritesStep DEF IsOld
          <5> QED BY <1>2, <5>1 DEF DeleteDocument, UpdateOf, UpdateData
        <4> QED BY <1>3, <4>1 DEF UpdatesOf
      <3>3. ViewCard(d, p)'.data[f] = NewPet[f]
        BY <1>5, <3>1, <3>2, UntouchedView DEF ViewCard, View
      <3>4. b.card = ViewCard(d, p)' /\ Ahead(b, f) = 0
        BY <2>2 DEF Got, Ahead
      <3> HIDE DEF b
      <3> QED BY <3>3, <3>4
    <2>3. ASSUME NEW j \in DOMAIN mainQ[d][p], mainQ[d][p][j].kind = "got",
                 b = UpdateAfter(mainQ[d][p][j])
          PROVE  Good(b)
      <3> DEFINE c == mainQ[d][p][j]
      <3>1. c \in Block /\ c.op # "updateTreatsDown"
        <4>1. mainQ[d][p] \in Seq(Block)
          BY <1>0 DEF TypeOK
        <4> QED BY <4>1 DEF NoneDown
      <3>2. c.card.data[f] = NewPet[f]
        BY <2>3 DEF NeverTapped, Ahead
      <3>3. c.op \in CardOps /\ c.card.data \in Fields
        BY <3>1 DEF Block, Cards
      <3>4. /\ b.card.data = NewValue(c.op, c.card.data)
            /\ Ahead(b, f) = IF FieldOf(c.op) = f THEN 1 ELSE 0
        BY <2>3, <3>1, UpdateAfterType DEF Ahead
      <3> HIDE DEF b, c
      <3> QED BY <3>1, <3>2, <3>3, <3>4, FirstUpdate
    <2>4. ASSUME NEW j \in DOMAIN mainQ[d][p], b = mainQ[d][p][j]
          PROVE  Good(b)
      BY <2>4 DEF NeverTapped
    <2> HIDE DEF Good
    <2> QED BY <2>1, <2>2, <2>3, <2>4, BlocksStep
  <1> QED BY <1>3, <1>4, <1>5, <1>6, <1>7 DEF NeverTapped

(* A write that is yet to reach the server stays so, or the server refuses it,
   finds that it changes nothing, or commits it. *)
LEMMA PendingStep ==
  ASSUME StoreTypeOK, AnswersMatchQueue, [StoreNext]_storeVars,
         NEW e \in Devices, NEW p \in Pets,
         NEW i \in WritesOf(queue[e], p), i > Len(results[e])
  PROVE  LET m == queue[e][i]
         IN \/ \E j \in WritesOf(queue'[e], p) :
                 j > Len(results'[e]) /\ queue'[e][j] = m
            \/ ~IsValidFor(m, server[p]) /\ server' = server
            \/ \E v \in Nat : server'[p].data = Mutated(m, server[p], v).data
  <1> DEFINE m == queue[e][i]
             Goal == \/ \E j \in WritesOf(queue'[e], p) :
                          j > Len(results'[e]) /\ queue'[e][j] = m
                     \/ ~IsValidFor(m, server[p]) /\ server' = server
                     \/ \E v \in Nat : server'[p].data = Mutated(m, server[p], v).data
  <1>0. /\ queue \in [Devices -> Seq(Mutation)] /\ queue[e] \in Seq(Mutation)
        /\ results \in [Devices -> Seq(Result)] /\ results[e] \in Seq(Result)
        /\ i \in DOMAIN queue[e] /\ m.pet = p /\ m \in Mutation
    BY DEF StoreTypeOK, WritesOf
  <1> SUFFICES Goal
    OBVIOUS
  <1>1. ASSUME queue'[e] = queue[e], results'[e] = results[e] \/ results'[e] = <<>>
        PROVE  Goal
    <2>1. i > Len(results'[e])
      BY <1>0, <1>1
    <2> QED BY <1>1, <2>1
  <1>2. ASSUME NEW d \in Devices, NEW w \in Mutation, WriteMutations(d, w)
        PROVE  Goal
    <2>1. results' = results /\ queue' = [queue EXCEPT ![d] = Append(@, w)]
      BY <1>2 DEF WriteMutations
    <2>2. queue'[e] = queue[e] \/ queue'[e] = Append(queue[e], w)
      BY <1>0, <2>1
    <2>3. CASE queue'[e] = Append(queue[e], w)
      <3>1. i \in DOMAIN queue'[e] /\ queue'[e][i] = m
        BY <1>0, <2>3
      <3> QED BY <1>0, <2>1, <3>1 DEF WritesOf
    <2> QED BY <1>1, <2>1, <2>2, <2>3
  <1>3. ASSUME NEW d \in Devices, PopWrite(d), results[d] # <<>>
        PROVE  Goal
    <2>1. CASE d # e
      BY <1>0, <1>1, <1>3, <2>1 DEF PopWrite
    <2>2. CASE d = e
      <3>1. queue'[e] = Tail(queue[e]) /\ results'[e] = Tail(results[e])
        BY <1>0, <1>3, <2>2 DEF PopWrite
      <3>2. /\ i \in Nat /\ Len(results[e]) \in Nat /\ Len(results[e]) > 0
            /\ Len(results'[e]) = Len(results[e]) - 1
        BY <1>0, <1>3, <2>2, <3>1
      <3>3. /\ i - 1 \in DOMAIN queue'[e] /\ queue'[e][i - 1] = queue[e][i]
            /\ i - 1 > Len(results'[e])
        BY <1>0, <3>1, <3>2
      <3> QED BY <1>0, <3>3 DEF WritesOf
    <2> QED BY <2>1, <2>2
  <1>4. ASSUME NEW d \in Devices, ServerHandlesWrite(d)
        PROVE  Goal
    <2> PICK k \in Unanswered(d) : ServerHandlesWrite(d)!2!(k)
      BY <1>4 DEF ServerHandlesWrite
    <2> DEFINE w == queue[d][k]
    <2>1. queue' = queue
      BY <1>4 DEF ServerHandlesWrite
    <2>2. PICK r : results' = [results EXCEPT ![d] = Append(@, r)]
      BY DEF Answer
    <2>3. CASE d # e
      BY <1>0, <1>1, <2>1, <2>2, <2>3
    <2>4. CASE d = e /\ k # i
      <3>1. k = Len(results[e]) + 1 /\ results'[e] = Append(results[e], r)
        BY <1>0, <2>2, <2>4 DEF Unanswered
      <3>2. i > Len(results'[e])
        BY <1>0, <2>4, <3>1
      <3> QED BY <2>1, <3>2
    <2>5. CASE d = e /\ k = i
      <3>1. CASE ~IsValidFor(w, server[w.pet]) /\ UNCHANGED serverVars
        BY <1>0, <2>5, <3>1 DEF serverVars
      <3>2. CASE IsValidFor(w, server[w.pet]) /\ IsNoOp(w) /\ UNCHANGED serverVars
        <4>1. server'[p].data = Mutated(m, server[p], 0).data
          BY <1>0, <2>5, <3>2 DEF serverVars, IsNoOp
        <4> QED BY <4>1
      <3>3. CASE server' = [server EXCEPT ![w.pet] = Mutated(w, @, commit + 1)]
        <4>1. commit + 1 \in Nat /\ server \in [Pets -> MaybeDocument]
          BY DEF StoreTypeOK
        <4>2. server'[p] = Mutated(m, server[p], commit + 1)
          BY <1>0, <2>5, <3>3, <4>1
        <4> QED BY <4>1, <4>2
      <3> QED BY <3>1, <3>2, <3>3
    <2> QED BY <2>3, <2>4, <2>5
  <1>5. CASE UNCHANGED <<queue, results>>
    BY <1>1, <1>5
  <1>6. ASSUME NEW d \in Devices, OnWriteStreamClose(d) \/ Restart(d)
        PROVE  Goal
    <2>1. queue' = queue /\ results' = [results EXCEPT ![d] = <<>>]
      BY <1>6 DEF OnWriteStreamClose, Restart
    <2>2. results'[e] = results[e] \/ results'[e] = <<>>
      BY <1>0, <2>1
    <2> QED BY <1>1, <2>1, <2>2
  <1> HIDE DEF Goal
  <1> QED BY <1>2, <1>3, <1>4, <1>5, <1>6 DEF StoreNext, Network, storeVars,
         HandleSuccessfulWrite, HandleRejectedWrite, SendSnapshot,
         ApplyRemoteEvent, OnWatchStreamClose

(* What is queued for a field that is written once is the one value. *)
LEMMA OnceQueueStep ==
  ASSUME CardsInv, [Next]_vars, NEW p \in Pets, NEW f \in FieldNames,
         \/ Tally(p, f) = 0 /\ NeverTapped(p, f)
         \/ Tally(p, f) = 1 /\ TappedOnce(p, f),
         Tally(p, f)' = 1,
         NEW e \in Devices, NEW i \in WritesOf(queue'[e], p),
         IsOld(p), queue'[e][i].type = "patch", f \in queue'[e][i].mask
  PROVE  queue'[e][i].data[f] = Written[f]
  <1>1. ASSUME NEW j \in WritesOf(queue[e], p), queue'[e][i] = queue[e][j]
        PROVE  queue'[e][i].data[f] = Written[f]
    <2>1. j \in UpdatesOf(e, p, f)
      BY <1>1 DEF UpdatesOf
    <2> QED BY <1>1, <2>1 DEF NeverTapped, TappedOnce
  <1>2. CASE UpdateBlock(e, p) /\ queue'[e][i] = UpdateOf(e, p)
    <2> DEFINE b == Head(mainQ[e][p])
    <2>1. /\ b = mainQ[e][p][1] /\ 1 \in DOMAIN mainQ[e][p]
          /\ b.kind = "update" /\ queue'[e][i].mask = {FieldOf(b.op)}
          /\ queue'[e][i].data = b.card.data
      BY <1>2, UpdateOfType DEF CardsInv
    <2>2. Ahead(b, f) = 1
      BY <2>1 DEF Ahead
    <2>3. 1 = Tally(p, f) + 1 /\ Tally(p, f) \in Nat
      BY <1>2, <2>2, TallyStep DEF CardsInv
    <2>4. NeverTapped(p, f)
      BY <2>3
    <2>5. b.card.data[f] = Written[f]
      BY <2>1, <2>2, <2>4 DEF NeverTapped
    <2> QED BY <2>1, <2>5
  <1>3. queue'[e][i] # DeleteDocument(p)
    BY DEF DeleteDocument
  <1> QED BY <1>1, <1>2, <1>3, WritesStep DEF IsOld

(* And the server has it, or it is on its way. *)
LEMMA OnceServerStep ==
  ASSUME CardsInv, [Next]_vars, NEW p \in Pets, NEW f \in FieldNames,
         \/ Tally(p, f) = 0 /\ NeverTapped(p, f)
         \/ Tally(p, f) = 1 /\ TappedOnce(p, f),
         Tally(p, f)' = 1, IsOld(p), Exists(server'[p])
  PROVE  server'[p].data[f] = Written[f] \/ OnTheWay(p, f)'
  <1>0. /\ [StoreNext]_storeVars /\ StoreTypeOK /\ AnswersMatchQueue /\ TypeOK
        /\ server[p] \in MaybeDocument
    BY StepIsStoreStep DEF CardsInv, TypeOK, StoreTypeOK
  <1>1. CASE Tally(p, f) = 0
    <2>1. PICK d \in Devices : UpdateBlock(d, p)
      BY <1>0, <1>1, TallyStep
    <2> DEFINE b == Head(mainQ[d][p])
               m == UpdateOf(d, p)
               n == Len(queue[d]) + 1
    <2>2. Ahead(b, f) = 1
      <3>1. 1 = 0 + Ahead(b, f)
        BY <1>0, <1>1, <2>1, TallyStep
      <3> QED BY <3>1 DEF Ahead
    <2>3. /\ WriteMutations(d, m) /\ m.pet = p /\ m.type = "patch" /\ f \in m.mask
      BY <1>0, <2>1, <2>2, UpdateOfType DEF Ahead
    <2> HIDE DEF m, b
    <2>4. queue'[d] = Append(queue[d], m) /\ results' = results
      BY <1>0, <2>3 DEF WriteMutations, StoreTypeOK
    <2>5. /\ queue[d] \in Seq(Mutation) /\ results[d] \in Seq(Result)
          /\ Len(results[d]) <= Len(queue[d])
      BY <1>0 DEF StoreTypeOK, AnswersMatchQueue
    <2>6. n \in DOMAIN queue'[d] /\ queue'[d][n] = m /\ n > Len(results'[d])
      BY <2>4, <2>5
    <2> HIDE DEF n
    <2>7. n \in UpdatesOf(d, p, f)'
      BY <2>3, <2>6 DEF UpdatesOf, WritesOf
    <2> QED BY <2>6, <2>7 DEF OnTheWay
  <1>2. ASSUME Tally(p, f) = 1, OnTheWay(p, f)
        PROVE  server'[p].data[f] = Written[f] \/ OnTheWay(p, f)'
    <2> PICK d \in Devices : \E i \in UpdatesOf(d, p, f) : i > Len(results[d])
      BY <1>2 DEF OnTheWay
    <2> PICK i \in UpdatesOf(d, p, f) : i > Len(results[d])
      OBVIOUS
    <2> DEFINE m == queue[d][i]
    <2>1. /\ i \in WritesOf(queue[d], p) /\ m \in Mutation
          /\ m.type = "patch" /\ f \in m.mask /\ m.data[f] = Written[f]
      BY <1>0, <1>2 DEF UpdatesOf, WritesOf, TappedOnce, StoreTypeOK
    <2>2. CASE \E j \in WritesOf(queue'[d], p) :
                 j > Len(results'[d]) /\ queue'[d][j] = m
      BY <2>1, <2>2 DEF OnTheWay, UpdatesOf
    <2>3. CASE ~IsValidFor(m, server[p]) /\ server' = server
      BY <2>1, <2>3 DEF IsValidFor
    <2>4. ASSUME NEW v \in Nat, server'[p].data = Mutated(m, server[p], v).data
          PROVE  server'[p].data[f] = Written[f]
      BY <1>0, <2>1, <2>4, MutatedField
    <2> QED BY <1>0, <2>1, <2>2, <2>3, <2>4, PendingStep
  <1>3. ASSUME Tally(p, f) = 1,
               Exists(server[p]) => server[p].data[f] = Written[f]
        PROVE  server'[p].data[f] = Written[f]
    <2>1. ASSUME NEW e \in Devices, NEW i \in WritesOf(queue[e], p), ServerTakes(p, e, i)
          PROVE  server'[p].data[f] = Written[f]
      <3> DEFINE m == queue[e][i]
      <3> PICK v \in Nat : server'[p] = Mutated(m, server[p], v)
        BY <2>1 DEF ServerTakes
      <3>1. m \in Mutation /\ m.type # "set"
        BY <1>0 DEF WritesOf, IsOld, StoreTypeOK
      <3>2. m.type # "delete"
        BY <3>1 DEF Mutated, NoDocument, Exists
      <3>3. m.type = "patch"
        BY <3>1, <3>2 DEF Mutation
      <3>4. Exists(server[p])
        BY <2>1, <3>3 DEF ServerTakes, IsValidFor
      <3>5. f \in m.mask => m.data[f] = Written[f]
        BY <1>3, <3>3 DEF TappedOnce, UpdatesOf
      <3> HIDE DEF m
      <3> QED BY <1>0, <1>3, <3>1, <3>2, <3>4, <3>5, MutatedField
    <2> QED BY <1>0, <1>3, <2>1, ServerTakesStep
  <1> QED BY <1>1, <1>2, <1>3 DEF TappedOnce

LEMMA LoneStep ==
  ASSUME CardsInv, CacheInv, LoneInv, [Next]_vars, "updateTreatsDown" \notin UserOps
  PROVE  LoneInv'
  <1>1. NoneDown'
    BY NoneDownStep DEF LoneInv
  <1> SUFFICES ASSUME NEW p \in InitPets
               PROVE  /\ IsOld(p)'
                      /\ \A f \in FieldNames :
                           /\ Tally(p, f)' = 0 => NeverTapped(p, f)'
                           /\ Tally(p, f)' = 1 => TappedOnce(p, f)'
    BY <1>1 DEF LoneInv
  <1>2. p \in Pets /\ IsOld(p) /\ NoneDown /\ TypeOK
    BY FirestoreAssumption DEF LoneInv, CardsInv
  <1>3. IsOld(p)'
    BY <1>2, OldStep
  <1>4. ASSUME NEW f \in FieldNames, Tally(p, f)' = 0
        PROVE  NeverTapped(p, f)'
    <2>1. Tally(p, f) = 0
      BY <1>2, <1>4, TallyStep
    <2> QED BY <1>2, <1>4, <2>1, NeverStep DEF LoneInv
  <1>5. ASSUME NEW f \in FieldNames, Tally(p, f)' = 1
        PROVE  TappedOnce(p, f)'
    <2>1. Tally(p, f) = 0 \/ Tally(p, f) = 1
      BY <1>2, <1>5, TallyStep
    <2>2. \/ Tally(p, f) = 0 /\ NeverTapped(p, f)
          \/ Tally(p, f) = 1 /\ TappedOnce(p, f)
      BY <2>1 DEF LoneInv
    <2>3. \A d \in Devices : \A i \in UpdatesOf(d, p, f)' :
            queue'[d][i].data[f] = Written[f]
      BY <1>2, <1>5, <2>2, OnceQueueStep DEF UpdatesOf
    <2>4. Exists(server'[p]) => server'[p].data[f] = Written[f] \/ OnTheWay(p, f)'
      BY <1>2, <1>5, <2>2, OnceServerStep
    <2> QED BY <2>3, <2>4 DEF TappedOnce
  <1> QED BY <1>3, <1>4, <1>5

(* A field that was written once keeps what was written, whatever was done to
   the other fields at the same time on however many phones: once nothing is
   queued the server has it, or the pet is gone. *)
THEOREM LoneTapsSurvive ==
  ASSUME "updateTreatsDown" \notin UserOps
  PROVE  Spec => []LoneTapSurvives
  <1>1. Init => LoneInv
    BY LoneInit
  <1>2. CardsInv /\ CacheInv /\ LoneInv /\ [Next]_vars => LoneInv'
    BY LoneStep
  <1>3. CardsInv /\ LoneInv => LoneTapSurvives
    <2> SUFFICES ASSUME CardsInv, LoneInv, \A d \in Devices : queue[d] = <<>>,
                        NEW p \in InitPets, Exists(server[p]),
                        NEW f \in FieldNames, hist[p].tally[f] = 1
                 PROVE  server[p].data[f] = AllTapsCounted(p)[f]
      BY DEF LoneTapSurvives
    <2>1. TappedOnce(p, f)
      BY DEF LoneInv, Tally
    <2>2. ~OnTheWay(p, f)
      <3>1. \A d \in Devices : DOMAIN queue[d] = {}
        OBVIOUS
      <3> QED BY <3>1 DEF OnTheWay, UpdatesOf, WritesOf
    <2>3. AllTapsCounted(p)[f] = Written[f]
      <3>1. CASE f = "breakfast"
        <4>1. (hist[p].tally.breakfast % 2 = 1) = TRUE
          <5>1. hist[p].tally.breakfast = 1 /\ 1 % 2 = 1
            BY <3>1
          <5> QED BY <5>1
        <4>2. AllTapsCounted(p).breakfast = (hist[p].tally.breakfast % 2 = 1)
          BY Zenon DEF AllTapsCounted
        <4>3. Written.breakfast = TRUE
          BY DEF Written
        <4> QED BY <3>1, <4>1, <4>2, <4>3
      <3>2. CASE f = "dinner"
        <4>1. (hist[p].tally.dinner % 2 = 1) = TRUE
          <5>1. hist[p].tally.dinner = 1 /\ 1 % 2 = 1
            BY <3>2
          <5> QED BY <5>1
        <4>2. AllTapsCounted(p).dinner = (hist[p].tally.dinner % 2 = 1)
          BY Zenon DEF AllTapsCounted
        <4>3. Written.dinner = TRUE
          BY DEF Written
        <4> QED BY <3>2, <4>1, <4>2, <4>3
      <3>3. CASE f = "treats"
        BY <3>3 DEF AllTapsCounted, Written
      <3> QED BY <3>1, <3>2, <3>3 DEF FieldNames
    <2> QED BY <2>1, <2>2, <2>3 DEF TappedOnce
  <1> QED BY <1>1, <1>2, <1>3, CardsInvAlways, AppDrivesStore, CacheInvAlways, PTL
         DEF Spec

---------------------------------------------------------------------------------
(***************************************************************************)
(* One housemate taps one field of a pet.  Then what a phone may come to   *)
(* have of the pet (the server's document, its cache, the snapshot on its  *)
(* way, the data of its writes at the version they were answered with) is  *)
(* a set of facts, a version with its data each: no two of a version, and  *)
(* from the answer to her last write on, they all are what she wrote last. *)
(***************************************************************************)
(* The taps on one field that always change it. *)
SoloOps == {"updateBB", "updateDB", "updateTreatsUp"}

(* Only the field that op writes may differ from a new pet. *)
OnlyFor(op, data) == \A g \in FieldNames \ {FieldOf(op)} : data[g] = NewPet[g]

Plain(op, doc) ==
  doc = Absent \/ (Exists(doc) /\ doc.version > 0 /\ OnlyFor(op, doc.data))

(* The pet is not deleted, and nothing anywhere is about its other fields. *)
PlainDocuments(op, p) ==
  /\ Plain(op, server[p]) /\ Exists(server[p])
  /\ \A d \in Devices : Plain(op, cache[d][p]) /\ Plain(op, watch[d].docs[p])

PlainWrites(op, p) ==
  \A d \in Devices : \A i \in WritesOf(queue[d], p) :
    /\ queue[d][i].type = "patch" /\ queue[d][i].mask = {FieldOf(op)}
    /\ OnlyFor(op, queue[d][i].data)
    /\ i \in DOMAIN results[d] => results[d][i].ok

PlainBlocks(op, p) ==
  \A d \in Devices :
    /\ \A i \in DOMAIN gets[d][p] : gets[d][p][i].op = op
    /\ \A i \in DOMAIN mainQ[d][p] : mainQ[d][p][i].kind # "deleted"
                                     /\ mainQ[d][p][i].op = op
                                     /\ OnlyFor(op, mainQ[d][p][i].card.data)

PlainTally(op, p) == \A g \in FieldNames \ {FieldOf(op)} : Tally(p, g) = 0

(* A phone that has yet to hear of the pet has done nothing to it. *)
Untouched(d, p) == WritesOf(queue[d], p) = {} /\ ~InProgress(d, p)
UnheardIsUntouched(p) ==
  \A d \in Devices : ~Exists(cache[d][p]) => ~shown[d][p].exists /\ Untouched(d, p)

PlainInv(op) ==
  \A p \in InitPets :
    /\ PlainDocuments(op, p) /\ PlainWrites(op, p) /\ PlainBlocks(op, p)
    /\ PlainTally(op, p) /\ UnheardIsUntouched(p)

(* What phone d may come to have of p: versions with their data. *)
Fact(doc) == <<doc.version, doc.data>>
Facts(d, p) ==
  {Fact(Absent), Fact(server[p]), Fact(cache[d][p]), Fact(watch[d].docs[p])}
  \cup {<<results[d][i].version, queue[d][i].data>> :
          i \in WritesOf(queue[d], p) \cap DOMAIN results[d]}

(* From version v on, they have the data n. *)
From(d, p, v, n) == \A a \in Facts(d, p) : a[1] >= v => a[2] = n

IsLast(d, p, i) == i \in WritesOf(queue[d], p) /\ \A j \in WritesOf(queue[d], p) : j <= i

(* d alone wrote p, and comes to show n. *)
Leads(d, p, n) ==
  /\ \A a, b \in Facts(d, p) : a[1] = b[1] => a[2] = b[2]
  /\ WritesOf(queue[d], p) = {} => From(d, p, cache[d][p].version, n)
  /\ \A i \in WritesOf(queue[d], p) :
       IsLast(d, p, i) =>
         /\ queue[d][i].data = n
         /\ i \in DOMAIN results[d] => From(d, p, results[d][i].version, n)

(* At most one tap is in progress; it has read n. *)
OneTap(d, p, n) ==
  /\ Len(gets[d][p]) + Len(mainQ[d][p]) <= 1
  /\ \A i \in DOMAIN mainQ[d][p] :
       LET b == mainQ[d][p][i]
       IN b.card.data = IF b.kind = "got" THEN n ELSE NewValue(b.op, n)

SoloPet(p, n) ==
  /\ hist[p].owner = "nobody" => n = NewPet
  /\ \A d \in Devices :
       /\ hist[p].owner \in {"nobody", d} => Leads(d, p, n) /\ OneTap(d, p, n)
       /\ hist[p].owner \notin {"shared", d} => Untouched(d, p)

SoloInv == \A p \in InitPets : \A n : n = AllTapsCounted(p) => SoloPet(p, n)

---------------------------------------------------------------------------------
(* A tap sets its own field only. *)
LEMMA NewValueOnly ==
  ASSUME NEW op \in CardOps, NEW data
  PROVE  OnlyFor(op, NewValue(op, data))
  <1> SUFFICES ASSUME NEW g \in FieldNames \ {FieldOf(op)}
               PROVE  NewValue(op, data)[g] = NewPet[g]
    BY DEF OnlyFor
  <1>1. CASE op = "updateBB"
    <2>1. NewValue(op, data) = [NewPet EXCEPT !.breakfast = ~data.breakfast]
      BY <1>1 DEF NewValue, UpdateBB
    <2>2. g # "breakfast"
      BY <1>1 DEF FieldOf
    <2> QED BY <2>1, <2>2 DEF NewPet, FieldNames
  <1>2. CASE op = "updateDB"
    <2>1. NewValue(op, data) = [NewPet EXCEPT !.dinner = ~data.dinner]
      BY <1>2 DEF NewValue, UpdateDB
    <2>2. g # "dinner"
      BY <1>2 DEF FieldOf
    <2> QED BY <2>1, <2>2 DEF NewPet, FieldNames
  <1>3. CASE op \in {"updateTreatsUp", "updateTreatsDown"}
    <2>1. PICK t : NewValue(op, data) = [NewPet EXCEPT !.treats = t]
      BY <1>3 DEF NewValue, UpdateTreatsUp, UpdateTreatsDown
    <2>2. g # "treats"
      BY <1>3 DEF FieldOf
    <2> QED BY <2>1, <2>2 DEF NewPet, FieldNames
  <1> QED BY <1>1, <1>2, <1>3 DEF CardOps

(* A write of one field is all there is to know of the pet. *)
LEMMA PlainPatch ==
  ASSUME NEW op \in CardOps, NEW m \in Mutation, NEW doc \in MaybeDocument, NEW v \in Nat,
         m.type = "patch", m.mask = {FieldOf(op)}, OnlyFor(op, m.data),
         Exists(doc), OnlyFor(op, doc.data)
  PROVE  /\ Mutated(m, doc, v).data = m.data /\ Exists(Mutated(m, doc, v))
         /\ Mutated(m, doc, v).version = v
         /\ ApplyToRemoteDocument(m, doc, v).data = m.data
         /\ Exists(ApplyToRemoteDocument(m, doc, v))
         /\ ApplyToRemoteDocument(m, doc, v).version = v
  <1>1. m.data \in Fields /\ doc.data \in Fields
    BY DEF Mutation, MaybeDocument
  <1>2. PatchObject(doc.data, m) = m.data
    <2>1. \A g \in FieldNames \ m.mask : m.data[g] = doc.data[g]
      BY DEF OnlyFor
    <2>2. /\ "breakfast" \notin m.mask => m.data.breakfast = doc.data.breakfast
          /\ "dinner" \notin m.mask => m.data.dinner = doc.data.dinner
          /\ "treats" \notin m.mask => m.data.treats = doc.data.treats
      BY <2>1 DEF FieldNames
    <2>3. PatchObject(doc.data, m) =
            [breakfast |-> m.data.breakfast, dinner |-> m.data.dinner,
             treats |-> m.data.treats]
      BY <2>2 DEF PatchObject
    <2> QED BY <1>1, <2>3 DEF Fields
  <1> DEFINE new == Mutated(m, doc, v)
  <1>3. new = Document(m.data, v)
    BY <1>2 DEF Mutated
  <1>4. ApplyToRemoteDocument(m, doc, v) = [new EXCEPT !.committed = TRUE]
    BY DEF ApplyToRemoteDocument, IsValidFor
  <1> QED BY <1>3, <1>4 DEF Document, Exists

(* The view of a pet whose last queued write is of n, or that was last n. *)
LEMMA LastIsSeen ==
  ASSUME NEW op \in CardOps, NEW q \in Seq(Mutation), NEW cached \in MaybeDocument,
         NEW p, NEW n \in Fields, OnlyFor(op, n),
         Exists(cached), OnlyFor(op, cached.data),
         \A i \in WritesOf(q, p) : q[i].type = "patch" /\ q[i].mask = {FieldOf(op)},
         WritesOf(q, p) = {} => cached.data = n,
         \A i \in WritesOf(q, p) :
           (\A j \in WritesOf(q, p) : j <= i) => q[i].data = n
  PROVE  /\ Exists(GetDocument(q, cached, p)) /\ GetDocument(q, cached, p).data = n
  <1> DEFINE f == FieldOf(op)
             seen == [breakfast |-> Seen(q, cached, p, "breakfast"),
                      dinner    |-> Seen(q, cached, p, "dinner"),
                      treats    |-> Seen(q, cached, p, "treats")]
  <1>1. Base(q, p) = 0
    <2> DEFINE S == {i \in WritesOf(q, p) : q[i].type # "patch"}
    <2>1. S = {}
      OBVIOUS
    <2> QED BY <2>1 DEF Base, LastOf
  <1>2. BaseDocument(q, cached, p) = cached
    BY <1>1 DEF BaseDocument
  <1>3. GetDocument(q, cached, p) = Document(seen, cached.version)
    BY <1>2, SeenIsView
  <1>4. ASSUME NEW g \in FieldNames \ {f} PROVE Seen(q, cached, p, g) = n[g]
    <2> DEFINE S == {i \in WritesOf(q, p) :
                       i > Base(q, p) /\ q[i].type = "patch" /\ g \in q[i].mask}
    <2>1. S = {}
      OBVIOUS
    <2>2. LastPatch(q, p, g) = 0
      BY <2>1 DEF LastPatch, LastOf
    <2> QED BY <2>2 DEF Seen, OnlyFor
  <1>5. Seen(q, cached, p, f) = n[f]
    <2> DEFINE S == {i \in WritesOf(q, p) :
                       i > Base(q, p) /\ q[i].type = "patch" /\ f \in q[i].mask}
               l == LastOf(S)
    <2>1. LastPatch(q, p, f) = l
      BY DEF LastPatch
    <2>2. S = WritesOf(q, p)
      <3>1. \A i \in WritesOf(q, p) : i > 0
        BY DEF WritesOf
      <3> QED BY <1>1, <3>1
    <2>3. CASE WritesOf(q, p) = {}
      <3>1. l = 0
        BY <2>2, <2>3 DEF LastOf
      <3> QED BY <2>1, <2>3, <3>1 DEF Seen
    <2>4. CASE WritesOf(q, p) # {}
      <3>1. S \in SUBSET (1 .. Len(q)) /\ Len(q) \in Nat
        BY DEF WritesOf
      <3>2. l \in S /\ \A j \in S : j <= l
        BY <2>2, <2>4, <3>1, LastOfIsLast
      <3>3. l # 0 /\ q[l].data = n
        BY <2>2, <3>1, <3>2
      <3> HIDE DEF l, S
      <3> QED BY <2>1, <3>3 DEF Seen
    <2> QED BY <2>3, <2>4
  <1>6. seen = n
    <2>1. \A g \in FieldNames : Seen(q, cached, p, g) = n[g]
      BY <1>4, <1>5
    <2>2. seen = [breakfast |-> n.breakfast, dinner |-> n.dinner, treats |-> n.treats]
      BY <2>1 DEF FieldNames
    <2> QED BY <2>2 DEF Fields
  <1> QED BY <1>3, <1>6 DEF Document, Exists

---------------------------------------------------------------------------------
(***************************************************************************)
(* What a step does to a phone's queue, its answers, and what it knows of  *)
(* a pet.                                                                  *)
(***************************************************************************)

(* Another phone has writes of the pet. *)
WrittenElsewhere(d, p) == \E e \in Devices \ {d} : WritesOf(queue[e], p) # {}

SameWatch(d, p) == watch'[d].docs[p] \in {watch[d].docs[p], server[p], Absent}

StoreKept(d, p) ==
  /\ UNCHANGED <<queue[d], results[d], cache[d][p]>>
  /\ SameWatch(d, p)
  /\ UNCHANGED server[p] \/ WrittenElsewhere(d, p)

WriteQueued(d, p, m) ==
  /\ queue'[d] = Append(queue[d], m)
  /\ UNCHANGED <<results[d], cache[d][p], watch[d], server[p]>>

WriteAnswered(d, p) ==
  LET k == Len(results[d]) + 1
      m == queue[d][k]
      answer(ok, v) == results'[d] = Append(results[d], [ok |-> ok, version |-> v])
  IN /\ k \in DOMAIN queue[d]
     /\ UNCHANGED <<queue[d], cache[d][p], watch[d]>>
     /\ IF m.pet = p
          THEN \/ ~IsValidFor(m, server[p]) /\ answer(FALSE, 0) /\ UNCHANGED server[p]
               \/ /\ IsValidFor(m, server[p]) /\ m.type # "delete"
                  /\ server[p].data = Mutated(m, server[p], 0).data
                  /\ answer(TRUE, server[p].version) /\ UNCHANGED server[p]
               \/ /\ IsValidFor(m, server[p])
                  /\ answer(TRUE, commit + 1) /\ server'[p] = Mutated(m, server[p], commit + 1)
          ELSE UNCHANGED server[p] /\ \E ok \in BOOLEAN, v \in Nat : answer(ok, v)

WritePopped(d, p) ==
  LET m == Head(queue[d])
      r == Head(results[d])
  IN /\ results[d] # <<>>
     /\ queue'[d] = Tail(queue[d]) /\ results'[d] = Tail(results[d])
     /\ cache'[d][p] = IF m.pet = p /\ r.ok THEN ApplyBatchResult(m, cache[d][p], r.version)
                                            ELSE cache[d][p]
     /\ UNCHANGED <<watch[d], server[p]>>

WatchHeard(d, p) ==
  /\ cache'[d][p] = ApplyUpdate(watch[d].docs[p], cache[d][p])
  /\ watch'[d].docs[p] = Absent
  /\ UNCHANGED <<queue[d], results[d], server[p]>>

AnswersLost(d, p) ==
  /\ results'[d] = <<>>
  /\ SameWatch(d, p)
  /\ UNCHANGED <<queue[d], cache[d][p], server[p]>>

(* One step of the store, as phone d and pet p see it. *)
LEMMA PhoneStep ==
  ASSUME StoreTypeOK, AnswersMatchQueue, [StoreNext]_storeVars,
         NEW d \in Devices, NEW p \in Pets
  PROVE  \/ StoreKept(d, p)
         \/ \E m \in Mutation : WriteMutations(d, m) /\ WriteQueued(d, p, m)
         \/ WriteAnswered(d, p)
         \/ WritePopped(d, p)
         \/ WatchHeard(d, p)
         \/ AnswersLost(d, p)
  <1>0. /\ queue \in [Devices -> Seq(Mutation)] /\ results \in [Devices -> Seq(Result)]
        /\ cache \in [Devices -> [Pets -> MaybeDocument]]
        /\ watch \in [Devices -> Snapshot] /\ server \in [Pets -> MaybeDocument]
        /\ \A e \in Devices : Len(results[e]) <= Len(queue[e])
    BY DEF StoreTypeOK, AnswersMatchQueue
  <1>1. CASE UNCHANGED storeVars
    BY <1>1 DEF storeVars, StoreKept, SameWatch
  <1>2. ASSUME NEW e \in Devices, e # d, Network(e) \/ \E m \in Mutation : WriteMutations(e, m)
        PROVE  StoreKept(d, p)
    <2>1. UNCHANGED <<queue[d], results[d], cache[d][p], watch[d]>>
      <3>1. queue'[d] = queue[d]
        BY <1>0, <1>2 DEF Network, ServerHandlesWrite, HandleSuccessfulWrite,
           HandleRejectedWrite, OnWriteStreamClose, SendSnapshot, ApplyRemoteEvent,
           OnWatchStreamClose, Restart, WriteMutations, PopWrite
      <3>2. results'[d] = results[d]
        BY <1>0, <1>2 DEF Network, ServerHandlesWrite, HandleSuccessfulWrite,
           HandleRejectedWrite, OnWriteStreamClose, SendSnapshot, ApplyRemoteEvent,
           OnWatchStreamClose, Restart, WriteMutations, PopWrite, Answer
      <3>3. cache'[d] = cache[d]
        BY <1>0, <1>2 DEF Network, ServerHandlesWrite, HandleSuccessfulWrite,
           HandleRejectedWrite, OnWriteStreamClose, SendSnapshot, ApplyRemoteEvent,
           OnWatchStreamClose, Restart, WriteMutations
      <3>4. watch'[d] = watch[d]
        BY <1>0, <1>2 DEF Network, ServerHandlesWrite, HandleSuccessfulWrite,
           HandleRejectedWrite, OnWriteStreamClose, SendSnapshot, ApplyRemoteEvent,
           OnWatchStreamClose, Restart, WriteMutations
      <3> QED BY <3>1, <3>2, <3>3, <3>4
    <2>2. UNCHANGED server[p] \/ WrittenElsewhere(d, p)
      <3>1. CASE ServerHandlesWrite(e)
        <4> PICK i \in Unanswered(e) : ServerHandlesWrite(e)!2!(i)
          BY <3>1 DEF ServerHandlesWrite
        <4> DEFINE m == queue[e][i]
        <4>1. i \in DOMAIN queue[e] /\ m.pet \in Pets
          BY QueuedIsMutation DEF Unanswered
        <4>2. CASE m.pet = p
          <5>1. i \in WritesOf(queue[e], p)
            BY <4>1, <4>2 DEF WritesOf
          <5> QED BY <1>2, <5>1 DEF WrittenElsewhere
        <4>3. CASE m.pet # p
          <5>1. PICK doc : server' = server \/ server' = [server EXCEPT ![m.pet] = doc]
            BY DEF serverVars
          <5> QED BY <1>0, <4>3, <5>1
        <4> QED BY <4>2, <4>3
      <3>2. CASE ~ServerHandlesWrite(e)
        BY <1>2, <3>2 DEF Network, HandleSuccessfulWrite,
           HandleRejectedWrite, OnWriteStreamClose, SendSnapshot, ApplyRemoteEvent,
           OnWatchStreamClose, Restart, WriteMutations
      <3> QED BY <3>1, <3>2
    <2> QED BY <2>1, <2>2 DEF StoreKept, SameWatch
  <1>3. ASSUME NEW m \in Mutation, WriteMutations(d, m)
        PROVE  WriteQueued(d, p, m)
    BY <1>0, <1>3 DEF WriteMutations, WriteQueued
  <1>4. CASE ServerHandlesWrite(d)
    <2> PICK i \in Unanswered(d) : ServerHandlesWrite(d)!2!(i)
      BY <1>4 DEF ServerHandlesWrite
    <2> DEFINE m == queue[d][i]
               answer(ok, v) == results'[d] = Append(results[d], [ok |-> ok, version |-> v])
    <2>1. i \in DOMAIN queue[d] /\ i = Len(results[d]) + 1 /\ m.pet \in Pets
      BY QueuedIsMutation DEF Unanswered
    <2>2. UNCHANGED <<queue[d], cache[d][p], watch[d]>>
      BY <1>4 DEF ServerHandlesWrite
    <2>3. \A ok, v : Answer(d, ok, v) => answer(ok, v)
      BY <1>0 DEF Answer
    <2>4. CASE m.pet # p
      <3>1. PICK doc : server' = server \/ server' = [server EXCEPT ![m.pet] = doc]
        BY DEF serverVars
      <3>2. UNCHANGED server[p]
        BY <1>0, <2>4, <3>1
      <3>3. \E ok \in BOOLEAN, v \in Nat : answer(ok, v)
        <4>1. server[m.pet].version \in Nat /\ commit + 1 \in Nat
          BY <1>0, <2>1 DEF StoreTypeOK, MaybeDocument
        <4> QED BY <2>3, <4>1
      <3> QED BY <2>1, <2>2, <2>4, <3>2, <3>3 DEF WriteAnswered
    <2>5. CASE m.pet = p
      <3>1. CASE ~IsValidFor(m, server[m.pet]) /\ Answer(d, FALSE, 0) /\ UNCHANGED serverVars
        BY <2>1, <2>2, <2>3, <2>5, <3>1 DEF WriteAnswered, serverVars
      <3>2. CASE /\ IsValidFor(m, server[m.pet]) /\ IsNoOp(m)
                 /\ Answer(d, TRUE, server[m.pet].version) /\ UNCHANGED serverVars
        <4>1. m.type # "delete" /\ server[p].data = Mutated(m, server[p], 0).data
          BY <2>5, <3>2 DEF IsNoOp
        <4>2. answer(TRUE, server[p].version) /\ UNCHANGED server[p]
          BY <2>3, <2>5, <3>2 DEF serverVars
        <4> QED BY <2>1, <2>2, <2>5, <3>2, <4>1, <4>2 DEF WriteAnswered
      <3>3. CASE /\ IsValidFor(m, server[m.pet])
                 /\ server' = [server EXCEPT ![m.pet] = Mutated(m, @, commit + 1)]
                 /\ Answer(d, TRUE, commit + 1)
        <4>1. server'[p] = Mutated(m, server[p], commit + 1)
          BY <1>0, <2>5, <3>3
        <4> QED BY <2>1, <2>2, <2>3, <2>5, <3>3, <4>1 DEF WriteAnswered
      <3> QED BY <3>1, <3>2, <3>3
    <2> QED BY <2>4, <2>5
  <1>5. CASE HandleSuccessfulWrite(d) \/ HandleRejectedWrite(d)
    <2> DEFINE m == Head(queue[d])
               r == Head(results[d])
               new == ApplyBatchResult(m, cache[d][m.pet], r.version)
    <2>1. results[d] # <<>> /\ PopWrite(d)
      BY <1>5 DEF HandleSuccessfulWrite, HandleRejectedWrite
    <2>2. queue'[d] = Tail(queue[d]) /\ results'[d] = Tail(results[d])
      BY <1>0, <2>1 DEF PopWrite
    <2>3. \/ r.ok /\ cache' = [cache EXCEPT ![d][m.pet] = new]
          \/ ~r.ok /\ cache' = cache
      BY <1>5 DEF HandleSuccessfulWrite, HandleRejectedWrite
    <2>4. cache'[d][p] = IF m.pet = p /\ r.ok THEN ApplyBatchResult(m, cache[d][p], r.version)
                                              ELSE cache[d][p]
      <3> HIDE DEF new, r
      <3>1. CASE m.pet = p /\ r.ok
        <4>1. cache'[d][p] = new
          <5> HIDE DEF m
          <5> QED BY <1>0, <2>3, <3>1
        <4> QED BY <3>1, <4>1 DEF new
      <3>2. CASE ~(m.pet = p /\ r.ok)
        <4> HIDE DEF m
        <4> QED BY <1>0, <2>3, <3>2
      <3> QED BY <3>1, <3>2
    <2>5. UNCHANGED <<watch[d], server[p]>>
      BY <1>5 DEF HandleSuccessfulWrite, HandleRejectedWrite
    <2> QED BY <2>1, <2>2, <2>4, <2>5 DEF WritePopped
  <1>6. CASE ApplyRemoteEvent(d)
    <2>1. cache'[d][p] = ApplyUpdate(watch[d].docs[p], cache[d][p])
      BY <1>0, <1>6 DEF ApplyRemoteEvent
    <2>2. watch'[d] = NoSnapshot
      BY <1>0, <1>6 DEF ApplyRemoteEvent
    <2>3. UNCHANGED <<queue[d], results[d], server[p]>>
      BY <1>6 DEF ApplyRemoteEvent
    <2> QED BY <2>1, <2>2, <2>3 DEF WatchHeard, NoSnapshot
  <1>7. CASE OnWriteStreamClose(d) \/ Restart(d)
    <2>1. results'[d] = <<>> /\ watch'[d] \in {watch[d], NoSnapshot}
      BY <1>0, <1>7 DEF OnWriteStreamClose, Restart
    <2>2. SameWatch(d, p)
      BY <2>1 DEF SameWatch, NoSnapshot
    <2> QED BY <1>7, <2>1, <2>2 DEF AnswersLost, OnWriteStreamClose, Restart
  <1>8. CASE SendSnapshot(d) \/ OnWatchStreamClose(d)
    <2>1. watch'[d] \in {[version |-> commit, docs |-> server], NoSnapshot}
      BY <1>0, <1>8 DEF SendSnapshot, OnWatchStreamClose
    <2>2. SameWatch(d, p)
      BY <2>1 DEF SameWatch, NoSnapshot
    <2> QED BY <1>8, <2>2 DEF StoreKept, SendSnapshot, OnWatchStreamClose
  <1>9. \/ UNCHANGED storeVars
        \/ \E e \in Devices : Network(e) \/ \E m \in Mutation : WriteMutations(e, m)
    BY DEF StoreNext
  <1>10. CASE Network(d) \/ \E m \in Mutation : WriteMutations(d, m)
    BY <1>3, <1>4, <1>5, <1>6, <1>7, <1>8, <1>10 DEF Network
  <1> QED BY <1>1, <1>2, <1>9, <1>10

---------------------------------------------------------------------------------
(***************************************************************************)
(* A phone that alone writes a pet comes to show what it wrote last.       *)
(***************************************************************************)

(* No fact is newer than the server's. *)
LEMMA FactsAreOld ==
  ASSUME CacheInv, NEW d \in Devices, NEW p \in Pets, NEW a \in Facts(d, p)
  PROVE  a[1] \in Nat /\ a[1] <= server[p].version
  <1>1. /\ server[p].version \in Nat /\ cache[d][p].version \in Nat
        /\ watch[d].docs[p].version \in Nat
    BY VersionsAreNat DEF CacheInv
  <1>2. CASE a \in {Fact(Absent), Fact(server[p]), Fact(cache[d][p]), Fact(watch[d].docs[p])}
    BY <1>1, <1>2 DEF Fact, Absent, NoDocument, CacheInv, VersionsInOrder
  <1>3. ASSUME NEW i \in WritesOf(queue[d], p) \cap DOMAIN results[d],
               a = <<results[d][i].version, queue[d][i].data>>
        PROVE  a[1] \in Nat /\ a[1] <= server[p].version
    <2>1. results[d][i] \in Result
      BY DEF CacheInv, StoreTypeOK
    <2>2. queue[d][i].pet = p
      BY DEF WritesOf
    <2> QED BY <1>3, <2>1, <2>2 DEF Result, CacheInv, VersionsInOrder
  <1> QED BY <1>2, <1>3 DEF Facts

(* Nothing new is known, no write is queued, answered or popped. *)
LEMMA LeadsKept ==
  ASSUME NEW d \in Devices, NEW p \in Pets, NEW n, Leads(d, p, n), CacheInv, StoreTypeOK',
         Facts(d, p)' \subseteq Facts(d, p),
         WritesOf(queue'[d], p) = WritesOf(queue[d], p),
         \A i \in WritesOf(queue[d], p) : queue'[d][i] = queue[d][i],
         \A i \in WritesOf(queue[d], p) : i \in DOMAIN results'[d] =>
           i \in DOMAIN results[d] /\ results'[d][i].version = results[d][i].version,
         cache'[d][p].version >= cache[d][p].version
  PROVE  Leads(d, p, n)'
  <1>1. \A a, b \in Facts(d, p)' : a[1] = b[1] => a[2] = b[2]
    BY DEF Leads
  <1>2. ASSUME WritesOf(queue'[d], p) = {}, NEW a \in Facts(d, p)',
               a[1] >= cache'[d][p].version
        PROVE  a[2] = n
    <2>1. a \in Facts(d, p) /\ a[1] \in Nat
      BY <1>2, FactsAreOld
    <2>2. cache[d][p].version \in Nat /\ cache'[d][p].version \in Nat
      BY VersionsAreNat DEF CacheInv, StoreTypeOK, MaybeDocument
    <2>3. a[1] >= cache[d][p].version
      BY <1>2, <2>1, <2>2
    <2> QED BY <1>2, <2>1, <2>3 DEF Leads, From
  <1>3. ASSUME NEW i \in WritesOf(queue'[d], p), IsLast(d, p, i)'
        PROVE  /\ queue'[d][i].data = n
               /\ i \in DOMAIN results'[d] => From(d, p, results[d][i].version, n)
    BY <1>3 DEF Leads, IsLast
  <1>4. ASSUME NEW i \in WritesOf(queue'[d], p), IsLast(d, p, i)', i \in DOMAIN results'[d],
               NEW a \in Facts(d, p)', a[1] >= results'[d][i].version
        PROVE  a[2] = n
    <2>1. From(d, p, results[d][i].version, n) /\ results'[d][i].version = results[d][i].version
      BY <1>3, <1>4
    <2> QED BY <1>4, <2>1 DEF From
  <1> QED BY <1>1, <1>2, <1>3, <1>4 DEF Leads, From

(* The facts that a step keeps. *)
LEMMA FactsKept ==
  ASSUME NEW d \in Devices, NEW p \in Pets,
         UNCHANGED server[p], SameWatch(d, p) \/ watch'[d].docs[p] = Absent,
         Fact(cache'[d][p]) \in Facts(d, p),
         \A i \in WritesOf(queue'[d], p) : i \in DOMAIN results'[d] =>
           \E j \in WritesOf(queue[d], p) \cap DOMAIN results[d] :
             /\ results'[d][i].version = results[d][j].version
             /\ queue'[d][i].data = queue[d][j].data
  PROVE  Facts(d, p)' \subseteq Facts(d, p)
  <1> SUFFICES ASSUME NEW a \in Facts(d, p)' PROVE a \in Facts(d, p)
    OBVIOUS
  <1>1. CASE a \in {Fact(Absent), Fact(server[p])', Fact(cache[d][p])', Fact(watch[d].docs[p])'}
    BY <1>1 DEF Facts, Fact, SameWatch
  <1>2. ASSUME NEW i \in WritesOf(queue'[d], p) \cap DOMAIN results'[d],
               a = <<results'[d][i].version, queue'[d][i].data>>
        PROVE  a \in Facts(d, p)
    BY <1>2 DEF Facts
  <1> QED BY <1>1, <1>2 DEF Facts

(* The server answers a write of the phone. *)
LEMMA LeadsAnswered ==
  ASSUME NEW op \in CardOps, NEW d \in Devices, NEW p \in Pets, NEW n,
         CacheInv, StoreTypeOK', Leads(d, p, n), PlainDocuments(op, p), PlainWrites(op, p),
         WriteAnswered(d, p)
  PROVE  Leads(d, p, n)'
  <1>0. /\ queue[d] \in Seq(Mutation) /\ results[d] \in Seq(Result) /\ commit \in Nat
        /\ server[p] \in MaybeDocument /\ server[p].version \in Nat
        /\ server[p].version <= commit
    BY DEF CacheInv, StoreTypeOK, VersionsInOrder, MaybeDocument
  <1>1. PICK k \in Nat : k = Len(results[d]) + 1
    BY <1>0
  <1>2. /\ k \in DOMAIN queue[d] /\ k \notin DOMAIN results[d]
        /\ queue'[d] = queue[d] /\ cache'[d][p] = cache[d][p] /\ watch'[d] = watch[d]
    BY <1>0, <1>1 DEF WriteAnswered
  <1> DEFINE m == queue[d][k]
  <1>3. CASE m.pet # p
    <2>1. k \notin WritesOf(queue[d], p)
      BY <1>3 DEF WritesOf
    <2>2. PICK r : results'[d] = Append(results[d], r)
      BY <1>1, <1>3 DEF WriteAnswered
    <2>3. \A i \in DOMAIN results'[d] :
            i # k => i \in DOMAIN results[d] /\ results'[d][i] = results[d][i]
      BY <1>0, <1>1, <2>2
    <2>4. UNCHANGED server[p]
      BY <1>1, <1>3 DEF WriteAnswered
    <2>5. WritesOf(queue'[d], p) = WritesOf(queue[d], p)
      BY <1>2
    <2>6. Facts(d, p)' \subseteq Facts(d, p)
      <3>1. Fact(cache'[d][p]) \in Facts(d, p) /\ SameWatch(d, p)
        BY <1>2 DEF Facts, SameWatch
      <3>2. \A i \in WritesOf(queue'[d], p) : i \in DOMAIN results'[d] =>
              \E j \in WritesOf(queue[d], p) \cap DOMAIN results[d] :
                /\ results'[d][i].version = results[d][j].version
                /\ queue'[d][i].data = queue[d][j].data
        BY <1>2, <2>1, <2>3
      <3> QED BY <2>4, <3>1, <3>2, FactsKept
    <2>7. cache'[d][p].version >= cache[d][p].version
      <3>1. cache[d][p].version \in Nat
        BY VersionsAreNat DEF CacheInv
      <3> QED BY <1>2, <3>1
    <2> QED BY <1>2, <2>1, <2>3, <2>5, <2>6, <2>7, LeadsKept
  <1>4. CASE m.pet = p
    <2>1. k \in WritesOf(queue[d], p) /\ m \in Mutation
      BY <1>0, <1>2, <1>4 DEF WritesOf
    <2>2. /\ m.type = "patch" /\ IsValidFor(m, server[p])
          /\ \A v \in Nat : /\ Mutated(m, server[p], v).data = m.data
                            /\ Mutated(m, server[p], v).version = v
      <3>1. /\ m.type = "patch" /\ m.mask = {FieldOf(op)} /\ OnlyFor(op, m.data)
        BY <2>1 DEF PlainWrites
      <3>2. Exists(server[p]) /\ OnlyFor(op, server[p].data)
        BY DEF PlainDocuments, Plain, Absent, NoDocument, Exists
      <3> HIDE DEF m
      <3> QED BY <1>0, <2>1, <3>1, <3>2, PlainPatch DEF IsValidFor
    <2>3. PICK v \in Nat :
            /\ results'[d] = Append(results[d], [ok |-> TRUE, version |-> v])
            /\ Fact(server'[p]) = <<v, m.data>>
            /\ \/ v = server[p].version /\ server[p].data = m.data
               \/ v = commit + 1
      <3> HIDE DEF m
      <3>1. CASE /\ server[p].data = Mutated(m, server[p], 0).data
                 /\ results'[d] = Append(results[d], [ok |-> TRUE, version |-> server[p].version])
                 /\ UNCHANGED server[p]
        BY <1>0, <2>2, <3>1 DEF Fact
      <3>2. CASE /\ results'[d] = Append(results[d], [ok |-> TRUE, version |-> commit + 1])
                 /\ server'[p] = Mutated(m, server[p], commit + 1)
        <4>1. commit + 1 \in Nat
          BY <1>0
        <4> QED BY <2>2, <3>2, <4>1 DEF Fact
      <3> QED BY <1>1, <1>4, <2>2, <3>1, <3>2 DEF WriteAnswered, m
    <2> DEFINE new == <<v, m.data>>
    <2>4. ASSUME NEW a \in Facts(d, p)
          PROVE  a[1] \in Nat /\ a[1] <= v /\ (a[1] = v => a[2] = m.data)
      <3>1. a[1] \in Nat /\ a[1] <= server[p].version
        BY FactsAreOld
      <3>2. CASE v = server[p].version /\ server[p].data = m.data
        <4>1. Fact(server[p]) \in Facts(d, p)
          BY DEF Facts
        <4>2. a[1] = v => a[2] = m.data
          BY <3>2, <4>1 DEF Leads, Fact
        <4> QED BY <3>1, <3>2, <4>2
      <3>3. CASE v = commit + 1
        BY <1>0, <3>1, <3>3
      <3> QED BY <2>3, <3>2, <3>3
    <2>5. /\ k \in DOMAIN results'[d] /\ results'[d][k].version = v
          /\ \A i \in DOMAIN results'[d] : i = k \/ (i \in DOMAIN results[d] /\ results'[d][i] = results[d][i])
          /\ \A i \in DOMAIN results'[d] : i <= k
      BY <1>0, <1>1, <2>3
    <2>6. \A a \in Facts(d, p)' : a \in Facts(d, p) \/ a = new
      <3> TAKE a \in Facts(d, p)'
      <3>1. CASE a \in {Fact(Absent), Fact(server[p])', Fact(cache[d][p])', Fact(watch[d].docs[p])'}
        BY <1>2, <2>3, <3>1 DEF Facts, Fact
      <3>2. ASSUME NEW i \in WritesOf(queue'[d], p) \cap DOMAIN results'[d],
                   a = <<results'[d][i].version, queue'[d][i].data>>
            PROVE  a \in Facts(d, p) \/ a = new
        <4>1. CASE i = k
          BY <1>2, <2>5, <3>2, <4>1
        <4>2. CASE i # k
          BY <1>2, <2>5, <3>2, <4>2 DEF Facts
        <4> QED BY <4>1, <4>2
      <3> QED BY <3>1, <3>2 DEF Facts
    <2>7. \A a, b \in Facts(d, p)' : a[1] = b[1] => a[2] = b[2]
      <3> SUFFICES ASSUME NEW a \in Facts(d, p)', NEW b \in Facts(d, p)', a[1] = b[1]
                   PROVE  a[2] = b[2]
        OBVIOUS
      <3>1. new[1] = v /\ new[2] = m.data
        OBVIOUS
      <3> HIDE DEF new, m
      <3> QED BY <2>4, <2>6, <3>1 DEF Leads
    <2>8. ASSUME NEW i \in WritesOf(queue'[d], p), IsLast(d, p, i)'
          PROVE  /\ queue'[d][i].data = n
                 /\ i \in DOMAIN results'[d] => From(d, p, results[d][i].version, n)'
      <3>1. i \in WritesOf(queue[d], p) /\ IsLast(d, p, i) /\ k <= i /\ i \in Nat
        <4>1. WritesOf(queue'[d], p) = WritesOf(queue[d], p)
          BY <1>2
        <4>2. i \in WritesOf(queue[d], p) /\ \A j \in WritesOf(queue[d], p) : j <= i
          BY <2>8, <4>1 DEF IsLast
        <4>3. i \in Nat
          BY <1>0, <4>2 DEF WritesOf
        <4> QED BY <2>1, <4>2, <4>3 DEF IsLast
      <3>2. queue'[d][i].data = n
        BY <1>2, <3>1 DEF Leads
      <3>3. ASSUME i \in DOMAIN results'[d], NEW a \in Facts(d, p)', a[1] >= results'[d][i].version
            PROVE  a[2] = n
        <4>1. i = k
          BY <2>5, <3>1, <3>3
        <4>2. m.data = n
          BY <1>2, <3>2, <4>1
        <4>3. a[1] >= v /\ new[1] = v /\ new[2] = m.data
          BY <2>5, <3>3, <4>1
        <4> HIDE DEF new, m
        <4> QED BY <2>4, <2>6, <4>2, <4>3
      <3> QED BY <3>2, <3>3 DEF From
    <2>9. WritesOf(queue'[d], p) # {}
      BY <1>2, <2>1
    <2> QED BY <2>7, <2>8, <2>9 DEF Leads
  <1> QED BY <1>3, <1>4

(* An answer reaches the phone. *)
LEMMA LeadsPopped ==
  ASSUME NEW op \in CardOps, NEW d \in Devices, NEW p \in Pets, NEW n,
         CacheInv, StoreTypeOK', Leads(d, p, n), PlainDocuments(op, p), PlainWrites(op, p),
         WritesOf(queue[d], p) # {} => Exists(cache[d][p]),
         WritePopped(d, p)
  PROVE  Leads(d, p, n)'
  <1>0. /\ queue[d] \in Seq(Mutation) /\ results[d] \in Seq(Result)
        /\ Len(results[d]) <= Len(queue[d]) /\ results[d] # <<>>
        /\ cache[d][p] \in MaybeDocument /\ cache[d][p].version \in Nat
    BY DEF CacheInv, StoreTypeOK, AnswersMatchQueue, MaybeDocument, WritePopped
  <1> DEFINE m == Head(queue[d])
             r == Head(results[d])
  <1>1. /\ m = queue[d][1] /\ r = results[d][1] /\ 1 \in DOMAIN queue[d] /\ 1 \in DOMAIN results[d]
        /\ m \in Mutation /\ r \in Result /\ r.version \in Nat
    <2>1. queue[d] # <<>> /\ Len(results[d]) \in Nat /\ Len(results[d]) > 0
      BY <1>0
    <2>2. m = queue[d][1] /\ 1 \in DOMAIN queue[d] /\ m \in Mutation
      BY <1>0, <2>1
    <2>3. r = results[d][1] /\ 1 \in DOMAIN results[d] /\ r \in Result
      BY <1>0
    <2> QED BY <2>2, <2>3 DEF Result
  <1>2. /\ \A i \in DOMAIN queue'[d] : /\ i \in Nat /\ i + 1 \in DOMAIN queue[d]
                                       /\ queue'[d][i] = queue[d][i + 1]
        /\ \A i \in DOMAIN queue[d] : i = 1 \/ (i - 1 \in DOMAIN queue'[d] /\ (i - 1) + 1 = i)
    BY <1>0, <1>1 DEF WritePopped
  <1>3. \A i \in DOMAIN results'[d] : i + 1 \in DOMAIN results[d]
                                      /\ results'[d][i] = results[d][i + 1]
    BY <1>0 DEF WritePopped
  <1>4. \A i \in WritesOf(queue'[d], p) : i + 1 \in WritesOf(queue[d], p)
    BY <1>2 DEF WritesOf
  <1>5. \A i \in WritesOf(queue[d], p) : i = 1 \/ (i - 1 \in WritesOf(queue'[d], p) /\ (i - 1) + 1 = i)
    BY <1>2 DEF WritesOf
  <1>6. /\ Fact(cache'[d][p]) \in Facts(d, p)
        /\ cache'[d][p].version \in Nat /\ cache'[d][p].version >= cache[d][p].version
        /\ m.pet = p => cache'[d][p].version >= r.version
    <2>0. cache'[d][p].version \in Nat
      BY DEF StoreTypeOK, MaybeDocument
    <2>1. CASE m.pet = p
      <3>1. 1 \in WritesOf(queue[d], p) /\ r.ok
        BY <1>1, <2>1 DEF WritesOf, PlainWrites
      <3>2. /\ ApplyToRemoteDocument(m, cache[d][p], r.version).data = m.data
            /\ ApplyToRemoteDocument(m, cache[d][p], r.version).version = r.version
        <4>1. /\ m.type = "patch" /\ m.mask = {FieldOf(op)} /\ OnlyFor(op, m.data)
          BY <1>1, <3>1 DEF PlainWrites
        <4>2. Exists(cache[d][p]) /\ OnlyFor(op, cache[d][p].data)
          BY <3>1 DEF PlainDocuments, Plain, Absent, NoDocument, Exists
        <4> HIDE DEF m, r
        <4> QED BY <1>0, <1>1, <4>1, <4>2, PlainPatch
      <3>3. cache'[d][p] = ApplyBatchResult(m, cache[d][p], r.version)
        BY <2>1, <3>1 DEF WritePopped
      <3>4. Fact(cache'[d][p]) \in {Fact(cache[d][p]), <<r.version, m.data>>}
        <4> HIDE DEF m, r
        <4> QED BY <3>2, <3>3 DEF ApplyBatchResult, Fact
      <3>5. cache'[d][p].version >= cache[d][p].version /\ cache'[d][p].version >= r.version
        <4> HIDE DEF m, r
        <4> QED BY <1>0, <1>1, <3>2, <3>3 DEF ApplyBatchResult
      <3>6. Fact(cache'[d][p]) \in Facts(d, p)
        BY <1>1, <3>1, <3>4 DEF Facts
      <3> QED BY <2>0, <3>5, <3>6
    <2>2. CASE m.pet # p
      <3>1. cache'[d][p] = cache[d][p]
        BY <2>2 DEF WritePopped
      <3> QED BY <1>0, <2>0, <2>2, <3>1 DEF Facts
    <2> QED BY <2>1, <2>2
  <1>7. Facts(d, p)' \subseteq Facts(d, p)
    <2>1. \A i \in WritesOf(queue'[d], p) : i \in DOMAIN results'[d] =>
            \E j \in WritesOf(queue[d], p) \cap DOMAIN results[d] :
              /\ results'[d][i].version = results[d][j].version
              /\ queue'[d][i].data = queue[d][j].data
      <3> TAKE i \in WritesOf(queue'[d], p)
      <3>1. i \in DOMAIN queue'[d]
        BY DEF WritesOf
      <3> QED BY <1>2, <1>3, <1>4, <3>1
    <2>2. UNCHANGED server[p] /\ SameWatch(d, p)
      BY DEF WritePopped, SameWatch
    <2> QED BY <1>6, <2>1, <2>2, FactsKept
  <1>8. \A a, b \in Facts(d, p)' : a[1] = b[1] => a[2] = b[2]
    BY <1>7 DEF Leads
  <1>9. ASSUME WritesOf(queue'[d], p) = {}, NEW a \in Facts(d, p)',
               a[1] >= cache'[d][p].version
        PROVE  a[2] = n
    <2>1. a \in Facts(d, p) /\ a[1] \in Nat
      BY <1>7, <1>9, FactsAreOld
    <2>2. CASE WritesOf(queue[d], p) = {}
      <3>1. a[1] >= cache[d][p].version
        BY <1>0, <1>6, <1>9, <2>1
      <3> QED BY <2>1, <2>2, <3>1 DEF Leads, From
    <2>3. CASE WritesOf(queue[d], p) # {}
      <3>1. 1 \in WritesOf(queue[d], p) /\ IsLast(d, p, 1)
        BY <1>5, <1>9, <2>3 DEF IsLast
      <3>2. m.pet = p
        BY <1>1, <3>1 DEF WritesOf
      <3>3. a[1] >= results[d][1].version
        BY <1>1, <1>6, <1>9, <2>1, <3>2
      <3> QED BY <1>1, <2>1, <3>1, <3>3 DEF Leads, From
    <2> QED BY <2>2, <2>3
  <1>10. ASSUME NEW i \in WritesOf(queue'[d], p), IsLast(d, p, i)'
         PROVE  /\ queue'[d][i].data = n
                /\ i \in DOMAIN results'[d] => From(d, p, results[d][i].version, n)'
    <2>1. i \in DOMAIN queue'[d] /\ i \in Nat
      BY <1>2 DEF WritesOf
    <2>2. IsLast(d, p, i + 1)
      <3>1. ASSUME NEW j \in WritesOf(queue[d], p) PROVE j <= i + 1
        <4>1. CASE j = 1
          BY <2>1, <4>1
        <4>2. CASE j # 1
          <5>1. j - 1 <= i /\ j \in Nat
            <6>1. j - 1 \in WritesOf(queue'[d], p)
              BY <1>5, <4>2
            <6>2. j \in Nat
              BY <1>0 DEF WritesOf
            <6> QED BY <1>10, <6>1, <6>2 DEF IsLast
          <5> QED BY <2>1, <5>1
        <4> QED BY <4>1, <4>2
      <3> QED BY <1>4, <3>1 DEF IsLast
    <2>3. queue'[d][i].data = n
      BY <1>2, <1>4, <2>1, <2>2 DEF Leads
    <2>4. ASSUME i \in DOMAIN results'[d], NEW a \in Facts(d, p)', a[1] >= results'[d][i].version
          PROVE  a[2] = n
      <3>1. i + 1 \in DOMAIN results[d] /\ results'[d][i] = results[d][i + 1]
        BY <1>3, <2>4
      <3>2. From(d, p, results[d][i + 1].version, n)
        BY <1>4, <2>2, <3>1 DEF Leads
      <3> QED BY <1>7, <2>4, <3>1, <3>2 DEF From
    <2> QED BY <2>3, <2>4 DEF From
  <1> QED BY <1>8, <1>9, <1>10 DEF Leads, From

(* Any other step of the store that queues no write of the pet. *)
LEMMA LeadsStep ==
  ASSUME NEW op \in CardOps, NEW d \in Devices, NEW p \in Pets, NEW n,
         CacheInv, CacheInv', [StoreNext]_storeVars,
         Leads(d, p, n), PlainDocuments(op, p), PlainWrites(op, p),
         ~WrittenElsewhere(d, p),
         WritesOf(queue[d], p) # {} => Exists(cache[d][p]),
         \A m \in Mutation : WriteMutations(d, m) => m.pet # p
  PROVE  Leads(d, p, n)'
  <1>0. /\ queue[d] \in Seq(Mutation) /\ results[d] \in Seq(Result)
        /\ cache[d][p].version \in Nat /\ cache'[d][p].version \in Nat
        /\ watch[d].docs[p].version \in Nat /\ StoreTypeOK'
    BY VersionsAreNat DEF CacheInv, StoreTypeOK, MaybeDocument
  <1>1. CASE StoreKept(d, p)
    <2>1. UNCHANGED <<queue[d], results[d], cache[d][p], server[p]>> /\ SameWatch(d, p)
      BY <1>1 DEF StoreKept
    <2>2. Facts(d, p)' \subseteq Facts(d, p)
      <3>1. Fact(cache'[d][p]) \in Facts(d, p)
        BY <2>1 DEF Facts
      <3> QED BY <2>1, <3>1, FactsKept
    <2> QED BY <1>0, <2>1, <2>2, LeadsKept
  <1>2. ASSUME NEW m \in Mutation, m.pet # p, WriteQueued(d, p, m)
        PROVE  Leads(d, p, n)'
    <2>1. /\ queue'[d] = Append(queue[d], m)
          /\ UNCHANGED <<results[d], cache[d][p], server[p]>> /\ SameWatch(d, p)
      BY <1>2 DEF WriteQueued, SameWatch
    <2>2. /\ WritesOf(queue'[d], p) = WritesOf(queue[d], p)
          /\ \A i \in WritesOf(queue[d], p) : queue'[d][i] = queue[d][i]
      <3>1. /\ \A i \in DOMAIN queue[d] : i \in DOMAIN queue'[d] /\ queue'[d][i] = queue[d][i]
            /\ \A i \in DOMAIN queue'[d] : i \in DOMAIN queue[d] \/ queue'[d][i] = m
        BY <1>0, <2>1
      <3> QED BY <1>2, <3>1 DEF WritesOf
    <2>3. Facts(d, p)' \subseteq Facts(d, p)
      <3>1. Fact(cache'[d][p]) \in Facts(d, p)
        BY <2>1 DEF Facts
      <3> QED BY <2>1, <2>2, <3>1, FactsKept
    <2>4. cache'[d][p].version >= cache[d][p].version
      BY <1>0, <2>1, <2>2
    <2>5. \A i \in WritesOf(queue[d], p) : i \in DOMAIN results'[d] =>
            i \in DOMAIN results[d] /\ results'[d][i].version = results[d][i].version
      BY <2>1, <2>2
    <2>6. /\ WritesOf(queue'[d], p) = WritesOf(queue[d], p)
          /\ \A i \in WritesOf(queue[d], p) : queue'[d][i] = queue[d][i]
      BY <2>1, <2>2
    <2> QED BY <1>0, <2>3, <2>4, <2>5, <2>6, LeadsKept
  <1>3. CASE WatchHeard(d, p)
    <2>1. UNCHANGED <<queue[d], results[d], server[p]>> /\ watch'[d].docs[p] = Absent
      BY <1>3 DEF WatchHeard
    <2>2. /\ Fact(cache'[d][p]) \in Facts(d, p)
          /\ cache'[d][p].version >= cache[d][p].version
      BY <1>0, <1>3 DEF WatchHeard, ApplyUpdate, Facts
    <2>3. Facts(d, p)' \subseteq Facts(d, p)
      BY <2>1, <2>2, FactsKept
    <2>4. cache'[d][p].version >= cache[d][p].version
      BY <1>0, <2>1, <2>2
    <2>5. \A i \in WritesOf(queue[d], p) : i \in DOMAIN results'[d] =>
            i \in DOMAIN results[d] /\ results'[d][i].version = results[d][i].version
      BY <2>1, <2>2
    <2>6. /\ WritesOf(queue'[d], p) = WritesOf(queue[d], p)
          /\ \A i \in WritesOf(queue[d], p) : queue'[d][i] = queue[d][i]
      BY <2>1, <2>2
    <2> QED BY <1>0, <2>3, <2>4, <2>5, <2>6, LeadsKept
  <1>4. CASE AnswersLost(d, p)
    <2>1. /\ UNCHANGED <<queue[d], cache[d][p], server[p]>> /\ SameWatch(d, p)
          /\ results'[d] = <<>>
      BY <1>4 DEF AnswersLost
    <2>2. DOMAIN results'[d] = {}
      BY <2>1
    <2>3. Facts(d, p)' \subseteq Facts(d, p)
      <3>1. Fact(cache'[d][p]) \in Facts(d, p)
        BY <2>1 DEF Facts
      <3> QED BY <2>1, <2>2, <3>1, FactsKept
    <2>4. cache'[d][p].version >= cache[d][p].version
      BY <1>0, <2>1, <2>2
    <2>5. \A i \in WritesOf(queue[d], p) : i \in DOMAIN results'[d] =>
            i \in DOMAIN results[d] /\ results'[d][i].version = results[d][i].version
      BY <2>1, <2>2
    <2>6. /\ WritesOf(queue'[d], p) = WritesOf(queue[d], p)
          /\ \A i \in WritesOf(queue[d], p) : queue'[d][i] = queue[d][i]
      BY <2>1, <2>2
    <2> QED BY <1>0, <2>3, <2>4, <2>5, <2>6, LeadsKept
  <1>5. CASE WriteAnswered(d, p)
    BY <1>0, <1>5, LeadsAnswered
  <1>6. CASE WritePopped(d, p)
    BY <1>0, <1>6, LeadsPopped
  <1> QED BY <1>1, <1>2, <1>3, <1>4, <1>5, <1>6, PhoneStep DEF CacheInv

(* A write that is queued is the last, and is yet to be answered. *)
LEMMA LeadsWritten ==
  ASSUME NEW d \in Devices, NEW p \in Pets, NEW n, CacheInv, CacheInv', Leads(d, p, n),
         NEW m \in Mutation, m.pet = p, WriteMutations(d, m)
  PROVE  Leads(d, p, m.data)'
  <1>0. /\ queue[d] \in Seq(Mutation) /\ results[d] \in Seq(Result)
        /\ Len(results[d]) <= Len(queue[d])
        /\ queue \in [Devices -> Seq(Mutation)]
    BY DEF CacheInv, StoreTypeOK, AnswersMatchQueue
  <1>1. /\ queue'[d] = Append(queue[d], m)
        /\ UNCHANGED <<results, cache, watch, server>>
    BY <1>0 DEF WriteMutations
  <1>2. PICK l \in Nat : l = Len(queue[d]) + 1
    BY <1>0
  <1>3. /\ \A i \in DOMAIN queue[d] : i \in DOMAIN queue'[d] /\ queue'[d][i] = queue[d][i]
        /\ \A i \in DOMAIN queue'[d] : i \in DOMAIN queue[d] \/ i = l
        /\ l \in DOMAIN queue'[d] /\ queue'[d][l] = m /\ \A i \in DOMAIN queue'[d] : i <= l
    BY <1>0, <1>1, <1>2
  <1>4. l \notin DOMAIN results'[d]
    BY <1>0, <1>1, <1>2
  <1>5. /\ l \in WritesOf(queue'[d], p)
        /\ \A i \in WritesOf(queue'[d], p) : i = l \/ i \in WritesOf(queue[d], p)
    BY <1>3 DEF WritesOf
  <1>6. Facts(d, p)' \subseteq Facts(d, p)
    <2>1. Fact(cache'[d][p]) \in Facts(d, p) /\ SameWatch(d, p) /\ UNCHANGED server[p]
      BY <1>1 DEF Facts, SameWatch
    <2>2. \A i \in WritesOf(queue'[d], p) : i \in DOMAIN results'[d] =>
            \E j \in WritesOf(queue[d], p) \cap DOMAIN results[d] :
              /\ results'[d][i].version = results[d][j].version
              /\ queue'[d][i].data = queue[d][j].data
      <3> TAKE i \in WritesOf(queue'[d], p)
      <3> HAVE i \in DOMAIN results'[d]
      <3>1. i \in WritesOf(queue[d], p) /\ i \in DOMAIN results[d]
        BY <1>1, <1>4, <1>5
      <3>2. queue'[d][i] = queue[d][i]
        BY <1>3, <3>1 DEF WritesOf
      <3> QED BY <1>1, <3>1, <3>2
    <2> QED BY <2>1, <2>2, FactsKept
  <1>7. ASSUME NEW i \in WritesOf(queue'[d], p), IsLast(d, p, i)' PROVE i = l
    <2>1. l <= i /\ i <= l /\ i \in Nat
      <3>1. i \in DOMAIN queue'[d] /\ queue'[d] \in Seq(Mutation)
        BY DEF WritesOf, CacheInv, StoreTypeOK
      <3>2. l <= i
        BY <1>5, <1>7 DEF IsLast
      <3> QED BY <1>3, <3>1, <3>2
    <2> QED BY <2>1
  <1>8. \A a, b \in Facts(d, p)' : a[1] = b[1] => a[2] = b[2]
    BY <1>6 DEF Leads
  <1> QED BY <1>3, <1>4, <1>5, <1>7, <1>8 DEF Leads

---------------------------------------------------------------------------------
(***************************************************************************)
(* What a step does to the taps in progress.                               *)
(***************************************************************************)
BlocksKept(d, p) == gets'[d][p] = gets[d][p] /\ mainQ'[d][p] = mainQ[d][p]

BlocksLost(d, p) == gets'[d][p] = <<>> /\ mainQ'[d][p] = <<>>

BlocksRaised(d, p) ==
  /\ gets'[d][p] = <<>>
  /\ mainQ'[d][p] = mainQ[d][p]
       \o [i \in DOMAIN gets[d][p] |-> Got(gets[d][p][i], ViewCard(d, p)')]

BlockOfDelete(d, p) ==
  /\ gets'[d][p] = gets[d][p] /\ mainQ'[d][p] = Append(mainQ[d][p], Deleted)
  /\ \E i \in WritesOf(queue[d], p) : queue[d][i].type = "delete"

BlocksRun(d, p) == GotDocument(d, p) \/ UpdateBlock(d, p) \/ DeletedBlock(d, p)

(* One step of the taps, as phone d and pet p see it. *)
LEMMA TapsStep ==
  ASSUME CardsInv, [Next]_vars, NEW d \in Devices, NEW p \in Pets
  PROVE  \/ BlocksKept(d, p) \/ BlocksLost(d, p) \/ BlocksRaised(d, p)
         \/ BlockOfDelete(d, p) \/ BlocksRun(d, p)
         \/ \E op \in CardOps \cap UserOps : Tap(d, p, op)
  <1>0. /\ mainQ \in [Devices -> [Pets -> Seq(Block)]]
        /\ gets \in [Devices -> [Pets -> Seq(Get)]]
        /\ queue \in [Devices -> Seq(Mutation)] /\ results \in [Devices -> Seq(Result)]
        /\ Len(results[d]) <= Len(queue[d])
    BY DEF CardsInv, TypeOK, StoreTypeOK, AnswersMatchQueue
  <1>1. ASSUME UNCHANGED <<gets, mainQ>> PROVE BlocksKept(d, p)
    BY <1>1 DEF BlocksKept
  <1>2. ASSUME NEW e \in Devices, NEW q \in Pets, NEW op, Tap(e, q, op), e # d \/ q # p
        PROVE  BlocksKept(d, p)
    <2>1. PICK r, s : /\ mainQ' = mainQ \/ mainQ' = [mainQ EXCEPT ![e][q] = r]
                      /\ gets' = gets \/ gets' = [gets EXCEPT ![e][q] = s]
      BY <1>2 DEF Tap
    <2>2. mainQ'[d][p] = mainQ[d][p] /\ gets'[d][p] = gets[d][p]
      <3>1. CASE e # d
        BY <1>0, <2>1, <3>1
      <3>2. CASE e = d /\ q # p
        BY <1>0, <2>1, <3>2
      <3> QED BY <1>2, <3>1, <3>2
    <2> QED BY <2>2 DEF BlocksKept
  <1>3. ASSUME NEW e \in Devices, User(e)
        PROVE  BlocksKept(d, p) \/ \E op \in CardOps \cap UserOps : Tap(d, p, op)
    <2>1. \/ UNCHANGED <<gets, mainQ>>
          \/ \E q \in Pets : \E op \in CardOps \cap UserOps : Tap(e, q, op)
      BY <1>3 DEF User, Save, Delete
    <2> QED BY <1>1, <1>2, <2>1
  <1>4. ASSUME NEW e \in Devices, MainQueue(e) PROVE BlocksKept(d, p) \/ BlocksRun(d, p)
    <2>1. CASE FetchData(e)
      BY <1>1, <2>1 DEF FetchData
    <2>2. ASSUME NEW q \in Pets, BlocksRun(e, q), e # d \/ q # p
          PROVE  BlocksKept(d, p)
      <3>1. PICK r : mainQ' = [mainQ EXCEPT ![e][q] = r] /\ gets' = gets
        BY <2>2 DEF BlocksRun, GotDocument, UpdateBlock, DeletedBlock
      <3>2. mainQ'[d][p] = mainQ[d][p]
        <4>1. CASE e # d
          BY <1>0, <3>1, <4>1
        <4>2. CASE e = d /\ q # p
          BY <1>0, <3>1, <4>2
        <4> QED BY <2>2, <4>1, <4>2
      <3> QED BY <3>1, <3>2 DEF BlocksKept
    <2> QED BY <1>4, <2>1, <2>2 DEF MainQueue, BlocksRun
  <1>5. ASSUME NEW e \in Devices, NEW S, Raise(e, S)
        PROVE  BlocksKept(d, p) \/ BlocksRaised(d, p)
    <2> DEFINE raised(x) == [i \in DOMAIN gets[e][x] |-> Got(gets[e][x][i], ViewCard(e, x)')]
               r == [x \in Pets |-> IF x \in S THEN mainQ[e][x] \o raised(x) ELSE mainQ[e][x]]
               s == [x \in Pets |-> IF x \in S THEN <<>> ELSE gets[e][x]]
    <2>1. mainQ' = [mainQ EXCEPT ![e] = r] /\ gets' = [gets EXCEPT ![e] = s]
      BY <1>5 DEF Raise
    <2>2. r[p] = (IF p \in S THEN mainQ[e][p] \o raised(p) ELSE mainQ[e][p])
          /\ s[p] = (IF p \in S THEN <<>> ELSE gets[e][p])
      OBVIOUS
    <2> HIDE DEF r, s
    <2>3. CASE e # d
      BY <1>0, <2>1, <2>3 DEF BlocksKept
    <2>4. CASE e = d
      <3>1. mainQ'[d][p] = r[p] /\ gets'[d][p] = s[p]
        BY <1>0, <2>1, <2>4
      <3> QED BY <2>2, <2>4, <3>1 DEF BlocksKept, BlocksRaised
    <2> QED BY <2>3, <2>4
  <1>6. ASSUME NEW e \in Devices, Acknowledged(e)
        PROVE  BlocksKept(d, p) \/ BlockOfDelete(d, p)
    BY <1>6, CompletionStep DEF BlocksKept, BlockOfDelete
  <1>7. ASSUME NEW e \in Devices, Relaunch(e) PROVE BlocksKept(d, p) \/ BlocksLost(d, p)
    <2>1. /\ mainQ' = [mainQ EXCEPT ![e] = [x \in Pets |-> <<>>]]
          /\ gets' = [gets EXCEPT ![e] = [x \in Pets |-> <<>>]]
      BY <1>7 DEF Relaunch
    <2> QED BY <1>0, <2>1 DEF BlocksKept, BlocksLost
  <1>8. ASSUME NEW e \in Devices, Streams(e) \/ Faults(e)
        PROVE  \/ UNCHANGED <<gets, mainQ>> \/ Acknowledged(e) \/ Relaunch(e)
               \/ \E S : Raise(e, S)
    BY <1>8 DEF Streams, Faults, Rejected, SnapshotSent, SnapshotReceived,
       WatchStreamLost, appVars
  <1>9. CASE UNCHANGED vars
    BY <1>1, <1>9 DEF vars, appVars
  <1> QED BY <1>1, <1>3, <1>4, <1>5, <1>6, <1>7, <1>8, <1>9 DEF Next

(* Its history changes with its taps and its updates. *)
LEMMA HistoryStep ==
  ASSUME TypeOK, [Next]_vars, NEW p \in Pets
  PROVE  \/ hist'[p] = hist[p]
         \/ \E d \in Devices : \/ UpdateBlock(d, p)
                               \/ \E op \in CardOps \cap UserOps : Tap(d, p, op)
  <1>0. hist \in [Pets -> History]
    BY DEF TypeOK
  <1>1. ASSUME NEW d \in Devices, NEW q \in Pets, q # p,
               UpdateBlock(d, q) \/ \E op \in CardOps \cap UserOps : Tap(d, q, op)
        PROVE  hist'[p] = hist[p]
    <2>1. PICK op : RecordUpdate(q, op) \/ RecordTap(d, q, op)
      BY <1>1 DEF UpdateBlock, Tap
    <2> QED BY <1>0, <1>1, <2>1 DEF RecordUpdate, RecordTap
  <1>2. \/ UNCHANGED hist
        \/ \E d \in Devices, q \in Pets :
             UpdateBlock(d, q) \/ \E op \in CardOps \cap UserOps : Tap(d, q, op)
    <2>1. ASSUME NEW d \in Devices, User(d)
          PROVE  UNCHANGED hist \/ \E q \in Pets : \E op \in CardOps \cap UserOps : Tap(d, q, op)
      BY <2>1 DEF User, Save, Delete
    <2>2. ASSUME NEW d \in Devices, MainQueue(d)
          PROVE  UNCHANGED hist \/ \E q \in Pets : UpdateBlock(d, q)
      BY <2>2 DEF MainQueue, GotDocument, DeletedBlock, FetchData
    <2>3. ASSUME NEW d \in Devices, Streams(d) \/ Faults(d)
          PROVE  UNCHANGED hist
      BY <2>3 DEF Streams, Faults, Acknowledged, Rejected, SnapshotSent,
         SnapshotReceived, WatchStreamLost, Relaunch, appVars
    <2>4. CASE UNCHANGED vars
      BY <2>4 DEF vars, appVars
    <2> QED BY <2>1, <2>2, <2>3, <2>4 DEF Next
  <1> QED BY <1>1, <1>2

(* Two writes that make the same queue are one. *)
LEMMA SameWrite ==
  ASSUME StoreTypeOK, NEW d \in Devices, NEW e \in Devices,
         NEW m \in Mutation, NEW w \in Mutation, WriteMutations(d, m), WriteMutations(e, w)
  PROVE  d = e /\ m = w
  <1>0. queue \in [Devices -> Seq(Mutation)] /\ queue[d] \in Seq(Mutation)
    BY DEF StoreTypeOK
  <1>1. queue'[d] = Append(queue[d], m) /\ queue' = [queue EXCEPT ![e] = Append(@, w)]
    BY <1>0 DEF WriteMutations
  <1>2. queue'[d] # queue[d]
    <2>1. Len(queue'[d]) = Len(queue[d]) + 1 /\ Len(queue[d]) \in Nat
      BY <1>0, <1>1
    <2> QED BY <2>1
  <1>3. d = e
    BY <1>0, <1>1, <1>2
  <1>4. Append(queue[d], m) = Append(queue[d], w)
    BY <1>0, <1>1, <1>3
  <1>5. m = w
    <2>1. /\ Append(queue[d], m)[Len(queue[d]) + 1] = m
          /\ Append(queue[d], w)[Len(queue[d]) + 1] = w
      BY <1>0
    <2> QED BY <1>4, <2>1
  <1> QED BY <1>3, <1>5

(* Which of the app's steps writes. *)
LEMMA WhoWrites ==
  ASSUME CardsInv, [Next]_vars, NEW d \in Devices, NEW m \in Mutation, WriteMutations(d, m)
  PROVE  \/ Save(d, m.pet)
         \/ Delete(d, m.pet) /\ "delete" \in UserOps
         \/ UpdateBlock(d, m.pet) /\ m = UpdateOf(d, m.pet)
  <1>0. /\ StoreTypeOK /\ TypeOK /\ queue[d] \in Seq(Mutation)
        /\ queue \in [Devices -> Seq(Mutation)]
        /\ results \in [Devices -> Seq(Result)]
    BY DEF CardsInv, TypeOK, StoreTypeOK
  <1>1. Len(queue'[d]) = Len(queue[d]) + 1 /\ Len(queue[d]) \in Nat
    BY <1>0 DEF WriteMutations
  <1>2. ~UNCHANGED queue
    BY <1>1
  <1>3. ASSUME NEW e \in Devices, NEW q \in Pets, Save(e, q) PROVE Save(d, m.pet)
    <2>1. WriteMutations(e, SetData(q, NewPet)) /\ SetData(q, NewPet) \in Mutation
      BY <1>3, AppWritesType DEF Save, Write
    <2>2. d = e /\ m = SetData(q, NewPet)
      BY <1>0, <2>1, SameWrite
    <2> QED BY <1>3, <2>2 DEF SetData
  <1>4. ASSUME NEW e \in Devices, NEW q \in Pets, Delete(e, q) PROVE Delete(d, m.pet)
    <2>1. WriteMutations(e, DeleteDocument(q)) /\ DeleteDocument(q) \in Mutation
      BY <1>4, AppWritesType DEF Delete, Write
    <2>2. d = e /\ m = DeleteDocument(q)
      BY <1>0, <2>1, SameWrite
    <2> QED BY <1>4, <2>2 DEF DeleteDocument
  <1>5. ASSUME NEW e \in Devices, NEW q \in Pets, UpdateBlock(e, q)
        PROVE  UpdateBlock(d, m.pet) /\ m = UpdateOf(d, m.pet)
    <2>1. /\ WriteMutations(e, UpdateOf(e, q)) /\ UpdateOf(e, q) \in Mutation
          /\ UpdateOf(e, q).pet = q
      BY <1>0, <1>5, UpdateOfType
    <2>2. d = e /\ m = UpdateOf(e, q)
      BY <1>0, <2>1, SameWrite
    <2> QED BY <1>5, <2>1, <2>2
  <1>6. ASSUME NEW e \in Devices, PopWrite(e) PROVE FALSE
    <2>1. queue'[d] = queue[d] \/ queue'[d] = Tail(queue[d])
      BY <1>0, <1>6 DEF PopWrite
    <2>2. CASE queue'[d] = Tail(queue[d])
      <3>1. CASE queue[d] = <<>>
        BY <1>1, <2>2, <3>1
      <3>2. CASE queue[d] # <<>>
        <4>1. Len(queue'[d]) = Len(queue[d]) - 1
          BY <1>0, <2>2, <3>2
        <4> QED BY <1>1, <4>1
      <3> QED BY <3>1, <3>2
    <2> QED BY <1>1, <2>1, <2>2
  <1>7. ASSUME NEW e \in Devices, User(e)
        PROVE  UNCHANGED queue \/ \E q \in Pets : Save(e, q) \/ (Delete(e, q) /\ "delete" \in UserOps)
    BY <1>7 DEF User, Tap, storeVars
  <1>8. ASSUME NEW e \in Devices, MainQueue(e)
        PROVE  UNCHANGED queue \/ \E q \in Pets : UpdateBlock(e, q)
    BY <1>8 DEF MainQueue, GotDocument, DeletedBlock, FetchData, storeVars
  <1>9. ASSUME NEW e \in Devices, Streams(e) \/ Faults(e)
        PROVE  UNCHANGED queue \/ PopWrite(e)
    BY <1>9 DEF Streams, Faults, ServerHandlesWrite, Acknowledged, Rejected,
       HandleSuccessfulWrite, HandleRejectedWrite, SnapshotSent, SendSnapshot,
       SnapshotReceived, ApplyRemoteEvent, OnWriteStreamClose, WatchStreamLost,
       OnWatchStreamClose, Relaunch, Restart
  <1>10. CASE UNCHANGED vars
    BY <1>2, <1>10 DEF vars, storeVars
  <1> QED BY <1>2, <1>3, <1>4, <1>5, <1>6, <1>7, <1>8, <1>9, <1>10 DEF Next

---------------------------------------------------------------------------------
(***************************************************************************)
(* Nothing is about the other fields.                                      *)
(***************************************************************************)
LEMMA PlainDocumentsStep ==
  ASSUME NEW op \in CardOps, CacheInv, [StoreNext]_storeVars, NEW p \in Pets,
         PlainDocuments(op, p), PlainWrites(op, p), UnheardIsUntouched(p)
  PROVE  PlainDocuments(op, p)'
  <1>0. /\ StoreTypeOK /\ AnswersMatchQueue /\ commit \in Nat /\ server[p] \in MaybeDocument
        /\ Exists(server[p]) /\ OnlyFor(op, server[p].data) /\ server[p].version > 0
    BY DEF CacheInv, StoreTypeOK, PlainDocuments, Plain, Absent, NoDocument, Exists
  <1>1. ASSUME NEW e \in Devices, NEW i \in WritesOf(queue[e], p)
        PROVE  /\ queue[e][i] \in Mutation /\ queue[e][i].type = "patch"
               /\ queue[e][i].mask = {FieldOf(op)} /\ OnlyFor(op, queue[e][i].data)
    <2>1. queue[e] \in Seq(Mutation) /\ i \in DOMAIN queue[e]
      BY <1>0 DEF StoreTypeOK, WritesOf
    <2>2. queue[e][i] \in Mutation
      BY <2>1
    <2> QED BY <2>2 DEF PlainWrites
  <1>2. Plain(op, server'[p]) /\ Exists(server'[p])
    <2>1. server'[p].version > 0
      <3>1. /\ commit' \in Nat
            /\ \/ server'[p] = server[p]
               \/ server'[p].version = commit' /\ commit' > commit
        BY ServerStep
      <3> QED BY <1>0, <3>1
    <2>2. ASSUME NEW e \in Devices, NEW i \in WritesOf(queue[e], p), ServerTakes(p, e, i)
          PROVE  Exists(server'[p]) /\ OnlyFor(op, server'[p].data)
      <3> PICK v \in Nat : server'[p] = Mutated(queue[e][i], server[p], v)
        BY <2>2 DEF ServerTakes
      <3>1. server'[p].data = queue[e][i].data /\ Exists(server'[p])
        BY <1>0, <1>1, PlainPatch
      <3> QED BY <1>1, <3>1 DEF OnlyFor
    <2> QED BY <1>0, <2>1, <2>2, ServerTakesStep DEF Plain
  <1>3. ASSUME NEW d \in Devices PROVE Plain(op, cache'[d][p])
    <2>1. Plain(op, cache[d][p]) /\ Plain(op, watch[d].docs[p])
      BY DEF PlainDocuments
    <2>2. CASE WritePopped(d, p)
      <3> DEFINE m == Head(queue[d])
                 r == Head(results[d])
      <3>1. cache'[d][p] = cache[d][p] \/ (m.pet = p /\ cache'[d][p] = ApplyBatchResult(m, cache[d][p], r.version))
        BY <2>2 DEF WritePopped
      <3>2. CASE m.pet = p /\ cache'[d][p] = ApplyBatchResult(m, cache[d][p], r.version)
        <4>1. /\ m = queue[d][1] /\ 1 \in DOMAIN queue[d] /\ r \in Result
          <5>1. /\ results[d] \in Seq(Result) /\ results[d] # <<>> /\ queue[d] \in Seq(Mutation)
                /\ Len(results[d]) <= Len(queue[d])
            BY <1>0, <2>2 DEF WritePopped, StoreTypeOK, AnswersMatchQueue
          <5>2. queue[d] # <<>>
            BY <5>1
          <5> QED BY <5>1, <5>2
        <4>2. 1 \in WritesOf(queue[d], p)
          BY <3>2, <4>1 DEF WritesOf
        <4>3. Exists(cache[d][p]) /\ OnlyFor(op, cache[d][p].data) /\ cache[d][p] \in MaybeDocument
          <5>1. Exists(cache[d][p])
            BY <4>2 DEF UnheardIsUntouched, Untouched
          <5> QED BY <1>0, <2>1, <5>1 DEF Plain, Absent, NoDocument, Exists, StoreTypeOK
        <4>4. cache[d][p].version \in Nat /\ r.version \in Nat
          BY <4>1, <4>3 DEF MaybeDocument, Result
        <4> DEFINE new == ApplyToRemoteDocument(m, cache[d][p], r.version)
        <4>5. new.data = m.data /\ Exists(new) /\ new.version = r.version /\ OnlyFor(op, m.data)
          <5>1. /\ m \in Mutation /\ m.type = "patch"
                /\ m.mask = {FieldOf(op)} /\ OnlyFor(op, m.data)
            BY <1>1, <4>1, <4>2
          <5> HIDE DEF m, r
          <5> QED BY <4>3, <4>4, <5>1, PlainPatch
        <4>6. cache'[d][p] = cache[d][p] \/ (cache[d][p].version < r.version /\ cache'[d][p] = new)
          BY <3>2 DEF ApplyBatchResult
        <4>7. OnlyFor(op, new.data)
          <5> HIDE DEF new, m
          <5> QED BY <4>5
        <4> HIDE DEF new, m, r
        <4>8. CASE cache[d][p].version < r.version /\ cache'[d][p] = new
          <5>1. new.version > 0
            BY <4>4, <4>5, <4>8
          <5> QED BY <4>5, <4>7, <4>8, <5>1 DEF Plain
        <4> QED BY <2>1, <4>6, <4>8
      <3> QED BY <2>1, <3>1, <3>2
    <2>3. CASE WatchHeard(d, p)
      BY <2>1, <2>3 DEF WatchHeard, ApplyUpdate
    <2>4. cache'[d][p] = cache[d][p] \/ WatchHeard(d, p) \/ WritePopped(d, p)
      BY <1>0, PhoneStep DEF StoreKept, WriteQueued, WriteAnswered, AnswersLost
    <2> QED BY <2>1, <2>2, <2>3, <2>4
  <1>4. ASSUME NEW d \in Devices PROVE Plain(op, watch'[d].docs[p])
    <2>1. watch'[d].docs[p] \in {watch[d].docs[p], server[p], Absent}
      BY <1>0, WatchOrigin
    <2>2. Plain(op, Absent)
      BY DEF Plain
    <2> QED BY <2>1, <2>2 DEF PlainDocuments
  <1> QED BY <1>2, <1>3, <1>4 DEF PlainDocuments

(* The answers to plain writes are good. *)
LEMMA AnswersStayGood ==
  ASSUME NEW op \in CardOps, CacheInv, [StoreNext]_storeVars, NEW p \in Pets,
         PlainDocuments(op, p), PlainWrites(op, p),
         NEW d \in Devices, NEW i \in WritesOf(queue'[d], p), i \in DOMAIN results'[d]
  PROVE  results'[d][i].ok
  <1>0. /\ queue[d] \in Seq(Mutation) /\ results[d] \in Seq(Result)
        /\ Len(results[d]) <= Len(queue[d]) /\ StoreTypeOK /\ AnswersMatchQueue
        /\ Len(results[d]) \in Nat /\ Len(queue[d]) \in Nat
    BY DEF CacheInv, StoreTypeOK, AnswersMatchQueue
  <1>1. ASSUME i \in DOMAIN queue[d], queue'[d][i] = queue[d][i], i \in DOMAIN results[d],
               results'[d][i] = results[d][i]
        PROVE  results'[d][i].ok
    <2>1. i \in WritesOf(queue[d], p)
      BY <1>1 DEF WritesOf
    <2> QED BY <1>1, <2>1 DEF PlainWrites
  <1>2. CASE StoreKept(d, p) \/ WatchHeard(d, p)
    <2>1. queue'[d] = queue[d] /\ results'[d] = results[d]
      BY <1>2 DEF StoreKept, WatchHeard
    <2> QED BY <1>1, <2>1 DEF WritesOf
  <1>3. ASSUME NEW m, WriteQueued(d, p, m) PROVE results'[d][i].ok
    <2>1. queue'[d] = Append(queue[d], m) /\ results'[d] = results[d]
      BY <1>3 DEF WriteQueued
    <2>2. i \in DOMAIN queue[d] /\ i \in DOMAIN results[d]
      BY <1>0, <2>1
    <2> QED BY <1>0, <1>1, <2>1, <2>2
  <1>4. CASE WriteAnswered(d, p)
    <2> PICK k : k = Len(results[d]) + 1
      OBVIOUS
    <2> DEFINE m == queue[d][k]
    <2>1. queue'[d] = queue[d] /\ k \in DOMAIN queue[d]
      BY <1>4 DEF WriteAnswered
    <2>2. PICK r : /\ results'[d] = Append(results[d], r)
                   /\ m.pet = p => r.ok \/ ~IsValidFor(m, server[p])
      <3> HIDE DEF m
      <3> DEFINE answer(ok, v) == results'[d] = Append(results[d], [ok |-> ok, version |-> v])
      <3>1. \/ m.pet # p /\ \E ok \in BOOLEAN, v \in Nat : answer(ok, v)
            \/ ~IsValidFor(m, server[p]) /\ answer(FALSE, 0)
            \/ \E v : answer(TRUE, v)
        BY <1>4 DEF WriteAnswered, m
      <3>2. ASSUME NEW ok, NEW v, answer(ok, v)
            PROVE  \E r : results'[d] = Append(results[d], r) /\ r.ok = ok
        <4>1. [ok |-> ok, version |-> v].ok = ok
          OBVIOUS
        <4> QED BY <3>2, <4>1
      <3> HIDE DEF answer
      <3> QED BY <3>1, <3>2
    <2>3. CASE i = k
      <3>1. m.pet = p /\ IsValidFor(m, server[p])
        BY <2>1, <2>3 DEF WritesOf, PlainDocuments, IsValidFor
      <3>2. results'[d][i] = r
        BY <1>0, <2>2, <2>3
      <3> QED BY <2>2, <3>1, <3>2
    <2>4. CASE i # k
      <3>1. i \in DOMAIN results[d] /\ results'[d][i] = results[d][i]
        BY <1>0, <2>2, <2>4
      <3> QED BY <1>1, <2>1, <3>1 DEF WritesOf
    <2> QED BY <2>3, <2>4
  <1>5. CASE WritePopped(d, p)
    <2>1. /\ queue'[d] = Tail(queue[d]) /\ results'[d] = Tail(results[d]) /\ results[d] # <<>>
      BY <1>5 DEF WritePopped
    <2>2. i \in DOMAIN queue'[d] /\ queue'[d][i].pet = p
      BY DEF WritesOf
    <2>3. queue[d] # <<>>
      BY <1>0, <2>1
    <2>4. i + 1 \in DOMAIN queue[d] /\ queue'[d][i] = queue[d][i + 1]
      BY <1>0, <2>1, <2>2, <2>3
    <2>5. i + 1 \in DOMAIN results[d] /\ results'[d][i] = results[d][i + 1]
      BY <1>0, <2>1
    <2>6. i + 1 \in WritesOf(queue[d], p)
      BY <2>2, <2>4 DEF WritesOf
    <2> QED BY <2>5, <2>6 DEF PlainWrites
  <1>6. CASE AnswersLost(d, p)
    <2>1. DOMAIN results'[d] = {}
      BY <1>6 DEF AnswersLost
    <2> QED BY <2>1
  <1> QED BY <1>0, <1>2, <1>3, <1>4, <1>5, <1>6, PhoneStep

(* No write of another field is queued, and none is rejected. *)
LEMMA PlainWritesStep ==
  ASSUME NEW op \in CardOps, "delete" \notin UserOps, CardsInv, CacheInv, [Next]_vars,
         NEW p \in Pets, PlainDocuments(op, p), PlainWrites(op, p), PlainBlocks(op, p)
  PROVE  PlainWrites(op, p)'
  <1> SUFFICES ASSUME NEW d \in Devices, NEW i \in WritesOf(queue'[d], p)
               PROVE  /\ queue'[d][i].type = "patch" /\ queue'[d][i].mask = {FieldOf(op)}
                      /\ OnlyFor(op, queue[d][i].data)'
                      /\ i \in DOMAIN results'[d] => results'[d][i].ok
    BY DEF PlainWrites
  <1>0. TypeOK /\ [StoreNext]_storeVars
    BY StepIsStoreStep DEF CardsInv
  <1>1. i \in DOMAIN results'[d] => results'[d][i].ok
    BY <1>0, AnswersStayGood
  <1>2. server[p].version # 0
    <2>1. server[p].version > 0 /\ server[p].version \in Nat
      BY VersionsAreNat DEF CacheInv, PlainDocuments, Plain, Absent, NoDocument, Exists
    <2> QED BY <2>1
  <1>3. \/ \E j \in WritesOf(queue[d], p) : queue'[d][i] = queue[d][j]
        \/ UpdateBlock(d, p) /\ queue'[d][i] = UpdateOf(d, p)
    BY <1>2, WritesStep
  <1>4. CASE UpdateBlock(d, p) /\ queue'[d][i] = UpdateOf(d, p)
    <2> DEFINE b == Head(mainQ[d][p])
    <2>1. /\ b = mainQ[d][p][1] /\ 1 \in DOMAIN mainQ[d][p]
          /\ queue'[d][i].type = "patch" /\ queue'[d][i].mask = {FieldOf(b.op)}
          /\ queue'[d][i].data = b.card.data
      BY <1>0, <1>4, UpdateOfType
    <2>2. b.op = op /\ OnlyFor(op, b.card.data)
      BY <2>1 DEF PlainBlocks
    <2> HIDE DEF b
    <2> QED BY <1>1, <2>1, <2>2 DEF OnlyFor
  <1>5. CASE \E j \in WritesOf(queue[d], p) : queue'[d][i] = queue[d][j]
    BY <1>1, <1>5 DEF PlainWrites, OnlyFor
  <1> QED BY <1>3, <1>4, <1>5

(* The local view of plain writes is plain. *)
LEMMA PlainView ==
  ASSUME NEW op \in CardOps, NEW q \in Seq(Mutation), NEW cached \in MaybeDocument,
         NEW p, Plain(op, cached),
         \A i \in WritesOf(q, p) : q[i].type = "patch" /\ q[i].mask = {FieldOf(op)}
  PROVE  OnlyFor(op, Card(GetDocument(q, cached, p)).data)
  <1> SUFFICES ASSUME NEW g \in FieldNames \ {FieldOf(op)}
               PROVE  Card(GetDocument(q, cached, p)).data[g] = NewPet[g]
    BY DEF OnlyFor
  <1>1. cached.data[g] = NewPet[g]
    BY DEF Plain, OnlyFor, Absent, NoDocument
  <1> QED BY <1>1, UntouchedView

(* No tap of another field is in progress, and none reads a pet that is not there. *)
LEMMA PlainBlocksStep ==
  ASSUME NEW op \in CardOps, UserOps \subseteq {op, "save"}, CardsInv, [Next]_vars,
         NEW p \in Pets, PlainBlocks(op, p), PlainWrites(op, p),
         PlainDocuments(op, p)', PlainWrites(op, p)'
  PROVE  PlainBlocks(op, p)'
  <1> SUFFICES ASSUME NEW d \in Devices
               PROVE  /\ \A i \in DOMAIN gets'[d][p] : gets'[d][p][i].op = op
                      /\ \A i \in DOMAIN mainQ'[d][p] :
                           /\ mainQ'[d][p][i].kind # "deleted" /\ mainQ'[d][p][i].op = op
                           /\ OnlyFor(op, mainQ[d][p][i].card.data)'
    BY DEF PlainBlocks
  <1>0. gets[d][p] \in Seq(Get) /\ mainQ[d][p] \in Seq(Block)
    BY DEF CardsInv, TypeOK
  <1>1. ASSUME NEW i \in DOMAIN gets'[d][p]
        PROVE  gets'[d][p][i].op = op
    <2>1. CASE gets'[d][p] = gets[d][p]
      BY <2>1 DEF PlainBlocks
    <2>2. CASE gets'[d][p] = <<>>
      <3>1. DOMAIN gets'[d][p] = {}
        BY <2>2
      <3> QED BY <3>1
    <2>3. CASE ReadAdded(d, p)
      <3> PICK g \in Get : g.op \in UserOps /\ gets'[d][p] = Append(gets[d][p], g)
        BY <2>3 DEF ReadAdded
      <3>1. gets'[d][p][i] = g \/ (i \in DOMAIN gets[d][p] /\ gets'[d][p][i] = gets[d][p][i])
        BY <1>0
      <3>2. g.op = op
        BY DEF Get, CardOps
      <3> QED BY <3>1, <3>2 DEF PlainBlocks
    <2> QED BY <2>1, <2>2, <2>3, ReadsStep
           DEF CardsInv, ReadsChange, ReadsKept, ReadsCovered, ReadsGone
  <1>2. ASSUME NEW i \in DOMAIN mainQ'[d][p]
        PROVE  /\ mainQ'[d][p][i].kind # "deleted" /\ mainQ'[d][p][i].op = op
               /\ OnlyFor(op, mainQ[d][p][i].card.data)'
    <2> DEFINE b == mainQ'[d][p][i]
               Good(c) == /\ c.kind # "deleted" /\ c.op = op
                          /\ \A g \in FieldNames \ {FieldOf(op)} : c.card.data[g] = NewPet[g]
    <2>1. ASSUME NEW g \in Get, b = Got(g, ViewCard(d, p)'),
                 g.op \in UserOps \/ \E j \in DOMAIN gets[d][p] : g = gets[d][p][j]
          PROVE  Good(b)
      <3>1. g.op = op
        BY <2>1 DEF Get, CardOps, PlainBlocks
      <3>2. OnlyFor(op, ViewCard(d, p).data)'
        <4>1. queue'[d] \in Seq(Mutation) /\ cache'[d][p] \in MaybeDocument
          BY CardsInvStep DEF CardsInv, TypeOK, StoreTypeOK
        <4>2. Plain(op, cache[d][p])'
          BY DEF PlainDocuments
        <4>3. \A k \in WritesOf(queue'[d], p) :
                queue'[d][k].type = "patch" /\ queue'[d][k].mask = {FieldOf(op)}
          BY DEF PlainWrites
        <4>4. Plain(op, cache'[d][p])
          BY <4>2 DEF Plain, OnlyFor
        <4>5. OnlyFor(op, Card(GetDocument(queue'[d], cache'[d][p], p)).data)
          BY <4>1, <4>3, <4>4, PlainView
        <4> QED BY <4>5 DEF ViewCard, View, OnlyFor
      <3>3. b.card = ViewCard(d, p)' /\ b.kind = "got" /\ b.op = op
        BY <2>1, <3>1 DEF Got
      <3> HIDE DEF b
      <3> QED BY <3>2, <3>3 DEF OnlyFor
    <2>2. ASSUME NEW j \in DOMAIN mainQ[d][p], b = UpdateAfter(mainQ[d][p][j])
          PROVE  Good(b)
      <3>1. mainQ[d][p][j] \in Block /\ mainQ[d][p][j].op = op
        BY <1>0 DEF PlainBlocks
      <3>2. b.kind = "update" /\ b.op = op
            /\ b.card.data = NewValue(op, mainQ[d][p][j].card.data)
        BY <2>2, <3>1, UpdateAfterType
      <3> HIDE DEF b
      <3> QED BY <3>2, NewValueOnly DEF OnlyFor
    <2>3. ASSUME NEW j \in DOMAIN mainQ[d][p], b = mainQ[d][p][j] PROVE Good(b)
      BY <2>3 DEF PlainBlocks, OnlyFor
    <2>4. ~\E j \in WritesOf(queue[d], p) : queue[d][j].type = "delete"
      BY DEF PlainWrites
    <2>5. Good(b)
      BY <2>1, <2>2, <2>3, <2>4, BlocksStep
    <2> QED BY <2>5 DEF OnlyFor
  <1> QED BY <1>1, <1>2

(* No tap of another field is counted. *)
LEMMA PlainTallyStep ==
  ASSUME NEW op \in CardOps, CardsInv, [Next]_vars, NEW p \in Pets,
         PlainBlocks(op, p), PlainTally(op, p)
  PROVE  PlainTally(op, p)'
  <1> SUFFICES ASSUME NEW g \in FieldNames \ {FieldOf(op)}, Tally(p, g)' # Tally(p, g)
               PROVE  FALSE
    BY DEF PlainTally
  <1>0. TypeOK
    BY DEF CardsInv
  <1> PICK d \in Devices : UpdateBlock(d, p)
    BY <1>0, TallyStep
  <1>1. Tally(p, g)' = Tally(p, g) + Ahead(Head(mainQ[d][p]), g) /\ Tally(p, g) \in Nat
    BY <1>0, TallyStep
  <1>2. Head(mainQ[d][p]).op = op
    BY <1>0, UpdateOfType DEF PlainBlocks
  <1>3. Ahead(Head(mainQ[d][p]), g) = 0
    BY <1>2 DEF Ahead
  <1> QED BY <1>1, <1>3

(* A phone does not unlearn a pet. *)
LEMMA CacheKeepsVersion ==
  ASSUME CacheInv, CacheInv', [StoreNext]_storeVars, NEW d \in Devices, NEW p \in Pets
  PROVE  cache'[d][p].version >= cache[d][p].version
  <1>1. /\ cache[d][p].version \in Nat /\ cache'[d][p].version \in Nat
        /\ watch[d].docs[p].version \in Nat
    BY VersionsAreNat DEF CacheInv, StoreTypeOK, MaybeDocument
  <1> QED BY <1>1, CacheStep DEF ApplyUpdate

(* A phone that does not know the pet does nothing to it. *)
LEMMA UnheardStep ==
  ASSUME NEW op \in CardOps, UserOps \subseteq {op, "save"}, CardsInv, CacheInv, CacheInv',
         [Next]_vars, NEW p \in Pets, PlainDocuments(op, p), PlainWrites(op, p),
         UnheardIsUntouched(p), PlainDocuments(op, p)'
  PROVE  UnheardIsUntouched(p)'
  <1>0. TypeOK /\ [StoreNext]_storeVars /\ StoreTypeOK
    BY StepIsStoreStep DEF CardsInv, TypeOK
  <1> SUFFICES ASSUME NEW d \in Devices, ~Exists(cache'[d][p])
               PROVE  ~shown'[d][p].exists /\ WritesOf(queue'[d], p) = {}
                      /\ gets'[d][p] = <<>> /\ mainQ'[d][p] = <<>>
    BY DEF UnheardIsUntouched, Untouched, InProgress
  <1>1. ~Exists(cache[d][p])
    <2>1. cache'[d][p].version = 0
      BY DEF PlainDocuments, Plain, Absent, NoDocument
    <2>2. cache'[d][p].version >= cache[d][p].version
      BY <1>0, CacheKeepsVersion
    <2>3. cache[d][p].version \in Nat
      BY VersionsAreNat DEF CacheInv
    <2>4. ~(cache[d][p].version > 0)
      BY <2>1, <2>2, <2>3
    <2> QED BY <2>4 DEF PlainDocuments, Plain, Absent, NoDocument, Exists
  <1>2. /\ ~shown[d][p].exists /\ WritesOf(queue[d], p) = {}
        /\ gets[d][p] = <<>> /\ mainQ[d][p] = <<>>
    BY <1>1 DEF UnheardIsUntouched, Untouched, InProgress
  <1>3. WritesOf(queue'[d], p) = {}
    <2>1. server[p].version # 0
      <3>1. server[p].version > 0 /\ server[p].version \in Nat
        BY VersionsAreNat DEF CacheInv, PlainDocuments, Plain, Absent, NoDocument, Exists
      <3> QED BY <3>1
    <2>2. ~UpdateBlock(d, p)
      BY <1>2 DEF UpdateBlock, FrontIs
    <2>3. "delete" \notin UserOps
      BY DEF CardOps
    <2> QED BY <1>2, <2>1, <2>2, <2>3, WritesStep
  <1>4. gets'[d][p] = <<>> /\ mainQ'[d][p] = <<>>
    <2>1. CASE BlocksRaised(d, p)
      <3>1. DOMAIN gets[d][p] = {}
        BY <1>2
      <3>2. [i \in DOMAIN gets[d][p] |-> Got(gets[d][p][i], ViewCard(d, p)')] = <<>>
        BY <3>1
      <3> QED BY <1>2, <2>1, <3>2 DEF BlocksRaised
    <2>2. ~BlocksRun(d, p) /\ ~BlockOfDelete(d, p) /\ ~\E o \in CardOps \cap UserOps : Tap(d, p, o)
      BY <1>2 DEF BlocksRun, GotDocument, UpdateBlock, DeletedBlock, FrontIs, BlockOfDelete, Tap
    <2> QED BY <1>2, <2>1, <2>2, TapsStep DEF BlocksKept, BlocksLost
  <1>5. ~shown'[d][p].exists
    <2>0. shown \in [Devices -> [Pets -> Cards]]
      BY <1>0 DEF TypeOK
    <2>1. CASE UNCHANGED shown
      BY <1>2, <2>1
    <2>2. ASSUME NEW e \in Devices, Relaunch(e) PROVE ~shown'[d][p].exists
      <3>1. shown' = [shown EXCEPT ![e] = [x \in Pets |-> Card(Absent)]]
        BY <2>2 DEF Relaunch
      <3>2. ~Card(Absent).exists
        BY DEF Card, Absent, NoDocument, Exists
      <3>3. shown'[d][p] = shown[d][p] \/ shown'[d][p] = Card(Absent)
        BY <2>0, <3>1
      <3> QED BY <1>2, <3>2, <3>3
    <2>3. ASSUME NEW e \in Devices, FetchData(e) PROVE ~shown'[d][p].exists
      <3>1. shown' = [shown EXCEPT ![e] = [x \in Pets |-> ViewCard(e, x)]]
        BY <2>3 DEF FetchData
      <3>2. shown'[d][p] = shown[d][p] \/ shown'[d][p] = ViewCard(d, p)
        BY <2>0, <3>1
      <3>3. ~ViewCard(d, p).exists
        <4>1. queue[d] \in Seq(Mutation) /\ cache[d][p] \in MaybeDocument
          BY <1>0 DEF StoreTypeOK
        <4>2. ~Exists(View(d, p))
          BY <1>1, <1>2, <4>1, NothingUnderPatches DEF View
        <4> QED BY <4>2 DEF ViewCard, Card
      <3> QED BY <1>2, <3>2, <3>3
    <2>4. UNCHANGED shown \/ \E e \in Devices : Relaunch(e) \/ FetchData(e)
      <3>1. ASSUME NEW e \in Devices, User(e) PROVE UNCHANGED shown
        BY <3>1 DEF User, Tap, Save, Delete
      <3>2. ASSUME NEW e \in Devices, MainQueue(e) PROVE UNCHANGED shown \/ FetchData(e)
        BY <3>2 DEF MainQueue, GotDocument, UpdateBlock, DeletedBlock
      <3>3. ASSUME NEW e \in Devices, Streams(e) \/ Faults(e) PROVE UNCHANGED shown \/ Relaunch(e)
        BY <3>3 DEF Streams, Faults, Acknowledged, Rejected, SnapshotSent,
           SnapshotReceived, WatchStreamLost, appVars
      <3>4. CASE UNCHANGED vars
        BY <3>4 DEF vars, appVars
      <3> QED BY <3>1, <3>2, <3>3, <3>4 DEF Next
    <2> QED BY <2>1, <2>2, <2>3, <2>4
  <1> QED BY <1>3, <1>4, <1>5

(* Nothing but the one field is ever touched. *)
LEMMA PlainStep ==
  ASSUME NEW op \in CardOps, UserOps \subseteq {op, "save"},
         CardsInv, CacheInv, CacheInv', [Next]_vars, PlainInv(op)
  PROVE  PlainInv(op)'
  <1> SUFFICES ASSUME NEW p \in InitPets
               PROVE  /\ PlainDocuments(op, p)' /\ PlainWrites(op, p)' /\ PlainBlocks(op, p)'
                      /\ PlainTally(op, p)' /\ UnheardIsUntouched(p)'
    BY DEF PlainInv
  <1>0. /\ p \in Pets /\ [StoreNext]_storeVars /\ "delete" \notin UserOps
        /\ PlainDocuments(op, p) /\ PlainWrites(op, p) /\ PlainBlocks(op, p)
        /\ PlainTally(op, p) /\ UnheardIsUntouched(p)
    BY FirestoreAssumption, StepIsStoreStep DEF PlainInv, CardsInv, CardOps
  <1>1. PlainDocuments(op, p)'
    BY <1>0, PlainDocumentsStep
  <1>2. PlainWrites(op, p)'
    BY <1>0, PlainWritesStep
  <1>3. PlainBlocks(op, p)'
    BY <1>0, <1>1, <1>2, PlainBlocksStep
  <1>4. PlainTally(op, p)'
    BY <1>0, PlainTallyStep
  <1>5. UnheardIsUntouched(p)'
    BY <1>0, <1>1, UnheardStep
  <1> QED BY <1>1, <1>2, <1>3, <1>4, <1>5

---------------------------------------------------------------------------------
(***************************************************************************)
(* A pet that one phone taps.                                              *)
(***************************************************************************)

(* One more tap of a pet that has only such taps. *)
LEMMA CountOneMore ==
  ASSUME NEW op \in SoloOps, NEW b \in Nat, NEW c \in Nat, NEW t \in Nat,
         FieldOf(op) # "breakfast" => b = 0,
         FieldOf(op) # "dinner" => c = 0,
         FieldOf(op) # "treats" => t = 0
  PROVE  LET one(f) == IF FieldOf(op) = f THEN 1 ELSE 0
         IN NewValue(op, [breakfast |-> b % 2 = 1, dinner |-> c % 2 = 1, treats |-> t])
              = [breakfast |-> (b + one("breakfast")) % 2 = 1,
                 dinner |-> (c + one("dinner")) % 2 = 1, treats |-> t + one("treats")]
  <1> DEFINE data == [breakfast |-> b % 2 = 1, dinner |-> c % 2 = 1, treats |-> t]
             one(f) == IF FieldOf(op) = f THEN 1 ELSE 0
  <1>1. CASE op = "updateBB"
    <2>1. FieldOf(op) = "breakfast" /\ c = 0 /\ t = 0
      BY <1>1 DEF FieldOf
    <2>2. NewValue(op, data) = [breakfast |-> ~(b % 2 = 1), dinner |-> FALSE, treats |-> 0]
      BY <1>1 DEF NewValue, UpdateBB, NewPet
    <2>3. one("breakfast") = 1 /\ one("dinner") = 0 /\ one("treats") = 0
      BY <2>1
    <2>4. ((b + 1) % 2 = 1) = ~(b % 2 = 1) /\ ((c + 0) % 2 = 1) = FALSE /\ t + 0 = 0
      BY <2>1
    <2> HIDE DEF data, one
    <2>5. [breakfast |-> (b + one("breakfast")) % 2 = 1,
           dinner |-> (c + one("dinner")) % 2 = 1, treats |-> t + one("treats")]
            = [breakfast |-> ~(b % 2 = 1), dinner |-> FALSE, treats |-> 0]
      BY <2>3, <2>4
    <2> QED BY <2>2, <2>5 DEF data, one
  <1>2. CASE op = "updateDB"
    <2>1. FieldOf(op) = "dinner" /\ b = 0 /\ t = 0
      BY <1>2 DEF FieldOf
    <2>2. NewValue(op, data) = [breakfast |-> FALSE, dinner |-> ~(c % 2 = 1), treats |-> 0]
      BY <1>2 DEF NewValue, UpdateDB, NewPet
    <2>3. one("breakfast") = 0 /\ one("dinner") = 1 /\ one("treats") = 0
      BY <2>1
    <2>4. ((c + 1) % 2 = 1) = ~(c % 2 = 1) /\ ((b + 0) % 2 = 1) = FALSE /\ t + 0 = 0
      BY <2>1
    <2> HIDE DEF data, one
    <2>5. [breakfast |-> (b + one("breakfast")) % 2 = 1,
           dinner |-> (c + one("dinner")) % 2 = 1, treats |-> t + one("treats")]
            = [breakfast |-> FALSE, dinner |-> ~(c % 2 = 1), treats |-> 0]
      BY <2>3, <2>4
    <2> QED BY <2>2, <2>5 DEF data, one
  <1>3. CASE op = "updateTreatsUp"
    <2>1. FieldOf(op) = "treats" /\ b = 0 /\ c = 0
      BY <1>3 DEF FieldOf
    <2>2. NewValue(op, data) = [breakfast |-> FALSE, dinner |-> FALSE, treats |-> t + 1]
      BY <1>3 DEF NewValue, UpdateTreatsUp, NewPet
    <2>3. one("breakfast") = 0 /\ one("dinner") = 0 /\ one("treats") = 1
      BY <2>1
    <2>4. ((b + 0) % 2 = 1) = FALSE /\ ((c + 0) % 2 = 1) = FALSE
      BY <2>1
    <2> HIDE DEF data, one
    <2>5. [breakfast |-> (b + one("breakfast")) % 2 = 1,
           dinner |-> (c + one("dinner")) % 2 = 1, treats |-> t + one("treats")]
            = [breakfast |-> FALSE, dinner |-> FALSE, treats |-> t + 1]
      BY <2>3, <2>4
    <2> QED BY <2>2, <2>5 DEF data, one
  <1> QED BY <1>1, <1>2, <1>3 DEF SoloOps

(* What the taps of one field amount to. *)
LEMMA CountedType ==
  ASSUME NEW op \in CardOps, TypeOK, NEW p \in Pets, PlainTally(op, p)
  PROVE  AllTapsCounted(p) \in Fields /\ OnlyFor(op, AllTapsCounted(p))
  <1>1. hist[p].tally \in [breakfast : Nat, dinner : Nat, treats : Nat]
    BY DEF TypeOK, History
  <1>2. AllTapsCounted(p) \in Fields
    BY <1>1 DEF AllTapsCounted, Fields
  <1>3. ASSUME NEW g \in FieldNames \ {FieldOf(op)} PROVE AllTapsCounted(p)[g] = NewPet[g]
    <2>1. hist[p].tally[g] = 0
      BY DEF PlainTally, Tally
    <2>2. (0 % 2 = 1) = FALSE
      OBVIOUS
    <2>3. CASE g = "breakfast"
      BY <2>1, <2>2, <2>3 DEF AllTapsCounted, NewPet
    <2>4. CASE g = "dinner"
      BY <2>1, <2>2, <2>4 DEF AllTapsCounted, NewPet
    <2>5. CASE g = "treats"
      BY <2>1, <2>5 DEF AllTapsCounted, NewPet
    <2> QED BY <2>3, <2>4, <2>5 DEF FieldNames
  <1> QED BY <1>2, <1>3 DEF OnlyFor

(* The phone that leads shows it. *)
LEMMA LeaderSees ==
  ASSUME NEW op \in CardOps, StoreTypeOK, NEW d \in Devices, NEW p \in Pets,
         NEW n \in Fields, OnlyFor(op, n), PlainDocuments(op, p), PlainWrites(op, p),
         Exists(cache[d][p]), Leads(d, p, n)
  PROVE  Exists(View(d, p)) /\ View(d, p).data = n
  <1>1. /\ queue[d] \in Seq(Mutation) /\ cache[d][p] \in MaybeDocument
        /\ cache[d][p].version \in Nat
    BY DEF StoreTypeOK, MaybeDocument
  <1>2. OnlyFor(op, cache[d][p].data)
    BY DEF PlainDocuments, Plain, Absent, NoDocument, Exists
  <1>3. WritesOf(queue[d], p) = {} => cache[d][p].data = n
    <2>1. Fact(cache[d][p]) \in Facts(d, p) /\ cache[d][p].version >= cache[d][p].version
      BY <1>1 DEF Facts
    <2> QED BY <2>1 DEF Leads, From, Fact
  <1>4. \A i \in WritesOf(queue[d], p) :
          (\A j \in WritesOf(queue[d], p) : j <= i) => queue[d][i].data = n
    BY DEF Leads, IsLast
  <1>5. \A i \in WritesOf(queue[d], p) :
          queue[d][i].type = "patch" /\ queue[d][i].mask = {FieldOf(op)}
    BY DEF PlainWrites
  <1> QED BY <1>1, <1>2, <1>3, <1>4, <1>5, LastIsSeen DEF View

(* What is left of a sequence of one. *)
LEMMA TailOfOne ==
  ASSUME NEW S, NEW q \in Seq(S), Len(q) = 1
  PROVE  Tail(q) = <<>> /\ DOMAIN Tail(q) = {} /\ Len(Tail(q)) = 0
  <1>1. q # <<>>
    OBVIOUS
  <1>2. Tail(q) \in Seq(S) /\ Len(Tail(q)) = 0
    BY <1>1
  <1> DEFINE r == Tail(q)
  <1> HIDE DEF r
  <1>3. r \in Seq(S) /\ Len(r) = 0
    BY <1>2 DEF r
  <1>4. r = <<>> /\ DOMAIN r = {}
    BY <1>3
  <1> QED BY <1>2, <1>4 DEF r

(* A tap of her own starts the one that is in progress; of another, ends her ownership. *)
LEMMA SoloTapped ==
  ASSUME NEW op \in CardOps, TypeOK, NEW p \in Pets, NEW n \in Fields, OnlyFor(op, n),
         PlainDocuments(op, p), PlainWrites(op, p), UnheardIsUntouched(p), SoloPet(p, n),
         NEW e \in Devices, NEW o \in CardOps, Tap(e, p, o)
  PROVE  SoloPet(p, n)' /\ hist'[p].tally = hist[p].tally
  <1>0. /\ hist \in [Pets -> History] /\ hist[p] \in History
        /\ mainQ \in [Devices -> [Pets -> Seq(Block)]]
        /\ gets \in [Devices -> [Pets -> Seq(Get)]]
        /\ UNCHANGED storeVars /\ StoreTypeOK
        /\ \A d \in Devices : d # "nobody" /\ d # "shared"
    BY PetCardsAssumption DEF TypeOK, Tap
  <1>1. /\ hist'[p].tally = hist[p].tally
        /\ hist'[p].owner = IF hist[p].owner \in {"nobody", e} /\ ~InProgress(e, p)
                            THEN e ELSE "shared"
    BY <1>0 DEF Tap, RecordTap, History
  <1>2. PICK g \in [op : CardOps, since : Nat] :
          /\ g.op = o
          /\ \/ /\ mainQ' = [mainQ EXCEPT ![e][p] = Append(@, Got(g, ViewCard(e, p)))]
                /\ gets' = gets
             \/ /\ gets' = [gets EXCEPT ![e][p] = Append(@, g)]
                /\ mainQ' = mainQ
    <2> DEFINE g == [op |-> o, since |-> Since(e, p)]
    <2>1. g \in [op : CardOps, since : Nat] /\ g.op = o
      BY <1>0 DEF Since, StoreTypeOK, MaybeDocument
    <2>2. \/ /\ mainQ' = [mainQ EXCEPT ![e][p] = Append(@, Got(g, ViewCard(e, p)))]
             /\ gets' = gets
          \/ /\ gets' = [gets EXCEPT ![e][p] = Append(@, g)]
             /\ mainQ' = mainQ
      BY DEF Tap
    <2> HIDE DEF g
    <2> QED BY <2>1, <2>2
  <1>3. CASE hist[p].owner \in {"nobody", e} /\ ~InProgress(e, p)
    <2>1. hist'[p].owner = e
      BY <1>1, <1>3
    <2>2. Leads(e, p, n)'
      <3>1. Leads(e, p, n)
        BY <1>3 DEF SoloPet
      <3>2. queue' = queue /\ results' = results /\ cache' = cache /\ watch' = watch /\ server' = server
        BY <1>0 DEF storeVars
      <3> QED BY <3>1, <3>2 DEF Leads, From, IsLast, Facts, Fact
    <2>3. OneTap(e, p, n)'
      <3>1. gets[e][p] = <<>> /\ mainQ[e][p] = <<>>
        BY <1>3 DEF InProgress
      <3>2. ViewCard(e, p).data = n
        <4>1. Exists(cache[e][p])
          BY DEF Tap, UnheardIsUntouched
        <4>2. Exists(View(e, p)) /\ View(e, p).data = n
          <5>1. Leads(e, p, n)
            BY <1>3 DEF SoloPet
          <5> QED BY <1>0, <4>1, <5>1, LeaderSees
        <4> QED BY <4>2 DEF ViewCard, Card
      <3>3. CASE mainQ' = [mainQ EXCEPT ![e][p] = Append(@, Got(g, ViewCard(e, p)))] /\ gets' = gets
        <4> DEFINE b == Got(g, ViewCard(e, p))
        <4>1. b.kind = "got" /\ b.card.data = n
          BY <3>2 DEF Got
        <4>2. mainQ'[e][p] = Append(mainQ[e][p], b)
          <5> HIDE DEF b
          <5> QED BY <1>0, <3>3 DEF b
        <4> HIDE DEF b
        <4>3. mainQ'[e][p] = <<b>> /\ gets'[e][p] = <<>>
          BY <3>1, <3>3, <4>2
        <4>4. /\ Len(gets'[e][p]) + Len(mainQ'[e][p]) <= 1
              /\ \A i \in DOMAIN mainQ'[e][p] : mainQ'[e][p][i] = b
          BY <4>3
        <4> QED BY <4>1, <4>4 DEF OneTap
      <3>4. CASE gets' = [gets EXCEPT ![e][p] = Append(@, g)] /\ mainQ' = mainQ
        <4>1. gets'[e][p] = <<g>> /\ mainQ'[e][p] = <<>>
          BY <1>0, <3>1, <3>4
        <4>2. /\ Len(gets'[e][p]) + Len(mainQ'[e][p]) <= 1
              /\ DOMAIN mainQ'[e][p] = {}
          BY <4>1
        <4> QED BY <4>2 DEF OneTap
      <3> QED BY <1>2, <3>3, <3>4
    <2>4. ASSUME NEW d \in Devices, d # e PROVE Untouched(d, p)'
      <3>1. Untouched(d, p)
        BY <1>0, <1>3, <2>4 DEF SoloPet
      <3>2. queue'[d] = queue[d] /\ mainQ'[d][p] = mainQ[d][p] /\ gets'[d][p] = gets[d][p]
        <4>1. PICK r, s : /\ mainQ' = mainQ \/ mainQ' = [mainQ EXCEPT ![e][p] = r]
                          /\ gets' = gets \/ gets' = [gets EXCEPT ![e][p] = s]
          BY <1>2
        <4> QED BY <1>0, <2>4, <4>1 DEF storeVars
      <3> QED BY <3>1, <3>2 DEF Untouched, InProgress
    <2> QED BY <1>0, <1>1, <2>1, <2>2, <2>3, <2>4 DEF SoloPet
  <1>4. CASE ~(hist[p].owner \in {"nobody", e} /\ ~InProgress(e, p))
    <2>1. hist'[p].owner = "shared"
      BY <1>1, <1>4
    <2> QED BY <1>0, <1>1, <2>1 DEF SoloPet
  <1> QED BY <1>3, <1>4

(* Her tap is written: one more than she saw, and one more is counted. *)
LEMMA SoloWritten ==
  ASSUME NEW op \in SoloOps, CardsInv, CacheInv, CacheInv', [Next]_vars,
         NEW p \in Pets, NEW n, n = AllTapsCounted(p), SoloPet(p, n),
         PlainBlocks(op, p), PlainTally(op, p),
         NEW e \in Devices, UpdateBlock(e, p), NEW k, k = AllTapsCounted(p)'
  PROVE  SoloPet(p, k)'
  <1>0. /\ hist \in [Pets -> History] /\ hist[p] \in History /\ TypeOK /\ StoreTypeOK
        /\ mainQ \in [Devices -> [Pets -> Seq(Block)]]
        /\ gets \in [Devices -> [Pets -> Seq(Get)]]
        /\ \A d \in Devices : d # "nobody" /\ d # "shared"
    BY PetCardsAssumption DEF CardsInv, TypeOK
  <1> DEFINE b == Head(mainQ[e][p])
  <1>a. UpdateOf(e, p) \in Mutation
    BY <1>0, UpdateOfType
  <1> PICK m \in Mutation : m = UpdateOf(e, p)
    BY <1>a
  <1>1. /\ b = mainQ[e][p][1] /\ 1 \in DOMAIN mainQ[e][p] /\ b.kind = "update"
        /\ WriteMutations(e, m) /\ m \in Mutation /\ m.pet = p /\ m.data = b.card.data
        /\ RecordUpdate(p, b.op)
    BY <1>0, UpdateOfType
  <1>2. b.op = op
    BY <1>1 DEF PlainBlocks
  <1>3. hist'[p].owner = hist[p].owner
    BY <1>0, <1>1 DEF RecordUpdate, History
  <1>4. CASE hist[p].owner = "shared"
    BY <1>0, <1>3, <1>4 DEF SoloPet
  <1>5. CASE hist[p].owner # "shared"
    <2>1. hist[p].owner = e
      BY <1>1, <1>5 DEF SoloPet, Untouched, InProgress
    <2>2. Leads(e, p, n) /\ OneTap(e, p, n)
      BY <2>1 DEF SoloPet
    <2>3. m.data = NewValue(op, n)
      BY <1>1, <1>2, <2>2 DEF OneTap
    <2>4. NewValue(op, n) = k
      <3> DEFINE t == hist[p].tally
                 one(f) == IF FieldOf(op) = f THEN 1 ELSE 0
      <3>1. t.breakfast \in Nat /\ t.dinner \in Nat /\ t.treats \in Nat
        BY <1>0 DEF History
      <3>2. hist'[p].tally = [breakfast |-> t.breakfast + one("breakfast"),
                              dinner |-> t.dinner + one("dinner"),
                              treats |-> t.treats + one("treats")]
        BY <1>0, <1>1, <1>2 DEF RecordUpdate, History
      <3>3. n = [breakfast |-> t.breakfast % 2 = 1, dinner |-> t.dinner % 2 = 1,
                 treats |-> t.treats]
        BY DEF AllTapsCounted
      <3>4. k = [breakfast |-> (t.breakfast + one("breakfast")) % 2 = 1,
                 dinner |-> (t.dinner + one("dinner")) % 2 = 1,
                 treats |-> t.treats + one("treats")]
        BY <3>2 DEF AllTapsCounted
      <3>5. /\ FieldOf(op) # "breakfast" => t.breakfast = 0
            /\ FieldOf(op) # "dinner" => t.dinner = 0
            /\ FieldOf(op) # "treats" => t.treats = 0
        BY DEF PlainTally, Tally, FieldNames
      <3>6. NewValue(op, [breakfast |-> t.breakfast % 2 = 1, dinner |-> t.dinner % 2 = 1,
                          treats |-> t.treats])
              = [breakfast |-> (t.breakfast + one("breakfast")) % 2 = 1,
                 dinner |-> (t.dinner + one("dinner")) % 2 = 1,
                 treats |-> t.treats + one("treats")]
        <4> HIDE DEF t
        <4> QED BY <3>1, <3>5, CountOneMore
      <3> QED BY <3>3, <3>4, <3>6
    <2>5. Leads(e, p, k)'
      <3>1. Leads(e, p, m.data)'
        BY <1>1, <2>2, LeadsWritten
      <3> QED BY <2>3, <2>4, <3>1
    <2>6. OneTap(e, p, k)'
      <3>1. mainQ'[e][p] = Tail(mainQ[e][p]) /\ gets'[e][p] = gets[e][p]
        BY <1>0 DEF UpdateBlock
      <3>2. /\ mainQ[e][p] \in Seq(Block) /\ mainQ[e][p] # <<>>
            /\ gets[e][p] \in Seq(Get)
        BY <1>0 DEF UpdateBlock, FrontIs
      <3>a. Len(gets[e][p]) \in Nat /\ Len(mainQ[e][p]) \in Nat /\ Len(mainQ[e][p]) >= 1
        BY <3>2
      <3>b. Len(gets[e][p]) + Len(mainQ[e][p]) <= 1
        BY <2>2 DEF OneTap
      <3>3. Len(mainQ[e][p]) = 1 /\ Len(gets[e][p]) = 0
        <4>1. \A x, y \in Nat : y >= 1 /\ x + y <= 1 => y = 1 /\ x = 0
          OBVIOUS
        <4> QED BY <3>a, <3>b, <4>1
      <3>4. mainQ'[e][p] = <<>> /\ DOMAIN mainQ'[e][p] = {} /\ Len(mainQ'[e][p]) = 0
        BY <3>1, <3>2, <3>3, TailOfOne
      <3> QED BY <3>1, <3>3, <3>4 DEF OneTap
    <2>7. ASSUME NEW d \in Devices, d # e PROVE Untouched(d, p)'
      <3>1. Untouched(d, p)
        BY <1>0, <2>1, <2>7 DEF SoloPet
      <3>2. queue'[d] = queue[d] /\ mainQ'[d][p] = mainQ[d][p] /\ gets'[d][p] = gets[d][p]
        <4>1. queue' = [queue EXCEPT ![e] = Append(@, m)] /\ queue \in [Devices -> Seq(Mutation)]
          BY <1>0, <1>1 DEF WriteMutations, StoreTypeOK
        <4> QED BY <1>0, <2>7, <4>1 DEF UpdateBlock
      <3> QED BY <3>1, <3>2 DEF Untouched, InProgress
    <2> QED BY <1>0, <1>3, <2>1, <2>5, <2>6, <2>7 DEF SoloPet
  <1> QED BY <1>4, <1>5

(* A sequence of one element. *)
LEMMA SingleSequence ==
  ASSUME NEW x
  PROVE  /\ Len(<<x>>) = 1 /\ Append(<<>>, x) = <<x>>
         /\ \A i \in DOMAIN <<x>> : <<x>>[i] = x
  OBVIOUS

(* Appending nothing. *)
LEMMA NothingAppended ==
  ASSUME NEW S, NEW q \in Seq(S)
  PROVE  q \o <<>> = q
  <1>1. q \o <<>> \in Seq(S) /\ Len(q \o <<>>) = Len(q)
    OBVIOUS
  <1>2. \A i \in 1 .. Len(q) : (q \o <<>>)[i] = q[i]
    OBVIOUS
  <1> QED BY <1>1, <1>2

(* Of two numbers that come to one at most, one is zero. *)
LEMMA OneOfTwo ==
  ASSUME NEW x \in Nat, NEW y \in Nat, x + y <= 1
  PROVE  x \in {0, 1} /\ (x # 0 => x = 1 /\ y = 0) /\ (y # 0 => y = 1 /\ x = 0)
  OBVIOUS

(* A pet that is there is not a new one. *)
LEMMA PlainIsOld ==
  ASSUME CacheInv, NEW op \in CardOps, NEW p \in Pets, PlainDocuments(op, p)
  PROVE  server[p].version # 0
  <1>1. server[p].version > 0 /\ server[p].version \in Nat
    BY DEF CacheInv, StoreTypeOK, MaybeDocument, PlainDocuments, Plain, Absent, NoDocument, Exists
  <1> QED BY <1>1

(* A read that is answered finds what the pet is. *)
LEMMA OneTapRaised ==
  ASSUME TypeOK, NEW d \in Devices, NEW p \in Pets, NEW n, NEW card, OneTap(d, p, n),
         gets'[d][p] = <<>>,
         mainQ'[d][p] = mainQ[d][p] \o [i \in DOMAIN gets[d][p] |-> Got(gets[d][p][i], card)],
         mainQ'[d][p] # <<>> => card.data = n
  PROVE  OneTap(d, p, n)'
  <1> PICK q \in Seq(Block) : q = mainQ[d][p]
    BY DEF TypeOK
  <1> PICK s \in Seq(Get) : s = gets[d][p]
    BY DEF TypeOK
  <1>a. Len(s) \in Nat /\ Len(q) \in Nat
    OBVIOUS
  <1>b. Len(s) + Len(q) <= 1
    BY DEF OneTap
  <1>1. Len(s) # 0 => Len(s) = 1 /\ Len(q) = 0
    BY <1>a, <1>b, OneOfTwo
  <1> DEFINE raised == [i \in DOMAIN s |-> Got(s[i], card)]
  <1>2. mainQ'[d][p] = q \o raised
    OBVIOUS
  <1>3. CASE Len(s) = 0
    <2>1. DOMAIN s = {}
      BY <1>3
    <2>2. raised = <<>>
      BY <2>1
    <2>3. mainQ'[d][p] = q
      BY <1>2, <2>2, NothingAppended
    <2>4. Len(gets'[d][p]) = 0
      OBVIOUS
    <2> QED BY <1>3, <2>3, <2>4 DEF OneTap
  <1>4. CASE Len(s) # 0
    <2>1. Len(s) = 1 /\ Len(q) = 0
      BY <1>1, <1>4
    <2>2. q = <<>> /\ DOMAIN s = 1 .. 1
      BY <2>1
    <2>3. raised = <<Got(s[1], card)>>
      BY <2>2
    <2> DEFINE b == Got(s[1], card)
    <2>4. b.kind = "got" /\ b.card = card
      BY DEF Got
    <2> HIDE DEF b, raised
    <2>5. mainQ'[d][p] = <<b>>
      BY <1>2, <2>2, <2>3 DEF b
    <2>6. Len(mainQ'[d][p]) = 1 /\ \A i \in DOMAIN mainQ'[d][p] : mainQ'[d][p][i] = b
      BY <2>5, SingleSequence
    <2>7. card.data = n /\ Len(gets'[d][p]) = 0
      BY <2>5
    <2> QED BY <2>4, <2>6, <2>7 DEF OneTap
  <1> QED BY <1>3, <1>4

(* The callback of the read computes what follows. *)
LEMMA OneTapGot ==
  ASSUME TypeOK, NEW d \in Devices, NEW p \in Pets, NEW n, OneTap(d, p, n),
         GotDocument(d, p)
  PROVE  OneTap(d, p, n)'
  <1> PICK q \in Seq(Block) : q = mainQ[d][p]
    BY DEF TypeOK
  <1> PICK s \in Seq(Get) : s = gets[d][p]
    BY DEF TypeOK
  <1>0. q # <<>> /\ Head(q).kind = "got" /\ gets'[d][p] = s
    BY DEF GotDocument, FrontIs
  <1>1. Len(s) \in Nat /\ Len(q) \in Nat /\ Len(q) # 0
    BY <1>0
  <1>2. Len(q) = 1 /\ Len(s) = 0
    <2>1. Len(s) + Len(q) <= 1
      BY DEF OneTap
    <2> QED BY <1>1, <2>1, OneOfTwo
  <1> DEFINE c == q[1]
             b == UpdateAfter(c)
  <1>3. c \in Block /\ c = Head(q) /\ c.kind = "got" /\ 1 \in DOMAIN q
    BY <1>0, <1>2
  <1>4. Tail(q) = <<>>
    BY <1>2, TailOfOne
  <1>5. mainQ'[d][p] = <<>> \/ mainQ'[d][p] = <<b>>
    <2>1. mainQ' = [mainQ EXCEPT ![d][p] = IF c.card.exists THEN Append(Tail(q), b) ELSE Tail(q)]
      BY <1>3 DEF GotDocument, UpdateAfter
    <2> HIDE DEF b, c
    <2>2. mainQ'[d][p] = IF c.card.exists THEN Append(Tail(q), b) ELSE Tail(q)
      BY <2>1 DEF TypeOK
    <2> QED BY <1>4, <2>2, SingleSequence
  <1>6. b.kind = "update" /\ b.op = c.op /\ b.card.data = NewValue(b.op, n)
    <2>1. c.card.data = n
      BY <1>3 DEF OneTap
    <2> HIDE DEF c
    <2> QED BY <1>3, <2>1, UpdateAfterType
  <1> HIDE DEF b
  <1>7. Len(mainQ'[d][p]) <= 1 /\ \A i \in DOMAIN mainQ'[d][p] : mainQ'[d][p][i] = b
    <2>1. CASE mainQ'[d][p] = <<>>
      BY <2>1
    <2>2. CASE mainQ'[d][p] = <<b>>
      BY <2>2, SingleSequence
    <2> QED BY <1>5, <2>1, <2>2
  <1>8. Len(mainQ'[d][p]) \in Nat
    BY <1>5, SingleSequence
  <1> QED BY <1>0, <1>2, <1>6, <1>7, <1>8 DEF OneTap

(* Any other step leaves what it amounts to. *)
LEMMA SoloKept ==
  ASSUME NEW op \in CardOps, UserOps \subseteq {op, "save"},
         CardsInv, CacheInv, CacheInv', [Next]_vars,
         NEW p \in Pets, NEW n \in Fields, OnlyFor(op, n), SoloPet(p, n),
         PlainDocuments(op, p), PlainWrites(op, p), PlainBlocks(op, p), UnheardIsUntouched(p),
         PlainDocuments(op, p)', PlainWrites(op, p)', UnheardIsUntouched(p)',
         hist'[p] = hist[p],
         \A e \in Devices : /\ ~UpdateBlock(e, p)
                            /\ ~\E o \in CardOps \cap UserOps : Tap(e, p, o)
  PROVE  SoloPet(p, n)'
  <1>0. /\ TypeOK /\ [StoreNext]_storeVars /\ StoreTypeOK
        /\ \A d \in Devices : d # "nobody" /\ d # "shared"
    BY StepIsStoreStep, PetCardsAssumption DEF CardsInv, TypeOK
  <1>1. server[p].version # 0 /\ "delete" \notin UserOps
    BY PlainIsOld DEF CardOps
  <1>2. ASSUME NEW d \in Devices
        PROVE  \/ BlocksKept(d, p) \/ BlocksLost(d, p) \/ BlocksRaised(d, p)
               \/ GotDocument(d, p)
    <2>1. ~BlockOfDelete(d, p)
      BY DEF BlockOfDelete, PlainWrites
    <2>2. ~DeletedBlock(d, p)
      <3>1. ASSUME mainQ[d][p] # <<>> PROVE 1 \in DOMAIN mainQ[d][p] /\ Head(mainQ[d][p]) = mainQ[d][p][1]
        <4>1. mainQ[d][p] \in Seq(Block)
          BY <1>0 DEF TypeOK
        <4> QED BY <3>1, <4>1
      <3> QED BY <3>1 DEF DeletedBlock, FrontIs, PlainBlocks
    <2> QED BY <2>1, <2>2, TapsStep DEF BlocksRun
  <1>3. ASSUME NEW d \in Devices, hist[p].owner \in {"nobody", d}
        PROVE  Leads(d, p, n)'
    <2>1. Leads(d, p, n)
      BY <1>3 DEF SoloPet
    <2>2. ~WrittenElsewhere(d, p)
      <3>1. ASSUME NEW e \in Devices \ {d} PROVE WritesOf(queue[e], p) = {}
        BY <1>0, <1>3, <3>1 DEF SoloPet, Untouched
      <3> QED BY <3>1 DEF WrittenElsewhere
    <2>3. WritesOf(queue[d], p) # {} => Exists(cache[d][p])
      BY DEF UnheardIsUntouched, Untouched
    <2>4. ASSUME NEW m \in Mutation, WriteMutations(d, m), m.pet = p PROVE FALSE
      <3>1. ~Save(d, p)
        BY <1>1 DEF Save, IsFresh
      <3> QED BY <1>1, <2>4, <3>1, WhoWrites
    <2> QED BY <1>0, <2>1, <2>2, <2>3, <2>4, LeadsStep
  <1>4. ASSUME NEW d \in Devices, hist[p].owner \in {"nobody", d}
        PROVE  OneTap(d, p, n)'
    <2>1. OneTap(d, p, n)
      BY <1>4 DEF SoloPet
    <2>2. CASE BlocksKept(d, p)
      BY <2>1, <2>2 DEF BlocksKept, OneTap
    <2>3. CASE BlocksLost(d, p)
      <3>1. gets'[d][p] = <<>> /\ mainQ'[d][p] = <<>>
        BY <2>3 DEF BlocksLost
      <3>2. Len(gets'[d][p]) + Len(mainQ'[d][p]) <= 1 /\ DOMAIN mainQ'[d][p] = {}
        BY <3>1
      <3> QED BY <3>2 DEF OneTap
    <2>4. CASE BlocksRaised(d, p)
      <3> PICK card : card = ViewCard(d, p)'
        OBVIOUS
      <3>1. ASSUME mainQ'[d][p] # <<>> PROVE card.data = n
        <4>1. Exists(cache'[d][p])
          BY <3>1 DEF UnheardIsUntouched, Untouched, InProgress
        <4>2. Leads(d, p, n)'
          BY <1>4, <1>3
        <4>3. queue'[d] \in Seq(Mutation) /\ cache'[d][p] \in MaybeDocument
              /\ cache'[d][p].version \in Nat
          BY DEF CacheInv, StoreTypeOK, MaybeDocument
        <4>4. OnlyFor(op, cache'[d][p].data)
          <5>1. OnlyFor(op, cache[d][p].data)'
            BY <4>1 DEF PlainDocuments, Plain, Absent, NoDocument, Exists
          <5> QED BY <5>1 DEF OnlyFor
        <4>5. WritesOf(queue'[d], p) = {} => cache'[d][p].data = n
          <5>1. Fact(cache[d][p])' \in Facts(d, p)'
            BY DEF Facts
          <5>2. cache'[d][p].version >= cache'[d][p].version
            BY <4>3
          <5> QED BY <4>2, <5>1, <5>2 DEF Leads, From, Fact
        <4>6. \A i \in WritesOf(queue'[d], p) :
                (\A j \in WritesOf(queue'[d], p) : j <= i) => queue'[d][i].data = n
          BY <4>2 DEF Leads, IsLast
        <4>7. \A i \in WritesOf(queue'[d], p) :
                queue'[d][i].type = "patch" /\ queue'[d][i].mask = {FieldOf(op)}
          BY DEF PlainWrites
        <4>8. /\ Exists(GetDocument(queue'[d], cache'[d][p], p))
              /\ GetDocument(queue'[d], cache'[d][p], p).data = n
          BY <4>1, <4>3, <4>4, <4>5, <4>6, <4>7, LastIsSeen
        <4> QED BY <4>8 DEF ViewCard, View, Card
      <3>2. /\ gets'[d][p] = <<>>
            /\ mainQ'[d][p] = mainQ[d][p]
                 \o [i \in DOMAIN gets[d][p] |-> Got(gets[d][p][i], card)]
        BY <2>4 DEF BlocksRaised
      <3> QED BY <1>0, <2>1, <3>1, <3>2, OneTapRaised
    <2>5. CASE GotDocument(d, p)
      BY <1>0, <2>1, <2>5, OneTapGot
    <2> QED BY <1>2, <2>2, <2>3, <2>4, <2>5
  <1>5. ASSUME NEW d \in Devices, hist[p].owner \notin {"shared", d}
        PROVE  Untouched(d, p)'
    <2>1. WritesOf(queue[d], p) = {} /\ gets[d][p] = <<>> /\ mainQ[d][p] = <<>>
      BY <1>5 DEF SoloPet, Untouched, InProgress
    <2>2. WritesOf(queue'[d], p) = {}
      BY <1>1, <2>1, WritesStep
    <2>3. gets'[d][p] = <<>> /\ mainQ'[d][p] = <<>>
      <3>1. CASE BlocksRaised(d, p)
        <4>1. DOMAIN gets[d][p] = {}
          BY <2>1
        <4>2. [i \in DOMAIN gets[d][p] |-> Got(gets[d][p][i], ViewCard(d, p)')] = <<>>
          BY <4>1
        <4> QED BY <2>1, <3>1, <4>2 DEF BlocksRaised
      <3>2. ~GotDocument(d, p)
        BY <2>1 DEF GotDocument, FrontIs
      <3> QED BY <1>2, <2>1, <3>1, <3>2 DEF BlocksKept, BlocksLost
    <2> QED BY <2>2, <2>3 DEF Untouched, InProgress
  <1> QED BY <1>3, <1>4, <1>5 DEF SoloPet

(* Every step keeps the owner the leader, and her taps one at a time. *)
LEMMA SoloStep ==
  ASSUME NEW op \in SoloOps, UserOps \subseteq {op, "save"},
         CardsInv, CacheInv, CacheInv', [Next]_vars, PlainInv(op), PlainInv(op)', SoloInv
  PROVE  SoloInv'
  <1> SUFFICES ASSUME NEW p \in InitPets, NEW k, k = AllTapsCounted(p)'
               PROVE  SoloPet(p, k)'
    BY DEF SoloInv
  <1>0. /\ p \in Pets /\ op \in CardOps /\ TypeOK
        /\ PlainDocuments(op, p) /\ PlainWrites(op, p) /\ PlainBlocks(op, p)
        /\ PlainTally(op, p) /\ UnheardIsUntouched(p)
    BY FirestoreAssumption DEF SoloOps, CardOps, CardsInv, PlainInv
  <1>1. PlainDocuments(op, p)' /\ PlainWrites(op, p)' /\ UnheardIsUntouched(p)'
    BY DEF PlainInv
  <1>2. AllTapsCounted(p) \in Fields /\ OnlyFor(op, AllTapsCounted(p))
    BY <1>0, CountedType
  <1> PICK n \in Fields : n = AllTapsCounted(p)
    BY <1>2
  <1>3. SoloPet(p, n) /\ OnlyFor(op, n)
    BY <1>2 DEF SoloInv
  <1>4. ASSUME hist'[p].tally = hist[p].tally, SoloPet(p, n)'
        PROVE  SoloPet(p, k)'
    <2>1. AllTapsCounted(p)' = AllTapsCounted(p)
      BY <1>4 DEF AllTapsCounted
    <2>2. k = n
      BY <2>1
    <2> QED BY <1>4, <2>2
  <1>5. ASSUME NEW e \in Devices, NEW o \in CardOps \cap UserOps, Tap(e, p, o)
        PROVE  SoloPet(p, k)'
    <2>1. SoloPet(p, n)' /\ hist'[p].tally = hist[p].tally
      BY <1>0, <1>3, <1>5, SoloTapped
    <2> QED BY <1>4, <2>1
  <1>6. ASSUME NEW e \in Devices, UpdateBlock(e, p)
        PROVE  SoloPet(p, k)'
    BY <1>0, <1>3, <1>6, SoloWritten
  <1>7. CASE \A e \in Devices : /\ ~UpdateBlock(e, p)
                                /\ ~\E o \in CardOps \cap UserOps : Tap(e, p, o)
    <2>1. hist'[p] = hist[p]
      BY <1>0, <1>7, HistoryStep
    <2>2. SoloPet(p, n)'
      BY <1>0, <1>1, <1>3, <1>7, <2>1, SoloKept
    <2> QED BY <1>4, <2>1, <2>2
  <1> QED BY <1>5, <1>6, <1>7

(* On an untouched pet everything any phone has is the new pet. *)
LEMMA SoloInit ==
  ASSUME Init, NEW op \in CardOps
  PROVE  PlainInv(op) /\ SoloInv
  <1> SUFFICES ASSUME NEW p \in InitPets
               PROVE  /\ PlainDocuments(op, p) /\ PlainWrites(op, p) /\ PlainBlocks(op, p)
                      /\ PlainTally(op, p) /\ UnheardIsUntouched(p)
                      /\ \A n : n = AllTapsCounted(p) => SoloPet(p, n)
    BY DEF PlainInv, SoloInv
  <1>0. p \in Pets
    BY FirestoreAssumption
  <1>1. /\ \A d \in Devices : queue[d] = <<>> /\ results[d] = <<>>
        /\ \A d \in Devices : gets[d][p] = <<>> /\ mainQ[d][p] = <<>>
    BY <1>0 DEF Init, StoreInit
  <1>2. \A d \in Devices : DOMAIN queue[d] = {} /\ DOMAIN results[d] = {}
                           /\ DOMAIN gets[d][p] = {} /\ DOMAIN mainQ[d][p] = {}
    BY <1>1
  <1>3. \A d \in Devices : WritesOf(queue[d], p) = {} /\ Untouched(d, p)
    BY <1>1, <1>2 DEF WritesOf, Untouched, InProgress
  <1>4. /\ server[p] = Document(NewPet, 1)
        /\ \A d \in Devices :
             /\ cache[d][p] = IF d \in Installed THEN Document(NewPet, 1) ELSE Absent
             /\ watch[d].docs[p] = Absent
             /\ shown[d][p] = Card(cache[d][p])
    BY <1>0 DEF Init, StoreInit, InitDocument, NoSnapshot
  <1>5. hist[p] = NoHistory
    BY <1>0 DEF Init
  <1>6. PlainDocuments(op, p)
    <2>1. Plain(op, Absent)
      BY DEF Plain
    <2>2. Plain(op, Document(NewPet, 1)) /\ Exists(Document(NewPet, 1))
      BY DEF Plain, OnlyFor, Document, Exists
    <2>3. Plain(op, server[p]) /\ Exists(server[p])
      BY <1>4, <2>2
    <2>4. ASSUME NEW d \in Devices
          PROVE  Plain(op, cache[d][p]) /\ Plain(op, watch[d].docs[p])
      <3>1. cache[d][p] \in {Document(NewPet, 1), Absent}
        BY <1>4
      <3> QED BY <1>4, <2>1, <2>2, <3>1
    <2> QED BY <2>3, <2>4 DEF PlainDocuments
  <1>7. UnheardIsUntouched(p)
    <2>1. ASSUME NEW d \in Devices, ~Exists(cache[d][p])
          PROVE  ~shown[d][p].exists /\ Untouched(d, p)
      <3>1. shown[d][p].exists = Exists(cache[d][p])
        <4>1. shown[d][p] = Card(cache[d][p])
          BY <1>4
        <4> PICK c : c = cache[d][p]
          OBVIOUS
        <4>2. shown[d][p] = Card(c)
          BY <4>1
        <4>3. Card(c).exists = Exists(c)
          BY DEF Card, Exists
        <4> QED BY <4>2, <4>3
      <3> QED BY <1>3, <2>1, <3>1
    <2> QED BY <2>1 DEF UnheardIsUntouched
  <1>8. PlainTally(op, p)
    BY <1>5 DEF PlainTally, Tally, NoHistory, FieldNames
  <1>9. PlainWrites(op, p) /\ PlainBlocks(op, p)
    BY <1>2, <1>3 DEF PlainWrites, PlainBlocks
  <1>10. AllTapsCounted(p) = NewPet
    <2> DEFINE odd == 0 % 2 = 1
    <2>1. odd = FALSE
      OBVIOUS
    <2>2. /\ hist[p].tally.breakfast = 0 /\ hist[p].tally.dinner = 0
          /\ hist[p].tally.treats = 0
      BY <1>5 DEF NoHistory, FieldNames
    <2>3. AllTapsCounted(p) = [breakfast |-> odd, dinner |-> odd, treats |-> 0]
      BY <2>2, Zenon DEF AllTapsCounted
    <2> HIDE DEF odd
    <2> QED BY <2>1, <2>3 DEF NewPet
  <1>11. ASSUME NEW d \in Devices PROVE Leads(d, p, NewPet) /\ OneTap(d, p, NewPet)
    <2>1. \A a \in Facts(d, p) : a = <<0, NewPet>> \/ a = <<1, NewPet>>
      BY <1>3, <1>4 DEF Facts, Fact, Document, Absent, NoDocument
    <2>2. \A a \in Facts(d, p) : a[2] = NewPet
      BY <2>1
    <2>3. Leads(d, p, NewPet)
      BY <1>3, <2>2 DEF Leads, From
    <2>4. Len(gets[d][p]) = 0 /\ Len(mainQ[d][p]) = 0
      BY <1>1
    <2> QED BY <1>2, <2>3, <2>4 DEF OneTap
  <1>12. SoloPet(p, NewPet)
    BY <1>3, <1>11 DEF SoloPet
  <1> QED BY <1>6, <1>7, <1>8, <1>9, <1>10, <1>12

(* A housemate who alone taps a pet, each tap after the previous one was
   written, sees every tap counted at every moment, in the views of her phone:
   across acknowledgements, snapshots older than her writes, retries, offline
   periods and restarts. *)
THEOREM SoloTapsCount ==
  ASSUME NEW op \in SoloOps, UserOps \subseteq {op, "save"}
  PROVE  Spec => []SoloTapsAreExact
  <1>1. Init => PlainInv(op) /\ SoloInv
    BY SoloInit DEF SoloOps, CardOps
  <1>2. CardsInv /\ CacheInv /\ CacheInv' /\ PlainInv(op) /\ SoloInv /\ [Next]_vars
          => PlainInv(op)' /\ SoloInv'
    <2>1. op \in CardOps
      BY DEF SoloOps, CardOps
    <2> QED BY <2>1, PlainStep, SoloStep
  <1>3. CardsInv /\ PlainInv(op) /\ SoloInv => SoloTapsAreExact
    <2> SUFFICES ASSUME CardsInv, PlainInv(op), SoloInv, NEW d \in Devices, NEW p \in InitPets,
                        hist[p].owner = d, Exists(View(d, p))
                 PROVE  View(d, p).data = AllTapsCounted(p)
      BY DEF SoloTapsAreExact
    <2>0. /\ p \in Pets /\ TypeOK /\ StoreTypeOK /\ op \in CardOps
          /\ PlainDocuments(op, p) /\ PlainWrites(op, p) /\ PlainTally(op, p)
          /\ UnheardIsUntouched(p)
      BY FirestoreAssumption DEF CardsInv, TypeOK, PlainInv, SoloOps, CardOps
    <2>1. AllTapsCounted(p) \in Fields /\ OnlyFor(op, AllTapsCounted(p))
      BY <2>0, CountedType
    <2> PICK n \in Fields : n = AllTapsCounted(p)
      BY <2>1
    <2>2. Leads(d, p, n)
      BY DEF SoloInv, SoloPet
    <2>3. Exists(cache[d][p])
      <3>1. queue[d] \in Seq(Mutation) /\ cache[d][p] \in MaybeDocument
        BY <2>0 DEF StoreTypeOK
      <3>2. ~Exists(cache[d][p]) => WritesOf(queue[d], p) = {}
        BY <2>0 DEF UnheardIsUntouched, Untouched
      <3> QED BY <3>1, <3>2, NothingUnderPatches DEF View
    <2> QED BY <2>0, <2>1, <2>2, <2>3, LeaderSees
  <1> QED BY <1>1, <1>2, <1>3, CardsInvAlways, AppDrivesStore, CacheInvAlways, PTL
         DEF Spec
=================================================================================
