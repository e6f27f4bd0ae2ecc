---------------------------- MODULE PetLists_proofs ----------------------------
(***************************************************************************)
(* Theorems about module PetLists, for any phones, pets and writes, any    *)
(* number of lists, commits and faults: the lists of a phone never come to *)
(* disagree, a list waits only while it has to, and the lists of a phone   *)
(* that is up to date come to show what the server has.                    *)
(***************************************************************************)
EXTENDS PetLists, Firestore_proofs, FiniteSetTheorems

---------------------------------------------------------------------------------
(***************************************************************************)
(* The view.                                                               *)
(***************************************************************************)

LEMMA MissingType == Missing \in ViewDocument
  BY DEF Missing, ViewDocument, NewPet, Fields

LEMMA ClosedType ==
  /\ Closed \in QueryView
  /\ Blank \in Screen
  BY MissingType DEF Closed, QueryView, Blank, Content, Screen, ViewDocument

(* The documents of the local store, before and after a step. *)
LEMMA LocalDocumentsType ==
  ASSUME StoreTypeOK, NEW d \in Devices
  PROVE  LocalDocuments(d) \in [Pets -> ViewDocument]
  <1> SUFFICES ASSUME NEW p \in Pets PROVE LocalDocument(d, p) \in ViewDocument
    BY DEF LocalDocuments
  <1>1. queue[d] \in Seq(Mutation) /\ cache[d][p] \in MaybeDocument
    BY DEF StoreTypeOK
  <1>2. View(d, p) \in MaybeDocument
    BY <1>1, GetDocumentType DEF View
  <1>3. View(d, p).data \in Fields
    BY <1>2 DEF MaybeDocument
  <1> QED BY <1>3, MissingType DEF LocalDocument, ViewDocument

LEMMA NewDocumentsType ==
  ASSUME StoreTypeOK', NEW d \in Devices
  PROVE  LocalDocuments(d)' \in [Pets -> ViewDocument]
  <1> SUFFICES ASSUME NEW p \in Pets PROVE LocalDocument(d, p)' \in ViewDocument
    BY DEF LocalDocuments
  <1>1. queue'[d] \in Seq(Mutation) /\ cache'[d][p] \in MaybeDocument
    BY DEF StoreTypeOK
  <1>2. View(d, p)' \in MaybeDocument
    BY <1>1, GetDocumentType DEF View
  <1>3. View(d, p)'.data \in Fields
    BY <1>2 DEF MaybeDocument
  <1> QED BY <1>3, MissingType DEF LocalDocument, ViewDocument

LEMMA ContentType ==
  ASSUME NEW docs \in [Pets -> ViewDocument]
  PROVE  Content(docs) \in Screen
  BY DEF Content, Screen, ViewDocument

(* A change that no raised listener is told of leaves what lists show. *)
LEMMA ApplyChangesKeeps ==
  ASSUME NEW old \in [Pets -> ViewDocument], NEW new \in [Pets -> ViewDocument]
  PROVE  /\ ApplyChanges(old, new) \in [Pets -> ViewDocument]
         /\ Changes(old, new) = {} => ApplyChanges(old, new) = old
         /\ ~ShouldRaiseEvent(Changes(old, new))
              => Content(ApplyChanges(old, new)) = Content(old)
  <1> DEFINE after == ApplyChanges(old, new)
  <1>1. after \in [Pets -> ViewDocument]
    BY DEF ApplyChanges
  <1>2. ASSUME Changes(old, new) = {} PROVE after = old
    <2>1. \A p \in Pets : ChangeType(old[p], new[p]) = "none"
      BY <1>2 DEF Changes
    <2>2. \A p \in Pets : after[p] = old[p]
      BY <2>1 DEF ApplyChanges
    <2> QED BY <1>1, <2>2
  <1>3. ASSUME ~ShouldRaiseEvent(Changes(old, new)), NEW p \in Pets
        PROVE  after[p].shown = old[p].shown /\ after[p].data = old[p].data
    <2>1. ChangeType(old[p], new[p]) \in {"none", "metadata"}
      BY <1>3 DEF ShouldRaiseEvent, Changes
    <2>2. old[p].shown \in BOOLEAN /\ new[p].shown \in BOOLEAN
      BY DEF ViewDocument
    <2>3. ASSUME ChangeType(old[p], new[p]) = "metadata"
          PROVE  new[p].shown = old[p].shown /\ new[p].data = old[p].data
      BY <2>2, <2>3 DEF ChangeType
    <2> QED BY <2>1, <2>3 DEF ApplyChanges
  <1> QED BY <1>1, <1>2, <1>3 DEF Content

---------------------------------------------------------------------------------
(***************************************************************************)
(* The order of registration.                                              *)
(***************************************************************************)

LEMMA RankIsInjective ==
  ASSUME NEW n \in Nat, NEW S \in SUBSET (1 .. n)
  PROVE  /\ IsFiniteSet(S) /\ Cardinality(S) \in Nat
         /\ \A i \in S : Rank(i, S) \in 1 .. Cardinality(S)
         /\ \A i, k \in S : Rank(i, S) = Rank(k, S) => i = k
  <1> DEFINE upTo(i) == {j \in S : j <= i}
  <1>1. IsFiniteSet(S)
    <2>1. IsFiniteSet(1 .. n)
      BY FS_Interval
    <2> QED BY <2>1, FS_Subset
  <1>2. \A i \in S : /\ IsFiniteSet(upTo(i))
                     /\ Cardinality(upTo(i)) \in Nat
                     /\ Cardinality(upTo(i)) <= Cardinality(S)
    BY <1>1, FS_Subset, FS_CardinalityType
  <1>3. ASSUME NEW i \in S PROVE Cardinality(upTo(i)) # 0
    <2>1. i \in upTo(i)
      OBVIOUS
    <2> QED BY <1>2, <2>1, FS_EmptySet
  <1>4. ASSUME NEW i \in S, NEW k \in S, i < k
        PROVE  Cardinality(upTo(i)) # Cardinality(upTo(k))
    <2>1. /\ \A j \in S : j \in Nat
          /\ \A j \in S : j <= i => j <= k
          /\ ~(k <= i) /\ k <= k
      BY <1>4
    <2>2. upTo(i) \in SUBSET upTo(k) /\ k \in upTo(k) /\ k \notin upTo(i)
      BY <1>4, <2>1
    <2>3. Cardinality(upTo(i)) = Cardinality(upTo(k)) => upTo(k) = upTo(i)
      BY <1>2, <2>2, FS_Subset
    <2> QED BY <2>2, <2>3
  <1>5. Cardinality(S) \in Nat
    BY <1>1, FS_CardinalityType
  <1>6. \A i, k \in S : Rank(i, S) = Rank(k, S) => i = k
    BY <1>4 DEF Rank
  <1>7. \A i \in S : Rank(i, S) \in 1 .. Cardinality(S)
    BY <1>2, <1>3, <1>5 DEF Rank
  <1> QED BY <1>1, <1>5, <1>6, <1>7

(* InTurn runs through the set and through nothing else. *)
LEMMA InTurnRuns ==
  ASSUME NEW n \in Nat, NEW S \in SUBSET (1 .. n)
  PROVE  /\ Cardinality(S) \in Nat
         /\ InTurn(S) \in [1 .. Cardinality(S) -> S]
         /\ \A i \in S : \E k \in 1 .. Cardinality(S) : InTurn(S)[k] = i
  <1> DEFINE N == 1 .. Cardinality(S)
             rank == [i \in S |-> Rank(i, S)]
  <1>1. /\ IsFiniteSet(S) /\ Cardinality(S) \in Nat
        /\ \A i \in S : Rank(i, S) \in N
        /\ \A i, k \in S : Rank(i, S) = Rank(k, S) => i = k
    BY RankIsInjective
  <1>2. rank \in Injection(S, N)
    BY <1>1 DEF Injection, IsInjective
  <1>3. IsFiniteSet(N) /\ Cardinality(N) = Cardinality(S)
    BY <1>1, FS_Interval
  <1>4. rank \in Surjection(S, N)
    BY <1>2, <1>3, FS_Injection
  <1>5. \A k \in N : \E i \in S : Rank(i, S) = k
    BY <1>4 DEF Surjection
  <1>6. \A k \in N : InTurn(S)[k] \in S /\ Rank(InTurn(S)[k], S) = k
    BY <1>5 DEF InTurn
  <1>7. ASSUME NEW i \in S PROVE \E k \in N : InTurn(S)[k] = i
    BY <1>1, <1>6
  <1>8. DOMAIN InTurn(S) = N /\ InTurn(S) = [k \in N |-> InTurn(S)[k]]
    BY DEF InTurn
  <1> QED BY <1>1, <1>6, <1>7, <1>8

---------------------------------------------------------------------------------
(***************************************************************************)
(* The main queue.                                                         *)
(***************************************************************************)

NoEvents(q) == \A n \in DOMAIN q : q[n].type # "event"

EventsIn(q, i) == {n \in DOMAIN q : q[n].type = "event" /\ q[n].list = i}

LEMMA EventsInPositions ==
  ASSUME NEW q \in Seq(Item), NEW i, EventsIn(q, i) # {}
  PROVE  LET last == LastOf(EventsIn(q, i))
         IN /\ last \in 1 .. Len(q)
            /\ last \in EventsIn(q, i)
            /\ q[last].type = "event" /\ q[last].list = i
            /\ \A n \in EventsIn(q, i) : n <= last
  <1>1. Len(q) \in Nat /\ EventsIn(q, i) \in SUBSET (1 .. Len(q))
    BY DEF EventsIn
  <1>2. LastOf(EventsIn(q, i)) \in EventsIn(q, i)
        /\ \A n \in EventsIn(q, i) : n <= LastOf(EventsIn(q, i))
    BY <1>1, LastOfIsLast
  <1> QED BY <1>1, <1>2 DEF EventsIn

(* New items that are no events for i leave its events alone. *)
LEMMA OthersAppended ==
  ASSUME NEW q \in Seq(Item), NEW s \in Seq(Item), NEW i, EventsIn(s, i) = {}
  PROVE  /\ EventsIn(q \o s, i) = EventsIn(q, i)
         /\ \A n \in EventsIn(q, i) : (q \o s)[n] = q[n]
  <1>1. /\ Len(q) \in Nat /\ Len(s) \in Nat
        /\ DOMAIN q = 1 .. Len(q) /\ DOMAIN s = 1 .. Len(s)
        /\ DOMAIN (q \o s) = 1 .. (Len(q) + Len(s))
    OBVIOUS
  <1>2. \A n \in 1 .. Len(q) : (q \o s)[n] = q[n]
    OBVIOUS
  <1>3. ASSUME NEW n \in DOMAIN (q \o s), n > Len(q)
        PROVE  n \notin EventsIn(q \o s, i)
    <2>1. n - Len(q) \in DOMAIN s /\ (q \o s)[n] = s[n - Len(q)]
      BY <1>1, <1>3
    <2> QED BY <2>1 DEF EventsIn
  <1>4. ASSUME NEW n PROVE n \in EventsIn(q \o s, i) <=> n \in EventsIn(q, i)
    <2>1. n \in EventsIn(q \o s, i) => n \in 1 .. Len(q)
      BY <1>1, <1>3 DEF EventsIn
    <2>2. n \in EventsIn(q, i) => n \in DOMAIN (q \o s)
      BY <1>1 DEF EventsIn
    <2> QED BY <1>1, <1>2, <2>1, <2>2 DEF EventsIn
  <1> QED BY <1>1, <1>2, <1>4 DEF EventsIn

(* New events for i decide what i comes to show. *)
LEMMA EventAppended ==
  ASSUME NEW q \in Seq(Item), NEW s \in Seq(Item), NEW i,
         EventsIn(s, i) # {}
  PROVE  /\ EventsIn(q \o s, i) # {}
         /\ \E n \in EventsIn(s, i) :
              (q \o s)[LastOf(EventsIn(q \o s, i))] = s[n]
  <1>1. /\ Len(q) \in Nat /\ Len(s) \in Nat
        /\ DOMAIN q = 1 .. Len(q) /\ DOMAIN s = 1 .. Len(s)
        /\ DOMAIN (q \o s) = 1 .. (Len(q) + Len(s))
        /\ q \o s \in Seq(Item)
    OBVIOUS
  <1>2. PICK k \in EventsIn(s, i) : TRUE
    OBVIOUS
  <1>3. k \in 1 .. Len(s) /\ s[k].type = "event" /\ s[k].list = i
    BY <1>1, <1>2 DEF EventsIn
  <1>4. Len(q) + k \in DOMAIN (q \o s) /\ (q \o s)[Len(q) + k] = s[k]
    BY <1>1, <1>3
  <1>5. Len(q) + k \in EventsIn(q \o s, i)
    BY <1>3, <1>4 DEF EventsIn
  <1> DEFINE last == LastOf(EventsIn(q \o s, i))
  <1>6. /\ last \in 1 .. Len(q \o s)
        /\ (q \o s)[last].type = "event" /\ (q \o s)[last].list = i
        /\ Len(q) + k <= last
    BY <1>1, <1>5, EventsInPositions
  <1> HIDE DEF last
  <1>7. last - Len(q) \in 1 .. Len(s) /\ (q \o s)[last] = s[last - Len(q)]
    BY <1>1, <1>3, <1>6
  <1>8. last - Len(q) \in EventsIn(s, i)
    BY <1>1, <1>6, <1>7 DEF EventsIn
  <1> QED BY <1>5, <1>7, <1>8 DEF last

(* Without its first item, the events for i are those that remain, one place
   further on. *)
LEMMA EventsOfTail ==
  ASSUME NEW q \in Seq(Item), q # <<>>, NEW i
  PROVE  /\ \A n \in EventsIn(Tail(q), i) : n + 1 \in EventsIn(q, i)
         /\ \A n \in EventsIn(q, i) : n # 1 => n - 1 \in EventsIn(Tail(q), i)
         /\ \A n \in DOMAIN Tail(q) : Tail(q)[n] = q[n + 1]
         /\ EventsIn(Tail(q), i) # {} =>
              /\ EventsIn(q, i) # {}
              /\ Tail(q)[LastOf(EventsIn(Tail(q), i))]
                   = q[LastOf(EventsIn(q, i))]
  <1>1. /\ Tail(q) \in Seq(Item) /\ Len(q) \in Nat /\ Len(q) >= 1
        /\ Len(Tail(q)) = Len(q) - 1
        /\ DOMAIN q = 1 .. Len(q) /\ DOMAIN Tail(q) = 1 .. (Len(q) - 1)
        /\ \A n \in 1 .. (Len(q) - 1) : Tail(q)[n] = q[n + 1]
    OBVIOUS
  <1>2. \A n \in EventsIn(Tail(q), i) : n + 1 \in EventsIn(q, i)
    BY <1>1 DEF EventsIn
  <1>3. ASSUME NEW n \in EventsIn(q, i), n # 1
        PROVE  n - 1 \in EventsIn(Tail(q), i)
    <2>1. n \in 1 .. Len(q) /\ q[n].type = "event" /\ q[n].list = i
      BY <1>1 DEF EventsIn
    <2>2. n - 1 \in 1 .. (Len(q) - 1) /\ (n - 1) + 1 = n
      BY <1>1, <1>3, <2>1
    <2>3. Tail(q)[n - 1] = q[n]
      BY <1>1, <2>2
    <2> QED BY <1>1, <2>1, <2>2, <2>3 DEF EventsIn
  <1>4. ASSUME EventsIn(Tail(q), i) # {}
        PROVE  /\ EventsIn(q, i) # {}
               /\ Tail(q)[LastOf(EventsIn(Tail(q), i))]
                    = q[LastOf(EventsIn(q, i))]
    <2> DEFINE a == LastOf(EventsIn(Tail(q), i))
               b == LastOf(EventsIn(q, i))
    <2>1. EventsIn(q, i) # {}
      BY <1>2, <1>4
    <2>2. /\ a \in 1 .. (Len(q) - 1) /\ a \in EventsIn(Tail(q), i)
          /\ \A n \in EventsIn(Tail(q), i) : n <= a
      BY <1>1, <1>4, EventsInPositions
    <2>3. /\ b \in 1 .. Len(q) /\ b \in EventsIn(q, i)
          /\ \A n \in EventsIn(q, i) : n <= b
      BY <1>1, <2>1, EventsInPositions
    <2> HIDE DEF a, b
    <2>4. a + 1 <= b
      BY <1>2, <2>2, <2>3
    <2>5. b - 1 <= a
      <3>1. b # 1
        BY <1>1, <2>2, <2>3, <2>4
      <3> QED BY <1>3, <2>2, <2>3, <3>1
    <2>6. b = a + 1
      BY <1>1, <2>2, <2>3, <2>4, <2>5
    <2> QED BY <1>1, <2>1, <2>2, <2>6 DEF a, b
  <1> QED BY <1>1, <1>2, <1>3, <1>4

---------------------------------------------------------------------------------
(***************************************************************************)
(* The inductive invariant: TypeOK, WaitingIsJustified and ListsAgree,     *)
(* phone by phone, and that a phone without a view has no list and is not  *)
(* current.                                                                *)
(***************************************************************************)

ListTypes ==
  /\ view    \in [Devices -> QueryView]
  /\ lists   \in [Devices -> Seq(List)]
  /\ main    \in [Devices -> Seq(Item)]
  /\ asked   \in [Devices -> Nat]
  /\ orphans \in [Devices -> Nat]

EventsHaveLists(d) ==
  \A n \in DOMAIN main[d] :
    main[d][n].type = "event" => main[d][n].list \in DOMAIN lists[d]

ListAgrees(d, i) ==
  lists[d][i].raised => Upcoming(d, i) = Content(view[d].docs)

WaitIsJustified(d, i) ==
  ~lists[d][i].raised => /\ ~ShouldRaiseInitialEvent(view[d].current, view[d].docs,
                                                     online[d])
                         /\ EventsFor(d, i) = {}

NoViewNoList(d) == ~view[d].open => lists[d] = <<>> /\ ~view[d].current

PhoneFine(d) ==
  /\ EventsHaveLists(d)
  /\ \A i \in DOMAIN lists[d] : ListAgrees(d, i) /\ WaitIsJustified(d, i)
  /\ NoViewNoList(d)

ListsInv ==
  /\ StoreTypeOK
  /\ AnswersMatchQueue
  /\ ListTypes
  /\ \A d \in Devices : PhoneFine(d)

LEMMA ListsInvImplies == ListsInv => TypeOK /\ ListsAgree /\ WaitingIsJustified
  <1> SUFFICES ASSUME ListsInv PROVE TypeOK /\ ListsAgree /\ WaitingIsJustified
    OBVIOUS
  <1>1. TypeOK
    BY DEF ListsInv, ListTypes, PhoneFine, EventsHaveLists, TypeOK
  <1>2. ListsAgree
    BY DEF ListsInv, PhoneFine, ListAgrees, ListsAgree
  <1>3. WaitingIsJustified
    BY DEF ListsInv, PhoneFine, WaitIsJustified, WaitingIsJustified,
           ShouldRaiseInitialEvent
  <1> QED BY <1>1, <1>2, <1>3

LEMMA FunctionIsSeq ==
  ASSUME NEW n \in Nat, NEW S, NEW f \in [1 .. n -> S]
  PROVE  f \in Seq(S)
  OBVIOUS

LEMMA RaisedType ==
  ASSUME NEW l \in List, NEW b \in BOOLEAN
  PROVE  /\ Informed(l, b) \in List
         /\ Informed(l, b).raised = (l.raised \/ b)
         /\ Informed(l, b).pets = l.pets
  <1>1. (l.raised \/ b) \in BOOLEAN
    OBVIOUS
  <1>2. ASSUME NEW c \in BOOLEAN
        PROVE  /\ [l EXCEPT !.raised = c] \in List
               /\ [l EXCEPT !.raised = c].raised = c
               /\ [l EXCEPT !.raised = c].pets = l.pets
    BY DEF List
  <1> QED BY <1>1, <1>2 DEF Informed

(* What Tell does to the lists it tells, and to the others. *)
TellDone(d, told, docs) ==
  /\ lists' \in [Devices -> Seq(List)] /\ main' \in [Devices -> Seq(Item)]
  /\ \A e \in Devices \ {d} : lists'[e] = lists[e] /\ main'[e] = main[e]
  /\ DOMAIN lists'[d] = DOMAIN lists[d]
  /\ \A i \in DOMAIN lists[d] :
       /\ lists'[d][i].raised = (lists[d][i].raised \/ i \in told)
       /\ lists'[d][i].pets = lists[d][i].pets
  /\ EventsHaveLists(d)'
  /\ \A i \in told : /\ EventsFor(d, i)' # {}
                     /\ Upcoming(d, i)' = Content(docs)
  /\ \A i \in DOMAIN lists[d] \ told :
       /\ EventsFor(d, i)' = EventsFor(d, i)
       /\ Upcoming(d, i)' = Upcoming(d, i)

LEMMA TellEffect ==
  ASSUME ListTypes, NEW d \in Devices, EventsHaveLists(d),
         NEW docs \in [Pets -> ViewDocument],
         NEW told \in SUBSET DOMAIN lists[d],
         NEW first \in Seq(Item), NoEvents(first),
         Tell(d, told, docs, first)
  PROVE  TellDone(d, told, docs)
  <1> DEFINE turn == InTurn(told)
             new == [n \in DOMAIN turn |-> Event(turn[n], docs)]
             q == main[d] \o first
             listsNew == [i \in DOMAIN lists[d] |->
                            Informed(lists[d][i], i \in told)]
  <1>1. /\ lists[d] \in Seq(List) /\ main[d] \in Seq(Item)
        /\ Len(lists[d]) \in Nat /\ DOMAIN lists[d] = 1 .. Len(lists[d])
    BY DEF ListTypes
  <1>2. /\ lists' = [lists EXCEPT ![d] = listsNew]
        /\ main' = [main EXCEPT ![d] = main[d] \o first \o new]
    BY DEF Tell
  <1>3. /\ listsNew \in Seq(List) /\ DOMAIN listsNew = DOMAIN lists[d]
        /\ \A i \in DOMAIN lists[d] :
             /\ listsNew[i].raised = (lists[d][i].raised \/ i \in told)
             /\ listsNew[i].pets = lists[d][i].pets
    <2>1. \A i \in DOMAIN lists[d] :
            /\ listsNew[i] \in List
            /\ listsNew[i].raised = (lists[d][i].raised \/ i \in told)
            /\ listsNew[i].pets = lists[d][i].pets
      <3> SUFFICES ASSUME NEW i \in DOMAIN lists[d]
                   PROVE  /\ Informed(lists[d][i], i \in told) \in List
                          /\ Informed(lists[d][i], i \in told).raised
                               = (lists[d][i].raised \/ i \in told)
                          /\ Informed(lists[d][i], i \in told).pets
                               = lists[d][i].pets
        OBVIOUS
      <3> DEFINE b == i \in told
      <3>1. lists[d][i] \in List /\ b \in BOOLEAN
        BY <1>1
      <3> HIDE DEF b
      <3>2. /\ Informed(lists[d][i], b) \in List
            /\ Informed(lists[d][i], b).raised = (lists[d][i].raised \/ b)
            /\ Informed(lists[d][i], b).pets = lists[d][i].pets
        BY <3>1, RaisedType
      <3> QED BY <3>2 DEF b
    <2> HIDE DEF listsNew
    <2>2. DOMAIN listsNew = 1 .. Len(lists[d])
          /\ listsNew = [i \in 1 .. Len(lists[d]) |-> listsNew[i]]
      BY <1>1 DEF listsNew
    <2>3. listsNew \in [1 .. Len(lists[d]) -> List]
      BY <1>1, <2>1, <2>2
    <2>4. listsNew \in Seq(List)
      BY <1>1, <2>3, FunctionIsSeq
    <2> QED BY <1>1, <2>1, <2>2, <2>4
  <1>4. /\ Cardinality(told) \in Nat
        /\ turn \in [1 .. Cardinality(told) -> told]
        /\ \A i \in told : \E k \in 1 .. Cardinality(told) : turn[k] = i
    BY <1>1, InTurnRuns
  <1> HIDE DEF listsNew, turn
  <1>5. /\ new \in Seq(Item) /\ DOMAIN new = 1 .. Cardinality(told)
        /\ \A n \in DOMAIN new : /\ new[n].type = "event"
                                 /\ new[n].list = turn[n] /\ turn[n] \in told
                                 /\ new[n].pets = Content(docs)
    <2>1. Content(docs) \in Screen
      BY ContentType
    <2>2. \A n \in 1 .. Cardinality(told) : turn[n] \in told /\ turn[n] \in Nat
      BY <1>1, <1>4
    <2>3. \A n \in 1 .. Cardinality(told) : Event(turn[n], docs) \in Item
      BY <2>1, <2>2 DEF Event, Item
    <2>4. new = [n \in 1 .. Cardinality(told) |-> Event(turn[n], docs)]
      BY <1>4
    <2> HIDE DEF new
    <2>5. new \in [1 .. Cardinality(told) -> Item]
      BY <2>3, <2>4
    <2>6. new \in Seq(Item) /\ DOMAIN new = 1 .. Cardinality(told)
      BY <1>4, <2>5
    <2> QED BY <2>2, <2>4, <2>6 DEF Event
  <1> HIDE DEF new
  <1>6. q \in Seq(Item) /\ \A i : EventsIn(first, i) = {}
    BY <1>1 DEF EventsIn, NoEvents
  <1>7. /\ \A i : EventsIn(q, i) = EventsIn(main[d], i)
        /\ \A i : \A n \in EventsIn(main[d], i) : q[n] = main[d][n]
    BY <1>1, <1>6, OthersAppended
  <1>8. lists' \in [Devices -> Seq(List)] /\ main' \in [Devices -> Seq(Item)]
    BY <1>1, <1>2, <1>3, <1>5, <1>6 DEF ListTypes
  <1>9. /\ lists'[d] = listsNew /\ main'[d] = q \o new
        /\ \A e \in Devices \ {d} : lists'[e] = lists[e] /\ main'[e] = main[e]
    BY <1>2 DEF ListTypes
  <1> HIDE DEF q
  <1>0. /\ q \in Seq(Item) /\ new \in Seq(Item)
        /\ Len(q) \in Nat /\ DOMAIN q = 1 .. Len(q)
        /\ Len(new) \in Nat /\ DOMAIN new = 1 .. Len(new)
        /\ DOMAIN (q \o new) = 1 .. (Len(q) + Len(new))
    BY <1>5, <1>6
  <1>10. EventsHaveLists(d)'
    <2> SUFFICES ASSUME NEW n \in DOMAIN (q \o new), (q \o new)[n].type = "event"
                 PROVE  (q \o new)[n].list \in DOMAIN lists[d]
      BY <1>3, <1>9 DEF EventsHaveLists
    <2>2. CASE n \in DOMAIN q
      <3>1. (q \o new)[n] = q[n]
        BY <1>0, <2>2
      <3>2. n \in EventsIn(q, q[n].list)
        BY <2>2, <3>1 DEF EventsIn
      <3>3. n \in EventsIn(main[d], q[n].list) /\ q[n] = main[d][n]
        BY <1>7, <3>2
      <3> QED BY <3>1, <3>3 DEF EventsIn, EventsHaveLists
    <2>3. CASE n \notin DOMAIN q
      <3>1. n - Len(q) \in DOMAIN new /\ (q \o new)[n] = new[n - Len(q)]
        BY <1>0, <2>3
      <3> QED BY <1>5, <3>1
    <2> QED BY <2>2, <2>3
  <1>11. ASSUME NEW i \in told
         PROVE  EventsFor(d, i)' # {} /\ Upcoming(d, i)' = Content(docs)
    <2>1. EventsIn(new, i) # {} /\ \A n \in EventsIn(new, i) : new[n].pets = Content(docs)
      BY <1>4, <1>5 DEF EventsIn
    <2>2. EventsFor(d, i)' = EventsIn(q \o new, i)
      BY <1>9 DEF EventsFor, EventsIn
    <2>3. /\ EventsIn(q \o new, i) # {}
          /\ \E n \in EventsIn(new, i) :
               (q \o new)[LastOf(EventsIn(q \o new, i))] = new[n]
      BY <1>0, <2>1, EventAppended
    <2> QED BY <1>9, <2>1, <2>2, <2>3 DEF Upcoming
  <1>12. ASSUME NEW i \in DOMAIN lists[d] \ told
         PROVE  EventsFor(d, i)' = EventsFor(d, i) /\ Upcoming(d, i)' = Upcoming(d, i)
    <2>1. EventsIn(new, i) = {}
      BY <1>5 DEF EventsIn
    <2>2. /\ EventsIn(q \o new, i) = EventsIn(q, i)
          /\ \A n \in EventsIn(q, i) : (q \o new)[n] = q[n]
      BY <1>0, <2>1, OthersAppended
    <2>3. /\ EventsFor(d, i) = EventsIn(main[d], i)
          /\ EventsFor(d, i)' = EventsIn(q \o new, i)
      BY <1>9 DEF EventsFor, EventsIn
    <2>4. ASSUME EventsFor(d, i) # {}
          PROVE  (q \o new)[LastOf(EventsFor(d, i))] = main[d][LastOf(EventsFor(d, i))]
      <3>1. LastOf(EventsFor(d, i)) \in EventsIn(main[d], i)
        BY <1>1, <2>3, <2>4, EventsInPositions
      <3> QED BY <1>7, <2>2, <3>1
    <2> QED BY <1>3, <1>7, <1>9, <2>2, <2>3, <2>4 DEF Upcoming
  <1> QED BY <1>3, <1>8, <1>9, <1>10, <1>11, <1>12 DEF TellDone

---------------------------------------------------------------------------------
(***************************************************************************)
(* The steps that move a view.                                             *)
(***************************************************************************)

(* A step leaves phone e, as far as its lists go, as it was. *)
Undisturbed(e) ==
  /\ view'[e] = view[e]
  /\ lists'[e] = lists[e]
  /\ main'[e] = main[e]
  /\ online'[e] = online[e]

LEMMA UndisturbedIsFine ==
  ASSUME NEW e \in Devices, PhoneFine(e), Undisturbed(e)
  PROVE  PhoneFine(e)'
  <1>1. EventsHaveLists(e)' /\ NoViewNoList(e)'
    BY DEF Undisturbed, PhoneFine, EventsHaveLists, NoViewNoList
  <1>2. \A i : EventsFor(e, i)' = EventsFor(e, i) /\ Upcoming(e, i)' = Upcoming(e, i)
    BY DEF Undisturbed, EventsFor, Upcoming
  <1>3. \A i \in DOMAIN lists[e] : ListAgrees(e, i)' /\ WaitIsJustified(e, i)'
    BY <1>2 DEF Undisturbed, PhoneFine, ListAgrees, WaitIsJustified
  <1> QED BY <1>1, <1>3 DEF Undisturbed, PhoneFine

ViewListsMainTypes ==
  /\ view  \in [Devices -> QueryView]
  /\ lists \in [Devices -> Seq(List)]
  /\ main  \in [Devices -> Seq(Item)]

OnlyPhone(d) ==
  \A e \in Devices \ {d} :
    view'[e] = view[e] /\ lists'[e] = lists[e] /\ main'[e] = main[e]

(* A new snapshot: every list that has to know is told, and those that are told
   nothing still have reason to wait. *)
LEMMA SnapshotEffect ==
  ASSUME ListTypes, NEW d \in Devices, PhoneFine(d), view[d].open,
         NEW new \in [Pets -> ViewDocument], NEW current \in BOOLEAN,
         NEW first \in Seq(Item), NoEvents(first),
         EmitNewSnapshots(d, new, current, online'[d], first),
         current \/ (current = view[d].current /\ online'[d] = online[d])
  PROVE  ViewListsMainTypes' /\ OnlyPhone(d) /\ PhoneFine(d)'
  <1> DEFINE old == view[d].docs
             changes == Changes(old, new)
             docs == ApplyChanges(old, new)
             state == online'[d]
             told == {i \in DOMAIN lists[d] :
                        /\ changes # {} \/ current # view[d].current
                        /\ OnViewSnapshot(lists[d][i].raised, current, docs,
                                          changes, state)}
  <1>1. view[d] \in QueryView /\ old \in [Pets -> ViewDocument]
        /\ lists[d] \in Seq(List)
    BY DEF ListTypes, QueryView
  <1>2. /\ docs \in [Pets -> ViewDocument]
        /\ changes = {} => docs = old
        /\ ~ShouldRaiseEvent(changes) => Content(docs) = Content(old)
    BY <1>1, ApplyChangesKeeps
  <1>3. /\ view' = [view EXCEPT ![d].docs = docs, ![d].current = current]
        /\ Tell(d, told, docs, first)
    BY DEF EmitNewSnapshots
  <1>4. told \in SUBSET DOMAIN lists[d]
    OBVIOUS
  <1>5. \A i \in DOMAIN lists[d] :
          i \in told <=>
            /\ changes # {} \/ current # view[d].current
            /\ OnViewSnapshot(lists[d][i].raised, current, docs, changes, state)
    OBVIOUS
  <1> HIDE DEF told, changes, docs, old
  <1>6. /\ view' \in [Devices -> QueryView]
        /\ view'[d].open /\ view'[d].docs = docs /\ view'[d].current = current
        /\ \A e \in Devices \ {d} : view'[e] = view[e]
    <2>1. view' = [view EXCEPT ![d] = [view[d] EXCEPT !.docs = docs,
                                                      !.current = current]]
      BY <1>3
    <2>2. /\ [view[d] EXCEPT !.docs = docs, !.current = current] \in QueryView
          /\ [view[d] EXCEPT !.docs = docs, !.current = current].open = view[d].open
          /\ [view[d] EXCEPT !.docs = docs, !.current = current].docs = docs
          /\ [view[d] EXCEPT !.docs = docs, !.current = current].current = current
      BY <1>1, <1>2 DEF QueryView, old
    <2> QED BY <2>1, <2>2 DEF ListTypes
  <1>7. EventsHaveLists(d)
    BY DEF PhoneFine
  <1>7a. TellDone(d, told, docs)
    BY <1>2, <1>3, <1>4, <1>7, TellEffect
  <1>8. /\ lists' \in [Devices -> Seq(List)] /\ main' \in [Devices -> Seq(Item)]
        /\ \A e \in Devices \ {d} : lists'[e] = lists[e] /\ main'[e] = main[e]
        /\ DOMAIN lists'[d] = DOMAIN lists[d]
        /\ \A i \in DOMAIN lists[d] :
             /\ lists'[d][i].raised = (lists[d][i].raised \/ i \in told)
             /\ lists'[d][i].pets = lists[d][i].pets
        /\ EventsHaveLists(d)'
        /\ \A i \in told : /\ EventsFor(d, i)' # {}
                           /\ Upcoming(d, i)' = Content(docs)
        /\ \A i \in DOMAIN lists[d] \ told :
             /\ EventsFor(d, i)' = EventsFor(d, i)
             /\ Upcoming(d, i)' = Upcoming(d, i)
    BY <1>7a DEF TellDone
  <1>9. ASSUME NEW i \in DOMAIN lists[d]
        PROVE  ListAgrees(d, i)' /\ WaitIsJustified(d, i)'
    <2>0. ListAgrees(d, i) /\ WaitIsJustified(d, i)
      BY DEF PhoneFine
    <2>1. CASE i \in told
      BY <1>6, <1>8, <2>1 DEF ListAgrees, WaitIsJustified
    <2>2. CASE i \notin told /\ lists[d][i].raised
      <3>1. Content(docs) = Content(old)
        BY <1>2, <1>5, <2>2 DEF OnViewSnapshot
      <3>2. Upcoming(d, i)' = Content(docs)
        BY <1>8, <2>0, <2>2, <3>1 DEF ListAgrees, old
      <3> QED BY <1>6, <1>8, <2>2, <3>2 DEF ListAgrees, WaitIsJustified
    <2>3. CASE i \notin told /\ ~lists[d][i].raised
      <3>1. ~ShouldRaiseInitialEvent(view[d].current, old, online[d])
            /\ EventsFor(d, i) = {}
        BY <2>0, <2>3 DEF WaitIsJustified, old
      <3>2. ~view[d].current
        BY <3>1 DEF ShouldRaiseInitialEvent
      <3>3. ~ShouldRaiseInitialEvent(current, docs, state)
        <4>1. CASE changes # {} \/ current # view[d].current
          BY <1>5, <2>3, <4>1 DEF OnViewSnapshot
        <4>2. CASE changes = {} /\ current = view[d].current
          BY <1>2, <3>1, <3>2, <4>2
        <4> QED BY <4>1, <4>2
      <3>4. /\ ~lists'[d][i].raised /\ EventsFor(d, i)' = {}
        BY <1>8, <2>3, <3>1
      <3> QED BY <1>6, <3>3, <3>4 DEF ListAgrees, WaitIsJustified
    <2> QED BY <2>1, <2>2, <2>3
  <1>10. NoViewNoList(d)'
    BY <1>6 DEF NoViewNoList
  <1>11. PhoneFine(d)'
    BY <1>8, <1>9, <1>10 DEF PhoneFine
  <1> QED BY <1>6, <1>8, <1>11 DEF ViewListsMainTypes, OnlyPhone

(* A change of the online state. *)
LEMMA OnlineEffect ==
  ASSUME ListTypes, NEW d \in Devices, PhoneFine(d), view[d].open,
         SetAndBroadcast(d, online'[d])
  PROVE  ViewListsMainTypes' /\ OnlyPhone(d) /\ PhoneFine(d)'
  <1> DEFINE old == view[d].docs
             state == online'[d]
             current == view[d].current /\ state # "Offline"
             told == {i \in DOMAIN lists[d] :
                        OnOnlineStateChanged(lists[d][i].raised, current, old, state)}
  <1>1. /\ view[d] \in QueryView /\ old \in [Pets -> ViewDocument]
        /\ current \in BOOLEAN
        /\ <<>> \in Seq(Item) /\ NoEvents(<<>>)
    BY DEF ListTypes, QueryView, NoEvents
  <1>2. /\ view' = [view EXCEPT ![d].current = current]
        /\ Tell(d, told, old, <<>>)
    BY DEF SetAndBroadcast
  <1>3. told \in SUBSET DOMAIN lists[d]
    OBVIOUS
  <1>4. \A i \in DOMAIN lists[d] :
          i \in told <=> /\ ~lists[d][i].raised
                         /\ ShouldRaiseInitialEvent(current, old, state)
    BY DEF OnOnlineStateChanged
  <1> HIDE DEF told, current, old
  <1>5. /\ view' \in [Devices -> QueryView]
        /\ view'[d].open /\ view'[d].docs = old /\ view'[d].current = current
        /\ \A e \in Devices \ {d} : view'[e] = view[e]
    <2>1. /\ [view[d] EXCEPT !.current = current] \in QueryView
          /\ [view[d] EXCEPT !.current = current].open = view[d].open
          /\ [view[d] EXCEPT !.current = current].docs = old
          /\ [view[d] EXCEPT !.current = current].current = current
      BY <1>1 DEF QueryView, old
    <2>2. view' = [view EXCEPT ![d] = [view[d] EXCEPT !.current = current]]
      BY <1>2
    <2> QED BY <2>1, <2>2 DEF ListTypes
  <1>6. EventsHaveLists(d)
    BY DEF PhoneFine
  <1>6a. TellDone(d, told, old)
    BY <1>1, <1>2, <1>3, <1>6, TellEffect
  <1>7. /\ lists' \in [Devices -> Seq(List)] /\ main' \in [Devices -> Seq(Item)]
        /\ \A e \in Devices \ {d} : lists'[e] = lists[e] /\ main'[e] = main[e]
        /\ DOMAIN lists'[d] = DOMAIN lists[d]
        /\ \A i \in DOMAIN lists[d] :
             /\ lists'[d][i].raised = (lists[d][i].raised \/ i \in told)
             /\ lists'[d][i].pets = lists[d][i].pets
        /\ EventsHaveLists(d)'
        /\ \A i \in told : /\ EventsFor(d, i)' # {}
                           /\ Upcoming(d, i)' = Content(old)
        /\ \A i \in DOMAIN lists[d] \ told :
             /\ EventsFor(d, i)' = EventsFor(d, i)
             /\ Upcoming(d, i)' = Upcoming(d, i)
    BY <1>6a DEF TellDone
  <1>8. ASSUME NEW i \in DOMAIN lists[d]
        PROVE  ListAgrees(d, i)' /\ WaitIsJustified(d, i)'
    <2>0. ListAgrees(d, i) /\ WaitIsJustified(d, i)
      BY DEF PhoneFine
    <2>1. CASE i \in told
      BY <1>5, <1>7, <2>1 DEF ListAgrees, WaitIsJustified
    <2>2. CASE i \notin told /\ lists[d][i].raised
      BY <1>5, <1>7, <2>0, <2>2 DEF ListAgrees, WaitIsJustified, old
    <2>3. CASE i \notin told /\ ~lists[d][i].raised
      BY <1>4, <1>5, <1>7, <2>0, <2>3 DEF ListAgrees, WaitIsJustified
    <2> QED BY <2>1, <2>2, <2>3
  <1>9. NoViewNoList(d)'
    BY <1>5 DEF NoViewNoList
  <1>10. PhoneFine(d)'
    BY <1>7, <1>8, <1>9 DEF PhoneFine
  <1> QED BY <1>5, <1>7, <1>10 DEF ViewListsMainTypes, OnlyPhone

(* Phones other than the one that took the step. *)
LEMMA OthersAreFine ==
  ASSUME NEW d \in Devices, \A e \in Devices : PhoneFine(e),
         PhoneFine(d)', OnlyPhone(d),
         \A e \in Devices \ {d} : online'[e] = online[e]
  PROVE  \A e \in Devices : PhoneFine(e)'
  <1> SUFFICES ASSUME NEW e \in Devices \ {d} PROVE PhoneFine(e)'
    OBVIOUS
  <1>1. Undisturbed(e)
    BY DEF OnlyPhone, Undisturbed
  <1> QED BY <1>1, UndisturbedIsFine

(* Items that are no events, on the main queue of a phone without a view. *)
LEMMA ItemsWithoutView ==
  ASSUME ListTypes, NEW d \in Devices, PhoneFine(d), ~view[d].open,
         NEW first \in Seq(Item), NoEvents(first),
         main' = [main EXCEPT ![d] = main[d] \o first],
         UNCHANGED <<view, lists>>
  PROVE  ViewListsMainTypes' /\ OnlyPhone(d) /\ PhoneFine(d)'
  <1>1. /\ main[d] \in Seq(Item) /\ lists[d] = <<>> /\ ~view[d].current
        /\ EventsHaveLists(d)
    BY DEF ListTypes, PhoneFine, NoViewNoList
  <1>2. NoEvents(main[d])
    BY <1>1 DEF NoEvents, EventsHaveLists
  <1>3. main'[d] = main[d] \o first /\ main[d] \o first \in Seq(Item)
    BY <1>1 DEF ListTypes
  <1>4. NoEvents(main[d] \o first)
    <2> SUFFICES ASSUME NEW n \in DOMAIN (main[d] \o first)
                 PROVE  (main[d] \o first)[n].type # "event"
      BY DEF NoEvents
    <2>1. CASE n \in DOMAIN main[d]
      <3>1. (main[d] \o first)[n] = main[d][n]
        BY <1>1, <2>1
      <3> QED BY <1>2, <2>1, <3>1 DEF NoEvents
    <2>2. CASE n \notin DOMAIN main[d]
      <3>1. /\ n - Len(main[d]) \in DOMAIN first
            /\ (main[d] \o first)[n] = first[n - Len(main[d])]
        BY <1>1, <2>2
      <3> QED BY <3>1 DEF NoEvents
    <2> QED BY <2>1, <2>2
  <1>5. EventsHaveLists(d)' /\ NoViewNoList(d)'
    BY <1>1, <1>3, <1>4 DEF EventsHaveLists, NoViewNoList, NoEvents
  <1>6. PhoneFine(d)'
    BY <1>1, <1>5 DEF PhoneFine
  <1> QED BY <1>3, <1>6 DEF ListTypes, ViewListsMainTypes, OnlyPhone

(* The end of a step of the worker queue. *)
LEMMA EmitEffect ==
  ASSUME ListTypes, StoreTypeOK', NEW d \in Devices, PhoneFine(d),
         NEW first \in Seq(Item), NoEvents(first), NEW current \in BOOLEAN,
         Emit(d, first, current),
         view[d].open => \/ current
                         \/ current = view[d].current /\ online'[d] = online[d]
  PROVE  ViewListsMainTypes' /\ OnlyPhone(d) /\ PhoneFine(d)'
  <1>1. CASE view[d].open
    <2> DEFINE new == LocalDocuments(d)'
    <2>1. new \in [Pets -> ViewDocument]
      BY NewDocumentsType
    <2>2. EmitNewSnapshots(d, new, current, online'[d], first)
      BY <1>1 DEF Emit
    <2> HIDE DEF new
    <2> QED BY <1>1, <2>1, <2>2, SnapshotEffect
  <1>2. CASE ~view[d].open
    <2>1. /\ main' = [main EXCEPT ![d] = main[d] \o first]
          /\ UNCHANGED <<view, lists>>
      BY <1>2 DEF Emit
    <2> QED BY <1>2, <2>1, ItemsWithoutView
  <1> QED BY <1>1, <1>2

---------------------------------------------------------------------------------
(***************************************************************************)
(* The actions, one by one.                                                *)
(***************************************************************************)

ListsFine == ListTypes /\ \A e \in Devices : PhoneFine(e)

LEMMA OnePhoneIsFine ==
  ASSUME ListsFine, NEW d \in Devices,
         ViewListsMainTypes', OnlyPhone(d), PhoneFine(d)',
         asked' \in [Devices -> Nat], orphans' \in [Devices -> Nat],
         \A e \in Devices \ {d} : online'[e] = online[e]
  PROVE  ListsFine'
  <1>1. \A e \in Devices : PhoneFine(e)'
    BY OthersAreFine DEF ListsFine
  <1> QED BY <1>1 DEF ListsFine, ListTypes, ViewListsMainTypes

(* No phone is disturbed. *)
LEMMA UndisturbedListsFine ==
  ASSUME ListsFine, \A e \in Devices : Undisturbed(e),
         UNCHANGED <<view, lists, main>>,
         asked' \in [Devices -> Nat], orphans' \in [Devices -> Nat]
  PROVE  ListsFine'
  <1>1. \A e \in Devices : PhoneFine(e)'
    BY UndisturbedIsFine DEF ListsFine
  <1> QED BY <1>1 DEF ListsFine, ListTypes

LEMMA OnAppearFine ==
  ASSUME ListsFine, NEW d \in Devices, OnAppear(d)
  PROVE  ListsFine'
  <1>1. asked' \in [Devices -> Nat] /\ orphans' \in [Devices -> Nat]
    BY DEF ListsFine, ListTypes, OnAppear
  <1>2. UNCHANGED <<view, lists, main, online>>
    BY DEF OnAppear, storeVars
  <1>3. \A e \in Devices : Undisturbed(e)
    BY <1>2 DEF Undisturbed
  <1> QED BY <1>1, <1>2, <1>3, UndisturbedListsFine

LEMMA UserWritesFine ==
  ASSUME ListsFine, StoreTypeOK', NEW d \in Devices, NEW m \in Mutation,
         UserWrites(d, m)
  PROVE  ListsFine'
  <1>1. /\ ListTypes /\ PhoneFine(d) /\ view[d].current \in BOOLEAN
        /\ <<>> \in Seq(Item) /\ NoEvents(<<>>)
    BY DEF ListsFine, ListTypes, QueryView, NoEvents
  <1>2. online' = online
    BY DEF UserWrites, WriteMutations
  <1>3. Emit(d, <<>>, view[d].current)
    BY DEF UserWrites
  <1>4. ViewListsMainTypes' /\ OnlyPhone(d) /\ PhoneFine(d)'
    BY <1>1, <1>2, <1>3, EmitEffect
  <1>5. asked' \in [Devices -> Nat] /\ orphans' \in [Devices -> Nat]
    BY DEF ListsFine, ListTypes, UserWrites
  <1> QED BY <1>2, <1>4, <1>5, OnePhoneIsFine

LEMMA ListsAnswerFine ==
  ASSUME ListsFine, StoreTypeOK', NEW d \in Devices, ListsAnswer(d)
  PROVE  ListsFine'
  <1>1. /\ ListTypes /\ PhoneFine(d) /\ view[d].current \in BOOLEAN
    BY DEF ListsFine, ListTypes, QueryView
  <1>2. NotifyUser(d) \in Seq(Item) /\ NoEvents(NotifyUser(d))
    <2>1. Completion \in Item /\ Completion.type # "event"
      BY ClosedType DEF Completion, Item
    <2> QED BY <2>1 DEF NotifyUser, NoEvents
  <1>3. online' = online
    BY DEF ListsAnswer, HandleSuccessfulWrite, HandleRejectedWrite
  <1>4. Emit(d, NotifyUser(d), view[d].current)
    BY DEF ListsAnswer
  <1>5. ViewListsMainTypes' /\ OnlyPhone(d) /\ PhoneFine(d)'
    BY <1>1, <1>2, <1>3, <1>4, EmitEffect
  <1>6. asked' \in [Devices -> Nat] /\ orphans' \in [Devices -> Nat]
    BY DEF ListsFine, ListTypes, ListsAnswer
  <1> QED BY <1>3, <1>5, <1>6, OnePhoneIsFine

LEMMA ListsSnapshotFine ==
  ASSUME ListsFine, StoreTypeOK, StoreTypeOK', NEW d \in Devices, ListsSnapshot(d)
  PROVE  ListsFine'
  <1>1. /\ ListTypes /\ PhoneFine(d) /\ <<>> \in Seq(Item) /\ NoEvents(<<>>)
    BY DEF ListsFine, NoEvents
  <1>2. \A e \in Devices \ {d} : online'[e] = online[e]
    BY DEF ListsSnapshot, ApplyRemoteEvent, StoreTypeOK
  <1>3. Emit(d, <<>>, TRUE)
    BY DEF ListsSnapshot
  <1>4. ViewListsMainTypes' /\ OnlyPhone(d) /\ PhoneFine(d)'
    BY <1>1, <1>3, EmitEffect
  <1>5. asked' \in [Devices -> Nat] /\ orphans' \in [Devices -> Nat]
    BY DEF ListsFine, ListTypes, ListsSnapshot
  <1> QED BY <1>2, <1>4, <1>5, OnePhoneIsFine

(* The two steps that move a phone's online state and nothing else of it. *)
LEMMA OnlineStepFine ==
  ASSUME ListsFine, NEW d \in Devices, view[d].open,
         HandleOnlineStateChange(d, online'[d]),
         \A e \in Devices \ {d} : online'[e] = online[e],
         UNCHANGED <<asked, orphans>>
  PROVE  ListsFine'
  <1>1. asked' \in [Devices -> Nat] /\ orphans' \in [Devices -> Nat]
    BY DEF ListsFine, ListTypes
  <1>2. CASE online'[d] = online[d] /\ UNCHANGED <<view, lists, main>>
    <2>1. \A e \in Devices : Undisturbed(e)
      BY <1>2 DEF Undisturbed
    <2> QED BY <1>1, <1>2, <2>1, UndisturbedListsFine
  <1>3. CASE SetAndBroadcast(d, online'[d])
    <2>1. ListTypes /\ PhoneFine(d)
      BY DEF ListsFine
    <2>2. ViewListsMainTypes' /\ OnlyPhone(d) /\ PhoneFine(d)'
      BY <1>3, <2>1, OnlineEffect
    <2> QED BY <1>1, <2>2, OnePhoneIsFine
  <1> QED BY <1>2, <1>3 DEF HandleOnlineStateChange

LEMMA ListsStreamCloseFine ==
  ASSUME ListsFine, StoreTypeOK, NEW d \in Devices, ListsStreamClose(d)
  PROVE  ListsFine'
  <1>1. /\ view[d].open /\ HandleOnlineStateChange(d, online'[d])
        /\ UNCHANGED <<asked, orphans>>
    BY DEF ListsStreamClose
  <1>2. \A e \in Devices \ {d} : online'[e] = online[e]
    BY DEF ListsStreamClose, OnWatchStreamClose, StoreTypeOK
  <1> QED BY <1>1, <1>2, OnlineStepFine

LEMMA OnlineStateTimeoutFine ==
  ASSUME ListsFine, StoreTypeOK, NEW d \in Devices, OnlineStateTimeout(d)
  PROVE  ListsFine'
  <1>1. online'[d] = "Offline" /\ \A e \in Devices \ {d} : online'[e] = online[e]
    BY DEF OnlineStateTimeout, StoreTypeOK
  <1>2. /\ view[d].open /\ HandleOnlineStateChange(d, online'[d])
        /\ UNCHANGED <<asked, orphans>>
    BY <1>1 DEF OnlineStateTimeout
  <1> QED BY <1>1, <1>2, OnlineStepFine

LEMMA ListsServerStepFine ==
  ASSUME ListsFine, NEW d \in Devices, ListsServerStep(d)
  PROVE  ListsFine'
  <1>1. UNCHANGED <<view, lists, main, asked, orphans, online>>
    BY DEF ListsServerStep, listVars, ServerHandlesWrite, OnWriteStreamClose,
           SendSnapshot
  <1>2. asked' \in [Devices -> Nat] /\ orphans' \in [Devices -> Nat]
    BY <1>1 DEF ListsFine, ListTypes
  <1>3. \A e \in Devices : Undisturbed(e)
    BY <1>1 DEF Undisturbed
  <1> QED BY <1>1, <1>2, <1>3, UndisturbedListsFine

LEMMA HousemateWritesFine ==
  ASSUME ListsFine, NEW m \in Mutation, HousemateWrites(m)
  PROVE  ListsFine'
  <1>1. UNCHANGED <<view, lists, main, asked, orphans, online>>
    BY DEF HousemateWrites, listVars
  <1>2. asked' \in [Devices -> Nat] /\ orphans' \in [Devices -> Nat]
    BY <1>1 DEF ListsFine, ListTypes
  <1>3. \A e \in Devices : Undisturbed(e)
    BY <1>1 DEF Undisturbed
  <1> QED BY <1>1, <1>2, <1>3, UndisturbedListsFine

LEMMA RelaunchFine ==
  ASSUME ListsFine, StoreTypeOK, NEW d \in Devices, Relaunch(d)
  PROVE  ListsFine'
  <1>1. \A e \in Devices \ {d} : online'[e] = online[e]
    BY DEF Relaunch, Restart, StoreTypeOK
  <1>2. /\ view' = [view EXCEPT ![d] = Closed]
        /\ lists' = [lists EXCEPT ![d] = <<>>]
        /\ main' = [main EXCEPT ![d] = <<>>]
        /\ asked' = [asked EXCEPT ![d] = 0]
        /\ orphans' = [orphans EXCEPT ![d] = Len(queue[d])]
    BY DEF Relaunch, ListsRelaunched
  <1>3. /\ ViewListsMainTypes' /\ OnlyPhone(d)
        /\ view'[d] = Closed /\ lists'[d] = <<>> /\ main'[d] = <<>>
    BY <1>2, ClosedType
    DEF ListsFine, ListTypes, ViewListsMainTypes, OnlyPhone
  <1>4. PhoneFine(d)'
    BY <1>3 DEF PhoneFine, EventsHaveLists, NoViewNoList, Closed
  <1>5. asked' \in [Devices -> Nat] /\ orphans' \in [Devices -> Nat]
    <2>1. Len(queue[d]) \in Nat
      BY DEF StoreTypeOK
    <2> QED BY <1>2, <2>1 DEF ListsFine, ListTypes
  <1> QED BY <1>1, <1>3, <1>4, <1>5, OnePhoneIsFine

(* The last event for i that goes is the first item. *)
LEMMA LastEventGoes ==
  ASSUME NEW q \in Seq(Item), q # <<>>, NEW i,
         EventsIn(Tail(q), i) = {}, EventsIn(q, i) # {}
  PROVE  Head(q).type = "event" /\ Head(q).list = i /\ q[LastOf(EventsIn(q, i))] = Head(q)
  <1>1. LastOf(EventsIn(q, i)) \in EventsIn(q, i)
    BY EventsInPositions
  <1>2. LastOf(EventsIn(q, i)) = 1
    BY <1>1, EventsOfTail
  <1>3. Head(q) = q[1]
    OBVIOUS
  <1> QED BY <1>1, <1>2, <1>3 DEF EventsIn

LEMMA HeadAndTail ==
  ASSUME NEW q \in Seq(Item), q # <<>>
  PROVE  /\ Tail(q) \in Seq(Item) /\ 1 \in DOMAIN q /\ Head(q) = q[1]
         /\ \A n \in DOMAIN Tail(q) : n + 1 \in DOMAIN q /\ Tail(q)[n] = q[n + 1]
  OBVIOUS

LEMMA RunMainQueueFine ==
  ASSUME ListsFine, NEW d \in Devices, RunMainQueue(d)
  PROVE  ListsFine'
  <1> DEFINE q == main[d]
             item == Head(q)
  <1>1. /\ q \in Seq(Item) /\ q # <<>> /\ item \in Item /\ lists[d] \in Seq(List)
        /\ DOMAIN lists[d] = 1 .. Len(lists[d])
        /\ PhoneFine(d) /\ EventsHaveLists(d) /\ NoViewNoList(d)
    BY DEF ListsFine, ListTypes, RunMainQueue, PhoneFine
  <1>2. /\ main' = [main EXCEPT ![d] = Tail(q)] /\ Tail(q) \in Seq(Item)
        /\ \A n \in DOMAIN Tail(q) : n + 1 \in DOMAIN q /\ Tail(q)[n] = q[n + 1]
        /\ 1 \in DOMAIN q /\ item = q[1]
    <2>1. main' = [main EXCEPT ![d] = Tail(q)]
      BY DEF RunMainQueue
    <2> HIDE DEF q
    <2> QED BY <1>1, <2>1, HeadAndTail DEF q
  <1>3. /\ main' \in [Devices -> Seq(Item)] /\ main'[d] = Tail(q)
        /\ \A e \in Devices \ {d} : main'[e] = main[e]
        /\ UNCHANGED <<view, online, orphans>>
    BY <1>1, <1>2 DEF ListsFine, ListTypes, RunMainQueue, storeVars
  <1>4. /\ lists' \in [Devices -> Seq(List)]
        /\ asked' \in [Devices -> Nat]
        /\ \A e \in Devices \ {d} : lists'[e] = lists[e]
        /\ DOMAIN lists'[d] = DOMAIN lists[d]
        /\ \A i \in DOMAIN lists[d] :
             /\ lists'[d][i].raised = lists[d][i].raised
             /\ lists'[d][i].pets = IF item.type = "event" /\ item.list = i
                                      THEN item.pets ELSE lists[d][i].pets
    <2>1. CASE /\ item.type = "event"
               /\ lists' = [lists EXCEPT ![d][item.list].pets = item.pets,
                                         ![d][item.list].published = TRUE]
               /\ UNCHANGED asked
      <3> DEFINE k == item.list
                 l == [lists[d][k] EXCEPT !.pets = item.pets, !.published = TRUE]
      <3>1. k \in DOMAIN lists[d]
        BY <1>1, <1>2, <2>1 DEF EventsHaveLists
      <3>2. lists[d][k] \in List /\ item.pets \in Screen
        BY <1>1, <3>1 DEF Item
      <3>3. l \in List /\ l.raised = lists[d][k].raised /\ l.pets = item.pets
        BY <3>2 DEF List
      <3>4. lists' = [lists EXCEPT ![d] = [lists[d] EXCEPT ![k] = l]]
        BY <2>1 DEF ListsFine, ListTypes
      <3> HIDE DEF k, l
      <3>5. /\ [lists[d] EXCEPT ![k] = l] \in Seq(List)
            /\ DOMAIN [lists[d] EXCEPT ![k] = l] = DOMAIN lists[d]
        BY <1>1, <3>1, <3>3
      <3>6. /\ lists' \in [Devices -> Seq(List)]
            /\ \A e \in Devices \ {d} : lists'[e] = lists[e]
            /\ lists'[d] = [lists[d] EXCEPT ![k] = l]
        BY <3>4, <3>5 DEF ListsFine, ListTypes
      <3>7. ASSUME NEW i \in DOMAIN lists[d]
            PROVE  /\ lists'[d][i].raised = lists[d][i].raised
                   /\ lists'[d][i].pets = IF i = k THEN item.pets
                                                   ELSE lists[d][i].pets
        BY <3>1, <3>3, <3>6
      <3> QED BY <2>1, <3>5, <3>6, <3>7 DEF k, ListsFine, ListTypes
    <2>2. CASE /\ item.type = "deleted"
               /\ asked' = [asked EXCEPT ![d] = @ + 1]
               /\ UNCHANGED lists
      BY <2>2 DEF ListsFine, ListTypes
    <2> QED BY <2>1, <2>2 DEF RunMainQueue
  <1> HIDE DEF item
  <1>5. EventsHaveLists(d)'
    BY <1>1, <1>2, <1>3, <1>4 DEF EventsHaveLists
  <1>6. ASSUME NEW i \in DOMAIN lists[d]
        PROVE  ListAgrees(d, i)' /\ WaitIsJustified(d, i)'
    <2>0. /\ ListAgrees(d, i) /\ WaitIsJustified(d, i)
          /\ EventsFor(d, i) = EventsIn(q, i)
          /\ EventsFor(d, i)' = EventsIn(Tail(q), i)
      BY <1>1, <1>3 DEF PhoneFine, EventsFor, EventsIn
    <2>1. EventsFor(d, i) = {} => EventsFor(d, i)' = {}
      BY <1>1, <2>0, EventsOfTail
    <2>2. Upcoming(d, i)' = Upcoming(d, i)
      <3>1. CASE EventsIn(Tail(q), i) # {}
        <4>1. /\ EventsIn(q, i) # {}
              /\ Tail(q)[LastOf(EventsIn(Tail(q), i))] = q[LastOf(EventsIn(q, i))]
          BY <1>1, <3>1, EventsOfTail
        <4> QED BY <1>3, <2>0, <3>1, <4>1 DEF Upcoming
      <3>2. CASE EventsIn(Tail(q), i) = {} /\ EventsIn(q, i) # {}
        <4>1. /\ item.type = "event" /\ item.list = i
              /\ q[LastOf(EventsIn(q, i))] = item
          BY <1>1, <3>2, LastEventGoes DEF item
        <4> QED BY <1>4, <2>0, <3>2, <4>1 DEF Upcoming
      <3>3. CASE EventsIn(Tail(q), i) = {} /\ EventsIn(q, i) = {}
        <4>1. ~(item.type = "event" /\ item.list = i)
          BY <1>2, <3>3 DEF EventsIn
        <4> QED BY <1>4, <2>0, <3>3, <4>1 DEF Upcoming
      <3> QED BY <3>1, <3>2, <3>3
    <2> QED BY <1>3, <1>4, <2>0, <2>1, <2>2 DEF ListAgrees, WaitIsJustified
  <1>7. NoViewNoList(d)'
    BY <1>1, <1>3, <1>4 DEF NoViewNoList
  <1>8. PhoneFine(d)'
    BY <1>4, <1>5, <1>6, <1>7 DEF PhoneFine
  <1>9. ViewListsMainTypes' /\ OnlyPhone(d)
    BY <1>3, <1>4 DEF ViewListsMainTypes, OnlyPhone, ListsFine, ListTypes
  <1>10. orphans' \in [Devices -> Nat]
    BY <1>3 DEF ListsFine, ListTypes
  <1> QED BY <1>3, <1>4, <1>8, <1>9, <1>10, OnePhoneIsFine

LEMMA AddQueryListenerFine ==
  ASSUME ListsFine, StoreTypeOK, NEW d \in Devices, AddQueryListener(d)
  PROVE  ListsFine'
  <1> SUFFICES ASSUME NEW k \in Nat, k = Len(lists[d]) + 1
               PROVE  ListsFine'
    BY DEF ListsFine, ListTypes
  <1> DEFINE docs == IF view[d].open THEN view[d].docs ELSE LocalDocuments(d)
             told == IF view[d].open THEN AddedList(d)
                     ELSE ShouldRaiseInitialEvent(FALSE, docs, online[d])
             q == main[d]
             l == [raised |-> told, published |-> FALSE, pets |-> Blank]
             new == IF told THEN <<Event(k, docs)>> ELSE <<>>
  <1>1. /\ view[d] \in QueryView /\ q \in Seq(Item) /\ lists[d] \in Seq(List)
        /\ Len(lists[d]) \in Nat /\ DOMAIN lists[d] = 1 .. Len(lists[d])
        /\ PhoneFine(d) /\ EventsHaveLists(d) /\ NoViewNoList(d)
    BY DEF ListsFine, ListTypes, PhoneFine
  <1>2. docs \in [Pets -> ViewDocument]
    BY <1>1, LocalDocumentsType DEF QueryView
  <1>3. told = ShouldRaiseInitialEvent(view[d].current, docs, online[d])
    BY <1>1 DEF AddedList, NoViewNoList, QueryView
  <1>4. /\ asked[d] > 0 /\ asked' = [asked EXCEPT ![d] = asked[d] - 1]
        /\ view' = [view EXCEPT ![d].open = TRUE, ![d].docs = docs]
        /\ lists' = [lists EXCEPT ![d] = Append(lists[d], l)]
        /\ main' = [main EXCEPT ![d] = IF told THEN Append(main[d], Event(k, docs))
                                              ELSE main[d]]
        /\ UNCHANGED <<online, orphans>>
    BY DEF AddQueryListener, storeVars
  <1>5. l \in List /\ l.raised = told /\ told \in BOOLEAN
    BY <1>3, ClosedType DEF List, ShouldRaiseInitialEvent
  <1>6. /\ new \in Seq(Item)
        /\ \A i : i # k => EventsIn(new, i) = {}
        /\ ~told => EventsIn(new, k) = {}
        /\ told => EventsIn(new, k) # {}
        /\ \A n \in EventsIn(new, k) : new[n].pets = Content(docs)
    <2>1. Content(docs) \in Screen /\ k \in Nat
      BY <1>1, <1>2, ContentType
    <2>2. /\ Event(k, docs) \in Item
          /\ Event(k, docs).type = "event" /\ Event(k, docs).list = k
          /\ Event(k, docs).pets = Content(docs)
      BY <2>1 DEF Event, Item
    <2> HIDE DEF docs, told
    <2>3. CASE told
      <3>1. /\ new \in Seq(Item) /\ DOMAIN new = {1} /\ new[1] = Event(k, docs)
        BY <2>2, <2>3
      <3> QED BY <2>2, <2>3, <3>1 DEF EventsIn
    <2>4. CASE ~told
      <3>1. new = <<>> /\ new \in Seq(Item) /\ DOMAIN new = {}
        BY <2>4
      <3> QED BY <2>4, <3>1 DEF EventsIn
    <2> QED BY <2>3, <2>4
  <1> HIDE DEF docs, l, told
  <1>7. main'[d] = q \o new /\ main' \in [Devices -> Seq(Item)]
        /\ \A e \in Devices \ {d} : main'[e] = main[e]
    <2>1. (IF told THEN Append(main[d], Event(k, docs)) ELSE main[d]) = q \o new
      <3>1. Append(q, Event(k, docs)) = q \o <<Event(k, docs)>> /\ q = q \o <<>>
        <4> HIDE DEF q
        <4> QED BY <1>1
      <3> QED BY <3>1
    <2>2. q \o new \in Seq(Item)
      BY <1>1, <1>6
    <2> HIDE DEF new
    <2> QED BY <1>4, <2>1, <2>2 DEF ListsFine, ListTypes
  <1> HIDE DEF new
  <1>8. /\ Append(lists[d], l) \in Seq(List)
        /\ DOMAIN Append(lists[d], l) = 1 .. k
        /\ Append(lists[d], l)[k] = l
        /\ \A i \in DOMAIN lists[d] : Append(lists[d], l)[i] = lists[d][i]
    BY <1>1, <1>5
  <1>9. /\ lists' \in [Devices -> Seq(List)]
        /\ \A e \in Devices \ {d} : lists'[e] = lists[e]
        /\ DOMAIN lists'[d] = 1 .. k /\ lists'[d][k] = l
        /\ \A i \in DOMAIN lists[d] : lists'[d][i] = lists[d][i]
    BY <1>4, <1>8 DEF ListsFine, ListTypes
  <1>10. /\ view' \in [Devices -> QueryView]
         /\ \A e \in Devices \ {d} : view'[e] = view[e]
         /\ view'[d].open /\ view'[d].docs = docs
         /\ view'[d].current = view[d].current
         /\ lists[d] # <<>> => view'[d].docs = view[d].docs
    <2>1. /\ [view[d] EXCEPT !.open = TRUE, !.docs = docs] \in QueryView
          /\ [view[d] EXCEPT !.open = TRUE, !.docs = docs].open
          /\ [view[d] EXCEPT !.open = TRUE, !.docs = docs].docs = docs
          /\ [view[d] EXCEPT !.open = TRUE, !.docs = docs].current = view[d].current
      BY <1>1, <1>2 DEF QueryView
    <2>2. view' = [view EXCEPT ![d] = [view[d] EXCEPT !.open = TRUE, !.docs = docs]]
      BY <1>4
    <2>3. lists[d] # <<>> => docs = view[d].docs
      BY <1>1 DEF NoViewNoList, docs
    <2> QED BY <2>1, <2>2, <2>3 DEF ListsFine, ListTypes
  <1>11. EventsIn(q, k) = {}
    BY <1>1 DEF EventsIn, EventsHaveLists
  <1> HIDE DEF q
  <1>12. /\ EventsFor(d, k)' = EventsIn(q \o new, k)
         /\ told => /\ EventsFor(d, k)' # {}
                    /\ Upcoming(d, k)' = Content(docs)
         /\ ~told => EventsFor(d, k)' = {}
    <2>1. EventsFor(d, k)' = EventsIn(q \o new, k)
      BY <1>7, <1>9 DEF EventsFor, EventsIn
    <2>2. ASSUME told PROVE /\ EventsFor(d, k)' # {}
                            /\ Upcoming(d, k)' = Content(docs)
      <3>1. /\ EventsIn(q \o new, k) # {}
            /\ \E n \in EventsIn(new, k) :
                 (q \o new)[LastOf(EventsIn(q \o new, k))] = new[n]
        BY <1>1, <1>6, <2>2, EventAppended
      <3> QED BY <1>6, <1>7, <2>1, <3>1 DEF Upcoming
    <2>3. ASSUME ~told PROVE EventsFor(d, k)' = {}
      BY <1>1, <1>6, <1>11, <2>1, <2>3, OthersAppended
    <2> QED BY <2>1, <2>2, <2>3
  <1>13. ASSUME NEW i \in DOMAIN lists[d]
         PROVE  ListAgrees(d, i)' /\ WaitIsJustified(d, i)'
    <2>0. ListAgrees(d, i) /\ WaitIsJustified(d, i) /\ i # k /\ lists[d] # <<>>
      BY <1>1 DEF PhoneFine
    <2>1. /\ EventsIn(q \o new, i) = EventsIn(q, i)
          /\ \A n \in EventsIn(q, i) : (q \o new)[n] = q[n]
      BY <1>1, <1>6, <2>0, OthersAppended
    <2>2. /\ EventsFor(d, i) = EventsIn(q, i)
          /\ EventsFor(d, i)' = EventsIn(q \o new, i)
      BY <1>7 DEF EventsFor, EventsIn, q
    <2>3. EventsFor(d, i) # {} => LastOf(EventsFor(d, i)) \in EventsIn(q, i)
      BY <1>1, <2>2, EventsInPositions
    <2>4. EventsFor(d, i)' = EventsFor(d, i) /\ Upcoming(d, i)' = Upcoming(d, i)
      BY <1>7, <1>9, <2>1, <2>2, <2>3 DEF Upcoming, q
    <2> QED BY <1>4, <1>9, <1>10, <2>0, <2>4 DEF ListAgrees, WaitIsJustified
  <1>14. ListAgrees(d, k)' /\ WaitIsJustified(d, k)'
    BY <1>3, <1>4, <1>5, <1>9, <1>10, <1>12 DEF ListAgrees, WaitIsJustified
  <1>15. EventsHaveLists(d)'
    <2> SUFFICES ASSUME NEW n \in DOMAIN (q \o new),
                        (q \o new)[n].type = "event"
                 PROVE  (q \o new)[n].list \in 1 .. k
      BY <1>7, <1>9 DEF EventsHaveLists
    <2>1. n \in EventsIn(q \o new, (q \o new)[n].list)
      BY DEF EventsIn
    <2>2. CASE (q \o new)[n].list = k
      BY <2>2
    <2>3. CASE (q \o new)[n].list # k
      <3> DEFINE i == (q \o new)[n].list
      <3>1. EventsIn(new, i) = {}
        BY <1>6, <2>3
      <3> HIDE DEF i
      <3>2. /\ EventsIn(q \o new, i) = EventsIn(q, i)
            /\ \A x \in EventsIn(q, i) : (q \o new)[x] = q[x]
        BY <1>1, <1>6, <3>1, OthersAppended
      <3>3. n \in EventsIn(q, i)
        BY <2>1, <3>2 DEF i
      <3>4. i \in DOMAIN lists[d]
        BY <1>1, <3>3 DEF EventsIn, EventsHaveLists, q
      <3> QED BY <1>1, <3>4 DEF i
    <2> QED BY <2>2, <2>3
  <1>16. PhoneFine(d)'
    <2>1. NoViewNoList(d)'
      BY <1>10 DEF NoViewNoList
    <2>2. \A i \in DOMAIN lists'[d] : i = k \/ i \in DOMAIN lists[d]
      BY <1>1, <1>9
    <2> QED BY <1>13, <1>14, <1>15, <2>1, <2>2 DEF PhoneFine
  <1>17. ViewListsMainTypes' /\ OnlyPhone(d)
    BY <1>7, <1>9, <1>10 DEF ViewListsMainTypes, OnlyPhone
  <1>18. asked' \in [Devices -> Nat] /\ orphans' \in [Devices -> Nat]
    BY <1>4 DEF ListsFine, ListTypes
  <1> QED BY <1>4, <1>16, <1>17, <1>18, OnePhoneIsFine

---------------------------------------------------------------------------------
(***************************************************************************)
(* The theorems.                                                           *)
(***************************************************************************)

LEMMA ListsInvInit == Init => ListsInv
  <1> SUFFICES ASSUME Init PROVE ListsInv
    OBVIOUS
  <1>1. StoreTypeOK /\ AnswersMatchQueue
    BY StoreInitType DEF Init, StoreInit, AnswersMatchQueue
  <1>2. ListTypes
    BY ClosedType DEF Init, ListTypes
  <1>3. ASSUME NEW d \in Devices PROVE PhoneFine(d)
    <2>1. view[d] = Closed /\ lists[d] = <<>> /\ main[d] = <<>>
      BY DEF Init
    <2> QED BY <2>1 DEF PhoneFine, EventsHaveLists, NoViewNoList, Closed
  <1> QED BY <1>1, <1>2, <1>3 DEF ListsInv

(* Every step but the timer's and the housemates' is one of the store's. *)
LEMMA ListsStepOfStore ==
  ASSUME [ListsNext]_vars
  PROVE  \/ [StoreNext]_storeVars
         \/ \E d \in Devices : OnlineStateTimeout(d)
         \/ \E m \in Mutation : HousemateWrites(m)
  <1>1. CASE UNCHANGED vars
    BY <1>1 DEF vars
  <1>2. ASSUME NEW d \in Devices,
               \/ OnAppear(d)
               \/ RunMainQueue(d)
               \/ AddQueryListener(d)
        PROVE  [StoreNext]_storeVars
    BY <1>2 DEF OnAppear, RunMainQueue, AddQueryListener
  <1>3. ASSUME NEW d \in Devices,
               \/ ListsAnswer(d)
               \/ ListsSnapshot(d)
               \/ ListsStreamClose(d)
               \/ ListsServerStep(d)
               \/ Relaunch(d)
               \/ \E m \in Mutation : UserWrites(d, m)
        PROVE  [StoreNext]_storeVars
    BY <1>3 DEF ListsAnswer, ListsSnapshot, ListsStreamClose, ListsServerStep,
                Relaunch, UserWrites, StoreNext, Network
  <1> QED BY <1>1, <1>2, <1>3 DEF ListsNext

LEMMA ListsStoreStep ==
  ASSUME ListsInv, [ListsNext]_vars
  PROVE  StoreTypeOK' /\ AnswersMatchQueue'
  <1> USE DEF ListsInv
  <1>1. CASE [StoreNext]_storeVars
    BY <1>1, StoreTypeStep, AnswersMatchStep
  <1>2. ASSUME NEW d \in Devices, OnlineStateTimeout(d)
        PROVE  StoreTypeOK' /\ AnswersMatchQueue'
    BY <1>2 DEF OnlineStateTimeout, StoreTypeOK, AnswersMatchQueue
  <1>3. ASSUME NEW m \in Mutation, HousemateWrites(m)
        PROVE  StoreTypeOK' /\ AnswersMatchQueue'
    <2>1. m.pet \in Pets /\ server[m.pet] \in MaybeDocument /\ commit + 1 \in Nat
      BY DEF StoreTypeOK, Mutation
    <2>2. Mutated(m, server[m.pet], commit + 1) \in MaybeDocument
      BY <2>1, MutatedType
    <2> QED BY <1>3, <2>1, <2>2 DEF HousemateWrites, StoreTypeOK, AnswersMatchQueue
  <1> QED BY <1>1, <1>2, <1>3, ListsStepOfStore

LEMMA ListsInvStep == ListsInv /\ [ListsNext]_vars => ListsInv'
  <1> SUFFICES ASSUME ListsInv, [ListsNext]_vars PROVE ListsInv'
    OBVIOUS
  <1>1. StoreTypeOK' /\ AnswersMatchQueue'
    BY ListsStoreStep
  <1>2. StoreTypeOK /\ ListsFine
    BY DEF ListsInv, ListsFine
  <1>3. CASE UNCHANGED vars
    <2>1. \A e \in Devices : Undisturbed(e)
      BY <1>3 DEF vars, storeVars, listVars, Undisturbed
    <2>2. UNCHANGED <<view, lists, main, asked, orphans>>
      BY <1>3 DEF vars, listVars
    <2>3. asked' \in [Devices -> Nat] /\ orphans' \in [Devices -> Nat]
      BY <1>2, <2>2 DEF ListsFine, ListTypes
    <2> QED BY <1>2, <2>1, <2>2, <2>3, UndisturbedListsFine, <1>1
            DEF ListsInv, ListsFine
  <1>4. CASE ListsNext
    <2>1. ListsFine'
      BY <1>1, <1>2, <1>4, OnAppearFine, UserWritesFine, RunMainQueueFine,
         AddQueryListenerFine, ListsAnswerFine, ListsSnapshotFine,
         ListsStreamCloseFine, OnlineStateTimeoutFine, ListsServerStepFine,
         RelaunchFine, HousemateWritesFine DEF ListsNext
    <2> QED BY <1>1, <2>1 DEF ListsInv, ListsFine
  <1> QED BY <1>3, <1>4

LEMMA ListsInvAlways == ListsSpec => []ListsInv
  BY ListsInvInit, ListsInvStep, PTL DEF ListsSpec

(* Every variable of the lists keeps its type, and every event on the main queue
   is for a list that is there. *)
THEOREM ListsTypeCorrect == ListsSpec => []TypeOK
  <1>1. ListsInv => TypeOK
    BY ListsInvImplies
  <1> QED BY <1>1, ListsInvAlways, PTL

(* Any number of listeners, added at any time and told of changes by the rules
   of QueryListener, never come to disagree. *)
THEOREM ListsNeverDisagree == ListsSpec => []ListsAgree
  <1>1. ListsInv => ListsAgree
    BY ListsInvImplies
  <1> QED BY <1>1, ListsInvAlways, PTL

(* A list that has been told nothing has nothing to show and may still get an
   answer. *)
THEOREM NoListWaitsInVain == ListsSpec => []WaitingIsJustified
  <1>1. ListsInv => WaitingIsJustified
    BY ListsInvImplies
  <1> QED BY <1>1, ListsInvAlways, PTL


---------------------------------------------------------------------------------
(***************************************************************************)
(* What the view holds of the local store.                                 *)
(***************************************************************************)

LagsOnlyForWatch(d) ==
  view[d].open =>
    \A p \in Pets :
      /\ view[d].docs[p].shown = LocalDocument(d, p).shown
      /\ view[d].docs[p].shown /\ view[d].docs[p].data # LocalDocument(d, p).data
           => LocalDocument(d, p).state = "committed"

LEMMA LocalDocumentKept ==
  ASSUME NEW d, NEW p, queue'[d] = queue[d], cache'[d] = cache[d]
  PROVE  LocalDocument(d, p)' = LocalDocument(d, p)
  <1>1. View(d, p)' = View(d, p)
    BY DEF View
  <1> QED BY <1>1 DEF LocalDocument

(* A step that leaves the documents of the view and of the store. *)
LEMMA KeptLag ==
  ASSUME NEW d, LagsOnlyForWatch(d),
         view'[d].open = view[d].open, view'[d].docs = view[d].docs,
         queue'[d] = queue[d], cache'[d] = cache[d]
  PROVE  LagsOnlyForWatch(d)'
  BY LocalDocumentKept DEF LagsOnlyForWatch

(* A document without a change differs only if it waits. *)
LEMMA UnchangedLooksTheSame ==
  ASSUME NEW old \in ViewDocument, NEW new \in ViewDocument,
         ChangeType(old, new) = "none"
  PROVE  /\ old.shown = new.shown
         /\ old.shown /\ old.data # new.data => new.state = "committed"
  <1>1. old.shown \in BOOLEAN /\ new.shown \in BOOLEAN
    BY DEF ViewDocument
  <1>2. CASE ~old.shown \/ ~new.shown
    BY <1>1, <1>2 DEF ChangeType
  <1>3. CASE old.shown /\ new.shown /\ old.data # new.data
    BY <1>1, <1>3 DEF ChangeType, ShouldWaitForSyncedDocument
  <1> QED BY <1>1, <1>2, <1>3

LEMMA EmitLag ==
  ASSUME ListTypes, StoreTypeOK', NEW d \in Devices, NEW first, NEW current,
         Emit(d, first, current)
  PROVE  /\ LagsOnlyForWatch(d)'
         /\ \A e \in Devices \ {d} : view'[e] = view[e]
  <1>1. CASE ~view[d].open
    BY <1>1 DEF Emit, LagsOnlyForWatch
  <1>2. CASE view[d].open
    <2> DEFINE old == view[d].docs
               new == LocalDocuments(d)'
    <2>1. /\ view[d] \in QueryView
          /\ old \in [Pets -> ViewDocument] /\ new \in [Pets -> ViewDocument]
      BY NewDocumentsType DEF ListTypes, QueryView
    <2>2. /\ \A e \in Devices \ {d} : view'[e] = view[e]
          /\ view'[d].docs = ApplyChanges(old, new)
      BY <1>2 DEF Emit, EmitNewSnapshots, ListTypes, QueryView
    <2>3. ASSUME NEW p \in Pets
          PROVE  /\ ApplyChanges(old, new)[p].shown = new[p].shown
                 /\ ApplyChanges(old, new)[p].shown
                    /\ ApplyChanges(old, new)[p].data # new[p].data
                      => new[p].state = "committed"
      <3>1. old[p] \in ViewDocument /\ new[p] \in ViewDocument
        BY <2>1
      <3> HIDE DEF old, new
      <3>2. ApplyChanges(old, new)[p] =
              IF ChangeType(old[p], new[p]) = "none" THEN old[p] ELSE new[p]
        BY DEF ApplyChanges
      <3> QED BY <3>1, <3>2, UnchangedLooksTheSame
    <2>4. \A p \in Pets : new[p] = LocalDocument(d, p)'
      BY DEF LocalDocuments
    <2> HIDE DEF old, new
    <2> QED BY <2>2, <2>3, <2>4 DEF LagsOnlyForWatch
  <1> QED BY <1>1, <1>2

(* Only phone d of the store is touched. *)
OnlyStoreOf(d) ==
  \A e \in Devices \ {d} : queue'[e] = queue[e] /\ cache'[e] = cache[e]

LEMMA LagStep ==
  ASSUME ListsInv, [ListsNext]_vars, \A e \in Devices : LagsOnlyForWatch(e)
  PROVE  \A e \in Devices : LagsOnlyForWatch(e)'
  <1>1. StoreTypeOK /\ StoreTypeOK' /\ ListTypes
    BY ListsStoreStep DEF ListsInv
  <1>2. ASSUME NEW d \in Devices, OnlyStoreOf(d),
               \A e \in Devices \ {d} : view'[e] = view[e],
               LagsOnlyForWatch(d)'
        PROVE  \A e \in Devices : LagsOnlyForWatch(e)'
    BY <1>2, KeptLag DEF OnlyStoreOf
  <1>3. ASSUME UNCHANGED <<queue, cache>>,
               \A e \in Devices : /\ view'[e].open = view[e].open
                                  /\ view'[e].docs = view[e].docs
        PROVE  \A e \in Devices : LagsOnlyForWatch(e)'
    BY <1>3, KeptLag
  <1>4. CASE UNCHANGED vars
    BY <1>3, <1>4 DEF vars, storeVars, listVars
  <1>5. ASSUME NEW d \in Devices, OnAppear(d) \/ RunMainQueue(d) \/ ListsServerStep(d)
        PROVE  \A e \in Devices : LagsOnlyForWatch(e)'
    BY <1>3, <1>5 DEF OnAppear, RunMainQueue, ListsServerStep, storeVars, listVars,
       ServerHandlesWrite, OnWriteStreamClose, SendSnapshot
  <1>6. ASSUME NEW m \in Mutation, HousemateWrites(m)
        PROVE  \A e \in Devices : LagsOnlyForWatch(e)'
    BY <1>3, <1>6 DEF HousemateWrites, listVars
  <1>7. ASSUME NEW d \in Devices, AddQueryListener(d)
        PROVE  \A e \in Devices : LagsOnlyForWatch(e)'
    <2> DEFINE docs == IF view[d].open THEN view[d].docs ELSE LocalDocuments(d)
    <2>1. UNCHANGED <<queue, cache>> /\ view[d] \in QueryView
      BY <1>1, <1>7 DEF AddQueryListener, storeVars, ListTypes
    <2>2. /\ view' = [view EXCEPT ![d].open = TRUE, ![d].docs = docs]
          /\ view \in [Devices -> QueryView]
      BY <1>1, <1>7 DEF AddQueryListener, ListTypes
    <2> HIDE DEF docs
    <2>3. /\ view'[d].open /\ view'[d].docs = docs
          /\ \A e \in Devices \ {d} : view'[e] = view[e]
      BY <2>2 DEF QueryView
    <2>4. LagsOnlyForWatch(d)'
      <3>1. CASE view[d].open
        BY <2>1, <2>3, <3>1, KeptLag DEF docs
      <3>2. CASE ~view[d].open
        <4>1. \A p \in Pets : docs[p] = LocalDocument(d, p)
          BY <3>2 DEF docs, LocalDocuments
        <4>2. \A p \in Pets : LocalDocument(d, p)' = LocalDocument(d, p)
          BY <2>1, LocalDocumentKept
        <4> QED BY <2>3, <4>1, <4>2 DEF LagsOnlyForWatch
      <3> QED BY <3>1, <3>2
    <2> QED BY <1>2, <2>1, <2>3, <2>4 DEF OnlyStoreOf
  <1>8. ASSUME NEW d \in Devices,
               \/ ListsAnswer(d)
               \/ ListsSnapshot(d)
               \/ \E m \in Mutation : UserWrites(d, m)
        PROVE  \A e \in Devices : LagsOnlyForWatch(e)'
    <2>1. OnlyStoreOf(d)
      BY <1>1, <1>8 DEF ListsAnswer, ListsSnapshot, UserWrites, OnlyStoreOf,
         HandleSuccessfulWrite, HandleRejectedWrite, PopWrite, ApplyRemoteEvent,
         WriteMutations, StoreTypeOK
    <2>2. \E first, current : Emit(d, first, current)
      BY <1>8 DEF ListsAnswer, ListsSnapshot, UserWrites
    <2>3. /\ LagsOnlyForWatch(d)'
          /\ \A e \in Devices \ {d} : view'[e] = view[e]
      BY <1>1, <2>2, EmitLag
    <2> QED BY <1>2, <2>1, <2>3
  <1>9. ASSUME NEW d \in Devices, ListsStreamClose(d) \/ OnlineStateTimeout(d)
        PROVE  \A e \in Devices : LagsOnlyForWatch(e)'
    <2>1. UNCHANGED <<queue, cache>>
      BY <1>9 DEF ListsStreamClose, OnWatchStreamClose, OnlineStateTimeout
    <2>2. \/ view' = view
          \/ \E c : view' = [view EXCEPT ![d].current = c]
      BY <1>9 DEF ListsStreamClose, OnlineStateTimeout, HandleOnlineStateChange,
         SetAndBroadcast
    <2>3. \A e \in Devices : /\ view'[e].open = view[e].open
                             /\ view'[e].docs = view[e].docs
      <3>1. ASSUME NEW c, view' = [view EXCEPT ![d].current = c]
            PROVE  \A e \in Devices : /\ view'[e].open = view[e].open
                                      /\ view'[e].docs = view[e].docs
        <4>1. view \in [Devices -> QueryView] /\ view[d] \in QueryView
          BY <1>1 DEF ListTypes
        <4>2. view'[d] = [view[d] EXCEPT !.current = c]
          BY <3>1, <4>1
        <4>3. view'[d].open = view[d].open /\ view'[d].docs = view[d].docs
          BY <4>1, <4>2 DEF QueryView
        <4>4. \A e \in Devices \ {d} : view'[e] = view[e]
          BY <3>1, <4>1
        <4> QED BY <4>3, <4>4
      <3> QED BY <2>2, <3>1
    <2> QED BY <1>3, <2>1, <2>3
  <1>10. ASSUME NEW d \in Devices, Relaunch(d)
         PROVE  \A e \in Devices : LagsOnlyForWatch(e)'
    <2>1. UNCHANGED <<queue, cache>> /\ view' = [view EXCEPT ![d] = Closed]
      BY <1>10 DEF Relaunch, Restart, ListsRelaunched
    <2>2. ~view'[d].open /\ \A e \in Devices \ {d} : view'[e] = view[e]
      BY <1>1, <2>1 DEF ListTypes, Closed
    <2>3. LagsOnlyForWatch(d)'
      BY <2>2 DEF LagsOnlyForWatch
    <2> QED BY <1>2, <2>1, <2>2, <2>3 DEF OnlyStoreOf
  <1> QED BY <1>4, <1>5, <1>6, <1>7, <1>8, <1>9, <1>10 DEF ListsNext

LEMMA LagAlways == ListsSpec => [](\A e \in Devices : LagsOnlyForWatch(e))
  <1>1. Init => \A e \in Devices : LagsOnlyForWatch(e)
    <2> SUFFICES ASSUME Init, NEW e \in Devices PROVE LagsOnlyForWatch(e)
      OBVIOUS
    <2>1. view[e] = Closed /\ ~Closed.open
      BY DEF Init, Closed
    <2> QED BY <2>1 DEF LagsOnlyForWatch
  <1>2. /\ ListsInv /\ [ListsNext]_vars
        /\ (\A e \in Devices : LagsOnlyForWatch(e))
        => (\A e \in Devices : LagsOnlyForWatch(e))'
    <2>1. ASSUME ListsInv, [ListsNext]_vars, \A e \in Devices : LagsOnlyForWatch(e)
          PROVE  \A e \in Devices : LagsOnlyForWatch(e)'
      BY <2>1, LagStep
    <2> QED BY <2>1
  <1> QED BY <1>1, <1>2, ListsInvAlways, PTL DEF ListsSpec

(* The view of a phone trails its store in no other way than that it awaits the
   server's word on a content the phone has guessed. *)
THEOREM ViewsTrailTheStore == ListsSpec => []ViewLagsOnlyForWatch
  <1>1. (\A e \in Devices : LagsOnlyForWatch(e)) => ViewLagsOnlyForWatch
    BY DEF LagsOnlyForWatch, ViewLagsOnlyForWatch
  <1> QED BY <1>1, LagAlways, PTL

---------------------------------------------------------------------------------
(***************************************************************************)
(* What the store of a phone holds of the server.                          *)
(***************************************************************************)

(* A commit from outside is later than anything a phone knows of. *)
LEMMA HousemateWritesInv ==
  ASSUME CacheInv, LatestExists, NEW m \in Mutation, HousemateWrites(m),
         StoreTypeOK', AnswersMatchQueue'
  PROVE  CacheInv' /\ LatestExists'
  <1> DEFINE new == Mutated(m, server[m.pet], commit + 1)
  <1> USE DEF CacheInv
  <1>1. /\ m.pet \in Pets /\ server[m.pet] \in MaybeDocument
        /\ commit \in Nat /\ commit + 1 \in Nat
    BY DEF StoreTypeOK, Mutation
  <1>2. new.version = commit + 1 /\ ~new.committed
    BY <1>1, MutatedType
  <1>3. /\ commit' = commit + 1 /\ server' = [server EXCEPT ![m.pet] = new]
        /\ UNCHANGED <<queue, results, cache, snapver, watch>>
    BY DEF HousemateWrites
  <1> HIDE DEF new
  <1>4. ASSUME NEW p \in Pets
        PROVE  /\ server[p].version <= commit /\ server[p].version \in Nat
               /\ ~server'[p].committed
               /\ \/ server'[p] = server[p]
                  \/ server'[p].version = commit + 1
    BY <1>2, <1>3, VersionsAreNat DEF VersionsInOrder, StoreTypeOK, MaybeDocument
  <1>5. ASSUME NEW d \in Devices
        PROVE  /\ snapver[d] <= commit /\ snapver[d] \in Nat
               /\ watch[d].version <= commit /\ watch[d].version \in Nat
    BY DEF VersionsInOrder, StoreTypeOK, Snapshot
  <1>6. ASSUME NEW d \in Devices, NEW p \in Pets
        PROVE  /\ cache[d][p].version <= server[p].version
               /\ cache[d][p].version \in Nat
               /\ watch[d].docs[p].version <= server[p].version
               /\ watch[d].docs[p].version \in Nat
               /\ watch[d].docs[p].version <= watch[d].version
    BY VersionsAreNat DEF VersionsInOrder
  <1>7. ASSUME NEW d \in Devices, NEW i \in DOMAIN results[d]
        PROVE  /\ results[d][i].version \in Nat
               /\ queue[d][i].pet \in Pets
               /\ results[d][i].version <= server[queue[d][i].pet].version
    <2>1. results[d] \in Seq(Result) /\ queue[d] \in Seq(Mutation)
          /\ Len(results[d]) <= Len(queue[d])
      BY DEF StoreTypeOK, AnswersMatchQueue
    <2>2. results[d][i] \in Result /\ queue[d][i] \in Mutation
      BY <2>1
    <2> QED BY <2>2 DEF Result, Mutation, VersionsInOrder
  <1>8. VersionsInOrder'
    BY <1>1, <1>3, <1>4, <1>5, <1>6, <1>7 DEF VersionsInOrder
  <1>9. LatestIsServers'
    BY <1>1, <1>3, <1>4, <1>5, <1>6 DEF LatestIsServers
  <1>10. CacheCatchesUp'
    BY <1>1, <1>3, <1>4, <1>5 DEF CacheCatchesUp
  <1>11. LatestExists'
    <2>1. ASSUME NEW d \in Devices, NEW p \in Pets,
                 cache[d][p].version = server'[p].version, Exists(cache[d][p])
          PROVE  Exists(server'[p])
      BY <1>1, <1>4, <1>6, <2>1 DEF LatestExists
    <2>2. ASSUME NEW d \in Devices, NEW i \in DOMAIN results[d], results[d][i].ok,
                 results[d][i].version = server'[queue[d][i].pet].version,
                 queue[d][i].type # "delete"
          PROVE  Exists(server'[queue[d][i].pet])
      <3>1. server'[queue[d][i].pet] = server[queue[d][i].pet]
        BY <1>1, <1>4, <1>7, <2>2
      <3> QED BY <2>2, <3>1 DEF LatestExists
    <2> QED BY <1>3, <2>1, <2>2 DEF LatestExists
  <1> QED BY <1>8, <1>9, <1>10, <1>11

LEMMA ListsCacheStep ==
  ASSUME ListsInv, CacheInv, LatestExists, [ListsNext]_vars
  PROVE  CacheInv' /\ LatestExists'
  <1>1. StoreTypeOK' /\ AnswersMatchQueue'
    BY ListsStoreStep
  <1>2. CASE [StoreNext]_storeVars
    BY <1>2, CacheInvStep, LatestExistsStep
  <1>3. ASSUME NEW d \in Devices, OnlineStateTimeout(d)
        PROVE  CacheInv' /\ LatestExists'
    BY <1>1, <1>3 DEF OnlineStateTimeout, CacheInv, VersionsInOrder,
       LatestIsServers, CacheCatchesUp, LatestExists
  <1>4. ASSUME NEW m \in Mutation, HousemateWrites(m)
        PROVE  CacheInv' /\ LatestExists'
    BY <1>1, <1>4, HousemateWritesInv
  <1> QED BY <1>2, <1>3, <1>4, ListsStepOfStore

LEMMA ListsCacheAlways == ListsSpec => [](CacheInv /\ LatestExists)
  <1>1. Init => CacheInv /\ LatestExists
    BY CacheInvInit, LatestExistsInit DEF Init
  <1>2. ListsInv /\ CacheInv /\ LatestExists /\ [ListsNext]_vars
          => CacheInv' /\ LatestExists'
    BY ListsCacheStep
  <1> QED BY <1>1, <1>2, ListsInvAlways, PTL DEF ListsSpec

(* What is proved of the store holds of a phone full of lists, whose housemates
   write past its streams. *)
THEOREM ListsKeepTheStore ==
  ListsSpec => [](CacheCatchesUp /\ NoGhostPets)
  <1>1. CacheInv /\ LatestExists => CacheCatchesUp /\ NoGhostPets
    BY GhostsNeedASet DEF CacheInv
  <1> QED BY <1>1, ListsCacheAlways, PTL

(* No list sees a phone fall back behind what it knew, nor flicker. *)
THEOREM ListsNeverRegress == ListsSpec => CacheNeverRegresses /\ NoFlicker
  <1>1. CacheInv /\ [ListsNext]_vars =>
          [\A d \in Devices, p \in Pets :
             cache'[d][p].version >= cache[d][p].version]_cache
    <2>1. ASSUME CacheInv, [StoreNext]_storeVars
          PROVE  \A d \in Devices, p \in Pets :
                   cache'[d][p].version >= cache[d][p].version
      BY <2>1, CacheGrows
    <2>2. (\/ \E d \in Devices : OnlineStateTimeout(d)
           \/ \E m \in Mutation : HousemateWrites(m)) => cache' = cache
      BY DEF OnlineStateTimeout, HousemateWrites
    <2> QED BY <2>1, <2>2, ListsStepOfStore
  <1>2. CacheInv => StoreTypeOK /\ AnswersMatchQueue
    BY DEF CacheInv
  <1>3. ListsSpec => CacheNeverRegresses
    BY <1>1, ListsCacheAlways, PTL DEF ListsSpec, CacheNeverRegresses
  <1>4. ListsSpec => NoFlicker
    BY <1>2, StepsDoNotFlicker, ListsCacheAlways, PTL DEF NoFlicker
  <1> QED BY <1>3, <1>4

---------------------------------------------------------------------------------
(***************************************************************************)
(* From the server to the screens.                                         *)
(***************************************************************************)

LEMMA QuietViewIsServers ==
  ASSUME CacheInv, NEW d \in Devices, NEW p \in Pets,
         queue[d] = <<>>, server[p].version <= snapver[d]
  PROVE  /\ LocalDocument(d, p).shown = Exists(server[p])
         /\ Exists(server[p]) => LocalDocument(d, p).data = server[p].data
         /\ LocalDocument(d, p).state # "committed"
  <1>1. cache[d][p] = server[p] /\ ~server[p].committed
    BY DEF CacheInv, CacheCatchesUp, VersionsInOrder
  <1>2. queue[d] \in Seq(Mutation) /\ server[p] \in MaybeDocument
    BY DEF CacheInv, StoreTypeOK
  <1>3. WritesOf(queue[d], p) = {}
    <2>1. DOMAIN queue[d] = {}
      OBVIOUS
    <2> QED BY <2>1 DEF WritesOf
  <1>4. View(d, p) = IF ~Exists(server[p])
                       THEN server[p]
                       ELSE Document(server[p].data, server[p].version)
    BY <1>1, <1>2, <1>3, ViewOfNoWrites DEF View
  <1>5. Exists(View(d, p)) = Exists(server[p])
        /\ (Exists(server[p]) => View(d, p).data = server[p].data)
    BY <1>4 DEF Document, Exists
  <1>6. CASE ~Exists(server[p])
    <2>1. LocalDocument(d, p) = Missing
      BY <1>5, <1>6 DEF LocalDocument
    <2>2. /\ Missing.shown = FALSE
          /\ Missing.state = "synced" /\ "synced" # "committed"
      BY DEF Missing
    <2>3. Exists(server[p]) = FALSE
      BY <1>6 DEF Exists
    <2> QED BY <2>1, <2>2, <2>3
  <1>7. CASE Exists(server[p])
    <2>1. LocalDocument(d, p) =
            [shown |-> TRUE, data |-> View(d, p).data, state |-> "synced"]
      BY <1>1, <1>3, <1>5, <1>7 DEF LocalDocument
    <2> QED BY <1>5, <1>7, <2>1
  <1> QED BY <1>6, <1>7

(* Whatever was kept back, rejected, repeated or lost on the way, the lists of a
   phone that has nothing to send and has heard of every commit are the
   server's as soon as its main queue has run. *)
THEOREM ListsShowServersPets == ListsSpec => []QuietListsShowTheServer
  <1>1. ListsInv /\ CacheInv /\ (\A e \in Devices : LagsOnlyForWatch(e))
          => QuietListsShowTheServer
    <2> SUFFICES ASSUME ListsInv, CacheInv, \A e \in Devices : LagsOnlyForWatch(e),
                        NEW d \in Devices, NEW i \in DOMAIN lists[d],
                        lists[d][i].raised, queue[d] = <<>>,
                        \A p \in Pets : server[p].version <= snapver[d],
                        NEW p \in Pets
                 PROVE  /\ Upcoming(d, i)[p].shown = Exists(server[p])
                        /\ Exists(server[p]) => Upcoming(d, i)[p].data = server[p].data
      BY DEF QuietListsShowTheServer
    <2>1. Upcoming(d, i) = Content(view[d].docs)
      BY DEF ListsInv, PhoneFine, ListAgrees
    <2>2. view[d].open
      <3>1. DOMAIN <<>> = {}
        OBVIOUS
      <3> QED BY <3>1 DEF ListsInv, PhoneFine, NoViewNoList
    <2>3. /\ view[d].docs[p].shown = LocalDocument(d, p).shown
          /\ view[d].docs[p].shown /\ view[d].docs[p].data # LocalDocument(d, p).data
               => LocalDocument(d, p).state = "committed"
      BY <2>2 DEF LagsOnlyForWatch
    <2>4. /\ LocalDocument(d, p).shown = Exists(server[p])
          /\ Exists(server[p]) => LocalDocument(d, p).data = server[p].data
          /\ LocalDocument(d, p).state # "committed"
      BY QuietViewIsServers
    <2>5. /\ Content(view[d].docs)[p].shown = view[d].docs[p].shown
          /\ Content(view[d].docs)[p].data = view[d].docs[p].data
      BY DEF Content
    <2> QED BY <2>1, <2>3, <2>4, <2>5
  <1> QED BY <1>1, ListsInvAlways, ListsCacheAlways, LagAlways, PTL
=================================================================================
