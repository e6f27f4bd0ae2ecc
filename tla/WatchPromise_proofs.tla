-------------------------- MODULE WatchPromise_proofs --------------------------
(***************************************************************************)
(* The Firestore client, as WatchTargets has it, implements Listens: what  *)
(* it tells the listeners of its queries is what it promises, for any sets *)
(* of pets and users, any queries of theirs, any number of commits and of  *)
(* failures.  The promise is about what was said at a snapshot, but it is  *)
(* decided long before, when a request is written to the watch stream; so  *)
(* the invariant, SyncInv, follows for each target the pets the client     *)
(* will believe it to have after each message that is on its way.          *)
(***************************************************************************)
EXTENDS WatchTargets_proofs

(***************************************************************************)
(* What the client is going to believe.                                    *)
(***************************************************************************)

(* Pet p is on the server at all commits from a to b. *)
Lasts(p, a, b) == \A w \in a..b : p \in history[w]

(* Of the pets of t at commit u a phone with those of S misses none, but for some
   that were gone for a while since, up to its last snapshot. *)
Covers(t, S, u) == \A p \in PetsAt(t, u) : Lasts(p, u, snapver) => p \in S

(* The server may go on from commit u with a phone that has the pets of S. *)
Continues(t, S, u) == S \subseteq PetsAt(t, u) /\ Covers(t, S, u)

(* The pets of t the phone would have after a snapshot now. *)
Believed(t) == (RemoteKeys(t) \ states[t].removed) \cup states[t].added

(* The pets of t it will have, and whether to trust that: not if it resumed from
   a token its keys are not of, nor if it found them to be wrong. *)
Idea == [pets : SUBSET Pets, trust : {"sure", "spoilt", "lost"}]

(* What message m makes of x. *)
Hears(t, x, m) ==
  CASE m.kind = "Snapshot" \/ m.target # t -> x
    [] m.kind = "Documents" /\ m.target = t -> [x EXCEPT !.pets = (@ \ m.removed) \cup m.added]
    [] m.kind = "Reset" /\ m.target = t -> [pets |-> {}, trust |-> "sure"]
    [] m.kind = "Filter" /\ m.target = t ->
         IF IsDocumentQuery(t)
           THEN IF m.number = 0 THEN [x EXCEPT !.pets = @ \ {t.path}] ELSE x
           ELSE IF Cardinality(x.pets) = m.number THEN x
                                                  ELSE [pets |-> {}, trust |-> "lost"]
    [] OTHER -> x

(* After k of the responses d no answer about t is due any more. *)
Settled(d, t, k) == \A j \in Answers(d, t) : j <= k

(* Where an idea x may start that has the pets of S. *)
Begins(t, x, S) ==
  /\ x.pets = S
  /\ x.trust = "spoilt" => t \in spoilt /\ t \notin resets
  /\ x.trust = "lost" => t \in resets /\ ~states[t].current

(* The ideas f the client will have of t after each message in flight start from
   what it believes, or, when answers are due, from its keys; ... *)
Begun(t, f) ==
  /\ Settled(down, t, 0) => Begins(t, f[0], Believed(t))
  /\ \A k \in Answers(down, t) : Settled(down, t, k) => Begins(t, f[k], RemoteKeys(t))

(* ... go on as the messages say; ... *)
Heard(t, f) ==
  \A k \in 1..Len(down) : Settled(down, t, k - 1) =>
    /\ f[k] = Hears(t, f[k - 1], down[k])
    /\ f[k - 1].trust = "lost" => ~(down[k].kind = "Current" /\ down[k].target = t)

(* ... are right at every snapshot, if the client can trust them; ... *)
Shown(t, f) ==
  \A k \in 1..Len(down) :
    Settled(down, t, k - 1) /\ f[k].trust = "sure" /\ down[k].kind = "Snapshot" =>
      Continues(t, f[k].pets, down[k].number)

(* ... and in the end are what the server takes them for. *)
Agreed(t, x) ==
  /\ x.trust = "sure" =>
       /\ Covers(t, x.pets, srv[t].at)
       /\ x.pets \subseteq (IF srv[t].blind THEN Matching(t, Pets) ELSE PetsAt(t, srv[t].at))
  /\ x.trust = "lost" => srv[t].told

Told(t, f) ==
  /\ f \in [0..Len(down) -> Idea]
  /\ Begun(t, f)
  /\ Heard(t, f)
  /\ Shown(t, f)
  /\ Agreed(t, f[Len(down)])

---------------------------------------------------------------------------------
LEMMA HistoryType ==
  ASSUME TypeOK
  PROVE  /\ Len(history) \in Nat /\ Len(history) # 0 /\ DOMAIN history = 1..Len(history)
         /\ \A w \in 1..Len(history) : history[w] \in SUBSET Pets
         /\ snapver \in Nat
  <1>1. history \in Seq(SUBSET Pets) /\ history # <<>> /\ snapver \in Nat
    BY DEF TypeOK
  <1> QED BY <1>1, EmptySeq

LEMMA RemoteKeysKept ==
  ASSUME NEW t, UNCHANGED <<keys, received>>
  PROVE  RemoteKeys(t)' = RemoteKeys(t)
  BY DEF RemoteKeys

LEMMA InPetsAt ==
  ASSUME TypeOK, NEW t, NEW v, NEW p
  PROVE  p \in PetsAt(t, v) <=> /\ v \in 1..Len(history) /\ p \in history[v]
                                /\ IsDocumentQuery(t) => p = t.path
  <1>1. DOMAIN history = 1..Len(history)
    BY HistoryType
  <1> QED BY <1>1 DEF PetsAt, Matching

LEMMA PetsAtMatch ==
  ASSUME TypeOK, NEW t, NEW v
  PROVE  PetsAt(t, v) \subseteq Matching(t, Pets) /\ PetsAt(t, v) \subseteq Pets
  <1>1. \A w \in 1..Len(history) : history[w] \in SUBSET Pets
    BY HistoryType
  <1> QED BY <1>1, InPetsAt DEF Matching

(* Commits are only added, and snapshots are never older than the last. *)
Grows ==
  /\ Len(history) <= Len(history')
  /\ \A w \in 1..Len(history) : history'[w] = history[w]
  /\ snapver <= snapver'

LEMMA LastsGrow ==
  ASSUME TypeOK, TypeOK', Grows, NEW p, NEW a \in Nat \ {0}, NEW b \in Int,
         b <= Len(history)
  PROVE  Lasts(p, a, b) <=> Lasts(p, a, b)'
  <1>1. \A w \in a..b : w \in 1..Len(history)
    BY HistoryType
  <1> QED BY <1>1 DEF Lasts, Grows

LEMMA PetsAtGrow ==
  ASSUME TypeOK, TypeOK', Grows, NEW t, NEW u \in Nat, u <= Len(history)
  PROVE  PetsAt(t, u)' = PetsAt(t, u)
  <1>1. ASSUME NEW p
        PROVE  p \in PetsAt(t, u)' <=> p \in PetsAt(t, u)
    <2>1. p \in PetsAt(t, u)' <=> /\ u \in 1..Len(history)' /\ p \in history[u]'
                                  /\ IsDocumentQuery(t) => p = t.path
      BY InPetsAt, HistoryType DEF PetsAt, Matching, TypeOK
    <2>2. u \in 1..Len(history)' <=> u \in 1..Len(history)
      BY HistoryType DEF Grows, TypeOK
    <2>3. u \in 1..Len(history) => history'[u] = history[u]
      BY DEF Grows
    <2> QED BY <2>1, <2>2, <2>3, InPetsAt
  <1> QED BY <1>1

LEMMA CoversGrow ==
  ASSUME TypeOK, TypeOK', Grows, snapver <= Len(history),
         NEW t, NEW S, NEW u \in Nat, u <= Len(history), Covers(t, S, u)
  PROVE  Covers(t, S, u)'
  <1> SUFFICES ASSUME NEW p \in PetsAt(t, u)', Lasts(p, u, snapver)' PROVE p \in S
    BY DEF Covers
  <1>1. p \in PetsAt(t, u)
    BY PetsAtGrow
  <1>2. u \in Nat \ {0}
    BY <1>1, InPetsAt
  <1>3. Lasts(p, u, snapver)
    <2> SUFFICES ASSUME NEW w \in u..snapver PROVE p \in history[w]
      BY DEF Lasts
    <2>1. w \in u..snapver' /\ w \in 1..Len(history)
      BY <1>2, HistoryType DEF Grows, TypeOK
    <2> QED BY <2>1 DEF Grows, Lasts
  <1> QED BY <1>1, <1>3 DEF Covers

LEMMA ContinuesGrow ==
  ASSUME TypeOK, TypeOK', Grows, snapver <= Len(history),
         NEW t, NEW S, NEW u \in Nat, u <= Len(history), Continues(t, S, u)
  PROVE  Continues(t, S, u)'
  BY PetsAtGrow, CoversGrow DEF Continues

(* A snapshot that the client does not ignore is exact. *)
LEMMA CoversNow ==
  ASSUME TypeOK, NEW t, NEW S, NEW v \in Nat, snapver <= v, Covers(t, S, v)
  PROVE  PetsAt(t, v) \subseteq S
  <1> SUFFICES ASSUME NEW p \in PetsAt(t, v) PROVE p \in S
    OBVIOUS
  <1>1. p \in history[v]
    BY InPetsAt
  <1>2. Lasts(p, v, snapver)
    BY <1>1, HistoryType DEF Lasts
  <1> QED BY <1>2 DEF Covers

LEMMA ContinuesNow ==
  ASSUME TypeOK, NEW t, NEW S, NEW v \in Nat, snapver <= v, Continues(t, S, v)
  PROVE  S = PetsAt(t, v)
  BY CoversNow DEF Continues

LEMMA ContinuesFromNothing ==
  ASSUME TypeOK, NEW t, NEW S
  PROVE  Continues(t, S, 0) <=> S = {}
  <1>1. PetsAt(t, 0) = {}
    BY InPetsAt
  <1> QED BY <1>1 DEF Continues, Covers

(* The server tells what was written since commit u, and what has gone. *)
LEMMA CoversAdvance ==
  ASSUME TypeOK, NEW t, NEW S, NEW u \in Nat, NEW c \in 1..Len(history), u <= c,
         Covers(t, S, u)
  PROVE  /\ Covers(t, S \cup Written(t, u, c), c)
         /\ Written(t, u, c) \subseteq PetsAt(t, c)
         /\ LET R == PetsAt(t, u) \ PetsAt(t, c)
            IN /\ Covers(t, (S \ R) \cup Written(t, u, c), c)
               /\ S \subseteq PetsAt(t, u) =>
                    (S \ R) \cup Written(t, u, c) \subseteq PetsAt(t, c)
  <1>1. Written(t, u, c) \subseteq PetsAt(t, c)
    BY DEF Written
  <1>2. ASSUME NEW p \in PetsAt(t, c), Lasts(p, c, snapver), p \notin Written(t, u, c)
        PROVE  p \in S
    <2>1. u # 0 /\ \A w \in u..c : p \in history[w]
      BY <1>2 DEF Written
    <2>2. p \in PetsAt(t, u)
      <3>1. u \in u..c /\ u \in 1..Len(history)
        BY <2>1, HistoryType
      <3> QED BY <1>2, <2>1, <3>1, InPetsAt
    <2>3. Lasts(p, u, snapver)
      <3> SUFFICES ASSUME NEW w \in u..snapver PROVE p \in history[w]
        BY DEF Lasts
      <3>1. w \in u..c \/ w \in c..snapver
        BY HistoryType
      <3> QED BY <1>2, <2>1, <3>1 DEF Lasts
    <2> QED BY <2>2, <2>3 DEF Covers
  <1> QED BY <1>1, <1>2 DEF Covers
---------------------------------------------------------------------------------
(***************************************************************************)
(* Places in the stream.                                                   *)
(***************************************************************************)

LEMMA AnswersAre ==
  ASSUME NEW d \in Seq(Response), NEW t
  PROVE  \A i : i \in Answers(d, t) <=> i \in 1..Len(d) /\ IsAnswer(d[i], t)
  BY DEF Answers

LEMMA SettledSaid ==
  ASSUME NEW d \in Seq(Response), NEW m \in Response, NEW t, ~IsAnswer(m, t)
  PROVE  Answers(Append(d, m), t) = Answers(d, t)
  <1> DEFINE n == Len(d)
             e == Append(d, m)
  <1>1. n \in Nat /\ e \in Seq(Response) /\ Len(e) = n + 1
    OBVIOUS
  <1>2. e[n + 1] = m /\ \A i \in 1..n : e[i] = d[i]
    OBVIOUS
  <1> HIDE DEF n, e
  <1>3. \A i : i \in Answers(e, t) <=> i \in 1..(n + 1) /\ IsAnswer(e[i], t)
    BY <1>1, AnswersAre
  <1>4. \A i : i \in Answers(d, t) <=> i \in 1..n /\ IsAnswer(d[i], t)
    BY AnswersAre DEF n
  <1>5. \A i : i \in Answers(e, t) <=> i \in Answers(d, t)
    BY <1>1, <1>2, <1>3, <1>4
  <1> QED BY <1>5 DEF e

LEMMA SettledAnswered ==
  ASSUME NEW d \in Seq(Response), NEW m \in Response, NEW t, IsAnswer(m, t)
  PROVE  /\ Len(d) + 1 \in Answers(Append(d, m), t)
         /\ \A k \in Int : Settled(Append(d, m), t, k) => k >= Len(d) + 1
  <1>1. /\ Append(d, m) \in Seq(Response) /\ Len(Append(d, m)) = Len(d) + 1
        /\ Append(d, m)[Len(d) + 1] = m /\ Len(d) \in Nat
    OBVIOUS
  <1>2. Len(d) + 1 \in Answers(Append(d, m), t)
    <2>1. \A i : i \in Answers(Append(d, m), t) <=>
                   i \in 1..Len(Append(d, m)) /\ IsAnswer(Append(d, m)[i], t)
      BY <1>1, AnswersAre
    <2>2. Len(d) + 1 \in 1..Len(Append(d, m))
      BY <1>1
    <2> QED BY <1>1, <2>1, <2>2
  <1> QED BY <1>1, <1>2 DEF Settled

LEMMA SettledTaken ==
  ASSUME NEW d \in Seq(Response), d # <<>>, NEW t
  PROVE  /\ \A k \in Nat : k \in Answers(Tail(d), t) => k + 1 \in Answers(d, t)
         /\ \A k \in Nat : Settled(Tail(d), t, k) <=> Settled(d, t, k + 1)
         /\ Settled(d, t, 0) => ~IsAnswer(Head(d), t) /\ Settled(Tail(d), t, 0)
  <1> DEFINE n == Len(d)
             e == Tail(d)
  <1>1. n \in Nat /\ n # 0 /\ Head(d) = d[1]
    BY EmptySeq
  <1>2. e \in Seq(Response) /\ Len(e) = n - 1 /\ \A i \in 1..(n - 1) : e[i] = d[i + 1]
    BY HeadTailProperties
  <1>3. \A i : i \in Answers(d, t) <=> i \in 1..n /\ IsAnswer(d[i], t)
    BY AnswersAre
  <1> HIDE DEF n, e
  <1>4. \A i : i \in Answers(e, t) <=> i \in 1..(n - 1) /\ IsAnswer(d[i + 1], t)
    BY <1>1, <1>2, AnswersAre
  <1>5. \A k \in Nat : k \in Answers(e, t) => k + 1 \in Answers(d, t)
    BY <1>1, <1>3, <1>4
  <1>6. ASSUME NEW k \in Nat
        PROVE  Settled(e, t, k) <=> Settled(d, t, k + 1)
    <2>1. ASSUME Settled(e, t, k), NEW j \in Answers(d, t)
          PROVE  j <= k + 1
      <3>1. j \in 1..n
        BY <1>3
      <3>2. CASE j = 1
        BY <3>2
      <3>3. CASE j # 1
        <4>1. j - 1 \in Answers(e, t)
          BY <1>1, <1>3, <1>4, <3>1, <3>3
        <4> QED BY <2>1, <3>1, <4>1 DEF Settled
      <3> QED BY <3>2, <3>3
    <2>2. ASSUME Settled(d, t, k + 1), NEW j \in Answers(e, t)
          PROVE  j <= k
      <3>1. j \in 1..(n - 1) /\ j + 1 \in Answers(d, t)
        BY <1>1, <1>3, <1>4
      <3> QED BY <2>2, <3>1 DEF Settled
    <2> QED BY <2>1, <2>2 DEF Settled
  <1>7. Settled(d, t, 0) => ~IsAnswer(Head(d), t) /\ Settled(e, t, 0)
    <2> SUFFICES ASSUME Settled(d, t, 0) PROVE ~IsAnswer(Head(d), t) /\ Settled(e, t, 0)
      OBVIOUS
    <2>1. 1 \notin Answers(d, t)
      BY DEF Settled
    <2>2. Settled(d, t, 0 + 1)
      BY <1>3 DEF Settled
    <2>3. 1 \in 1..n
      BY <1>1
    <2>4. ~IsAnswer(Head(d), t)
      BY <1>1, <1>3, <2>1, <2>3
    <2>5. Settled(e, t, 0)
      BY <1>6, <2>2
    <2> QED BY <2>4, <2>5
  <1> QED BY <1>5, <1>6, <1>7 DEF e

LEMMA SettledLater ==
  ASSUME NEW d, NEW t, NEW k \in Int, NEW l \in Int, k <= l, d \in Seq(Response),
         Settled(d, t, k)
  PROVE  Settled(d, t, l)
  <1>1. \A j \in Answers(d, t) : j \in Int
    BY AnswersAre
  <1> QED BY <1>1 DEF Settled

LEMMA SettledEnd ==
  ASSUME NEW d \in Seq(Response), NEW t
  PROVE  Settled(d, t, Len(d))
  BY AnswersAre DEF Settled

LEMMA SettledNow ==
  ASSUME NEW d \in Seq(Response), NEW t
  PROVE  Settled(d, t, 0) <=> Answers(d, t) = {}
  BY AnswersAre DEF Settled

LEMMA HearsType ==
  ASSUME NEW t, NEW x \in Idea, NEW m \in Response
  PROVE  Hears(t, x, m) \in Idea
  <1>1. m.added \in SUBSET Pets
    BY DEF Response
  <1> QED BY <1>1 DEF Hears, Idea

(***************************************************************************)
(* What the ideas come to when a message is said or taken.                 *)
(***************************************************************************)

Extended(f, n, x) == [k \in 0..(n + 1) |-> IF k <= n THEN f[k] ELSE x]

Shifted(f, n) == [k \in 0..(n - 1) |-> f[k + 1]]

(* The stream is where its commits are, and tells of no other. *)
StreamInOrder ==
  /\ snapver <= Len(history)
  /\ stream = "open" =>
       /\ clock \in 1..Len(history)
       /\ \A t \in Targets : srv[t].at <= clock /\ (srv[t].blind => snapver <= clock)
       /\ \A i \in 1..Len(down) :
            /\ down[i].kind = "Snapshot" => down[i].number \in 1..clock
            /\ down[i].added \cap down[i].removed = {}
            /\ down[i].added \subseteq Matching(down[i].target, Pets)

LEMMA SnapshotNumber ==
  ASSUME TypeOK, StreamInOrder, stream = "open", NEW k \in 1..Len(down),
         down[k].kind = "Snapshot"
  PROVE  \E u \in Nat \ {0} : /\ u = down[k].number /\ u <= clock /\ u <= Len(history)
                             /\ snapver <= Len(history)
  <1>1. down[k].number \in 1..clock /\ clock \in 1..Len(history) /\ snapver <= Len(history)
    BY DEF StreamInOrder
  <1>2. clock \in Nat /\ Len(history) \in Nat
    BY HistoryType DEF TypeOK
  <1> QED BY <1>1, <1>2

LEMMA AgreedGrow ==
  ASSUME TypeOK, TypeOK', Grows, StreamInOrder, stream = "open",
         NEW t \in Targets, NEW x, Agreed(t, x), srv'[t] = srv[t]
  PROVE  Agreed(t, x)'
  <1>1. srv[t].at \in Nat /\ srv[t].at <= Len(history) /\ snapver <= Len(history)
    <2>1. srv[t] \in ServerState
      BY DEF TypeOK
    <2> QED BY <2>1, HistoryType DEF StreamInOrder, ServerState, TypeOK
  <1>2. PICK u \in Nat : u = srv[t].at /\ u <= Len(history)
    BY <1>1
  <1>3. srv'[t].at = u /\ srv'[t].blind = srv[t].blind /\ srv'[t].told = srv[t].told
    BY <1>2
  <1>4. PetsAt(t, u)' = PetsAt(t, u)
    BY <1>2, PetsAtGrow
  <1>5. Covers(t, x.pets, u) => Covers(t, x.pets, u)'
    BY <1>1, <1>2, CoversGrow
  <1> QED BY <1>2, <1>3, <1>4, <1>5 DEF Agreed

(* The stream is as it was. *)
LEMMA QuietTold ==
  ASSUME TypeOK, TypeOK', Grows, StreamInOrder, stream = "open",
         NEW t \in Targets, NEW f, Told(t, f),
         UNCHANGED <<down, resets>>, t \in spoilt => t \in spoilt',
         states'[t] = states[t], RemoteKeys(t)' = RemoteKeys(t),
         Agreed(t, f[Len(down)])'
  PROVE  Told(t, f)'
  <1>1. Begun(t, f)'
    BY DEF Told, Begun, Begins, Believed
  <1>2. Heard(t, f)'
    BY DEF Told, Heard
  <1>3. Shown(t, f)'
    <2> SUFFICES ASSUME NEW k \in 1..Len(down), Settled(down, t, k - 1),
                        f[k].trust = "sure", down[k].kind = "Snapshot"
                 PROVE  Continues(t, f[k].pets, down[k].number)'
      BY DEF Shown
    <2>1. PICK u \in Nat : u = down[k].number /\ u <= Len(history)
      BY SnapshotNumber
    <2>2. snapver <= Len(history) /\ down'[k].number = u
      BY <2>1 DEF StreamInOrder
    <2>3. Continues(t, f[k].pets, u)
      BY <2>1 DEF Told, Shown
    <2>4. Continues(t, f[k].pets, u)'
      BY <2>1, <2>2, <2>3, ContinuesGrow
    <2> QED BY <2>2, <2>4
  <1> QED BY <1>1, <1>2, <1>3 DEF Told

(* The server says m. *)
LEMMA SaidTold ==
  ASSUME TypeOK, TypeOK', StreamInOrder, stream = "open",
         NEW t \in Targets, NEW f, Told(t, f),
         NEW m \in Response, ~IsAnswer(m, t), down' = Append(down, m),
         UNCHANGED <<history, snapver, states, keys, received, resets, spoilt>>,
         NEW x \in Idea, x = Hears(t, f[Len(down)], m),
         f[Len(down)].trust = "lost" => ~(m.kind = "Current" /\ m.target = t),
         x.trust = "sure" /\ m.kind = "Snapshot" => Continues(t, x.pets, m.number),
         Agreed(t, x)',
         NEW n, n = Len(down), NEW g, g = Extended(f, n, x)
  PROVE  Told(t, g)'
  <1>1. n \in Nat /\ down \in Seq(Response) /\ Len(down') = n + 1
    BY DEF TypeOK
  <1>2. down'[n + 1] = m /\ \A i \in 1..n : down'[i] = down[i]
    BY <1>1
  <1>3. Answers(down', t) = Answers(down, t)
    BY <1>1, SettledSaid
  <1>4. \A k : Settled(down', t, k) <=> Settled(down, t, k)
    BY <1>3 DEF Settled
  <1>5. /\ f \in [0..n -> Idea] /\ Begun(t, f) /\ Heard(t, f) /\ Shown(t, f)
        /\ x = Hears(t, f[n], m)
        /\ f[n].trust = "lost" => ~(m.kind = "Current" /\ m.target = t)
    BY DEF Told
  <1>6. \A i \in Answers(down, t) : i \in 1..n
    BY <1>1, AnswersAre
  <1>7. /\ g \in [0..(n + 1) -> Idea] /\ g[n + 1] = x /\ \A k \in 0..n : g[k] = f[k]
    BY <1>1, <1>5 DEF Extended
  <1>8. Begun(t, g)'
    <2>1. \A S, y : Begins(t, y, S)' <=> Begins(t, y, S)
      BY DEF Begins
    <2>2. Believed(t)' = Believed(t) /\ RemoteKeys(t)' = RemoteKeys(t)
      <3>1. RemoteKeys(t)' = RemoteKeys(t)
        BY DEF RemoteKeys
      <3> QED BY <3>1 DEF Believed
    <2>3. Settled(down', t, 0) => Begins(t, g[0], Believed(t))'
      BY <1>1, <1>4, <1>5, <1>7, <2>1, <2>2 DEF Begun
    <2>4. \A k \in Answers(down', t) : Settled(down', t, k) => Begins(t, g[k], RemoteKeys(t))'
      BY <1>1, <1>3, <1>4, <1>5, <1>6, <1>7, <2>1, <2>2 DEF Begun
    <2> QED BY <2>3, <2>4 DEF Begun
  <1>9. Heard(t, g)'
    <2> SUFFICES ASSUME NEW k \in 1..(n + 1), Settled(down', t, k - 1)
                 PROVE  /\ g[k] = Hears(t, g[k - 1], down'[k])
                        /\ g[k - 1].trust = "lost" =>
                             ~(down'[k].kind = "Current" /\ down'[k].target = t)
      BY <1>1 DEF Heard
    <2>1. CASE k = n + 1
      <3>1. k - 1 = n /\ n \in 0..n
        BY <1>1, <2>1
      <3>2. g[k - 1] = f[n] /\ g[k] = x /\ down'[k] = m
        BY <1>2, <1>7, <2>1, <3>1
      <3> QED BY <1>5, <3>2
    <2>2. CASE k # n + 1
      <3>1. k \in 1..n /\ k \in 0..n /\ k - 1 \in 0..n
        BY <1>1, <2>2
      <3>2. g[k] = f[k] /\ g[k - 1] = f[k - 1] /\ down'[k] = down[k]
        BY <1>2, <1>7, <3>1
      <3>3. Settled(down, t, k - 1)
        BY <1>4
      <3> QED BY <1>5, <3>1, <3>2, <3>3 DEF Heard
    <2> QED BY <2>1, <2>2
  <1>10. Shown(t, g)'
    <2>0. \A S, u : Continues(t, S, u)' <=> Continues(t, S, u)
      BY DEF Continues, Covers, PetsAt, Lasts
    <2> SUFFICES ASSUME NEW k \in 1..(n + 1), Settled(down', t, k - 1),
                        g[k].trust = "sure", down'[k].kind = "Snapshot"
                 PROVE  Continues(t, g[k].pets, down'[k].number)
      BY <1>1, <2>0 DEF Shown
    <2>1. CASE k = n + 1
      BY <1>2, <1>7, <2>1
    <2>2. CASE k # n + 1
      <3>1. k \in 1..n /\ k \in 0..n
        BY <1>1, <2>2
      <3>2. g[k] = f[k] /\ down'[k] = down[k] /\ Settled(down, t, k - 1)
        BY <1>2, <1>4, <1>7, <3>1
      <3> QED BY <1>5, <3>1, <3>2 DEF Shown
    <2> QED BY <2>1, <2>2
  <1> QED BY <1>1, <1>7, <1>8, <1>9, <1>10 DEF Told

(* The server answers that it watches t. *)
LEMMA AddedTold ==
  ASSUME TypeOK, TypeOK', NEW t \in Targets,
         NEW m \in Response, IsAnswer(m, t), down' = Append(down, m),
         NEW x \in Idea, Begins(t, x, RemoteKeys(t))', Agreed(t, x)',
         NEW n, n = Len(down), NEW g, g = [k \in 0..(n + 1) |-> x]
  PROVE  Told(t, g)'
  <1>1. n \in Nat /\ down \in Seq(Response) /\ Len(down') = n + 1
    BY DEF TypeOK
  <1>2. \A k \in Int : Settled(down', t, k) => k >= n + 1
    BY <1>1, SettledAnswered
  <1>3. g \in [0..(n + 1) -> Idea] /\ \A k \in 0..(n + 1) : g[k] = x
    OBVIOUS
  <1>4. \A k \in Answers(down', t) : k \in 1..(n + 1)
    BY <1>1, AnswersAre DEF TypeOK
  <1>5. n + 1 \in 0..(n + 1)
    BY <1>1
  <1>6. Begun(t, g)'
    <2>1. ~Settled(down', t, 0)
      BY <1>1, <1>2
    <2>2. \A k \in Answers(down', t) : g[k] = x
      BY <1>1, <1>3, <1>4
    <2> QED BY <2>1, <2>2 DEF Begun
  <1>7. \A k \in 1..(n + 1) : ~Settled(down', t, k - 1)
    BY <1>1, <1>2
  <1>8. Heard(t, g)' /\ Shown(t, g)'
    BY <1>1, <1>7 DEF Heard, Shown
  <1>9. Agreed(t, g[Len(down)])'
    BY <1>1, <1>3, <1>5
  <1> QED BY <1>1, <1>3, <1>6, <1>8, <1>9 DEF Told

(* The client takes the oldest message. *)
LEMMA TakenTold ==
  ASSUME TypeOK, TypeOK', Grows, StreamInOrder, stream = "open",
         NEW t \in Targets, NEW f, Told(t, f), srv'[t] = srv[t],
         down # <<>>, down' = Tail(down),
         Settled(down, t, 1) => Begins(t, f[1], Believed(t))',
         ~Settled(down, t, 1) =>
           \A x \in Idea : Begins(t, x, RemoteKeys(t)) => Begins(t, x, RemoteKeys(t))',
         NEW n, n = Len(down), NEW g, g = Shifted(f, n)
  PROVE  Told(t, g)'
  <1>1. n \in Nat /\ n # 0 /\ down \in Seq(Response)
    BY EmptySeq DEF TypeOK
  <1>2. Len(down') = n - 1 /\ \A i \in 1..(n - 1) : down'[i] = down[i + 1]
    BY <1>1, HeadTailProperties
  <1>3. /\ \A k \in Nat : k \in Answers(down', t) => k + 1 \in Answers(down, t)
        /\ \A k \in Nat : Settled(down', t, k) <=> Settled(down, t, k + 1)
    BY <1>1, SettledTaken
  <1>5. /\ f \in [0..n -> Idea] /\ Begun(t, f) /\ Heard(t, f) /\ Shown(t, f)
        /\ Agreed(t, f[n])
    BY DEF Told
  <1>6. \A i \in Answers(down', t) : i \in 1..(n - 1)
    BY <1>2, AnswersAre DEF TypeOK
  <1>7. /\ g \in [0..(n - 1) -> Idea] /\ \A k \in 0..(n - 1) : g[k] = f[k + 1]
    BY <1>1, <1>5 DEF Shifted
  <1>8. Begun(t, g)'
    <2>1. Settled(down', t, 0) => Begins(t, g[0], Believed(t))'
      <3>1. Settled(down', t, 0) <=> Settled(down, t, 1)
        BY <1>3
      <3>2. g[0] = f[1]
        BY <1>1, <1>7
      <3> QED BY <3>1, <3>2
    <2>2. ASSUME NEW k \in Answers(down', t), Settled(down', t, k)
          PROVE  Begins(t, g[k], RemoteKeys(t))'
      <3>1. k \in 1..(n - 1) /\ k \in 0..(n - 1) /\ k \in Nat
        BY <1>1, <1>6
      <3>2. k + 1 \in Answers(down, t) /\ Settled(down, t, k + 1)
        BY <1>3, <2>2, <3>1
      <3>3. ~Settled(down, t, 1)
        BY <3>1, <3>2 DEF Settled
      <3>4. Begins(t, f[k + 1], RemoteKeys(t)) /\ f[k + 1] \in Idea
        BY <1>1, <1>5, <3>1, <3>2 DEF Begun
      <3> QED BY <1>7, <3>1, <3>3, <3>4
    <2> QED BY <2>1, <2>2 DEF Begun
  <1>9. Heard(t, g)'
    <2> SUFFICES ASSUME NEW k \in 1..(n - 1), Settled(down', t, k - 1)
                 PROVE  /\ g[k] = Hears(t, g[k - 1], down'[k])
                        /\ g[k - 1].trust = "lost" =>
                             ~(down'[k].kind = "Current" /\ down'[k].target = t)
      BY <1>2 DEF Heard
    <2>1. k + 1 \in 1..n /\ k \in 0..(n - 1) /\ k - 1 \in 0..(n - 1) /\ k - 1 \in Nat
          /\ (k - 1) + 1 = k /\ (k + 1) - 1 = k
      BY <1>1
    <2>2. g[k] = f[k + 1] /\ g[k - 1] = f[k] /\ down'[k] = down[k + 1]
      BY <1>2, <1>7, <2>1
    <2>3. Settled(down, t, (k + 1) - 1)
      BY <1>3, <2>1
    <2>4. /\ f[k + 1] = Hears(t, f[(k + 1) - 1], down[k + 1])
          /\ f[(k + 1) - 1].trust = "lost" =>
               ~(down[k + 1].kind = "Current" /\ down[k + 1].target = t)
      BY <1>5, <2>1, <2>3 DEF Heard
    <2> QED BY <2>1, <2>2, <2>4
  <1>10. Shown(t, g)'
    <2> SUFFICES ASSUME NEW k \in 1..(n - 1), Settled(down', t, k - 1),
                        g[k].trust = "sure", down'[k].kind = "Snapshot"
                 PROVE  Continues(t, g[k].pets, down[k].number)'
      BY <1>2 DEF Shown
    <2>1. k + 1 \in 1..n /\ k \in 0..(n - 1) /\ k - 1 \in Nat /\ (k - 1) + 1 = k
          /\ (k + 1) - 1 = k
      BY <1>1
    <2>2. g[k] = f[k + 1] /\ down'[k] = down[k + 1]
      BY <1>2, <1>7, <2>1
    <2>3. Settled(down, t, (k + 1) - 1)
      BY <1>3, <2>1
    <2>5. PICK u \in Nat : u = down[k + 1].number /\ u <= Len(history)
      BY <2>1, <2>2, SnapshotNumber
    <2>4. Continues(t, f[k + 1].pets, u)
      BY <1>5, <2>1, <2>2, <2>3, <2>5 DEF Shown
    <2>6. down'[k].number = u /\ snapver <= Len(history)
      BY <2>2, <2>5 DEF StreamInOrder
    <2>7. Continues(t, f[k + 1].pets, u)'
      BY <2>4, <2>5, <2>6, ContinuesGrow
    <2> QED BY <2>2, <2>6, <2>7
  <1>11. Agreed(t, g[Len(down)])'
    <2>1. g[Len(down')] = f[n]
      BY <1>1, <1>2, <1>7
    <2> QED BY <1>5, <2>1, AgreedGrow
  <1> QED BY <1>2, <1>7, <1>8, <1>9, <1>10, <1>11 DEF Told
---------------------------------------------------------------------------------
(***************************************************************************)
(* The invariant.                                                          *)
(***************************************************************************)

(* The last request about a target tells the server what the client has. *)
ResumesAsAsked ==
  stream = "open" => \A t \in listened :
    /\ up[t] # <<>> => up[t][Len(up[t])].token = token[t]
    /\ up[t] = <<>> => srv[t].on

Foreseen ==
  stream = "open" => \A t \in listened : up[t] = <<>> => \E f : Told(t, f)

Bookkeeping ==
  /\ received \subseteq listened /\ current \subseteq listened
  /\ \A t \in resets : /\ t = Collection /\ t \in listened
                       /\ states[t].out = 0 /\ stream = "open"
  /\ spoilt \subseteq {Collection}
  /\ \A t \in listened \cap UserTargets : t # Collection => token[t] = local[t]
  /\ \A t \in Targets : token[t] <= snapver

(* The keys of a target are of the token the client will resume it from, ... *)
TokensAreOfKeys ==
  \A t \in listened \ spoilt : Continues(t, RemoteKeys(t), token[t])

(* ... and of the one on disk, but for a target that is to be sent again. *)
StoredAreOfKeys ==
  \A t \in UserTargets \ spoilt :
    \/ Continues(t, keys[t], stored[t])
    \/ t \in listened /\ token[t] = 0 /\ stored[t] # 0

(* A pet that is new to a target has been written, and is one of its pets. *)
AddedAreUpdates ==
  \A t \in listened : states[t].out = 0 =>
    /\ states[t].added \subseteq Matching(t, Pets)
    /\ \A p \in states[t].added : updates[p] # Unknown

SyncInv ==
  /\ StreamInOrder
  /\ ResumesAsAsked
  /\ Foreseen
  /\ Bookkeeping
  /\ TokensAreOfKeys
  /\ StoredAreOfKeys
  /\ AddedAreUpdates

LEMMA KeysGrow ==
  ASSUME TypeOK, TypeOK', Grows, TokensAgree, SyncInv,
         UNCHANGED <<listened, token, keys, received, stored, spoilt>>
  PROVE  TokensAreOfKeys' /\ StoredAreOfKeys'
  <1>1. snapver <= Len(history) /\ snapver \in Nat /\ Len(history) \in Nat
    BY HistoryType DEF SyncInv, StreamInOrder
  <1>2. TokensAreOfKeys'
    <2> SUFFICES ASSUME NEW t \in listened \ spoilt
                 PROVE  Continues(t, RemoteKeys(t), token[t])'
      BY DEF TokensAreOfKeys
    <2>1. PICK u \in Nat : u = token[t] /\ u <= Len(history)
      <3>1. t \in Targets /\ token[t] \in Nat /\ token[t] <= snapver
        BY DEF TypeOK, SyncInv, Bookkeeping
      <3> QED BY <1>1, <3>1
    <2>2. PICK S : S = RemoteKeys(t)
      OBVIOUS
    <2>3. Continues(t, S, u)
      BY <2>1, <2>2 DEF SyncInv, TokensAreOfKeys
    <2>4. Continues(t, S, u)'
      BY <1>1, <2>1, <2>3, ContinuesGrow
    <2>5. RemoteKeys(t)' = S /\ token'[t] = u
      BY <2>1, <2>2, RemoteKeysKept
    <2> QED BY <2>4, <2>5
  <1>3. StoredAreOfKeys'
    <2> SUFFICES ASSUME NEW t \in UserTargets \ spoilt,
                        Continues(t, keys[t], stored[t])
                 PROVE  Continues(t, keys[t], stored[t])'
      BY DEF SyncInv, StoredAreOfKeys
    <2>1. PICK u \in Nat : u = stored[t] /\ u <= Len(history)
      <3>1. stored[t] \in Nat /\ local[t] \in Nat /\ stored[t] <= local[t]
            /\ local[t] <= snapver
        BY DEF TypeOK, TokensAgree
      <3> QED BY <1>1, <3>1
    <2>2. PICK S : S = keys[t]
      OBVIOUS
    <2>3. Continues(t, S, u)'
      BY <1>1, <2>1, <2>2, ContinuesGrow
    <2> QED BY <2>1, <2>2, <2>3
  <1> QED BY <1>2, <1>3

LEMMA SyncClosed ==
  ASSUME TypeOK', AggregatorInv', stream' # "open", snapver' <= Len(history'),
         Bookkeeping', TokensAreOfKeys', StoredAreOfKeys'
  PROVE  SyncInv'
  <1>1. AddedAreUpdates'
    <2>1. \A t \in Targets : states'[t] = NoState
      BY DEF AggregatorInv, ClosedIsEmpty
    <2>2. \A t \in listened' : states'[t].added = {}
      BY <2>1, NoStateIs DEF TypeOK
    <2> QED BY <2>2 DEF AddedAreUpdates
  <1> QED BY <1>1 DEF SyncInv, StreamInOrder, ResumesAsAsked, Foreseen

(* The messages in flight are about the pets of their target. *)
LEMMA InOrderSaid ==
  ASSUME TypeOK, StreamInOrder, stream = "open", NEW m \in Response,
         down' = Append(down, m), UNCHANGED <<history, snapver, clock, stream>>,
         m.kind = "Snapshot" => m.number \in 1..clock,
         m.added \cap m.removed = {}, m.added \subseteq Matching(m.target, Pets),
         \A t \in Targets : srv'[t].at <= clock /\ (srv'[t].blind => snapver <= clock)
  PROVE  StreamInOrder'
  <1>1. down \in Seq(Response) /\ Len(down) \in Nat /\ Len(down') = Len(down) + 1
    BY DEF TypeOK
  <1>2. down'[Len(down) + 1] = m /\ \A i \in 1..Len(down) : down'[i] = down[i]
    BY <1>1
  <1>3. \A i \in 1..Len(down') :
            /\ down'[i].kind = "Snapshot" => down'[i].number \in 1..clock
            /\ down'[i].added \cap down'[i].removed = {}
            /\ down'[i].added \subseteq Matching(down'[i].target, Pets)
    <2> SUFFICES ASSUME NEW i \in 1..Len(down')
                 PROVE  /\ down'[i].kind = "Snapshot" => down'[i].number \in 1..clock
                        /\ down'[i].added \cap down'[i].removed = {}
                        /\ down'[i].added \subseteq Matching(down'[i].target, Pets)
      OBVIOUS
    <2>1. CASE i = Len(down) + 1
      BY <1>2, <2>1
    <2>2. CASE i # Len(down) + 1
      <3>1. i \in 1..Len(down)
        BY <1>1, <2>2
      <3> QED BY <1>2, <3>1 DEF StreamInOrder
    <2> QED BY <2>1, <2>2
  <1> QED BY <1>3 DEF StreamInOrder

LEMMA InOrderTaken ==
  ASSUME TypeOK, TypeOK', StreamInOrder, stream = "open", down # <<>>, down' = Tail(down),
         UNCHANGED <<history, clock, srv, stream>>, snapver' <= clock \/ snapver' = snapver
  PROVE  StreamInOrder'
  <1>1. Len(down) \in Nat /\ Len(down) # 0 /\ Len(down') = Len(down) - 1
        /\ \A i \in 1..(Len(down) - 1) : down'[i] = down[i + 1]
    BY EmptySeq, HeadTailProperties DEF TypeOK
  <1>2. \A i \in 1..Len(down') :
            /\ down'[i].kind = "Snapshot" => down'[i].number \in 1..clock
            /\ down'[i].added \cap down'[i].removed = {}
            /\ down'[i].added \subseteq Matching(down'[i].target, Pets)
    <2> SUFFICES ASSUME NEW i \in 1..Len(down')
                 PROVE  /\ down'[i].kind = "Snapshot" => down'[i].number \in 1..clock
                        /\ down'[i].added \cap down'[i].removed = {}
                        /\ down'[i].added \subseteq Matching(down'[i].target, Pets)
      OBVIOUS
    <2>1. i + 1 \in 1..Len(down) /\ down'[i] = down[i + 1]
      BY <1>1
    <2> QED BY <2>1 DEF StreamInOrder
  <1>3. snapver' <= Len(history)
    <2>1. clock \in Nat /\ clock <= Len(history) /\ snapver <= Len(history)
      BY DEF StreamInOrder, TypeOK
    <2>2. snapver \in Nat /\ snapver' \in Nat /\ Len(history) \in Nat
      BY HistoryType DEF TypeOK
    <2> QED BY <2>1, <2>2
  <1>4. \A t \in Targets : srv[t].blind => snapver' <= clock
    BY DEF StreamInOrder
  <1> QED BY <1>2, <1>3, <1>4 DEF StreamInOrder

(***************************************************************************)
(* Steps of the server.                                                    *)
(***************************************************************************)

(* Nothing but what the server has, and what is in sync, changes. *)
LEMMA SyncQuiet ==
  ASSUME TypeOK, TypeOK', AggregatorInv, AggregatorInv', TokensAgree, SyncInv, Grows,
         UNCHANGED <<srv, up, down, stream, listened, token, states, updates, resets,
                     local, stored, keys, received, snapver, spoilt>>,
         current' \subseteq current,
         stream = "open" => clock <= clock' /\ clock' <= Len(history')
  PROVE  SyncInv'
  <1>1. TokensAreOfKeys' /\ StoredAreOfKeys'
    BY KeysGrow
  <1>2. ResumesAsAsked' /\ Bookkeeping' /\ AddedAreUpdates'
    BY DEF SyncInv, ResumesAsAsked, Bookkeeping, AddedAreUpdates
  <1>3. StreamInOrder'
    <2>1. snapver' <= Len(history')
      BY HistoryType DEF SyncInv, StreamInOrder, Grows, TypeOK
    <2> SUFFICES ASSUME stream = "open"
                 PROVE  /\ clock' \in 1..Len(history')
                        /\ \A t \in Targets : srv[t].at <= clock' /\ (srv[t].blind => snapver <= clock')
                        /\ \A i \in 1..Len(down) : down[i].kind = "Snapshot" => down[i].number \in 1..clock'
      BY <2>1 DEF SyncInv, StreamInOrder
    <2>2. clock \in Nat /\ clock' \in Nat /\ clock # 0 /\ snapver \in Nat /\ Len(history') \in Nat
      BY HistoryType DEF TypeOK, SyncInv, StreamInOrder
    <2>3. clock' \in 1..Len(history')
      BY <2>2
    <2>4. \A t \in Targets : srv[t].at <= clock' /\ (srv[t].blind => snapver <= clock')
      <3>1. \A t \in Targets : srv[t].at \in Nat
        BY DEF TypeOK, ServerState
      <3>2. \A t \in Targets : srv[t].at <= clock /\ (srv[t].blind => snapver <= clock)
        BY DEF SyncInv, StreamInOrder
      <3> QED BY <2>2, <3>1, <3>2
    <2>5. \A i \in 1..Len(down) : down[i].kind = "Snapshot" => down[i].number \in 1..clock'
      BY <2>2 DEF SyncInv, StreamInOrder
    <2> QED BY <2>3, <2>4, <2>5
  <1>4. Foreseen'
    <2> SUFFICES ASSUME stream = "open", NEW t \in listened, up[t] = <<>>
                 PROVE  (\E f : Told(t, f))'
      BY DEF Foreseen
    <2>1. t \in Targets
      BY DEF TypeOK
    <2>2. PICK f : Told(t, f)
      BY DEF SyncInv, Foreseen
    <2>3. PICK x : x = f[Len(down)]
      OBVIOUS
    <2>4. Agreed(t, x)
      BY <2>2, <2>3 DEF Told
    <2>5. Agreed(t, x)'
      BY <2>1, <2>4, AgreedGrow DEF SyncInv
    <2>6. RemoteKeys(t)' = RemoteKeys(t)
      BY RemoteKeysKept
    <2>7. Agreed(t, f[Len(down)])'
      BY <2>3, <2>5
    <2>8. Told(t, f)'
      BY <2>1, <2>2, <2>6, <2>7, QuietTold DEF SyncInv
    <2> QED BY <2>8
  <1> QED BY <1>1, <1>2, <1>3, <1>4 DEF SyncInv

LEMMA IdeaAfter ==
  ASSUME TypeOK, NEW t, NEW f, Told(t, f), NEW n, n = Len(down)
  PROVE  n \in Nat /\ f[n] \in Idea
  <1>1. n \in Nat
    BY DEF TypeOK
  <1> QED BY <1>1 DEF Told

LEMMA SyncSaid ==
  ASSUME TypeOK, TypeOK', AggregatorInv, AggregatorInv', TokensAgree, SyncInv,
         stream = "open",
         NEW t \in Targets, NEW m \in Response, NEW state \in ServerState, Say(m, state),
         m.target = t, m.kind # "Snapshot",
         m.added \cap m.removed = {}, m.added \subseteq Matching(t, Pets),
         state.at <= clock, state.blind => snapver <= clock,
         \A u \in Targets : u # t => up'[u] = up[u],
         t \in listened =>
           /\ up'[t] # <<>> => up'[t][Len(up'[t])].token = token[t]
           /\ up'[t] = <<>> => state.on,
         t \in listened /\ up'[t] = <<>> => (\E f : Told(t, f))'
  PROVE  SyncInv'
  <1>1. /\ UNCHANGED <<history, clock, stream, listened, token, states, updates, resets,
                       local, stored, keys, snapver, current, received, spoilt>>
        /\ down' = Append(down, m)
        /\ srv' = [srv EXCEPT ![t] = state]
    BY DEF Say, aggregator, storeVars, viewVars
  <1>2. srv \in [Targets -> ServerState]
    BY DEF TypeOK
  <1>3. srv'[t] = state /\ \A u \in Targets : u # t => srv'[u] = srv[u]
    BY <1>1, <1>2
  <1>4. StreamInOrder /\ Grows
    <2>1. Len(history) \in Nat /\ snapver \in Nat
      BY HistoryType
    <2> QED BY <1>1, <2>1 DEF SyncInv, Grows
  <1>5. StreamInOrder'
    <2>1. \A u \in Targets : srv'[u].at <= clock /\ (srv'[u].blind => snapver <= clock)
      BY <1>3, <1>4 DEF StreamInOrder
    <2> QED BY <1>1, <1>4, <2>1, InOrderSaid
  <1>6. ResumesAsAsked'
    <2> SUFFICES ASSUME NEW u \in listened
                 PROVE  /\ up'[u] # <<>> => up'[u][Len(up'[u])].token = token[u]
                        /\ up'[u] = <<>> => srv'[u].on
      BY <1>1 DEF ResumesAsAsked
    <2>1. u \in Targets
      BY DEF TypeOK
    <2>2. CASE u = t
      BY <1>3, <2>2
    <2>3. CASE u # t
      BY <1>3, <2>1, <2>3 DEF SyncInv, ResumesAsAsked
    <2> QED BY <2>2, <2>3
  <1>7. Bookkeeping' /\ AddedAreUpdates'
    BY <1>1 DEF SyncInv, Bookkeeping, AddedAreUpdates
  <1>8. TokensAreOfKeys' /\ StoredAreOfKeys'
    BY <1>1, <1>4, KeysGrow
  <1>9. Foreseen'
    <2> SUFFICES ASSUME NEW u \in listened', up'[u] = <<>>
                 PROVE  (\E f : Told(u, f))'
      BY <1>1 DEF Foreseen
    <2>1. u \in Targets /\ u \in listened
      BY <1>1 DEF TypeOK
    <2>2. CASE u = t
      BY <2>1, <2>2
    <2>3. CASE u # t
      <3>1. up[u] = <<>> /\ srv'[u] = srv[u]
        BY <1>3, <2>1, <2>3
      <3>2. PICK f : Told(u, f)
        BY <2>1, <3>1 DEF SyncInv, Foreseen
      <3>3. PICK n : n = Len(down)
        OBVIOUS
      <3>4. PICK x \in Idea : x = f[n]
        BY <3>2, <3>3, IdeaAfter
      <3>5. ~IsAnswer(m, u) /\ x = Hears(u, x, m)
        BY <2>3 DEF IsAnswer, Hears
      <3>6. Agreed(u, x)
        BY <3>2, <3>3, <3>4 DEF Told
      <3>7. Agreed(u, x)'
        BY <1>4, <2>1, <3>1, <3>6, AgreedGrow
      <3>8. PICK g : g = Extended(f, n, x)
        OBVIOUS
      <3>9. Told(u, g)'
        BY <1>1, <1>4, <2>1, <2>3, <3>2, <3>3, <3>4, <3>5, <3>7, <3>8, SaidTold
      <3> QED BY <3>9
    <2> QED BY <2>2, <2>3
  <1> QED BY <1>5, <1>6, <1>7, <1>8, <1>9 DEF SyncInv

(* The server tells something about a target. *)
LEMMA SyncTells ==
  ASSUME TypeOK, TypeOK', AggregatorInv, AggregatorInv', TokensAgree, SyncInv,
         stream = "open",
         NEW t \in Targets, NEW m \in Response, NEW state \in ServerState, Say(m, state),
         m.target = t, m.kind \notin {"Snapshot", "Added", "Removed"},
         m.added \cap m.removed = {}, m.added \subseteq Matching(t, Pets),
         state.at <= clock, state.blind => snapver <= clock, state.on = srv[t].on,
         up' = up,
         \A x \in Idea : Agreed(t, x) =>
           /\ x.trust = "lost" => m.kind # "Current"
           /\ \A y : y = Hears(t, x, m) => Agreed(t, y)'
  PROVE  SyncInv'
  <1>1. t \in listened /\ up[t] = <<>> => (\E f : Told(t, f))'
    <2> SUFFICES ASSUME t \in listened, up[t] = <<>>
                 PROVE  (\E f : Told(t, f))'
      OBVIOUS
    <2>1. PICK f : Told(t, f)
      BY DEF SyncInv, Foreseen
    <2>2. PICK n : n = Len(down)
      OBVIOUS
    <2>3. n \in Nat /\ f[n] \in Idea
      BY <2>1, <2>2, IdeaAfter
    <2>4. PICK x \in Idea : x = Hears(t, f[n], m)
      BY <2>3, HearsType
    <2>5. Agreed(t, f[n])
      BY <2>1, <2>2 DEF Told
    <2>6. Agreed(t, x)' /\ (f[n].trust = "lost" => m.kind # "Current")
      BY <2>3, <2>4, <2>5
    <2>7. PICK g : g = Extended(f, n, x)
      OBVIOUS
    <2>8. ~IsAnswer(m, t)
      BY DEF IsAnswer
    <2>9. /\ UNCHANGED <<history, snapver, states, keys, received, resets, spoilt>>
          /\ down' = Append(down, m)
      BY DEF Say, aggregator, storeVars, viewVars
    <2>10. StreamInOrder
      BY DEF SyncInv
    <2>11. Told(t, g)'
      BY <2>1, <2>2, <2>4, <2>6, <2>7, <2>8, <2>9, <2>10, SaidTold
    <2> QED BY <2>11
  <1>2. t \in listened =>
           /\ up[t] # <<>> => up[t][Len(up[t])].token = token[t]
           /\ up[t] = <<>> => state.on
    BY DEF SyncInv, ResumesAsAsked
  <1> QED BY <1>1, <1>2, SyncSaid

LEMMA AgreedAt ==
  ASSUME TypeOK, TypeOK', UNCHANGED <<history, snapver>>, NEW t, NEW x,
         NEW u \in Nat, u = srv'[t].at,
         x.trust = "sure" =>
           /\ Covers(t, x.pets, u)
           /\ IF srv'[t].blind THEN x.pets \subseteq Matching(t, Pets)
                               ELSE x.pets \subseteq PetsAt(t, u),
         x.trust = "lost" => srv'[t].told
  PROVE  Agreed(t, x)'
  <1>1. PetsAt(t, u)' = PetsAt(t, u) /\ (Covers(t, x.pets, u) <=> Covers(t, x.pets, u)')
    BY DEF PetsAt, Covers, Lasts
  <1> QED BY <1>1 DEF Agreed

LEMMA SyncTellsDocuments ==
  ASSUME TypeOK, TypeOK', AggregatorInv, AggregatorInv', TokensAgree, SyncInv,
         NEW t \in Targets, ServerSendsDocuments(t)
  PROVE  SyncInv'
  <1>1. stream = "open" /\ UNCHANGED <<up, faults>>
    BY DEF ServerSendsDocuments, AggregatorInv, ClosedIsEmpty, Off
  <1>2. PICK u \in Nat : u = srv[t].at /\ u <= clock
    BY <1>1 DEF SyncInv, StreamInOrder, TypeOK, ServerState
  <1>3. clock \in 1..Len(history) /\ clock \in Nat
    BY <1>1 DEF SyncInv, StreamInOrder, TypeOK
  <1>4. PICK c \in 1..Len(history) : c = clock /\ c \in Nat
    BY <1>3
  <1>5. srv[t] \in ServerState /\ (srv[t].blind => snapver <= c)
    BY <1>1, <1>4 DEF SyncInv, StreamInOrder, TypeOK
  <1>6. PICK A : A = Written(t, u, c)
    OBVIOUS
  <1>7. PICK R : R = IF srv[t].blind THEN {} ELSE PetsAt(t, u) \ PetsAt(t, c)
    OBVIOUS
  <1>8. A \in SUBSET Pets /\ R \in SUBSET Pets /\ A \cap R = {} /\ A \subseteq Matching(t, Pets)
    <2>1. A \subseteq PetsAt(t, c)
      BY <1>6 DEF Written
    <2> QED BY <2>1, <1>7, PetsAtMatch
  <1>9. PICK state : state = [srv[t] EXCEPT !.at = clock]
    OBVIOUS
  <1>10. /\ state \in ServerState /\ state.at = c /\ state.blind = srv[t].blind
         /\ state.told = srv[t].told /\ state.on = srv[t].on
    BY <1>4, <1>5, <1>9 DEF ServerState
  <1>11. PICK m : m = [Message("Documents", t) EXCEPT
                         !.added = A, !.removed = R, !.number = clock]
    OBVIOUS
  <1>12. /\ m \in Response /\ m.kind = "Documents" /\ m.target = t
         /\ m.added = A /\ m.removed = R
    BY <1>3, <1>8, <1>11, MessageType DEF Message
  <1>13. \/ Say(m, state)
         \/ /\ A = {} /\ R = {}
            /\ srv' = [srv EXCEPT ![t] = state]
            /\ UNCHANGED <<history, clock, down, stream, idle, online, listened,
                           token, aggregator, storeVars, viewVars, listens, spoilt>>
    <2> DEFINE A1 == Written(t, srv[t].at, clock)
               R1 == IF srv[t].blind THEN {} ELSE PetsAt(t, srv[t].at) \ PetsAt(t, clock)
    <2>1. A1 = A /\ R1 = R
      BY <1>2, <1>4, <1>6, <1>7
    <2>2. LET mm == [Message("Documents", t) EXCEPT
                       !.added = A1, !.removed = R1, !.number = clock]
          IN IF mm.added = {} /\ mm.removed = {}
               THEN /\ srv' = [srv EXCEPT ![t] = [srv[t] EXCEPT !.at = clock]]
                    /\ UNCHANGED <<history, clock, down, stream, idle, online, listened,
                           token, aggregator, storeVars, viewVars, listens, spoilt>>
               ELSE Say(mm, [srv[t] EXCEPT !.at = clock])
      BY DEF ServerSendsDocuments
    <2> HIDE DEF A1, R1
    <2> QED BY <1>9, <1>11, <1>12, <2>1, <2>2
  <1>14. ASSUME UNCHANGED <<history, snapver>>, srv' = [srv EXCEPT ![t] = state],
                NEW x \in Idea, Agreed(t, x),
                NEW y, y = [x EXCEPT !.pets = (@ \ R) \cup A]
         PROVE  Agreed(t, y)'
    <2>1. srv'[t] = state
      BY <1>14 DEF TypeOK
    <2>2. y.pets = (x.pets \ R) \cup A /\ y.trust = x.trust
      BY <1>14 DEF Idea
    <2>3. x.trust = "lost" => srv'[t].told
      BY <1>10, <1>14, <2>1 DEF Agreed
    <2>4. ASSUME x.trust = "sure"
          PROVE  /\ Covers(t, y.pets, c)
                 /\ IF srv'[t].blind THEN y.pets \subseteq Matching(t, Pets)
                                     ELSE y.pets \subseteq PetsAt(t, c)
      <3>1. Covers(t, x.pets, u)
        BY <1>2, <1>14, <2>4 DEF Agreed
      <3>2. PICK S : S = x.pets
        OBVIOUS
      <3>3. /\ Covers(t, S \cup A, c) /\ A \subseteq PetsAt(t, c)
            /\ LET Q == PetsAt(t, u) \ PetsAt(t, c)
               IN /\ Covers(t, (S \ Q) \cup A, c)
                  /\ S \subseteq PetsAt(t, u) => (S \ Q) \cup A \subseteq PetsAt(t, c)
        <4>1. u <= c
          BY <1>2, <1>4
        <4>2. Covers(t, S, u)
          BY <3>1, <3>2
        <4>3. /\ Covers(t, S \cup Written(t, u, c), c) /\ Written(t, u, c) \subseteq PetsAt(t, c)
              /\ LET Q == PetsAt(t, u) \ PetsAt(t, c)
                 IN /\ Covers(t, (S \ Q) \cup Written(t, u, c), c)
                    /\ S \subseteq PetsAt(t, u)
                         => (S \ Q) \cup Written(t, u, c) \subseteq PetsAt(t, c)
          BY <4>1, <4>2, CoversAdvance
        <4> QED BY <1>6, <4>3
      <3>4. CASE srv[t].blind
        <4>1. y.pets = S \cup A
          BY <1>7, <2>2, <3>2, <3>4
        <4>2. S \subseteq Matching(t, Pets)
          BY <1>14, <2>4, <3>2, <3>4 DEF Agreed
        <4> QED BY <1>8, <1>10, <2>1, <3>3, <3>4, <4>1, <4>2
      <3>5. CASE ~srv[t].blind
        <4>1. S \subseteq PetsAt(t, u)
          BY <1>2, <1>14, <2>4, <3>2, <3>5 DEF Agreed
        <4> QED BY <1>7, <1>10, <2>1, <2>2, <3>2, <3>3, <3>5, <4>1
      <3> QED BY <3>4, <3>5
    <2>5. c = srv'[t].at
      BY <1>10, <2>1
    <2> QED BY <1>4, <1>14, <2>2, <2>3, <2>4, <2>5, AgreedAt
  <1>15. CASE Say(m, state)
    <2>1. ASSUME NEW x \in Idea, Agreed(t, x)
          PROVE  /\ x.trust = "lost" => m.kind # "Current"
                 /\ \A y : y = Hears(t, x, m) => Agreed(t, y)'
      <3>1. Hears(t, x, m) = [x EXCEPT !.pets = (@ \ R) \cup A]
        BY <1>12 DEF Hears
      <3>2. UNCHANGED <<history, snapver>> /\ srv' = [srv EXCEPT ![t] = state]
        BY <1>12, <1>15 DEF Say, storeVars
      <3> QED BY <1>12, <1>14, <2>1, <3>1, <3>2
    <2>2. state.at <= clock /\ (state.blind => snapver <= clock)
      BY <1>4, <1>5, <1>10
    <2> QED BY <1>1, <1>8, <1>10, <1>12, <1>15, <2>1, <2>2, SyncTells
  <1>16. CASE /\ A = {} /\ R = {}
              /\ srv' = [srv EXCEPT ![t] = state]
              /\ UNCHANGED <<history, clock, down, stream, idle, online, listened,
                             token, aggregator, storeVars, viewVars, listens, spoilt>>
    <2>1. UNCHANGED <<history, clock, down, stream, listened, token, states, updates, resets,
                      local, stored, keys, snapver, current, received, spoilt>>
      BY <1>16 DEF aggregator, storeVars, viewVars
    <2>2. srv'[t] = state /\ \A v \in Targets : v # t => srv'[v] = srv[v]
      BY <1>16 DEF TypeOK
    <2>3. Grows /\ StreamInOrder
      <3>1. Len(history) \in Nat /\ snapver \in Nat
        BY HistoryType
      <3> QED BY <2>1, <3>1 DEF Grows, SyncInv
    <2>4. TokensAreOfKeys' /\ StoredAreOfKeys'
      BY <2>1, <2>3, KeysGrow
    <2>5. Bookkeeping' /\ AddedAreUpdates'
      BY <2>1 DEF SyncInv, Bookkeeping, AddedAreUpdates
    <2>6. \A v \in Targets : srv'[v].at <= clock /\ (srv'[v].blind => snapver <= clock)
                            /\ srv'[v].on = srv[v].on
      BY <1>1, <1>4, <1>5, <1>10, <2>2, <2>3 DEF StreamInOrder
    <2>7. StreamInOrder'
      BY <2>1, <2>3, <2>6 DEF StreamInOrder
    <2>8. ResumesAsAsked'
      BY <1>1, <2>1, <2>6 DEF SyncInv, ResumesAsAsked, TypeOK
    <2>9. Foreseen'
      <3> SUFFICES ASSUME NEW v \in listened, up[v] = <<>>
                   PROVE  (\E f : Told(v, f))'
        BY <1>1, <2>1 DEF Foreseen
      <3>1. v \in Targets
        BY DEF TypeOK
      <3>2. PICK f : Told(v, f)
        BY <1>1 DEF SyncInv, Foreseen
      <3>3. PICK n : n = Len(down)
        OBVIOUS
      <3>4. PICK x \in Idea : x = f[n]
        BY <3>2, <3>3, IdeaAfter
      <3>5. Agreed(v, x)
        BY <3>2, <3>3, <3>4 DEF Told
      <3>8. Agreed(v, x)'
        <4>1. CASE v = t
          <5>1. x = [x EXCEPT !.pets = (@ \ R) \cup A]
            BY <1>16 DEF Idea
          <5> QED BY <1>14, <1>16, <2>1, <3>5, <4>1, <5>1
        <4>2. CASE v # t
          BY <1>1, <2>2, <2>3, <3>1, <3>5, <4>2, AgreedGrow
        <4> QED BY <4>1, <4>2
      <3>9. RemoteKeys(v)' = RemoteKeys(v)
        BY <2>1, RemoteKeysKept
      <3>10. Agreed(v, f[Len(down)])'
        BY <2>1, <3>3, <3>4, <3>8
      <3>11. Told(v, f)'
        BY <1>1, <2>1, <2>3, <3>1, <3>2, <3>9, <3>10, QuietTold
      <3> QED BY <3>11
    <2> QED BY <2>4, <2>5, <2>7, <2>8, <2>9 DEF SyncInv
  <1> QED BY <1>13, <1>15, <1>16

LEMMA LastOfTail ==
  ASSUME NEW s \in Seq(Request), s # <<>>
  PROVE  /\ Tail(s) # <<>> => Tail(s)[Len(Tail(s))] = s[Len(s)]
         /\ Tail(s) = <<>> => Len(s) = 1 /\ s[1] = Head(s)
  <1>1. PICK e \in Seq(Request) : e = Tail(s)
    BY HeadTailProperties
  <1>2. /\ Len(s) \in Nat /\ Len(s) # 0 /\ Len(e) = Len(s) - 1
        /\ \A i \in 1..(Len(s) - 1) : e[i] = s[i + 1]
    BY <1>1, EmptySeq, HeadTailProperties
  <1>3. ASSUME e # <<>> PROVE e[Len(e)] = s[Len(s)]
    <2>1. Len(e) # 0
      BY <1>3, EmptySeq
    <2>2. Len(e) \in 1..(Len(s) - 1) /\ Len(e) + 1 = Len(s)
      BY <1>2, <2>1
    <2> QED BY <1>2, <2>2
  <1>4. ASSUME e = <<>> PROVE Len(s) = 1
    BY <1>2, <1>4
  <1> QED BY <1>1, <1>3, <1>4

LEMMA SyncAnswers ==
  ASSUME TypeOK, TypeOK', AggregatorInv, AggregatorInv', TokensAgree, SyncInv,
         NEW t \in Targets, ServerWatch(t) \/ ServerUnwatch(t)
  PROVE  SyncInv'
  <1>1. /\ up[t] # <<>> /\ up' = [up EXCEPT ![t] = Tail(@)] /\ up[t] \in Seq(Request)
        /\ up \in [Targets -> Seq(Request)]
    BY DEF ServerWatch, ServerUnwatch, TypeOK
  <1>2. stream = "open"
    BY <1>1 DEF AggregatorInv, ClosedIsEmpty
  <1>3. \A u \in Targets : u # t => up'[u] = up[u]
    BY <1>1
  <1>4. up'[t] = Tail(up[t])
    BY <1>1
  <1>5. up'[t] # <<>> => up'[t][Len(up'[t])] = up[t][Len(up[t])]
    BY <1>1, <1>4, LastOfTail
  <1>6. up'[t] = <<>> => Len(up[t]) = 1 /\ up[t][1] = Head(up[t])
    BY <1>1, <1>4, LastOfTail
  <1>7. t \in listened => up[t][Len(up[t])].token = token[t] /\ up[t][Len(up[t])].kind = "watch"
    BY <1>1, <1>2 DEF SyncInv, ResumesAsAsked, AggregatorInv, WatchComesLast
  <1>8. CASE ServerWatch(t)
    <2>1. PICK u : u = Head(up[t]).token
      OBVIOUS
    <2>2. u \in Nat /\ u <= clock
      <3>1. Head(up[t]) \in Request
        BY <1>1
      <3> QED BY <1>8, <2>1, <3>1 DEF ServerWatch, Request
    <2>3. PICK blind \in BOOLEAN :
            /\ blind => snapver <= clock
            /\ Say(Message("Added", t), [Off EXCEPT !.on = TRUE, !.at = u, !.blind = blind])
      BY <1>8, <2>1, WatchTargetsAssumption DEF ServerWatch
    <2>4. PICK state : state = [Off EXCEPT !.on = TRUE, !.at = u, !.blind = blind]
      OBVIOUS
    <2>5. state \in ServerState /\ state.on /\ state.at = u
      BY <2>2, <2>4 DEF Off, ServerState
    <2>b. state.blind = blind
      BY Zenon, <2>4 DEF Off
    <2>6. PICK m : m = Message("Added", t)
      OBVIOUS
    <2>7. m \in Response /\ m.kind = "Added" /\ m.target = t /\ m.added = {} /\ m.removed = {}
      BY <2>6, MessageType DEF Message
    <2>8. Say(m, state)
      BY <2>3, <2>4, <2>6
    <2>9. /\ UNCHANGED <<history, snapver, states, keys, received, resets, spoilt, listened, token>>
          /\ down' = Append(down, m) /\ srv' = [srv EXCEPT ![t] = state]
      BY <2>7, <2>8 DEF Say, aggregator, storeVars, viewVars
    <2>10. ASSUME t \in listened, up'[t] = <<>>
           PROVE  (\E f : Told(t, f))'
      <3>1. u = token[t]
        BY <1>6, <1>7, <2>1, <2>10
      <3>2. PICK x : x = [pets |-> RemoteKeys(t), trust |-> IF t \in spoilt THEN "spoilt" ELSE "sure"]
        OBVIOUS
      <3>3. x \in Idea
        BY <3>2, RemoteKeysType DEF Idea
      <3>4. t \notin resets
        <4>1. Len(up[t]) \in Nat /\ Len(up[t]) # 0
          BY <1>1, EmptySeq
        <4>2. Cardinality(Answers(down, t)) \in Nat
          BY AnswersFinite DEF TypeOK
        <4>3. states[t].out # 0
          BY <4>1, <4>2 DEF AggregatorInv, OutstandingIsUnanswered
        <4> QED BY <4>3 DEF SyncInv, Bookkeeping
      <3>5. RemoteKeys(t)' = RemoteKeys(t)
        BY <2>9, RemoteKeysKept
      <3>6. Begins(t, x, RemoteKeys(t))'
        BY <2>9, <3>2, <3>4, <3>5 DEF Begins
      <3>7. srv'[t] = state
        BY <2>9 DEF TypeOK
      <3>8. Agreed(t, x)'
        <4>1. ASSUME x.trust = "sure"
              PROVE  /\ Covers(t, x.pets, u)
                     /\ IF srv'[t].blind THEN x.pets \subseteq Matching(t, Pets)
                                         ELSE x.pets \subseteq PetsAt(t, u)
          <5>1. t \notin spoilt
            BY <3>2, <4>1
          <5>2. Continues(t, x.pets, u)
            BY <2>10, <3>1, <3>2, <5>1 DEF SyncInv, TokensAreOfKeys
          <5> QED BY <5>2, PetsAtMatch DEF Continues
        <4>2. x.trust # "lost"
          BY <3>2
        <4> QED BY <2>2, <2>5, <2>9, <3>7, <4>1, <4>2, AgreedAt
      <3>9. PICK n : n = Len(down)
        OBVIOUS
      <3>10. PICK g : g = [k \in 0..(n + 1) |-> x]
        OBVIOUS
      <3>11. IsAnswer(m, t)
        BY <2>7 DEF IsAnswer
      <3>12. Told(t, g)'
        BY <2>7, <2>9, <3>3, <3>6, <3>8, <3>9, <3>10, <3>11, AddedTold
      <3> QED BY <3>12
    <2>11. state.at <= clock /\ (state.blind => snapver <= clock)
      BY <2>2, <2>3, <2>5, <2>b
    <2> QED BY <1>2, <1>3, <1>5, <1>7, <2>5, <2>7, <2>8, <2>10, <2>11, SyncSaid
  <1>9. CASE ServerUnwatch(t)
    <2>1. PICK m : m = Message("Removed", t)
      OBVIOUS
    <2>2. m \in Response /\ m.kind = "Removed" /\ m.target = t /\ m.added = {} /\ m.removed = {}
      BY <2>1, MessageType DEF Message
    <2>3. Say(m, Off)
      BY <1>9, <2>1 DEF ServerUnwatch
    <2>4. Off \in ServerState /\ Off.at = 0 /\ ~Off.blind
      BY StatesType DEF Off
    <2>5. t \in listened => up'[t] # <<>>
      BY <1>6, <1>7, <1>9 DEF ServerUnwatch
    <2>6. Off.at <= clock
      BY <2>4 DEF TypeOK
    <2> QED BY <1>2, <1>3, <1>5, <1>7, <2>2, <2>3, <2>4, <2>5, <2>6, SyncSaid
  <1> QED BY <1>8, <1>9

LEMMA SameSize ==
  ASSUME NEW S \in SUBSET Pets, NEW T \in SUBSET S, Cardinality(S) = Cardinality(T)
  PROVE  S = T
  <1>1. IsFiniteSet(S)
    BY FS_Subset, PetQueriesAssumption
  <1> QED BY <1>1, FS_Subset

LEMMA SyncServer ==
  ASSUME TypeOK, TypeOK', AggregatorInv, AggregatorInv', TokensAgree, SyncInv,
         NEW t \in Targets, ServerStep(t) \/ ServerReset(t)
  PROVE  SyncInv'
  <1>1. srv[t].on \/ srv[t].told => stream = "open"
    BY DEF AggregatorInv, ClosedIsEmpty, Off
  <1>2. srv[t] \in ServerState /\ srv \in [Targets -> ServerState] /\ clock \in Nat
    BY DEF TypeOK
  <1>3. stream = "open" => srv[t].at <= clock /\ (srv[t].blind => snapver <= clock)
    BY DEF SyncInv, StreamInOrder
  <1>4. PICK c \in Nat : c = clock
    BY <1>2
  <1>5. CASE ServerSendsCurrent(t)
    <2>1. PICK m : m = Message("Current", t)
      OBVIOUS
    <2>2. m \in Response /\ m.kind = "Current" /\ m.target = t /\ m.added = {} /\ m.removed = {}
      BY <2>1, MessageType DEF Message
    <2>3. PICK state : state = [srv[t] EXCEPT !.told = TRUE]
      OBVIOUS
    <2>4. state \in ServerState /\ state.at = srv[t].at /\ state.told
      BY <1>2, <2>3 DEF ServerState
    <2>5. state.blind = srv[t].blind /\ state.on = srv[t].on
      BY <1>2, <2>3 DEF ServerState
    <2>6. Say(m, state) /\ UNCHANGED up /\ srv[t].on /\ ~srv[t].told
      BY <1>5, <2>1, <2>3 DEF ServerSendsCurrent
    <2>7. UNCHANGED <<history, snapver>> /\ srv'[t] = state
      BY <1>2, <2>2, <2>6 DEF Say, storeVars
    <2>8. ASSUME NEW x \in Idea, Agreed(t, x)
          PROVE  /\ x.trust = "lost" => m.kind # "Current"
                 /\ \A y : y = Hears(t, x, m) => Agreed(t, y)'
      <3>1. x.trust # "lost"
        BY <2>6, <2>8 DEF Agreed
      <3>2. Hears(t, x, m) = x
        BY <2>2 DEF Hears
      <3>3. PICK u \in Nat : u = srv[t].at
        BY <1>2 DEF ServerState
      <3>4. Agreed(t, x)'
        BY <2>4, <2>5, <2>7, <2>8, <3>1, <3>3, AgreedAt DEF Agreed
      <3> QED BY <3>1, <3>2, <3>4
    <2>9. state.at <= clock /\ (state.blind => snapver <= clock)
      BY <1>1, <1>3, <2>4, <2>5, <2>6
    <2> QED BY <1>1, <2>2, <2>4, <2>5, <2>6, <2>8, <2>9, SyncTells
  <1>6. CASE ServerReset(t)
    <2>1. PICK m : m = Message("Reset", t)
      OBVIOUS
    <2>2. m \in Response /\ m.kind = "Reset" /\ m.target = t /\ m.added = {} /\ m.removed = {}
      BY <2>1, MessageType DEF Message
    <2>3. PICK state : state = [Off EXCEPT !.on = TRUE]
      OBVIOUS
    <2>4. state \in ServerState /\ state.at = 0 /\ ~state.blind /\ state.on
      BY <2>3 DEF ServerState, Off
    <2>5. Say(m, state) /\ UNCHANGED up /\ srv[t].on
      BY <1>6, <2>1, <2>3 DEF ServerReset
    <2>6. UNCHANGED <<history, snapver>> /\ srv'[t] = state
      BY <1>2, <2>2, <2>5 DEF Say, storeVars
    <2>7. ASSUME NEW x \in Idea, Agreed(t, x)
          PROVE  /\ x.trust = "lost" => m.kind # "Current"
                 /\ \A y : y = Hears(t, x, m) => Agreed(t, y)'
      <3>1. Hears(t, x, m) = [pets |-> {}, trust |-> "sure"]
        BY <2>2 DEF Hears
      <3>2. ASSUME NEW y, y = Hears(t, x, m)
            PROVE  Agreed(t, y)'
        <4>1. y.pets = {} /\ y.trust = "sure"
          BY <3>1, <3>2
        <4>2. Covers(t, y.pets, 0)
          BY <4>1, ContinuesFromNothing DEF Continues
        <4> QED BY <2>4, <2>6, <4>1, <4>2, AgreedAt
      <3> QED BY <2>2, <3>2
    <2>8. state.at <= clock /\ (state.blind => snapver <= clock)
      BY <1>2, <2>4
    <2> QED BY <1>1, <2>2, <2>4, <2>5, <2>7, <2>8, SyncTells
  <1>7. CASE ServerSendsFilter(t)
    <2>1. PICK Q : Q = PetsAt(t, c)
      OBVIOUS
    <2>2. PICK m : m = [Message("Filter", t) EXCEPT !.number = Cardinality(Q)]
      OBVIOUS
    <2>3. Q \in SUBSET Pets /\ IsFiniteSet(Q) /\ Cardinality(Q) \in Nat
      BY <2>1, PetsAtType, FS_Subset, FS_CardinalityType, PetQueriesAssumption
    <2>4. /\ m \in Response /\ m.kind = "Filter" /\ m.target = t /\ m.added = {}
          /\ m.removed = {} /\ m.number = Cardinality(Q)
      BY <2>2, <2>3, MessageType DEF Message
    <2>5. PICK state : state = [srv[t] EXCEPT !.blind = FALSE]
      OBVIOUS
    <2>6. state \in ServerState /\ state.at = srv[t].at /\ ~state.blind
      BY <1>2, <2>5 DEF ServerState
    <2>7. state.told = srv[t].told /\ state.on = srv[t].on
      BY <1>2, <2>5 DEF ServerState
    <2>8. Say(m, state) /\ UNCHANGED up /\ srv[t].told /\ srv[t].blind /\ srv[t].at = c
      BY <1>4, <1>7, <2>1, <2>2, <2>5 DEF ServerSendsFilter
    <2>9. UNCHANGED <<history, snapver>> /\ srv'[t] = state
      BY <1>2, <2>4, <2>8 DEF Say, storeVars
    <2>10. snapver <= c
      BY <1>1, <1>3, <1>4, <2>8
    <2>11. Q \subseteq Matching(t, Pets)
      BY <2>1, PetsAtMatch
    <2>12. ASSUME NEW x \in Idea, Agreed(t, x), NEW y, y = Hears(t, x, m)
           PROVE  Agreed(t, y)'
      <3>1. x.pets \in SUBSET Pets
        BY DEF Idea
      <3>2. x.trust = "sure" => Covers(t, x.pets, c) /\ x.pets \subseteq Matching(t, Pets)
        BY <2>8, <2>12 DEF Agreed
      <3>3. x.trust = "sure" => Q \subseteq x.pets
        BY <2>1, <2>10, <3>2, CoversNow
      <3>4. y.trust = "sure" => Covers(t, y.pets, c) /\ y.pets \subseteq Q
        <4> SUFFICES ASSUME y.trust = "sure" PROVE Covers(t, y.pets, c) /\ y.pets \subseteq Q
          OBVIOUS
        <4>1. CASE IsDocumentQuery(t) /\ m.number = 0
          <5>1. Q = {}
            BY <2>3, <2>4, <4>1, FS_EmptySet
          <5>2. y.pets = x.pets \ {t.path} /\ y.trust = x.trust
            BY <2>4, <2>12, <4>1 DEF Hears, Idea
          <5>3. y.pets = {}
            BY <3>2, <4>1, <5>2 DEF Matching
          <5> QED BY <2>1, <5>1, <5>3 DEF Covers
        <4>2. CASE IsDocumentQuery(t) /\ m.number # 0
          <5>1. y = x
            BY <2>4, <2>12, <4>2 DEF Hears
          <5>2. Q # {}
            BY <2>3, <2>4, <4>2, FS_EmptySet
          <5>3. Q = {t.path} /\ x.pets \subseteq {t.path}
            BY <2>11, <3>2, <4>2, <5>1, <5>2 DEF Matching
          <5> QED BY <3>2, <5>1, <5>3
        <4>3. CASE ~IsDocumentQuery(t)
          <5>1. CASE Cardinality(x.pets) = m.number
            <6>1. y = x
              BY <2>4, <2>12, <4>3, <5>1 DEF Hears
            <6>2. x.pets = Q
              BY <2>4, <3>1, <3>3, <5>1, <6>1, SameSize
            <6> QED BY <3>2, <6>1, <6>2
          <5>2. CASE Cardinality(x.pets) # m.number
            <6>1. y.trust = "lost"
              BY <2>4, <2>12, <4>3, <5>2 DEF Hears
            <6> QED BY <6>1
          <5> QED BY <5>1, <5>2
        <4> QED BY <4>1, <4>2, <4>3
      <3> QED BY <2>1, <2>6, <2>7, <2>8, <2>9, <3>4, AgreedAt
    <2>13. state.at <= clock /\ (state.blind => snapver <= clock)
      BY <1>1, <1>3, <2>6, <2>8
    <2>14. \A x \in Idea : Agreed(t, x) =>
             /\ x.trust = "lost" => m.kind # "Current"
             /\ \A y : y = Hears(t, x, m) => Agreed(t, y)'
      BY <2>4, <2>12
    <2> QED BY <1>1, <2>4, <2>6, <2>7, <2>8, <2>13, <2>14, SyncTells
  <1> QED BY <1>5, <1>6, <1>7, SyncAnswers, SyncTellsDocuments DEF ServerStep

LEMMA SyncSnapshotSent ==
  ASSUME TypeOK, TypeOK', AggregatorInv, AggregatorInv', TokensAgree, SyncInv,
         ServerSendsSnapshot
  PROVE  SyncInv'
  <1>1. stream = "open"
    BY DEF AggregatorInv, ClosedIsEmpty, Off, ServerSendsSnapshot
  <1>2. clock \in Nat /\ clock \in 1..Len(history)
    BY <1>1 DEF TypeOK, SyncInv, StreamInOrder
  <1>3. PICK c \in Nat : c = clock /\ c \in 1..Len(history)
    BY <1>2
  <1>4. PICK m : m = [Message("Snapshot", Collection) EXCEPT !.number = c]
    OBVIOUS
  <1>5. /\ m \in Response /\ m.kind = "Snapshot" /\ m.number = c /\ m.target = Collection
        /\ m.added = {} /\ m.removed = {}
    BY <1>4, MessageType, KindsOfTargets DEF Message
  <1>6. /\ UNCHANGED <<history, clock, up, stream, listened, token, states, updates, resets,
                       local, stored, keys, snapver, current, received, spoilt>>
        /\ down' = Append(down, m)
    BY <1>3, <1>4 DEF ServerSendsSnapshot, aggregator, storeVars, viewVars
  <1>7. \A t \in Targets : srv[t] \in ServerState
    BY DEF TypeOK
  <1>8. ASSUME NEW t \in Targets
        PROVE  /\ srv'[t].at = srv[t].at /\ srv'[t].on = srv[t].on
               /\ srv'[t].told = srv[t].told /\ srv'[t].blind = srv[t].blind
               /\ srv[t].on => srv[t].at = c /\ ~srv[t].blind
    <2>1. srv'[t] = IF srv[t].on THEN [srv[t] EXCEPT !.sent = clock] ELSE srv[t]
      BY DEF ServerSendsSnapshot
    <2>2. srv[t].on => srv[t].at = c /\ ~srv[t].blind
      BY <1>3 DEF ServerSendsSnapshot
    <2> QED BY <1>7, <2>1, <2>2 DEF ServerState
  <1>9. Grows /\ StreamInOrder
    <2>1. Len(history) \in Nat /\ snapver \in Nat
      BY HistoryType
    <2> QED BY <1>6, <2>1 DEF Grows, SyncInv
  <1>10. StreamInOrder'
    <2>1. \A t \in Targets : srv'[t].at <= clock /\ (srv'[t].blind => snapver <= clock)
      BY <1>1, <1>8, <1>9 DEF StreamInOrder
    <2>2. m.number \in 1..clock
      BY <1>3, <1>5
    <2> QED BY <1>1, <1>5, <1>6, <1>9, <2>1, <2>2, InOrderSaid
  <1>11. TokensAreOfKeys' /\ StoredAreOfKeys'
    BY <1>6, <1>9, KeysGrow
  <1>12. Bookkeeping' /\ AddedAreUpdates'
    BY <1>6 DEF SyncInv, Bookkeeping, AddedAreUpdates
  <1>13. ResumesAsAsked'
    BY <1>1, <1>6, <1>8 DEF SyncInv, ResumesAsAsked, TypeOK
  <1>14. Foreseen'
    <2> SUFFICES ASSUME NEW t \in listened, up[t] = <<>>
                 PROVE  (\E f : Told(t, f))'
      BY <1>6 DEF Foreseen
    <2>1. t \in Targets
      BY DEF TypeOK
    <2>2. PICK f : Told(t, f)
      BY <1>1 DEF SyncInv, Foreseen
    <2>3. PICK n : n = Len(down)
      OBVIOUS
    <2>4. PICK x \in Idea : x = f[n]
      BY <2>2, <2>3, IdeaAfter
    <2>5. Agreed(t, x)
      BY <2>2, <2>3, <2>4 DEF Told
    <2>6. srv[t].on /\ srv[t].at = c /\ ~srv[t].blind
      BY <1>1, <1>8, <2>1 DEF SyncInv, ResumesAsAsked
    <2>7. x.trust = "sure" => Covers(t, x.pets, c) /\ x.pets \subseteq PetsAt(t, c)
      BY <2>5, <2>6 DEF Agreed
    <2>8. Agreed(t, x)'
      <3>1. x.trust = "lost" => srv'[t].told
        BY <1>8, <2>1, <2>5 DEF Agreed
      <3> QED BY <1>6, <1>8, <2>1, <2>6, <2>7, <3>1, AgreedAt
    <2>9. ~IsAnswer(m, t) /\ x = Hears(t, x, m)
      BY <1>5 DEF IsAnswer, Hears
    <2>10. x.trust = "sure" => Continues(t, x.pets, m.number)
      BY <1>5, <2>7 DEF Continues
    <2>11. PICK g : g = Extended(f, n, x)
      OBVIOUS
    <2>12. Told(t, g)'
      BY <1>1, <1>5, <1>6, <1>9, <2>1, <2>2, <2>3, <2>4, <2>8, <2>9, <2>10, <2>11, SaidTold
    <2> QED BY <2>12
  <1> QED BY <1>10, <1>11, <1>12, <1>13, <1>14 DEF SyncInv

(***************************************************************************)
(* Steps of the queries and of the stream.                                 *)
(***************************************************************************)

LEMMA LimboKeysKept ==
  ASSUME TypeOK, TypeOK', NEW t \in Targets, keys' = keys,
         t \in received' <=> t \in received
  PROVE  RemoteKeys(t)' = RemoteKeys(t)
  <1>1. CASE t \in UserTargets
    BY <1>1 DEF RemoteKeys
  <1>2. CASE t \in LimboTargets
    <2>1. Limbo(t.path) = t
      BY <1>2 DEF LimboTargets, Limbo
    <2>2. \A p : p \in {t.path} => (Limbo(p) \in received' <=> Limbo(p) \in received)
      BY <2>1
    <2>3. t \notin UserTargets
      BY <1>2, KindsOfTargets
    <2> QED BY <2>2, <2>3 DEF RemoteKeys
  <1> QED BY <1>1, <1>2, KindsOfTargets

(* No fewer answers are due than requests have been made. *)
LEMMA DueAreCounted ==
  ASSUME TypeOK, AggregatorInv, NEW t \in Targets
  PROVE  /\ states[t].out \in Nat /\ Len(up[t]) \in Nat
         /\ Cardinality(Answers(down, t)) \in Nat
         /\ states[t].out = Len(up[t]) + Cardinality(Answers(down, t))
         /\ states[t].out = 0 => up[t] = <<>>
  <1>1. up[t] \in Seq(Request) /\ Len(up[t]) \in Nat
    BY DEF TypeOK
  <1>2. Cardinality(Answers(down, t)) \in Nat
    BY AnswersFinite DEF TypeOK
  <1>3. states[t].out = Len(up[t]) + Cardinality(Answers(down, t))
    BY DEF AggregatorInv, OutstandingIsUnanswered
  <1> QED BY <1>1, <1>2, <1>3, EmptySeq

LEMMA SyncSends ==
  ASSUME TypeOK, TypeOK', AggregatorInv, AggregatorInv', SyncInv, stream = "open",
         NEW requests \in [Targets -> Seq(Request)], Send(states, requests),
         UNCHANGED <<history, clock, srv, down, stream, updates, resets, snapver, spoilt>>,
         \A t \in listened' :
           \/ /\ requests[t] # <<>>
              /\ requests[t][Len(requests[t])].token = token'[t]
           \/ /\ requests[t] = <<>>
              /\ t \in listened /\ token'[t] = token[t]
              /\ RemoteKeys(t)' = RemoteKeys(t)
  PROVE  StreamInOrder' /\ ResumesAsAsked' /\ Foreseen' /\ AddedAreUpdates'
  <1>1. ASSUME NEW t \in Targets, requests[t] = <<>>
        PROVE  up'[t] = up[t] /\ states'[t] = states[t]
    <2>1. up[t] \in Seq(Request) /\ up'[t] = up[t] \o requests[t]
      BY DEF Send, TypeOK
    <2>2. states'[t] = states[t]
      BY <1>1 DEF Send
    <2> QED BY <1>1, <2>1, <2>2, Joined
  <1>2. ASSUME NEW t \in Targets, requests[t] # <<>>
        PROVE  /\ up'[t] # <<>> /\ up'[t][Len(up'[t])] = requests[t][Len(requests[t])]
               /\ states'[t].out # 0
    <2>1. up[t] \in Seq(Request) /\ requests[t] \in Seq(Request)
          /\ up'[t] = up[t] \o requests[t]
      BY DEF Send, TypeOK
    <2>2. up'[t] # <<>> /\ up'[t][Len(up'[t])] = requests[t][Len(requests[t])]
      BY <1>2, <2>1, Joined
    <2>3. states'[t].out # 0
      <3>1. PICK n \in Nat : n = Len(requests[t]) /\ n # 0
        BY <1>2, <2>1, EmptySeq
      <3>2. states'[t] = [states[t] EXCEPT !.known = TRUE, !.out = @ + n]
        BY <1>2, <3>1 DEF Send
      <3>3. states[t].out \in Nat /\ states[t] \in TargetState
        BY DueAreCounted DEF TypeOK
      <3>4. states'[t].out = states[t].out + n
        BY <3>2, <3>3 DEF TargetState
      <3> QED BY <3>1, <3>3, <3>4
    <2> QED BY <2>2, <2>3
  <1>3. StreamInOrder'
    BY DEF SyncInv, StreamInOrder
  <1>4. ResumesAsAsked'
    <2> SUFFICES ASSUME NEW t \in listened'
                 PROVE  /\ up'[t] # <<>> => up'[t][Len(up'[t])].token = token'[t]
                        /\ up'[t] = <<>> => srv[t].on
      BY DEF ResumesAsAsked
    <2>1. t \in Targets
      BY DEF TypeOK
    <2>2. CASE requests[t] = <<>>
      BY <1>1, <2>1, <2>2 DEF SyncInv, ResumesAsAsked
    <2>3. CASE requests[t] # <<>>
      BY <1>2, <2>1, <2>3
    <2> QED BY <2>2, <2>3
  <1>5. Foreseen'
    <2> SUFFICES ASSUME NEW t \in listened', up'[t] = <<>>
                 PROVE  (\E f : Told(t, f))'
      BY DEF Foreseen
    <2>1. t \in Targets
      BY DEF TypeOK
    <2>2. requests[t] = <<>>
      BY <1>2, <2>1
    <2>3. /\ up[t] = <<>> /\ t \in listened /\ states'[t] = states[t]
          /\ RemoteKeys(t)' = RemoteKeys(t)
      BY <1>1, <2>1, <2>2
    <2>4. PICK f : Told(t, f)
      BY <2>3 DEF SyncInv, Foreseen
    <2>5. PICK x : x = f[Len(down)]
      OBVIOUS
    <2>6. Grows /\ StreamInOrder
      <3>1. Len(history) \in Nat /\ snapver \in Nat
        BY HistoryType
      <3> QED BY <3>1 DEF Grows, SyncInv
    <2>7. Agreed(t, x)
      BY <2>4, <2>5 DEF Told
    <2>8. Agreed(t, x)'
      BY <2>1, <2>6, <2>7, AgreedGrow
    <2>9. Agreed(t, f[Len(down)])'
      BY <2>5, <2>8
    <2>10. Told(t, f)'
      BY <2>1, <2>3, <2>4, <2>6, <2>9, QuietTold
    <2> QED BY <2>10
  <1>6. AddedAreUpdates'
    <2> SUFFICES ASSUME NEW t \in listened', states'[t].out = 0
                 PROVE  /\ states'[t].added \subseteq Matching(t, Pets)
                        /\ \A p \in states'[t].added : updates[p] # Unknown
      BY DEF AddedAreUpdates
    <2>1. t \in Targets
      BY DEF TypeOK
    <2>2. requests[t] = <<>>
      BY <1>2, <2>1
    <2> QED BY <1>1, <2>1, <2>2 DEF SyncInv, AddedAreUpdates
  <1> QED BY <1>3, <1>4, <1>5, <1>6

LEMMA SyncListen ==
  ASSUME TypeOK, TypeOK', AggregatorInv, AggregatorInv', TokensAgree, SyncInv,
         NEW t \in UserTargets, Listen(t)
  PROVE  SyncInv'
  <1>1. /\ t \in Targets /\ t \notin listened /\ listened' = listened \cup {t}
        /\ token' = [token EXCEPT ![t] = stored[t]]
        /\ local' = [local EXCEPT ![t] = stored[t]]
        /\ UNCHANGED <<history, clock, srv, down, stored, keys, snapver, current, received,
                       spoilt>>
    BY KindsOfTargets DEF Listen, serverVars, viewVars
  <1>2. /\ token'[t] = stored[t] /\ local'[t] = stored[t]
        /\ \A u \in Targets : u # t => token'[u] = token[u]
        /\ \A u \in UserTargets : u # t => local'[u] = local[u]
    BY <1>1 DEF TypeOK
  <1>3. \A u \in Targets : RemoteKeys(u)' = RemoteKeys(u)
    BY <1>1, RemoteKeysKept
  <1>4. stored[t] \in Nat /\ stored[t] <= snapver
    <2>1. /\ stored[t] \in Nat /\ local[t] \in Nat /\ snapver \in Nat
          /\ stored[t] <= local[t] /\ local[t] <= snapver
      BY DEF TypeOK, TokensAgree
    <2> QED BY <2>1
  <1>5. TokensAreOfKeys'
    <2> SUFFICES ASSUME NEW u \in listened' \ spoilt'
                 PROVE  Continues(u, RemoteKeys(u), token[u])'
      BY DEF TokensAreOfKeys
    <2>1. u \in Targets /\ u \notin spoilt
      BY <1>1 DEF TypeOK
    <2>2. Continues(u, RemoteKeys(u), token'[u])
      <3>1. CASE u = t
        <4>1. Continues(t, keys[t], stored[t])
          BY <1>1, <2>1, <3>1 DEF SyncInv, StoredAreOfKeys
        <4> QED BY <1>2, <3>1, <4>1 DEF RemoteKeys
      <3>2. CASE u # t
        BY <1>1, <1>2, <2>1, <3>2 DEF SyncInv, TokensAreOfKeys
      <3> QED BY <3>1, <3>2
    <2>3. PICK S : S = RemoteKeys(u)
      OBVIOUS
    <2>4. PICK v : v = token'[u]
      OBVIOUS
    <2>5. Continues(u, S, v) => Continues(u, S, v)'
      BY <1>1 DEF Continues, Covers, PetsAt, Lasts
    <2>6. RemoteKeys(u)' = S
      BY <1>3, <2>1, <2>3
    <2> QED BY <2>2, <2>3, <2>4, <2>5, <2>6
  <1>6. StoredAreOfKeys'
    <2> SUFFICES ASSUME NEW u \in UserTargets \ spoilt'
                 PROVE  \/ Continues(u, keys[u], stored[u])'
                        \/ u \in listened' /\ token'[u] = 0 /\ stored'[u] # 0
      BY DEF StoredAreOfKeys
    <2>1. \/ Continues(u, keys[u], stored[u])
          \/ u \in listened /\ token[u] = 0 /\ stored[u] # 0
      BY <1>1 DEF SyncInv, StoredAreOfKeys
    <2>2. CASE Continues(u, keys[u], stored[u])
      BY <1>1, <2>2 DEF Continues, Covers, PetsAt, Lasts
    <2>3. CASE u \in listened /\ token[u] = 0 /\ stored[u] # 0
      BY <1>1, <1>2, <2>3, KindsOfTargets
    <2> QED BY <2>1, <2>2, <2>3
  <1>7. ASSUME \A u \in resets' : u \in resets /\ states'[u].out = 0 /\ stream' = "open"
        PROVE  Bookkeeping'
    <2>1. \A u \in Targets : token'[u] <= snapver
      BY <1>2, <1>4 DEF SyncInv, Bookkeeping
    <2>2. \A u \in listened' \cap UserTargets : u # Collection => token'[u] = local'[u]
      BY <1>1, <1>2, KindsOfTargets DEF SyncInv, Bookkeeping
    <2> QED BY <1>1, <1>7, <2>1, <2>2 DEF SyncInv, Bookkeeping
  <1>8. CASE stream # "open"
    <2>1. resets = {}
      BY <1>8 DEF SyncInv, Bookkeeping
    <2>2. stream' # "open" /\ resets' = {}
      BY <1>8, <2>1 DEF Listen, FreshAggregator, aggregator
    <2>3. Bookkeeping' /\ snapver' <= Len(history')
      BY <1>1, <1>7, <2>2 DEF SyncInv, StreamInOrder
    <2> QED BY <1>5, <1>6, <2>2, <2>3, SyncClosed
  <1>9. CASE stream = "open"
    <2>1. PICK requests : requests = [NoRequests EXCEPT ![t] = <<Watch(stored[t])>>]
      OBVIOUS
    <2>2. Send(states, requests) /\ UNCHANGED <<stream, updates, resets>>
      BY <1>9, <2>1 DEF Listen
    <2>3. <<Watch(stored[t])>> \in Seq(Request)
      BY StatesType DEF TypeOK
    <2>4. /\ requests \in [Targets -> Seq(Request)]
          /\ requests[t] = <<Watch(stored[t])>>
          /\ \A u \in Targets : u # t => requests[u] = <<>>
      <3>1. NoRequests \in [Targets -> Seq(Request)] /\ \A u \in Targets : NoRequests[u] = <<>>
        BY DEF NoRequests
      <3> QED BY <1>1, <2>1, <2>3, <3>1
    <2>5. /\ <<Watch(stored[t])>> # <<>>
          /\ <<Watch(stored[t])>>[Len(<<Watch(stored[t])>>)].token = stored[t]
      BY DEF Watch
    <2>6. ASSUME NEW u \in listened'
          PROVE  \/ requests[u] # <<>> /\ requests[u][Len(requests[u])].token = token'[u]
                 \/ /\ requests[u] = <<>> /\ u \in listened /\ token'[u] = token[u]
                    /\ RemoteKeys(u)' = RemoteKeys(u)
      <3>1. CASE u = t
        BY <1>2, <2>4, <2>5, <3>1
      <3>2. CASE u # t
        BY <1>1, <1>2, <1>3, <2>4, <3>2 DEF TypeOK
      <3> QED BY <3>1, <3>2
    <2>7. StreamInOrder' /\ ResumesAsAsked' /\ Foreseen' /\ AddedAreUpdates'
      BY <1>1, <1>9, <2>2, <2>4, <2>6, SyncSends
    <2>8. \A u \in resets : u # t /\ states'[u] = states[u]
      <3>1. \A u \in resets : u \in Targets /\ u # t
        BY <1>1, KindsOfTargets DEF TypeOK, SyncInv, Bookkeeping
      <3> QED BY <2>2, <2>4, <3>1 DEF Send
    <2>9. Bookkeeping'
      BY <1>7, <1>9, <2>2, <2>8 DEF SyncInv, Bookkeeping
    <2> QED BY <1>5, <1>6, <2>7, <2>9 DEF SyncInv
  <1> QED BY <1>8, <1>9

LEMMA SyncStopListening ==
  ASSUME TypeOK, TypeOK', AggregatorInv, AggregatorInv', TokensAgree, SyncInv,
         NEW t \in UserTargets, StopListening(t)
  PROVE  SyncInv'
  <1>1. PICK gone :
          /\ gone = {t} \cup ((listened \cap LimboTargets) \ Wanted(limbo', listened))
          /\ listened' = listened \ gone
          /\ token' = [u \in Targets |-> IF u \in gone THEN 0 ELSE token[u]]
          /\ received' = received \ gone
          /\ \/ /\ stream = "open"
                /\ Send(states, [u \in Targets |-> IF u \in gone THEN <<Unwatch>>
                                                                 ELSE <<>>])
             \/ /\ stream # "open"
                /\ UNCHANGED <<up, states, idle>>
    BY DEF StopListening
  <1>2. /\ UNCHANGED <<history, clock, srv, down, stream, updates, resets, local, keys, snapver,
                       spoilt>>
        /\ stored' = [stored EXCEPT ![t] = local[t]] /\ current' = current \ {t}
        /\ t \in listened /\ t # Collection
    BY DEF StopListening, serverVars
  <1>3. \A u \in UserTargets : u \in gone <=> u = t
    BY <1>1, KindsOfTargets
  <1>4. \A u \in Targets \ gone : RemoteKeys(u)' = RemoteKeys(u) /\ token'[u] = token[u]
    BY <1>1, <1>2, LimboKeysKept
  <1>5. snapver \in Nat /\ t \in Targets /\ t \notin spoilt
    BY <1>2, HistoryType, KindsOfTargets DEF SyncInv, Bookkeeping
  <1>6. TokensAreOfKeys'
    <2> SUFFICES ASSUME NEW u \in listened' \ spoilt'
                 PROVE  Continues(u, RemoteKeys(u), token[u])'
      BY DEF TokensAreOfKeys
    <2>1. u \in Targets /\ u \notin spoilt /\ u \in listened /\ u \notin gone
      BY <1>1, <1>2 DEF TypeOK
    <2>2. PICK S : S = RemoteKeys(u)
      OBVIOUS
    <2>3. PICK v : v = token[u]
      OBVIOUS
    <2>4. Continues(u, S, v)
      BY <2>1, <2>2, <2>3 DEF SyncInv, TokensAreOfKeys
    <2>5. Continues(u, S, v)'
      BY <1>2, <2>4 DEF Continues, Covers, PetsAt, Lasts
    <2>6. RemoteKeys(u)' = S /\ token'[u] = v
      BY <1>4, <2>1, <2>2, <2>3
    <2> QED BY <2>5, <2>6
  <1>7. StoredAreOfKeys'
    <2> SUFFICES ASSUME NEW u \in UserTargets \ spoilt'
                 PROVE  \/ Continues(u, keys[u], stored[u])'
                        \/ u \in listened' /\ token'[u] = 0 /\ stored'[u] # 0
      BY DEF StoredAreOfKeys
    <2>1. u \notin spoilt /\ u \in Targets
      BY <1>2, KindsOfTargets
    <2>2. \/ Continues(u, keys[u], stored'[u])
          \/ u # t /\ u \in listened /\ token[u] = 0 /\ stored[u] # 0
      <3>1. CASE u = t
        <4>1. stored'[t] = token[t]
          BY <1>2 DEF SyncInv, Bookkeeping, TypeOK
        <4>2. Continues(t, keys[t], token[t])
          BY <1>2, <2>1, <3>1 DEF SyncInv, TokensAreOfKeys, RemoteKeys
        <4> QED BY <3>1, <4>1, <4>2
      <3>2. CASE u # t
        <4>1. stored'[u] = stored[u]
          BY <1>2, <3>2 DEF TypeOK
        <4> QED BY <2>1, <3>2, <4>1 DEF SyncInv, StoredAreOfKeys
      <3> QED BY <3>1, <3>2
    <2>3. CASE Continues(u, keys[u], stored'[u])
      <3>1. PICK v : v = stored'[u]
        OBVIOUS
      <3>2. Continues(u, keys[u], v)
        BY <2>3, <3>1
      <3>3. Continues(u, keys[u], v)'
        BY <1>2, <3>2 DEF Continues, Covers, PetsAt, Lasts
      <3> QED BY <3>1, <3>3
    <2>4. CASE u # t /\ u \in listened /\ token[u] = 0 /\ stored[u] # 0
      <3>1. stored'[u] = stored[u]
        BY <1>2, <2>4 DEF TypeOK
      <3>2. u \notin gone
        BY <1>3, <2>4
      <3> QED BY <1>1, <1>4, <2>1, <2>4, <3>1, <3>2
    <2> QED BY <2>2, <2>3, <2>4
  <1>8. ASSUME \A u \in resets : states'[u].out = 0
        PROVE  Bookkeeping'
    <2>1. \A u \in Targets : token'[u] <= snapver
      BY <1>1, <1>5 DEF SyncInv, Bookkeeping
    <2>2. received' \subseteq listened' /\ current' \subseteq listened'
      BY <1>1, <1>2, <1>3 DEF SyncInv, Bookkeeping, TypeOK
    <2>3. \A u \in resets : u = Collection /\ u \in listened' /\ stream = "open"
      BY <1>1, <1>2, <1>3, KindsOfTargets DEF SyncInv, Bookkeeping
    <2>4. \A u \in listened' \cap UserTargets : u # Collection => token'[u] = local[u]
      BY <1>1, KindsOfTargets DEF SyncInv, Bookkeeping
    <2> QED BY <1>2, <1>8, <2>1, <2>2, <2>3, <2>4 DEF SyncInv, Bookkeeping
  <1>9. CASE stream # "open"
    <2>1. resets = {}
      BY <1>9 DEF SyncInv, Bookkeeping
    <2>2. Bookkeeping' /\ snapver' <= Len(history')
      BY <1>2, <1>8, <2>1 DEF SyncInv, StreamInOrder
    <2> QED BY <1>2, <1>6, <1>7, <1>9, <2>2, SyncClosed
  <1>10. CASE stream = "open"
    <2>1. PICK requests : requests = [u \in Targets |-> IF u \in gone THEN <<Unwatch>> ELSE <<>>]
      OBVIOUS
    <2>2. Send(states, requests)
      BY <1>1, <1>10, <2>1
    <2>3. <<Unwatch>> \in Seq(Request)
      BY StatesType
    <2>4. requests \in [Targets -> Seq(Request)]
      BY <2>1, <2>3
    <2>5. ASSUME NEW u \in listened'
          PROVE  /\ requests[u] = <<>> /\ u \in listened /\ token'[u] = token[u]
                 /\ RemoteKeys(u)' = RemoteKeys(u)
      <3>1. u \in Targets /\ u \in listened /\ u \notin gone
        BY <1>1 DEF TypeOK
      <3> QED BY <1>4, <2>1, <3>1
    <2>6. StreamInOrder' /\ ResumesAsAsked' /\ Foreseen' /\ AddedAreUpdates'
      BY <1>2, <1>10, <2>2, <2>4, <2>5, SyncSends
    <2>7. \A u \in resets : states'[u].out = 0
      <3>1. \A u \in resets : u \in Targets /\ u \notin gone /\ states[u].out = 0
        BY <1>2, <1>3, KindsOfTargets DEF SyncInv, Bookkeeping
      <3> QED BY <2>1, <2>2, <3>1 DEF Send
    <2> QED BY <1>6, <1>7, <1>8, <2>6, <2>7 DEF SyncInv
  <1> QED BY <1>9, <1>10

LEMMA SyncOpen ==
  ASSUME TypeOK, TypeOK', AggregatorInv, AggregatorInv', TokensAgree, SyncInv,
         OnWatchStreamOpen
  PROVE  SyncInv'
  <1>1. /\ UNCHANGED <<history, srv, down, listened, token, updates, resets, local, stored,
                       keys, snapver, current, received, spoilt>>
        /\ stream # "open" /\ stream' = "open" /\ clock' \in 1..Len(history)
    BY HistoryType DEF OnWatchStreamOpen, storeVars, viewVars
  <1>2. PICK requests :
          requests = [t \in Targets |-> IF t \in listened THEN <<Watch(token[t])>> ELSE <<>>]
    OBVIOUS
  <1>3. Send(states, requests)
    BY <1>2 DEF OnWatchStreamOpen
  <1>4. /\ down = <<>> /\ resets = {}
        /\ \A t \in Targets : up[t] = <<>> /\ srv[t] = Off /\ states[t] = NoState
    BY <1>1 DEF AggregatorInv, ClosedIsEmpty, SyncInv, Bookkeeping
  <1>5. ASSUME NEW t \in listened
        PROVE  /\ up'[t] # <<>> /\ up'[t][Len(up'[t])].token = token[t]
               /\ states'[t].out # 0
    <2>1. t \in Targets
      BY DEF TypeOK
    <2>2. requests[t] = <<Watch(token[t])>>
      BY <1>2, <2>1
    <2>3. /\ <<Watch(token[t])>> # <<>> /\ Len(<<Watch(token[t])>>) = 1
          /\ <<Watch(token[t])>>[1].token = token[t]
      BY DEF Watch
    <2>4. <<Watch(token[t])>> \in Seq(Request) /\ up[t] \in Seq(Request)
      BY <2>1, StatesType DEF TypeOK
    <2>5. up'[t] = up[t] \o <<Watch(token[t])>>
      BY <1>3, <2>1, <2>2 DEF Send
    <2>6. up'[t] = <<Watch(token[t])>>
      BY <1>4, <2>1, <2>4, <2>5, ConcatEmptySeq
    <2>7. states'[t] = [states[t] EXCEPT !.known = TRUE, !.out = @ + 1]
      BY <1>3, <2>1, <2>2, <2>3 DEF Send
    <2>8. states'[t].out # 0
      BY <1>4, <2>1, <2>7, NoStateIs, StatesType DEF TargetState
    <2> QED BY <2>3, <2>6, <2>8
  <1>6. Grows
    BY <1>1, HistoryType DEF Grows
  <1>7. TokensAreOfKeys' /\ StoredAreOfKeys'
    BY <1>1, <1>6, KeysGrow
  <1>8. ResumesAsAsked' /\ Foreseen' /\ AddedAreUpdates'
    BY <1>1, <1>5 DEF ResumesAsAsked, Foreseen, AddedAreUpdates
  <1>9. Bookkeeping'
    BY <1>1, <1>4 DEF SyncInv, Bookkeeping
  <1>10. StreamInOrder'
    <2>1. clock' \in Nat /\ \A t \in Targets : srv[t].at = 0 /\ ~srv[t].blind
      BY <1>4 DEF Off, TypeOK
    <2>2. Len(down') = 0 /\ snapver' <= Len(history')
      BY <1>1, <1>4 DEF SyncInv, StreamInOrder
    <2> QED BY <1>1, <2>1, <2>2 DEF StreamInOrder
  <1> QED BY <1>7, <1>8, <1>9, <1>10 DEF SyncInv

LEMMA SyncStream ==
  ASSUME TypeOK, TypeOK', AggregatorInv, AggregatorInv', TokensAgree, SyncInv,
         \/ OnWatchStreamClose \/ RestartNetwork \/ OnlineStateTimeout
         \/ IdleTimeout \/ Relaunch
  PROVE  SyncInv'
  <1>1. \A state : SetAndBroadcast(state) => current' \subseteq current
    BY DEF SetAndBroadcast
  <1>2. CASE OnlineStateTimeout
    <2>1. /\ UNCHANGED <<history, clock, srv, up, down, stream, listened, token, states,
                         updates, resets, local, stored, keys, received, snapver, spoilt>>
          /\ current' \subseteq current
      BY <1>1, <1>2 DEF OnlineStateTimeout, serverVars, streamVars, aggregator, storeVars
    <2>2. Grows /\ (stream = "open" => clock <= clock' /\ clock' <= Len(history'))
      <3>1. Len(history) \in Nat /\ snapver \in Nat /\ clock \in Nat
        BY HistoryType DEF TypeOK
      <3> QED BY <2>1, <3>1 DEF Grows, SyncInv, StreamInOrder
    <2> QED BY <2>1, <2>2, SyncQuiet
  <1>3. CASE OnWatchStreamClose \/ RestartNetwork \/ IdleTimeout
    <2>1. /\ UNCHANGED <<history, listened, token, local, stored, keys, snapver, received,
                         spoilt>>
          /\ current' \subseteq current /\ resets' = {} /\ stream' # "open"
      BY <1>1, <1>3 DEF OnWatchStreamClose, RestartNetwork, IdleTimeout, FreshStream,
         FreshAggregator, storeVars
    <2>2. Grows
      BY <2>1, HistoryType DEF Grows
    <2>3. TokensAreOfKeys' /\ StoredAreOfKeys'
      BY <2>1, <2>2, KeysGrow
    <2>4. Bookkeeping' /\ snapver' <= Len(history')
      BY <2>1 DEF SyncInv, Bookkeeping, StreamInOrder
    <2> QED BY <2>1, <2>3, <2>4, SyncClosed
  <1>4. CASE Relaunch
    <2>1. /\ UNCHANGED <<history, stored, keys, snapver>>
          /\ listened' = {} /\ received' = {} /\ current' = {} /\ resets' = {}
          /\ stream' = "off" /\ token' = [t \in Targets |-> 0]
          /\ spoilt' = spoilt \cup {t \in listened \cap UserTargets :
                                      token[t] = 0 /\ stored[t] # 0}
      BY <1>4 DEF Relaunch, FreshStream, FreshAggregator
    <2>2. spoilt' \subseteq {Collection}
      <3> SUFFICES ASSUME NEW t \in listened \cap UserTargets, t # Collection, token[t] = 0
                   PROVE  stored[t] = 0
        BY <2>1 DEF SyncInv, Bookkeeping
      <3>1. token[t] = local[t] /\ stored[t] <= local[t] /\ stored[t] \in Nat
        BY DEF SyncInv, Bookkeeping, TokensAgree, TypeOK
      <3> QED BY <3>1
    <2>3. Bookkeeping' /\ snapver' <= Len(history')
      <3>1. snapver \in Nat
        BY DEF TypeOK
      <3> QED BY <2>1, <2>2, <3>1 DEF SyncInv, Bookkeeping, StreamInOrder
    <2>4. TokensAreOfKeys'
      BY <2>1 DEF TokensAreOfKeys
    <2>5. StoredAreOfKeys'
      <3> SUFFICES ASSUME NEW t \in UserTargets \ spoilt'
                   PROVE  Continues(t, keys[t], stored[t])'
        BY DEF StoredAreOfKeys
      <3>1. Continues(t, keys[t], stored[t])
        BY <2>1 DEF SyncInv, StoredAreOfKeys
      <3> QED BY <2>1, <3>1 DEF Continues, Covers, PetsAt, Lasts
    <2> QED BY <2>1, <2>3, <2>4, <2>5, SyncClosed
  <1> QED BY <1>2, <1>3, <1>4

(***************************************************************************)
(* Messages to the client.                                                 *)
(***************************************************************************)

LEMMA SettledIsActive ==
  ASSUME TypeOK, AggregatorInv, NEW t \in Targets, up[t] = <<>>
  PROVE  states[t].out = 0 <=> Settled(down, t, 0)
  <1>1. Len(up[t]) = 0
    OBVIOUS
  <1>2. states[t].out = Len(up[t]) + Cardinality(Answers(down, t))
    BY DEF AggregatorInv, OutstandingIsUnanswered
  <1>3. IsFiniteSet(Answers(down, t)) /\ Cardinality(Answers(down, t)) \in Nat
    BY AnswersFinite DEF TypeOK
  <1>4. Cardinality(Answers(down, t)) = 0 <=> Answers(down, t) = {}
    BY <1>3, FS_EmptySet
  <1>5. Answers(down, t) = {} <=> Settled(down, t, 0)
    BY SettledNow DEF TypeOK
  <1>6. states[t].out = Cardinality(Answers(down, t))
    BY <1>1, <1>2, <1>3
  <1> QED BY <1>4, <1>5, <1>6

(* What the client believes meets the oldest message. *)
LEMMA FirstHeard ==
  ASSUME TypeOK, NEW t \in Targets, down # <<>>, ~IsAnswer(Head(down), t)
  PROVE  /\ Settled(down, t, 1) <=> Settled(down, t, 0)
         /\ \A f : Told(t, f) /\ Settled(down, t, 0) =>
              /\ f[0] \in Idea /\ f[1] \in Idea
              /\ Begins(t, f[0], Believed(t))
              /\ f[1] = Hears(t, f[0], Head(down))
              /\ f[0].trust = "lost" =>
                   ~(Head(down).kind = "Current" /\ Head(down).target = t)
              /\ f[1].trust = "sure" /\ Head(down).kind = "Snapshot" =>
                   Continues(t, f[1].pets, Head(down).number)
  <1>1. down \in Seq(Response) /\ Len(down) \in Nat /\ Len(down) # 0 /\ Head(down) = down[1]
    BY EmptySeq DEF TypeOK
  <1>2. 1 \in 1..Len(down) /\ 0 \in 0..Len(down) /\ 1 \in 0..Len(down) /\ 1 - 1 = 0
    BY <1>1
  <1>3. \A i : i \in Answers(down, t) <=> i \in 1..Len(down) /\ IsAnswer(down[i], t)
    BY <1>1, AnswersAre
  <1>4. 1 \notin Answers(down, t)
    BY <1>1, <1>2, <1>3
  <1>5. Settled(down, t, 1) <=> Settled(down, t, 0)
    BY <1>3, <1>4 DEF Settled
  <1>6. ASSUME NEW f, Told(t, f), Settled(down, t, 0)
        PROVE /\ f[0] \in Idea /\ f[1] \in Idea
              /\ Begins(t, f[0], Believed(t))
              /\ f[1] = Hears(t, f[0], Head(down))
              /\ f[0].trust = "lost" =>
                   ~(Head(down).kind = "Current" /\ Head(down).target = t)
              /\ f[1].trust = "sure" /\ Head(down).kind = "Snapshot" =>
                   Continues(t, f[1].pets, Head(down).number)
    <2>1. f[0] \in Idea /\ f[1] \in Idea
      BY <1>2, <1>6 DEF Told
    <2>2. Begins(t, f[0], Believed(t))
      BY <1>6 DEF Told, Begun
    <2>3. Settled(down, t, 1 - 1)
      BY <1>6
    <2>4. /\ f[1] = Hears(t, f[1 - 1], down[1])
          /\ f[1 - 1].trust = "lost" => ~(down[1].kind = "Current" /\ down[1].target = t)
      BY <1>2, <1>6, <2>3 DEF Told, Heard
    <2>5. f[1].trust = "sure" /\ down[1].kind = "Snapshot" =>
            Continues(t, f[1].pets, down[1].number)
      BY <1>2, <1>6, <2>3 DEF Told, Shown
    <2> QED BY <1>1, <2>1, <2>2, <2>4, <2>5
  <1> QED BY <1>5, <1>6

LEMMA SyncTaken ==
  ASSUME TypeOK, TypeOK', AggregatorInv, AggregatorInv', TokensAgree, SyncInv,
         down # <<>>, down' = Tail(down),
         UNCHANGED <<history, clock, srv, up, stream, listened, token, local, stored, keys,
                     snapver, current, received, spoilt>>,
         NEW t \in Targets, t = Head(down).target,
         \A u \in Targets : u # t => states'[u] = states[u] /\ (u \in resets' <=> u \in resets),
         \A p \in Pets : updates[p] # Unknown => updates'[p] # Unknown,
         t \in resets' => t = Collection /\ t \in listened /\ states'[t].out = 0,
         t \in listened /\ states'[t].out = 0 =>
           /\ states'[t].added \subseteq Matching(t, Pets)
           /\ \A p \in states'[t].added : updates'[p] # Unknown,
         t \in listened /\ up[t] = <<>> /\ Settled(down, t, 1) =>
           \A f : Told(t, f) => Begins(t, f[1], Believed(t))',
         t \in listened /\ up[t] = <<>> /\ ~Settled(down, t, 1) =>
           /\ t \in resets' <=> t \in resets
           /\ states'[t].current = states[t].current
  PROVE  SyncInv'
  <1>1. stream = "open" /\ StreamInOrder
    BY DEF AggregatorInv, ClosedIsEmpty, SyncInv
  <1>2. Grows
    BY HistoryType DEF Grows
  <1>3. TokensAreOfKeys' /\ StoredAreOfKeys'
    BY <1>2, KeysGrow
  <1>4. StreamInOrder'
    BY <1>1, InOrderTaken
  <1>5. ResumesAsAsked'
    BY DEF SyncInv, ResumesAsAsked
  <1>6. Bookkeeping'
    <2>1. ASSUME NEW u \in resets'
          PROVE  u = Collection /\ u \in listened /\ states'[u].out = 0
      <3>1. u \in Targets
        BY KindsOfTargets DEF TypeOK
      <3>2. CASE u = t
        BY <3>2
      <3>3. CASE u # t
        BY <3>1, <3>3 DEF SyncInv, Bookkeeping
      <3> QED BY <3>2, <3>3
    <2> QED BY <1>1, <2>1 DEF SyncInv, Bookkeeping
  <1>7. AddedAreUpdates'
    <2> SUFFICES ASSUME NEW u \in listened, states'[u].out = 0
                 PROVE  /\ states'[u].added \subseteq Matching(u, Pets)
                        /\ \A p \in states'[u].added : updates'[p] # Unknown
      BY DEF AddedAreUpdates
    <2>1. u \in Targets
      BY DEF TypeOK
    <2>2. CASE u = t
      BY <2>2
    <2>3. CASE u # t
      <3>1. states'[u] = states[u]
        BY <2>1, <2>3
      <3>2. /\ states[u].added \subseteq Matching(u, Pets)
            /\ \A p \in states[u].added : updates[p] # Unknown
        BY <3>1 DEF SyncInv, AddedAreUpdates
      <3>3. states[u].added \subseteq Pets
        BY <3>2 DEF Matching
      <3> QED BY <3>1, <3>2, <3>3
    <2> QED BY <2>2, <2>3
  <1>8. Foreseen'
    <2> SUFFICES ASSUME NEW u \in listened, up[u] = <<>>
                 PROVE  (\E f : Told(u, f))'
      BY DEF Foreseen
    <2>1. u \in Targets
      BY DEF TypeOK
    <2>2. PICK f : Told(u, f)
      BY <1>1 DEF SyncInv, Foreseen
    <2>3. RemoteKeys(u)' = RemoteKeys(u)
      BY RemoteKeysKept
    <2>4. Settled(down, u, 1) => Begins(u, f[1], Believed(u))'
      <3>1. CASE u = t
        BY <2>2, <3>1
      <3>2. CASE u # t
        <4>1. ~IsAnswer(Head(down), u)
          BY <3>2 DEF IsAnswer
        <4>2. ASSUME Settled(down, u, 1)
              PROVE  f[1] = f[0] /\ Begins(u, f[0], Believed(u))
          <5>1. f[1] = Hears(u, f[0], Head(down)) /\ Begins(u, f[0], Believed(u))
            BY <2>1, <2>2, <4>1, <4>2, FirstHeard
          <5> QED BY <3>2, <5>1 DEF Hears
        <4>3. states'[u] = states[u] /\ (u \in resets' <=> u \in resets)
          BY <2>1, <3>2
        <4>4. Believed(u)' = Believed(u)
          BY <2>3, <4>3 DEF Believed
        <4> QED BY <4>2, <4>3, <4>4 DEF Begins
      <3> QED BY <3>1, <3>2
    <2>5. ~Settled(down, u, 1) =>
            \A x \in Idea : Begins(u, x, RemoteKeys(u)) => Begins(u, x, RemoteKeys(u))'
      <3> SUFFICES ASSUME ~Settled(down, u, 1)
                   PROVE  \A x \in Idea : Begins(u, x, RemoteKeys(u)) => Begins(u, x, RemoteKeys(u))'
        OBVIOUS
      <3>1. (u \in resets' <=> u \in resets) /\ states'[u].current = states[u].current
        BY <2>1
      <3> QED BY <2>3, <3>1 DEF Begins
    <2>6. PICK n : n = Len(down)
      OBVIOUS
    <2>7. PICK g : g = Shifted(f, n)
      OBVIOUS
    <2>8. Told(u, g)'
      BY <1>1, <1>2, <2>1, <2>2, <2>4, <2>5, <2>6, <2>7, TakenTold
    <2> QED BY <2>8
  <1> QED BY <1>3, <1>4, <1>5, <1>6, <1>7, <1>8 DEF SyncInv

(* With state s the client believes of t what message m makes of its idea. *)
Understood(t, m, s, R) ==
  \A x \in Idea : Begins(t, x, Believed(t)) /\ (x.trust = "lost" => m.kind # "Current") =>
    \A y : y = Hears(t, x, m) =>
      /\ y.pets = (RemoteKeys(t) \ s.removed) \cup s.added
      /\ y.trust = "spoilt" => t \in spoilt /\ t \notin R
      /\ y.trust = "lost" => t \in R /\ ~s.current

(* The pets that s adds to t are its own, and are in the updates U. *)
Updated(t, s, U) == s.added \subseteq Matching(t, Pets) /\ \A p \in s.added : U[p] # Unknown

(* A message that answers no request. *)
LEMMA SyncHears ==
  ASSUME TypeOK, TypeOK', AggregatorInv, AggregatorInv', TokensAgree, SyncInv,
         down # <<>>, down' = Tail(down),
         UNCHANGED <<history, clock, srv, up, stream, listened, token, local, stored, keys,
                     snapver, current, received, spoilt>>,
         NEW m, m = Head(down), NEW t \in Targets, t = m.target,
         m.kind \notin {"Added", "Removed"},
         NEW s, states' = [states EXCEPT ![t] = s], s.out = states[t].out,
         \/ resets' = resets
         \/ /\ resets' = resets \cup {t} /\ t = Collection /\ t \in listened
            /\ states[t].out = 0,
         \A p \in Pets : updates[p] # Unknown => updates'[p] # Unknown,
         t \in listened /\ states[t].out = 0 =>
           Updated(t, s, updates') /\ Understood(t, m, s, resets'),
         ~(t \in listened /\ states[t].out = 0) =>
           resets' = resets /\ s.current = states[t].current
  PROVE  SyncInv'
  <1>1. states'[t] = s /\ \A u \in Targets : u # t => states'[u] = states[u]
    BY DEF TypeOK
  <1>2. \A u \in Targets : u # t => (u \in resets' <=> u \in resets)
    OBVIOUS
  <1>3. ~IsAnswer(Head(down), t)
    BY DEF IsAnswer
  <1>4. t \in resets' => t = Collection /\ t \in listened /\ states'[t].out = 0
    BY <1>1 DEF SyncInv, Bookkeeping
  <1>5. ASSUME t \in listened, up[t] = <<>>, Settled(down, t, 1), NEW f, Told(t, f)
        PROVE  Begins(t, f[1], Believed(t))'
    <2>1. states[t].out = 0
      BY <1>3, <1>5, FirstHeard, SettledIsActive
    <2>2. /\ f[0] \in Idea /\ Begins(t, f[0], Believed(t)) /\ f[1] = Hears(t, f[0], m)
          /\ f[0].trust = "lost" => m.kind # "Current"
      BY <1>3, <1>5, FirstHeard
    <2>3. /\ f[1].pets = (RemoteKeys(t) \ s.removed) \cup s.added
          /\ f[1].trust = "spoilt" => t \in spoilt /\ t \notin resets'
          /\ f[1].trust = "lost" => t \in resets' /\ ~s.current
      <3>1. Understood(t, m, s, resets')
        BY <1>5, <2>1
      <3> QED BY <2>2, <3>1 DEF Understood
    <2>4. Believed(t)' = (RemoteKeys(t) \ s.removed) \cup s.added
      BY <1>1, RemoteKeysKept DEF Believed
    <2> QED BY <1>1, <2>3, <2>4 DEF Begins
  <1>6. ASSUME t \in listened, up[t] = <<>>, ~Settled(down, t, 1)
        PROVE  (t \in resets' <=> t \in resets) /\ states'[t].current = states[t].current
    <2>1. states[t].out # 0
      BY <1>3, <1>6, FirstHeard, SettledIsActive
    <2> QED BY <1>1, <2>1
  <1>7. t \in listened /\ states'[t].out = 0 =>
           /\ states'[t].added \subseteq Matching(t, Pets)
           /\ \A p \in states'[t].added : updates'[p] # Unknown
    BY <1>1 DEF Updated
  <1> QED BY <1>1, <1>2, <1>4, <1>5, <1>6, <1>7, SyncTaken

LEMMA SyncDocuments ==
  ASSUME TypeOK, TypeOK', AggregatorInv, AggregatorInv', TokensAgree, SyncInv,
         HandleDocumentChange
  PROVE  SyncInv'
  <1>1. /\ down # <<>> /\ down' = Tail(down) /\ Head(down).kind = "Documents"
        /\ UNCHANGED <<history, clock, srv, up, stream, listened, token, local, stored, keys,
                       snapver, current, received, resets, spoilt>>
    BY DEF HandleDocumentChange, Received, Receive, serverVars, storeVars, viewVars
  <1>2. PICK m \in Response : m = Head(down)
    BY <1>1, HeadType
  <1>3. PICK t \in Targets : t = m.target
    BY <1>2 DEF Response
  <1>4. m.added \in SUBSET Pets /\ m.removed \in SUBSET Pets /\ states[t] \in TargetState
    BY DEF Response, TypeOK
  <1>5. stream = "open"
    BY <1>1 DEF AggregatorInv, ClosedIsEmpty
  <1>6. m.added \cap m.removed = {} /\ m.added \subseteq Matching(t, Pets)
    <2>1. Head(down) = down[1] /\ 1 \in 1..Len(down)
      BY <1>1, EmptySeq DEF TypeOK
    <2> QED BY <1>2, <1>3, <1>5, <2>1 DEF SyncInv, StreamInOrder
  <1>7. IsActiveTarget(t) <=> t \in listened /\ states[t].out = 0
    BY <1>5, ActiveHasNothingDue DEF IsActiveTarget
  <1>8. CASE IsActiveTarget(t)
    <2>1. PICK s : s = Changed(t, states[t], m.added, m.removed)
      OBVIOUS
    <2>2. /\ states' = [states EXCEPT ![t] = s]
          /\ updates' = [p \in Pets |->
                IF p \in m.added THEN Document(WrittenAt(p, m.number))
                ELSE Removed(m.removed, NoDocument(m.number))[p]]
      BY <1>2, <1>3, <1>8, <2>1 DEF HandleDocumentChange
    <2>3. PICK K : K = RemoteKeys(t)
      OBVIOUS
    <2>4. /\ s.out = states[t].out
          /\ s.added = (states[t].added \ m.removed) \cup (m.added \ K)
          /\ s.removed = (states[t].removed \ m.added) \cup (m.removed \cap K)
      BY <1>4, <2>1, <2>3 DEF Changed, TargetState
    <2>5. s.current = states[t].current
      BY <1>4, <2>1 DEF Changed, TargetState
    <2>6. \A v : Document(v) # Unknown /\ NoDocument(v) # Unknown
      BY DEF Document, NoDocument, Unknown
    <2>7. \A p \in Pets : /\ updates[p] # Unknown => updates'[p] # Unknown
                          /\ p \in m.added => updates'[p] # Unknown
      BY <2>2, <2>6 DEF Removed
    <2>8. /\ states[t].added \subseteq Matching(t, Pets)
          /\ \A p \in states[t].added : updates[p] # Unknown
      BY <1>7, <1>8 DEF SyncInv, AddedAreUpdates
    <2>9. Updated(t, s, updates')
      <3>1. Matching(t, Pets) \subseteq Pets
        BY MatchingIsPart
      <3> QED BY <1>6, <2>4, <2>7, <2>8, <3>1 DEF Updated
    <2>10. ASSUME NEW x \in Idea, Begins(t, x, Believed(t)), NEW y, y = Hears(t, x, m)
           PROVE  /\ y.pets = (K \ s.removed) \cup s.added
                  /\ y.trust = "spoilt" => t \in spoilt /\ t \notin resets
                  /\ y.trust = "lost" => t \in resets /\ ~s.current
      <3>1. y = [x EXCEPT !.pets = (@ \ m.removed) \cup m.added]
        BY <1>1, <1>2, <1>3, <2>10 DEF Hears
      <3>2. y.pets = (x.pets \ m.removed) \cup m.added /\ y.trust = x.trust
        BY <3>1 DEF Idea
      <3>3. x.pets = (K \ states[t].removed) \cup states[t].added
        BY <2>3, <2>10 DEF Begins, Believed
      <3>4. y.pets = (K \ s.removed) \cup s.added
        BY <1>6, <2>4, <3>2, <3>3
      <3>5. x.trust = "spoilt" => t \in spoilt /\ t \notin resets
        BY <2>10, Zenon DEF Begins
      <3>6. x.trust = "lost" => t \in resets /\ ~s.current
        BY <2>5, <2>10, Zenon DEF Begins
      <3> QED BY <3>2, <3>4, <3>5, <3>6
    <2>11. Understood(t, m, s, resets')
      BY <1>1, <2>3, <2>10, Zenon DEF Understood
    <2>12. /\ \A p \in Pets : updates[p] # Unknown => updates'[p] # Unknown
           /\ t \in listened /\ states[t].out = 0
      BY <1>7, <1>8, <2>7
    <2> QED BY <1>1, <1>2, <1>3, <2>2, <2>4, <2>9, <2>11, <2>12, SyncHears
  <1>9. CASE ~IsActiveTarget(t)
    <2>1. UNCHANGED <<states, updates>>
      BY <1>2, <1>3, <1>9 DEF HandleDocumentChange
    <2>2. states' = [states EXCEPT ![t] = states[t]]
      BY <2>1 DEF TypeOK
    <2> QED BY <1>1, <1>2, <1>3, <1>7, <1>9, <2>1, <2>2, SyncHears
  <1> QED BY <1>8, <1>9

LEMMA SyncIgnored ==
  ASSUME TypeOK, TypeOK', AggregatorInv, AggregatorInv', TokensAgree, SyncInv,
         down # <<>>, down' = Tail(down), Head(down).kind = "Snapshot",
         UNCHANGED <<history, clock, srv, up, stream, listened, token, states, updates, resets,
                     local, stored, keys, snapver, current, received, spoilt>>
  PROVE  SyncInv'
  <1>1. PICK m \in Response : m = Head(down)
    BY HeadType
  <1>2. PICK t \in Targets : t = m.target
    BY DEF Response
  <1>3. states' = [states EXCEPT ![t] = states[t]]
    BY DEF TypeOK
  <1>4. t \in listened /\ states[t].out = 0 => Updated(t, states[t], updates')
    BY DEF SyncInv, AddedAreUpdates, Updated
  <1>5. ASSUME NEW x \in Idea, Begins(t, x, Believed(t)), NEW y, y = Hears(t, x, m)
        PROVE  /\ y.pets = (RemoteKeys(t) \ states[t].removed) \cup states[t].added
               /\ y.trust = "spoilt" => t \in spoilt /\ t \notin resets
               /\ y.trust = "lost" => t \in resets /\ ~states[t].current
    <2>1. y = x
      BY <1>1, <1>5 DEF Hears
    <2>2. x.pets = (RemoteKeys(t) \ states[t].removed) \cup states[t].added
      BY <1>5 DEF Begins, Believed
    <2>3. /\ x.trust = "spoilt" => t \in spoilt /\ t \notin resets
          /\ x.trust = "lost" => t \in resets /\ ~states[t].current
      BY <1>5, Zenon DEF Begins
    <2> QED BY <2>1, <2>2, <2>3, Zenon
  <1>6. Understood(t, m, states[t], resets')
    BY <1>5, Zenon DEF Understood
  <1> QED BY <1>1, <1>2, <1>3, <1>4, <1>6, SyncHears

LEMMA SyncCurrent ==
  ASSUME TypeOK, TypeOK', AggregatorInv, AggregatorInv', TokensAgree, SyncInv,
         HandleTargetCurrent
  PROVE  SyncInv'
  <1>1. /\ down # <<>> /\ down' = Tail(down) /\ Head(down).kind = "Current"
        /\ UNCHANGED <<history, clock, srv, up, stream, listened, token, local, stored, keys,
                       snapver, current, received, updates, resets, spoilt>>
    BY DEF HandleTargetCurrent, Received, Receive, serverVars, storeVars, viewVars
  <1>2. PICK m \in Response : m = Head(down)
    BY <1>1, HeadType
  <1>3. PICK t \in Targets : t = m.target
    BY <1>2 DEF Response
  <1>4. states[t] \in TargetState /\ stream = "open"
    BY <1>1 DEF TypeOK, AggregatorInv, ClosedIsEmpty
  <1>5. IsActiveTarget(t) <=> t \in listened /\ states[t].out = 0
    BY <1>4, ActiveHasNothingDue DEF IsActiveTarget
  <1>6. PICK b \in BOOLEAN : b = (states[t].current \/ IsActiveTarget(t))
    BY <1>4 DEF TargetState
  <1>7. PICK s : s = [states[t] EXCEPT !.known = TRUE, !.current = b]
    OBVIOUS
  <1>8. states' = [states EXCEPT ![t] = s]
    <2>1. states' = [states EXCEPT ![t] = [@ EXCEPT !.known = TRUE,
                                             !.current = states[t].current \/ IsActiveTarget(t)]]
      BY <1>2, <1>3, <1>4 DEF HandleTargetCurrent, TypeOK, TargetState
    <2> QED BY <1>6, <1>7, <2>1
  <1>9. s.out = states[t].out /\ s.added = states[t].added /\ s.removed = states[t].removed
    BY <1>4, <1>7 DEF TargetState
  <1>10. s.current = b
    BY <1>4, <1>7, Zenon DEF TargetState
  <1>11. ~IsActiveTarget(t) => s.current = states[t].current
    <2>1. PICK c \in BOOLEAN : c = states[t].current
      BY <1>4 DEF TargetState
    <2>2. ~IsActiveTarget(t) => b = c
      BY <1>6, <2>1, Zenon
    <2> QED BY <1>10, <2>1, <2>2, Zenon
  <1>12. t \in listened /\ states[t].out = 0 => Updated(t, s, updates')
    BY <1>1, <1>9 DEF SyncInv, AddedAreUpdates, Updated
  <1>13. ASSUME NEW x \in Idea, Begins(t, x, Believed(t)), x.trust = "lost" => m.kind # "Current",
                NEW y, y = Hears(t, x, m)
         PROVE  /\ y.pets = (RemoteKeys(t) \ s.removed) \cup s.added
                /\ y.trust = "spoilt" => t \in spoilt /\ t \notin resets
                /\ y.trust = "lost" => t \in resets /\ ~s.current
    <2>1. y = x
      BY <1>1, <1>2, <1>13 DEF Hears
    <2>2. y.trust # "lost"
      BY <1>1, <1>2, <1>13, <2>1
    <2>3. x.pets = (RemoteKeys(t) \ s.removed) \cup s.added
      BY <1>9, <1>13 DEF Begins, Believed
    <2>4. x.trust = "spoilt" => t \in spoilt /\ t \notin resets
      BY <1>13, Zenon DEF Begins
    <2> QED BY <2>1, <2>2, <2>3, <2>4, Zenon
  <1>14. Understood(t, m, s, resets')
    BY <1>1, <1>13, Zenon DEF Understood
  <1>15. /\ ~(t \in listened /\ states[t].out = 0) =>
              resets' = resets /\ s.current = states[t].current
         /\ m.kind \notin {"Added", "Removed"}
    BY <1>1, <1>2, <1>5, <1>11
  <1> QED BY <1>1, <1>2, <1>3, <1>8, <1>9, <1>12, <1>14, <1>15, SyncHears

(* An answer to a request comes for a target that waits for it. *)
LEMMA AnswerTaken ==
  ASSUME TypeOK, TypeOK', AggregatorInv, AggregatorInv', SyncInv,
         down # <<>>, down' = Tail(down), up' = up,
         NEW t \in Targets, IsAnswer(Head(down), t)
  PROVE  /\ 1 \in Answers(down, t) /\ states[t].out # 0 /\ t \notin resets
         /\ up[t] = <<>> /\ Settled(down, t, 1) => states'[t].out = 0
  <1>1. down \in Seq(Response) /\ Len(down) \in Nat /\ Len(down) # 0 /\ Head(down) = down[1]
        /\ Tail(down) \in Seq(Response)
    BY EmptySeq, HeadTailProperties DEF TypeOK
  <1>2. 1 \in Answers(down, t)
    BY <1>1, AnswersAre
  <1>3. states[t].out # 0
    <2>1. states[t].out = Len(up[t]) + Cardinality(Answers(down, t))
      BY DEF AggregatorInv, OutstandingIsUnanswered
    <2>2. Len(up[t]) \in Nat
      BY DEF TypeOK
    <2>3. Cardinality(Answers(down, t)) \in Nat /\ IsFiniteSet(Answers(down, t))
      BY <1>1, AnswersFinite
    <2>4. Cardinality(Answers(down, t)) # 0
      BY <1>2, <2>3, FS_EmptySet
    <2> QED BY <2>1, <2>2, <2>3, <2>4
  <1>4. t \notin resets
    BY <1>3 DEF SyncInv, Bookkeeping
  <1>5. ASSUME up[t] = <<>>, Settled(down, t, 1)
        PROVE  states'[t].out = 0
    <2>1. Settled(Tail(down), t, 0)
      <3>1. Settled(down, t, 0 + 1)
        BY <1>5
      <3> QED BY <1>1, <3>1, SettledTaken
    <2>2. Answers(down', t) = {}
      BY <1>1, <2>1, SettledNow
    <2>3. states'[t].out = Len(up'[t]) + Cardinality(Answers(down', t))
      BY DEF AggregatorInv, OutstandingIsUnanswered
    <2>4. Len(up'[t]) = 0 /\ Cardinality(Answers(down', t)) = 0
      BY <1>5, <2>2, FS_EmptySet
    <2> QED BY <2>3, <2>4
  <1> QED BY <1>2, <1>3, <1>4, <1>5

LEMMA SyncAnswered ==
  ASSUME TypeOK, TypeOK', AggregatorInv, AggregatorInv', TokensAgree, SyncInv,
         HandleTargetAdded \/ HandleTargetRemoved
  PROVE  SyncInv'
  <1>1. PICK m \in Response : m = Head(down)
    BY HeadType DEF HandleTargetAdded, HandleTargetRemoved, Received, Receive
  <1>2. PICK t \in Targets : t = m.target
    BY DEF Response
  <1>3. /\ down # <<>> /\ down' = Tail(down) /\ IsAnswer(Head(down), t)
        /\ UNCHANGED <<history, clock, srv, up, stream, listened, token, local, stored, keys,
                       snapver, current, received, updates, resets, spoilt>>
    BY <1>1, <1>2 DEF HandleTargetAdded, HandleTargetRemoved, Received, Receive, serverVars,
       storeVars, viewVars, IsAnswer
  <1>4. stream = "open" /\ stream' = "open" /\ states[t] \in TargetState
    BY <1>3 DEF AggregatorInv, ClosedIsEmpty, TypeOK
  <1>5. PICK a \in TargetState : a = Answered(t)
    BY <1>4, TargetStatesType
  <1>6. PICK s \in TargetState :
          /\ states' = [states EXCEPT ![t] = s]
          /\ \/ s = IF a.out = 0 THEN ClearPendingChanges(a) ELSE a
             \/ s = IF a.out = 0 THEN NoState ELSE a
    <2>1. ClearPendingChanges(a) \in TargetState /\ NoState \in TargetState
      BY <1>4, <1>5, TargetStatesType, StatesType
    <2> QED BY <1>1, <1>2, <1>5, <2>1 DEF HandleTargetAdded, HandleTargetRemoved
  <1>7. states'[t] = s /\ \A u \in Targets : u # t => states'[u] = states[u]
    BY <1>6 DEF TypeOK
  <1>8. t \in listened => s = IF a.out = 0 THEN ClearPendingChanges(a) ELSE a
    <2>1. t \in listened => s.known
      BY <1>3, <1>4, <1>7, Zenon DEF AggregatorInv, ListenedIsKnown
    <2>2. ~NoState.known
      BY NoStateIs
    <2> QED BY <1>6, <2>1, <2>2
  <1>9. t \in listened /\ s.out = 0 => s.added = {} /\ s.removed = {}
    <2>1. ClearPendingChanges(a).added = {} /\ ClearPendingChanges(a).removed = {}
      BY <1>5 DEF ClearPendingChanges, TargetState
    <2> QED BY <1>8, <2>1
  <1>10. t \in listened => s.current = states[t].current
    <2>1. a.current = states[t].current
      BY <1>4, <1>5, Zenon DEF Answered, TargetState
    <2>2. ClearPendingChanges(a).current = a.current
      BY Zenon DEF ClearPendingChanges, TargetState
    <2> QED BY <1>8, <2>1, <2>2, Zenon
  <1>11. ASSUME t \in listened, up[t] = <<>>, Settled(down, t, 1), NEW f, Told(t, f)
         PROVE  Begins(t, f[1], Believed(t))'
    <2>1. Begins(t, f[1], RemoteKeys(t))
      BY <1>3, <1>11, AnswerTaken DEF Told, Begun
    <2>2. s.added = {} /\ s.removed = {}
      BY <1>3, <1>7, <1>9, <1>11, AnswerTaken
    <2>3. Believed(t)' = RemoteKeys(t)
      BY <1>3, <1>7, <2>2, RemoteKeysKept DEF Believed
    <2>4. states'[t].current = states[t].current
      BY <1>7, <1>10, <1>11, Zenon
    <2> QED BY <1>3, <2>1, <2>3, <2>4, Zenon DEF Begins
  <1>12. t \notin resets
    BY <1>3, AnswerTaken
  <1>13. t \in listened => states'[t].current = states[t].current
    BY <1>7, <1>10, Zenon
  <1>14. t \in listened /\ states'[t].out = 0 =>
           /\ states'[t].added \subseteq Matching(t, Pets)
           /\ \A p \in states'[t].added : updates'[p] # Unknown
    BY <1>7, <1>9
  <1>15. t = Head(down).target
    BY <1>1, <1>2
  <1> QED BY <1>3, <1>7, <1>11, <1>12, <1>13, <1>14, <1>15, SyncTaken

LEMMA SyncReset ==
  ASSUME TypeOK, TypeOK', AggregatorInv, AggregatorInv', TokensAgree, SyncInv,
         HandleTargetReset
  PROVE  SyncInv'
  <1>1. /\ down # <<>> /\ down' = Tail(down) /\ Head(down).kind = "Reset"
        /\ UNCHANGED <<history, clock, srv, up, stream, listened, token, local, stored, keys,
                       snapver, current, received, updates, resets, spoilt>>
    BY DEF HandleTargetReset, Received, Receive, serverVars, storeVars, viewVars
  <1>2. PICK m \in Response : m = Head(down)
    BY <1>1, HeadType
  <1>3. PICK t \in Targets : t = m.target
    BY <1>2 DEF Response
  <1>4. states[t] \in TargetState /\ stream = "open"
    BY <1>1 DEF TypeOK, AggregatorInv, ClosedIsEmpty
  <1>5. IsActiveTarget(t) <=> t \in listened /\ states[t].out = 0
    BY <1>4, ActiveHasNothingDue DEF IsActiveTarget
  <1>6. CASE IsActiveTarget(t)
    <2>1. PICK s : s = ResetTarget(t)
      OBVIOUS
    <2>2. states' = [states EXCEPT ![t] = s]
      BY <1>2, <1>3, <1>6, <2>1 DEF HandleTargetReset
    <2>3. s.out = 0 /\ s.added = {} /\ s.removed = RemoteKeys(t)
      BY <2>1 DEF ResetTarget, Changed, NewState
    <2>4. Updated(t, s, updates')
      BY <2>3 DEF Updated
    <2>5. Understood(t, m, s, resets')
      <3> SUFFICES ASSUME NEW x \in Idea, NEW y, y = Hears(t, x, m)
                   PROVE  /\ y.pets = (RemoteKeys(t) \ s.removed) \cup s.added
                          /\ y.trust = "sure"
        BY DEF Understood
      <3>1. y = [pets |-> {}, trust |-> "sure"]
        BY <1>1, <1>2, <1>3 DEF Hears
      <3> QED BY <2>3, <3>1
    <2>6. m.kind \notin {"Added", "Removed"} /\ t \in listened /\ states[t].out = 0
      BY <1>1, <1>2, <1>5, <1>6
    <2> QED BY <1>1, <1>2, <1>3, <2>2, <2>3, <2>4, <2>5, <2>6, SyncHears
  <1>7. CASE ~IsActiveTarget(t)
    <2>1. PICK s : s = [states[t] EXCEPT !.known = TRUE]
      OBVIOUS
    <2>2. states' = [states EXCEPT ![t] = s]
      BY <1>2, <1>3, <1>7, <2>1 DEF HandleTargetReset
    <2>3. s.out = states[t].out
      BY <1>4, <2>1 DEF TargetState
    <2>4. s.current = states[t].current
      BY <1>4, <2>1, Zenon DEF TargetState
    <2>5. m.kind \notin {"Added", "Removed"} /\ ~(t \in listened /\ states[t].out = 0)
      BY <1>1, <1>2, <1>5, <1>7
    <2> QED BY <1>1, <1>2, <1>3, <2>2, <2>3, <2>4, <2>5, SyncHears
  <1> QED BY <1>6, <1>7

(* The client counts the pets that it believes in. *)
LEMMA BelievedCount ==
  ASSUME TypeOK, NEW t \in Targets, Fits(states[t], RemoteKeys(t))
  PROVE  Cardinality(Believed(t)) = CurrentDocumentCount(t)
  <1> DEFINE A == states[t].added
             R == states[t].removed
             K == RemoteKeys(t)
  <1>1. A \subseteq Pets /\ R \subseteq K /\ K \subseteq Pets /\ A \cap K = {}
    <2>1. states[t] \in TargetState
      BY DEF TypeOK
    <2> QED BY <2>1, RemoteKeysType DEF Fits, TargetState
  <1> HIDE DEF A, R, K
  <1>2. IsFiniteSet(A) /\ IsFiniteSet(R) /\ IsFiniteSet(K)
    BY <1>1, PetQueriesAssumption, FS_Subset
  <1>3. /\ Cardinality(A) \in Nat /\ Cardinality(R) \in Nat /\ Cardinality(K) \in Nat
    BY <1>2, FS_CardinalityType
  <1>4. IsFiniteSet(K \ R) /\ Cardinality(K \ R) = Cardinality(K) - Cardinality(R)
    <2>1. K \cap R = R
      BY <1>1
    <2> QED BY <1>2, <2>1, FS_Difference
  <1>5. Cardinality((K \ R) \cup A) = Cardinality(K \ R) + Cardinality(A)
    <2>1. PICK D : D = K \ R
      OBVIOUS
    <2>2. D \cap A = {} /\ IsFiniteSet(D) /\ Cardinality(D) \in Nat
      BY <1>1, <1>4, <2>1, FS_CardinalityType
    <2>3. Cardinality(D \cap A) = 0
      BY <2>2, FS_EmptySet
    <2>4. Cardinality(D \cup A) = Cardinality(D) + Cardinality(A) - Cardinality(D \cap A)
      BY <1>2, <2>2, FS_Union
    <2> QED BY <1>3, <2>1, <2>2, <2>3, <2>4
  <1> QED BY <1>3, <1>4, <1>5 DEF Believed, CurrentDocumentCount, A, R, K

LEMMA SyncFilter ==
  ASSUME TypeOK, TypeOK', AggregatorInv, AggregatorInv', TokensAgree, SyncInv,
         HandleExistenceFilter
  PROVE  SyncInv'
  <1>1. /\ down # <<>> /\ down' = Tail(down) /\ Head(down).kind = "Filter"
        /\ UNCHANGED <<history, clock, srv, up, stream, listened, token, local, stored, keys,
                       snapver, current, received, spoilt>>
    BY DEF HandleExistenceFilter, Received, Receive, serverVars, storeVars, viewVars
  <1>2. PICK m \in Response : m = Head(down)
    BY <1>1, HeadType
  <1>3. PICK t \in Targets : t = m.target
    BY <1>2 DEF Response
  <1>4. states[t] \in TargetState /\ stream = "open"
    BY <1>1 DEF TypeOK, AggregatorInv, ClosedIsEmpty
  <1>5. IsActiveTarget(t) <=> t \in listened /\ states[t].out = 0
    BY <1>4, ActiveHasNothingDue DEF IsActiveTarget
  <1>6. PICK K : K = RemoteKeys(t)
    OBVIOUS
  <1>7. m.kind \notin {"Added", "Removed"}
    BY <1>1, <1>2
  <1>8. IsActiveTarget(t) => /\ states[t].added \subseteq Matching(t, Pets)
                             /\ \A p \in states[t].added : updates[p] # Unknown
    BY <1>5 DEF SyncInv, AddedAreUpdates
  <1>9. CASE IsActiveTarget(t) /\ IsDocumentQuery(t) /\ m.number = 0
    <2>1. PICK s : s = Changed(t, states[t], {}, {t.path})
      OBVIOUS
    <2>2. /\ states' = [states EXCEPT ![t] = s]
          /\ updates' = Removed({t.path}, Forgotten)
          /\ resets' = resets
      BY <1>2, <1>3, <1>9, <2>1 DEF HandleExistenceFilter
    <2>3. /\ s.out = states[t].out
          /\ s.added = states[t].added \ {t.path}
          /\ s.removed = states[t].removed \cup ({t.path} \cap K)
      BY <1>4, <1>6, <2>1 DEF Changed, TargetState
    <2>4. s.current = states[t].current
      BY <1>4, <2>1, Zenon DEF Changed, TargetState
    <2>5. \A p \in Pets : updates[p] # Unknown => updates'[p] # Unknown
      BY <2>2 DEF Removed, Forgotten, NoDocument, Unknown
    <2>6. Updated(t, s, updates')
      <3>1. Matching(t, Pets) \subseteq Pets
        BY MatchingIsPart
      <3> QED BY <1>8, <1>9, <2>3, <2>5, <3>1 DEF Updated
    <2>7. ASSUME NEW x \in Idea, Begins(t, x, Believed(t)), NEW y, y = Hears(t, x, m)
          PROVE  /\ y.pets = (K \ s.removed) \cup s.added
                 /\ y.trust = "spoilt" => t \in spoilt /\ t \notin resets
                 /\ y.trust = "lost" => t \in resets /\ ~s.current
      <3>1. y = [x EXCEPT !.pets = @ \ {t.path}]
        BY <1>1, <1>2, <1>3, <1>9, <2>7 DEF Hears
      <3>2. y.pets = x.pets \ {t.path} /\ y.trust = x.trust
        BY <3>1 DEF Idea
      <3>3. x.pets = (K \ states[t].removed) \cup states[t].added
        BY <1>6, <2>7 DEF Begins, Believed
      <3>4. y.pets = (K \ s.removed) \cup s.added
        BY <2>3, <3>2, <3>3
      <3>5. x.trust = "spoilt" => t \in spoilt /\ t \notin resets
        BY <2>7, Zenon DEF Begins
      <3>6. x.trust = "lost" => t \in resets /\ ~s.current
        BY <2>4, <2>7, Zenon DEF Begins
      <3> QED BY <3>2, <3>4, <3>5, <3>6
    <2>8. Understood(t, m, s, resets')
      BY <1>6, <2>2, <2>7, Zenon DEF Understood
    <2>9. t \in listened /\ states[t].out = 0
      BY <1>5, <1>9
    <2> QED BY <1>1, <1>2, <1>3, <1>7, <2>2, <2>3, <2>5, <2>6, <2>8, <2>9, SyncHears
  <1>10. ASSUME IsActiveTarget(t)
         PROVE  Cardinality(Believed(t)) = CurrentDocumentCount(t)
    BY <1>5, <1>10, BelievedCount DEF AggregatorInv, ChangesFit
  <1>11. CASE IsActiveTarget(t) /\ ~IsDocumentQuery(t) /\ CurrentDocumentCount(t) # m.number
    <2>1. PICK s : s = ResetTarget(t)
      OBVIOUS
    <2>2. /\ states' = [states EXCEPT ![t] = s]
          /\ resets' = resets \cup {t} /\ updates' = updates
      BY <1>2, <1>3, <1>11, <2>1 DEF HandleExistenceFilter
    <2>3. s.out = 0 /\ s.added = {} /\ s.removed = K
      BY <1>6, <2>1 DEF ResetTarget, Changed, NewState
    <2>4. ~s.current
      BY <2>1 DEF ResetTarget, Changed, NewState
    <2>5. Updated(t, s, updates')
      BY <2>3 DEF Updated
    <2>6. t = Collection
      BY <1>11, PetQueriesAssumption DEF Targets, UserTargets, LimboTargets, Collection, Read,
         Limbo, IsDocumentQuery
    <2>7. t \in listened /\ states[t].out = 0 /\ t \in resets'
      BY <1>5, <1>11, <2>2
    <2>8. Understood(t, m, s, resets')
      <3> SUFFICES ASSUME NEW x \in Idea, Begins(t, x, Believed(t)), NEW y, y = Hears(t, x, m)
                   PROVE  y.pets = (K \ s.removed) \cup s.added /\ y.trust = "lost"
        BY <1>6, <2>4, <2>7 DEF Understood
      <3>1. Cardinality(x.pets) # m.number
        BY <1>10, <1>11 DEF Begins
      <3>2. y = [pets |-> {}, trust |-> "lost"]
        BY <1>1, <1>2, <1>3, <1>11, <3>1 DEF Hears
      <3> QED BY <2>3, <3>2
    <2> QED BY <1>1, <1>2, <1>3, <1>7, <2>2, <2>3, <2>5, <2>6, <2>7, <2>8, SyncHears
  <1>12. CASE \/ ~IsActiveTarget(t)
              \/ IsDocumentQuery(t) /\ m.number # 0
              \/ ~IsDocumentQuery(t) /\ CurrentDocumentCount(t) = m.number
    <2>1. UNCHANGED <<states, updates, resets>>
      BY <1>2, <1>3, <1>12 DEF HandleExistenceFilter
    <2>2. states' = [states EXCEPT ![t] = states[t]]
      BY <2>1 DEF TypeOK
    <2>3. ASSUME t \in listened, states[t].out = 0
          PROVE  Updated(t, states[t], updates') /\ Understood(t, m, states[t], resets')
      <3>0. IsActiveTarget(t)
        BY <1>5, <2>3
      <3>1. Updated(t, states[t], updates')
        BY <1>8, <2>1, <3>0 DEF Updated
      <3>2. ASSUME NEW x \in Idea, Begins(t, x, Believed(t)), NEW y, y = Hears(t, x, m)
            PROVE  /\ y.pets = (RemoteKeys(t) \ states[t].removed) \cup states[t].added
                   /\ y.trust = "spoilt" => t \in spoilt /\ t \notin resets
                   /\ y.trust = "lost" => t \in resets /\ ~states[t].current
        <4>1. y = x
          <5>1. CASE IsDocumentQuery(t)
            BY <1>1, <1>2, <1>3, <1>12, <3>0, <3>2, <5>1 DEF Hears
          <5>2. CASE ~IsDocumentQuery(t)
            <6>1. Cardinality(x.pets) = m.number
              BY <1>10, <1>12, <3>0, <3>2, <5>2 DEF Begins
            <6> QED BY <1>1, <1>2, <1>3, <3>2, <5>2, <6>1 DEF Hears
          <5> QED BY <5>1, <5>2
        <4>2. x.pets = (RemoteKeys(t) \ states[t].removed) \cup states[t].added
          BY <3>2 DEF Begins, Believed
        <4>3. /\ x.trust = "spoilt" => t \in spoilt /\ t \notin resets
              /\ x.trust = "lost" => t \in resets /\ ~states[t].current
          BY <3>2, Zenon DEF Begins
        <4> QED BY <4>1, <4>2, <4>3, Zenon
      <3>3. Understood(t, m, states[t], resets')
        BY <2>1, <3>2, Zenon DEF Understood
      <3> QED BY <3>1, <3>3
    <2> QED BY <1>1, <1>2, <1>3, <1>7, <2>1, <2>2, <2>3, SyncHears
  <1> QED BY <1>2, <1>3, <1>9, <1>11, <1>12 DEF HandleExistenceFilter

(***************************************************************************)
(* Snapshots.                                                              *)
(***************************************************************************)

(* The client takes the snapshot of commit v. *)
Takes(v) ==
  /\ down # <<>> /\ Head(down).kind = "Snapshot" /\ Head(down).number = v
  /\ down' = Tail(down)
  /\ v >= snapver
  /\ RaiseWatchSnapshot(v)
  /\ UNCHANGED <<history, clock, srv, stream>>

LEMMA ReadyIs ==
  ASSUME TypeOK, AggregatorInv, stream = "open", NEW t \in listened
  PROVE  t \in Ready <=> states[t].out = 0
  BY ActiveHasNothingDue DEF Ready, AggregatorInv, ListenedIsKnown

(* A pet that turns out not to exist is none the target has. *)
LEMMA ChangeIs ==
  ASSUME TypeOK, AggregatorInv, SyncInv, stream = "open", NEW t \in Ready
  PROVE  /\ Change(t).added = states[t].added
         /\ Change(t).modified = states[t].modified
         /\ Change(t).removed = states[t].removed
  <1>1. t \in listened /\ t \in Targets /\ states[t].out = 0 /\ states[t] \in TargetState
    BY ReadyIs DEF Ready, TypeOK
  <1>2. CASE t \in Missing
    <2>1. t.path \notin RemoteKeys(t) /\ updates[t.path] = Unknown
      BY <1>2 DEF Missing
    <2>2. t.path \notin states[t].added
      BY <1>1, <2>1 DEF SyncInv, AddedAreUpdates
    <2>3. states[t].modified \subseteq RemoteKeys(t)
      BY <1>1 DEF AggregatorInv, ChangesFit, Fits
    <2>4. Change(t) = Changed(t, states[t], {}, {t.path})
      BY <1>2 DEF Change
    <2>5. /\ Change(t).added = states[t].added \ {t.path}
          /\ Change(t).modified = states[t].modified \ {t.path}
          /\ Change(t).removed = states[t].removed \cup ({t.path} \cap RemoteKeys(t))
      BY <1>1, <2>4 DEF Changed, TargetState
    <2> QED BY <2>1, <2>2, <2>3, <2>5
  <1>3. CASE t \notin Missing
    BY <1>3 DEF Change
  <1> QED BY <1>2, <1>3

(* What the client believes of a target that is ready is what the server had, or
   it has reason to doubt it. *)
LEMMA ReadyBelieves ==
  ASSUME TypeOK, AggregatorInv, SyncInv, stream = "open", NEW t \in Ready,
         down # <<>>, Head(down).kind = "Snapshot"
  PROVE  \/ Continues(t, Believed(t), Head(down).number)
         \/ t \in spoilt /\ t \notin resets
         \/ t \in resets /\ ~states[t].current
  <1>1. t \in listened /\ t \in Targets /\ states[t].out = 0
    BY ReadyIs DEF Ready, TypeOK
  <1>2. up[t] = <<>>
    BY <1>1, DueAreCounted
  <1>3. PICK f : Told(t, f)
    BY <1>1, <1>2 DEF SyncInv, Foreseen
  <1>4. ~IsAnswer(Head(down), t)
    BY DEF IsAnswer
  <1>5. Settled(down, t, 0)
    BY <1>1, <1>2, SettledIsActive
  <1>6. /\ f[0] \in Idea /\ Begins(t, f[0], Believed(t))
        /\ f[1] = Hears(t, f[0], Head(down))
        /\ f[1].trust = "sure" => Continues(t, f[1].pets, Head(down).number)
    BY <1>1, <1>3, <1>4, <1>5, FirstHeard
  <1>7. f[1] = f[0]
    BY <1>6 DEF Hears
  <1>8. f[0].trust \in {"sure", "spoilt", "lost"} /\ f[0].pets = Believed(t)
    BY <1>6 DEF Idea, Begins
  <1>9. f[0].trust = "sure" => Continues(t, Believed(t), Head(down).number)
    BY <1>6, <1>7, <1>8
  <1>10. f[0].trust = "spoilt" => t \in spoilt /\ t \notin resets
    BY <1>6, Zenon DEF Begins
  <1>11. f[0].trust = "lost" => t \in resets /\ ~states[t].current
    BY <1>6, Zenon DEF Begins
  <1> QED BY <1>8, <1>9, <1>10, <1>11, Zenon

LEMMA TakesOpen ==
  ASSUME TypeOK, AggregatorInv, SyncInv, NEW v, Takes(v)
  PROVE  /\ stream = "open" /\ v \in Nat /\ v # 0 /\ v <= clock /\ v <= Len(history)
         /\ v \in 1..Len(history) /\ snapver <= v /\ snapver' = v
         /\ Grows /\ snapver <= Len(history)
  <1>1. stream = "open"
    BY DEF Takes, AggregatorInv, ClosedIsEmpty
  <1>2. Head(down) = down[1] /\ 1 \in 1..Len(down)
    BY EmptySeq DEF Takes, TypeOK
  <1>3. v \in 1..clock /\ clock \in 1..Len(history) /\ snapver <= Len(history)
    BY <1>1, <1>2 DEF Takes, SyncInv, StreamInOrder
  <1>4. clock \in Nat /\ Len(history) \in Nat /\ snapver \in Nat
    BY HistoryType DEF TypeOK
  <1>5. v \in Nat /\ v # 0 /\ v <= clock /\ v <= Len(history) /\ snapver <= v
    BY <1>3, <1>4 DEF Takes
  <1>6. snapver' = v /\ history' = history
    BY DEF Takes, RaiseWatchSnapshot
  <1> QED BY <1>1, <1>3, <1>4, <1>5, <1>6 DEF Grows

(* The listens go on, but for resolutions that are over. *)
LEMMA ListenedNow ==
  ASSUME TypeOK, NEW v \in Nat, listened' = ListenedAfter(v)
  PROVE  /\ \A t \in UserTargets : t \in listened' <=> t \in listened
         /\ \A t \in listened' \ listened : t \in LimboTargets
  <1>1. Wanted(LimboAfter(v), listened) \subseteq LimboTargets
    BY WantedAreLimbo, AfterType
  <1> QED BY <1>1, KindsOfTargets DEF ListenedAfter, TypeOK

(* What is asked about the targets that are listened to. *)
LEMMA RequestsAre ==
  ASSUME TypeOK, AggregatorInv, SyncInv, TypeOK', NEW v, Takes(v), NEW t \in listened'
  PROVE  /\ t \in Targets
         /\ t \in Mismatched \/ t \notin listened =>
              /\ Requests(v)[t] # <<>> /\ token'[t] = 0
              /\ Requests(v)[t][Len(Requests(v)[t])].token = 0
         /\ t \in listened \ Mismatched =>
              /\ Requests(v)[t] = <<>>
              /\ token'[t] = IF t \in Ready THEN v ELSE token[t]
  <1>1. t \in Targets /\ listened' = ListenedAfter(v) /\ t \in ListenedAfter(v)
    BY DEF TypeOK, Takes, RaiseWatchSnapshot
  <1>2. token'[t] = IF Requests(v)[t] # <<>> THEN 0
                    ELSE IF t \in Ready THEN v ELSE token[t]
    BY <1>1 DEF Takes, RaiseWatchSnapshot
  <1>3. \A q : q = Rewatch \/ q = <<Watch(0)>> => q # <<>> /\ q[Len(q)].token = 0
    BY DEF Rewatch, Watch
  <1>4. PICK q : q = Requests(v)[t]
    OBVIOUS
  <1>5. CASE t \in Mismatched \/ t \notin listened
    <2>1. q = Rewatch \/ q = <<Watch(0)>>
      BY <1>1, <1>4, <1>5 DEF Requests, Mismatched
    <2>2. q # <<>> /\ q[Len(q)].token = 0
      BY <1>3, <2>1
    <2>3. token'[t] = 0
      BY <1>1, <1>2, <1>4, <2>2
    <2> QED BY <1>1, <1>4, <1>5, <2>2, <2>3
  <1>6. CASE t \notin Mismatched /\ t \in listened
    <2>1. q = <<>>
      BY <1>1, <1>4, <1>6 DEF Requests
    <2> QED BY <1>1, <1>2, <1>4, <1>6, <2>1
  <1> QED BY <1>5, <1>6

(* Where nothing is asked, what was to be told has been taken in. *)
LEMMA StatesAre ==
  ASSUME TypeOK, AggregatorInv, SyncInv, TypeOK', NEW v, Takes(v), NEW t \in listened'
  PROVE  /\ Requests(v)[t] # <<>> =>
              /\ up'[t] # <<>> /\ states'[t].out # 0
              /\ up'[t][Len(up'[t])] = Requests(v)[t][Len(Requests(v)[t])]
         /\ Requests(v)[t] = <<>> =>
              /\ up'[t] = up[t]
              /\ states'[t] = IF t \in Ready THEN ClearPendingChanges(states[t]) ELSE states[t]
  <1>0. t \in Targets
    BY RequestsAre
  <1>1. PICK r : r = Requests(v)
    OBVIOUS
  <1>2. PICK base : base = [u \in Targets |-> IF u \in Ready THEN ClearPendingChanges(states[u])
                                                             ELSE states[u]]
    OBVIOUS
  <1>3. Send(base, r) /\ r[t] \in Seq(Request)
    BY <1>0, <1>1, <1>2, RequestsType DEF Takes, RaiseWatchSnapshot
  <1>4. up[t] \in Seq(Request) /\ up'[t] = up[t] \o r[t]
    BY <1>0, <1>3 DEF Send, TypeOK
  <1>5. base[t] = IF t \in Ready THEN ClearPendingChanges(states[t]) ELSE states[t]
    BY <1>0, <1>2
  <1>6. CASE r[t] # <<>>
    <2>1. up'[t] # <<>> /\ up'[t][Len(up'[t])] = r[t][Len(r[t])]
      <3>1. PICK s \in Seq(Request), q \in Seq(Request) : s = up[t] /\ q = r[t]
        BY <1>3, <1>4
      <3>2. PICK k : k = Len(s) + Len(q)
        OBVIOUS
      <3>3. s \o q # <<>> /\ (s \o q)[k] = q[Len(q)] /\ Len(s \o q) = k
        BY <1>6, <3>1, <3>2, Joined
      <3> QED BY <1>4, <3>1, <3>3
    <2>2. PICK n \in Nat : n = Len(r[t]) /\ n # 0
      BY <1>3, <1>6, EmptySeq
    <2>3. states'[t] = [base[t] EXCEPT !.known = TRUE, !.out = @ + n]
      BY <1>0, <1>3, <1>6, <2>2 DEF Send
    <2>4. base[t] \in TargetState /\ base[t].out = states[t].out
      BY <1>0, <1>5 DEF ClearPendingChanges, TargetState, TypeOK
    <2>5. states'[t].out = states[t].out + n
      BY <2>3, <2>4 DEF TargetState
    <2>6. states[t].out \in Nat
      BY <1>0, DueAreCounted
    <2> QED BY <1>1, <1>6, <2>1, <2>2, <2>5, <2>6
  <1>7. CASE r[t] = <<>>
    <2>1. up'[t] = up[t]
      BY <1>3, <1>4, <1>7, Joined
    <2>2. states'[t] = base[t]
      BY <1>0, <1>3, <1>7 DEF Send
    <2> QED BY <1>1, <1>5, <1>7, <2>1, <2>2
  <1> QED BY <1>6, <1>7

(* The keys are what the client believed. *)
LEMMA KeysAre ==
  ASSUME TypeOK, AggregatorInv, SyncInv, TypeOK', NEW v, Takes(v), NEW t \in listened'
  PROVE  /\ t \in Ready => RemoteKeys(t)' = Believed(t)
         /\ t \in listened \ Ready => RemoteKeys(t)' = RemoteKeys(t)
         /\ t \notin listened => RemoteKeys(t)' = {}
  <1>1. /\ t \in Targets /\ listened' = ListenedAfter(v) /\ keys' = KeysAfter
        /\ received' = ReceivedAfter \cap ListenedAfter(v) /\ v \in Nat /\ stream = "open"
    <2>1. t \in Targets /\ v \in Nat /\ stream = "open"
      BY RequestsAre, TakesOpen
    <2> QED BY <2>1 DEF Takes, RaiseWatchSnapshot
  <1>2. t \in Ready => /\ Change(t).added = states[t].added
                       /\ Change(t).removed = states[t].removed
    BY <1>1, ChangeIs
  <1>3. CASE t \in UserTargets
    <2>1. RemoteKeys(t) = keys[t] /\ RemoteKeys(t)' = keys'[t] /\ t \in listened
      BY <1>1, <1>3, ListenedNow DEF RemoteKeys
    <2>2. keys'[t] = IF t \in Ready THEN (keys[t] \ Change(t).removed) \cup Change(t).added
                                   ELSE keys[t]
      BY <1>1, <1>3 DEF KeysAfter
    <2> QED BY <1>2, <2>1, <2>2 DEF Believed
  <1>4. CASE t \in LimboTargets
    <2>1. PICK p \in Pets : t = Limbo(p) /\ t.path = p
      BY <1>4 DEF LimboTargets, Limbo
    <2>2. t \notin UserTargets /\ IsDocumentQuery(t) /\ Matching(t, Pets) \subseteq {p}
      BY <1>4, <2>1, KindsOfTargets, PetQueriesAssumption DEF IsDocumentQuery, Matching
    <2>3. RemoteKeys(t) = IF t \in received THEN {p} ELSE {}
      BY <2>1, <2>2 DEF RemoteKeys
    <2>4. RemoteKeys(t)' = IF t \in received' THEN {p} ELSE {}
      BY <2>1, <2>2 DEF RemoteKeys
    <2>5. t \in received' <=> t \in ReceivedAfter
      BY <1>1
    <2>6. CASE t \in Ready
      <3>1. t \in listened /\ states[t].out = 0
        BY <1>1, <2>6, ReadyIs DEF Ready
      <3>2. states[t].added \subseteq {p}
        BY <2>2, <3>1 DEF SyncInv, AddedAreUpdates
      <3>3. states[t].removed \subseteq RemoteKeys(t) /\ states[t].added \cap RemoteKeys(t) = {}
        BY <3>1 DEF AggregatorInv, ChangesFit, Fits
      <3>4. t \in received' <=> states[t].added # {} \/ (t \in received /\ states[t].removed = {})
        BY <1>2, <1>4, <2>5, <2>6, <3>1 DEF ReceivedAfter
      <3> QED BY <2>3, <2>4, <2>6, <3>1, <3>2, <3>3, <3>4 DEF Believed
    <2>7. CASE t \notin Ready
      <3>1. t \in received' <=> t \in listened /\ t \in received
        BY <1>4, <2>5, <2>7 DEF ReceivedAfter
      <3> QED BY <2>3, <2>4, <2>7, <3>1
    <2> QED BY <2>6, <2>7
  <1> QED BY <1>1, <1>3, <1>4, KindsOfTargets

LEMMA MismatchedAre ==
  ASSUME TypeOK, AggregatorInv, SyncInv, stream = "open"
  PROVE  /\ Mismatched = resets /\ Mismatched \subseteq {Collection}
         /\ Mismatched \subseteq Ready
  <1>1. \A t \in resets : t = Collection /\ t \in listened /\ states[t].out = 0
    BY DEF SyncInv, Bookkeeping
  <1>2. \A t \in resets : t \in Ready
    BY <1>1, ReadyIs
  <1> QED BY <1>1, <1>2 DEF Mismatched

LEMMA SnapshotTokens ==
  ASSUME TypeOK, TypeOK', AggregatorInv, SyncInv, NEW v, Takes(v)
  PROVE  TokensAreOfKeys'
  <1>1. /\ stream = "open" /\ v \in Nat /\ v <= Len(history) /\ Grows
        /\ snapver <= Len(history) /\ snapver <= v
    BY TakesOpen
  <1>2. spoilt' = (spoilt \ Mismatched) \cup {u \in Mismatched : KeysAfter[u] # {}}
    BY DEF Takes, RaiseWatchSnapshot
  <1> SUFFICES ASSUME NEW t \in listened' \ spoilt'
               PROVE  Continues(t, RemoteKeys(t), token[t])'
    BY DEF TokensAreOfKeys
  <1>3. t \in Targets
    BY RequestsAre
  <1>4. ASSUME RemoteKeys(t)' = {}, token'[t] = 0
        PROVE  Continues(t, RemoteKeys(t), token[t])'
    <2>1. 0 \notin DOMAIN history'
      BY HistoryType DEF TypeOK
    <2> QED BY <1>4, <2>1 DEF Continues, Covers, PetsAt
  <1>5. ASSUME NEW S, NEW u \in Nat, u <= Len(history), Continues(t, S, u),
               RemoteKeys(t)' = S, token'[t] = u
        PROVE  Continues(t, RemoteKeys(t), token[t])'
    <2>1. Continues(t, S, u)'
      BY <1>1, <1>5, ContinuesGrow
    <2> QED BY <1>5, <2>1
  <1>6. CASE t \in Mismatched
    <2>1. token'[t] = 0 /\ t \in Ready /\ t = Collection /\ t \in UserTargets
      BY <1>1, <1>6, RequestsAre, MismatchedAre, KindsOfTargets
    <2>2. keys'[t] = {}
      BY <1>2, <1>6 DEF Takes, RaiseWatchSnapshot
    <2>3. RemoteKeys(t)' = {}
      BY <2>1, <2>2 DEF RemoteKeys
    <2> QED BY <1>4, <2>1, <2>3
  <1>7. CASE t \notin listened
    BY <1>4, <1>7, RequestsAre, KeysAre
  <1>8. CASE t \in Ready \ Mismatched
    <2>1. t \in listened /\ t \notin spoilt /\ t \notin resets
      BY <1>1, <1>2, <1>8, MismatchedAre DEF Ready
    <2>2. Continues(t, Believed(t), v)
      BY <1>1, <1>8, <2>1, ReadyBelieves DEF Takes
    <2>3. PICK S : S = Believed(t)
      OBVIOUS
    <2>4. RemoteKeys(t)' = S /\ token'[t] = v
      BY <1>8, <2>1, <2>3, KeysAre, RequestsAre
    <2> QED BY <1>1, <1>5, <2>2, <2>3, <2>4
  <1>9. CASE t \in listened \ (Ready \cup Mismatched)
    <2>1. t \notin spoilt
      BY <1>2, <1>9
    <2>2. PICK S : S = RemoteKeys(t)
      OBVIOUS
    <2>3. PICK u \in Nat : u = token[t] /\ u <= Len(history)
      <3>1. token[t] \in Nat /\ token[t] <= snapver
        BY <1>3 DEF SyncInv, Bookkeeping, TypeOK
      <3>2. Len(history) \in Nat /\ snapver \in Nat
        BY HistoryType
      <3> QED BY <1>1, <3>1, <3>2
    <2>4. Continues(t, S, u)
      BY <1>9, <2>1, <2>2, <2>3 DEF SyncInv, TokensAreOfKeys
    <2>5. RemoteKeys(t)' = S /\ token'[t] = u
      BY <1>9, <2>2, <2>3, KeysAre, RequestsAre
    <2> QED BY <1>5, <2>3, <2>4, <2>5
  <1> QED BY <1>6, <1>7, <1>8, <1>9

LEMMA SnapshotStored ==
  ASSUME TypeOK, TypeOK', AggregatorInv, SyncInv, TokensAgree, NEW v, Takes(v)
  PROVE  StoredAreOfKeys'
  <1>1. /\ stream = "open" /\ v \in Nat /\ v <= Len(history) /\ Grows
        /\ snapver <= Len(history) /\ snapver <= v /\ v \in 1..Len(history)
        /\ snapver' = v /\ history' = history
    BY TakesOpen DEF Takes
  <1>2. /\ spoilt' = (spoilt \ Mismatched) \cup {u \in Mismatched : KeysAfter[u] # {}}
        /\ keys' = KeysAfter /\ listened' = ListenedAfter(v)
    BY DEF Takes, RaiseWatchSnapshot
  <1>3. PICK saved \in SUBSET (Ready \cap UserTargets) :
          /\ MustPersist \subseteq saved
          /\ stored' = [u \in UserTargets |-> IF u \in saved THEN v ELSE stored[u]]
    BY DEF Takes, RaiseWatchSnapshot
  <1> SUFFICES ASSUME NEW t \in UserTargets \ spoilt'
               PROVE  \/ Continues(t, keys[t], stored[t])'
                      \/ t \in listened' /\ token'[t] = 0 /\ stored'[t] # 0
    BY DEF StoredAreOfKeys
  <1>4. t \in Targets /\ (t \in listened' <=> t \in listened)
    BY <1>1, <1>2, ListenedNow, KindsOfTargets
  <1>5. stored[t] \in Nat /\ stored[t] <= snapver /\ stored[t] <= Len(history) /\ stored[t] <= v
    <2>1. stored[t] \in Nat /\ local[t] \in Nat /\ stored[t] <= local[t] /\ local[t] <= snapver
      BY DEF TypeOK, TokensAgree
    <2>2. snapver \in Nat /\ Len(history) \in Nat
      BY HistoryType
    <2> QED BY <1>1, <2>1, <2>2
  <1>6. stored'[t] = IF t \in saved THEN v ELSE stored[t]
    BY <1>3
  <1>7. ASSUME NEW S, NEW u \in Nat, u <= Len(history), Continues(t, S, u),
               keys'[t] = S, stored'[t] = u
        PROVE  Continues(t, keys[t], stored[t])'
    <2>1. Continues(t, S, u)'
      BY <1>1, <1>7, ContinuesGrow
    <2> QED BY <1>7, <2>1
  <1>8. PICK w \in Nat : w = stored[t] /\ w <= Len(history) /\ w <= v
    BY <1>5
  <1>9. CASE t \in Mismatched
    <2>1. token'[t] = 0 /\ t \in listened'
      BY <1>4, <1>9, RequestsAre DEF Mismatched
    <2>2. keys'[t] = {}
      BY <1>2, <1>9
    <2>3. CASE stored'[t] = 0
      <3>1. 0 \notin DOMAIN history'
        BY <1>1, HistoryType
      <3> QED BY <2>2, <2>3, <3>1 DEF Continues, Covers, PetsAt
    <2> QED BY <2>1, <2>3
  <1>10. CASE t \in Ready \ Mismatched
    <2>1. t \in listened /\ t \notin spoilt /\ t \notin resets
      BY <1>1, <1>2, <1>10, MismatchedAre DEF Ready
    <2>2. Continues(t, Believed(t), v)
      BY <1>1, <1>10, <2>1, ReadyBelieves DEF Takes
    <2>3. PICK S : S = Believed(t)
      OBVIOUS
    <2>4. keys'[t] = S
      <3>1. RemoteKeys(t)' = S
        BY <1>4, <1>10, <2>1, <2>3, KeysAre
      <3> QED BY <3>1 DEF RemoteKeys
    <2>5. CASE t \in saved
      BY <1>1, <1>6, <1>7, <2>2, <2>3, <2>4, <2>5
    <2>6. CASE t \notin saved
      <3>1. Change(t).added = {} /\ Change(t).removed = {}
        BY <1>3, <1>10, <2>6 DEF MustPersist
      <3>2. S = keys[t]
        BY <1>2, <1>10, <2>4, <3>1 DEF KeysAfter
      <3>3. stored'[t] = w
        BY <1>6, <1>8, <2>6
      <3>4. CASE Continues(t, keys[t], stored[t])
        BY <1>7, <1>8, <2>4, <3>2, <3>3, <3>4
      <3>5. CASE ~Continues(t, keys[t], stored[t])
        <4>1. token[t] = 0
          BY <2>1, <3>5 DEF SyncInv, StoredAreOfKeys
        <4>2. Continues(t, keys[t], 0)
          BY <2>1, <4>1 DEF SyncInv, TokensAreOfKeys, RemoteKeys
        <4>3. keys[t] = {}
          BY <4>2, ContinuesFromNothing
        <4>4. PetsAt(t, v) = {}
          BY <1>1, <2>2, <2>3, <3>2, <4>3, ContinuesNow
        <4>5. ASSUME NEW p \in PetsAt(t, w), Lasts(p, w, v)
              PROVE  FALSE
          <5>1. p \in history[v]
            BY <1>1, <1>8, <4>5 DEF Lasts
          <5>2. p \in PetsAt(t, v)
            BY <1>1, <4>5, <5>1, InPetsAt
          <5> QED BY <4>4, <5>2
        <4>6. \A p : /\ p \in PetsAt(t, w)' <=> p \in PetsAt(t, w)
                     /\ Lasts(p, w, snapver)' <=> Lasts(p, w, v)
          BY <1>1 DEF PetsAt, Lasts
        <4>7. Continues(t, {}, w)'
          BY <4>5, <4>6 DEF Continues, Covers
        <4>8. keys'[t] = {} /\ stored'[t] = w
          BY <2>4, <3>2, <3>3, <4>3
        <4> QED BY <4>7, <4>8
      <3> QED BY <3>4, <3>5
    <2> QED BY <2>5, <2>6
  <1>11. CASE t \notin Ready
    <2>0. t \notin Mismatched /\ t \notin saved
      BY <1>1, <1>3, <1>11, MismatchedAre
    <2>1. t \notin spoilt /\ keys'[t] = keys[t] /\ stored'[t] = w
      BY <1>2, <1>6, <1>8, <1>11, <2>0 DEF KeysAfter
    <2>2. CASE Continues(t, keys[t], stored[t])
      BY <1>7, <1>8, <2>1, <2>2
    <2>3. CASE t \in listened /\ token[t] = 0 /\ stored[t] # 0
      <3>1. token'[t] = 0
        BY <1>4, <1>11, <2>0, <2>3, RequestsAre
      <3> QED BY <1>4, <1>8, <2>1, <2>3, <3>1
    <2> QED BY <2>1, <2>2, <2>3 DEF SyncInv, StoredAreOfKeys
  <1> QED BY <1>9, <1>10, <1>11

LEMMA SnapshotForeseen ==
  ASSUME TypeOK, TypeOK', AggregatorInv, SyncInv, NEW v, Takes(v)
  PROVE  Foreseen'
  <1>1. /\ stream = "open" /\ v \in Nat /\ Grows /\ StreamInOrder
    BY TakesOpen DEF SyncInv
  <1>2. /\ spoilt' = (spoilt \ Mismatched) \cup {u \in Mismatched : KeysAfter[u] # {}}
        /\ resets' = {} /\ down # <<>> /\ down' = Tail(down) /\ srv' = srv
        /\ Head(down).kind = "Snapshot"
    BY DEF Takes, RaiseWatchSnapshot
  <1> SUFFICES ASSUME NEW t \in listened', up'[t] = <<>>
               PROVE  (\E f : Told(t, f))'
    BY DEF Foreseen
  <1>3. t \in Targets /\ Requests(v)[t] = <<>> /\ t \in listened \ Mismatched
    BY StatesAre, RequestsAre
  <1>4. /\ up[t] = <<>>
        /\ states'[t] = IF t \in Ready THEN ClearPendingChanges(states[t]) ELSE states[t]
    BY <1>3, StatesAre
  <1>5. PICK f : Told(t, f)
    BY <1>1, <1>3, <1>4 DEF SyncInv, Foreseen
  <1>6. ~IsAnswer(Head(down), t)
    BY <1>2 DEF IsAnswer
  <1>7. t \notin resets /\ t \notin resets' /\ (t \in spoilt => t \in spoilt')
    BY <1>1, <1>2, <1>3, MismatchedAre
  <1>8. \A x, S : Begins(t, x, S) => x.pets = S /\ x.trust # "lost"
                                        /\ (x.trust = "spoilt" => t \in spoilt)
    BY <1>7, Zenon DEF Begins
  <1>9. \A x : x.trust # "lost" /\ (x.trust = "spoilt" => t \in spoilt) => Begins(t, x, x.pets)'
    BY <1>7, Zenon DEF Begins
  <1>10. Settled(down, t, 1) => Begins(t, f[1], Believed(t))'
    <2> SUFFICES ASSUME Settled(down, t, 1) PROVE Begins(t, f[1], Believed(t))'
      OBVIOUS
    <2>1. Begins(t, f[0], Believed(t)) /\ f[1] = Hears(t, f[0], Head(down)) /\ Settled(down, t, 0)
      BY <1>3, <1>2, <1>5, <1>6, FirstHeard
    <2>2. f[1] = f[0]
      BY <1>2, <2>1 DEF Hears
    <2>3. t \in Ready
      BY <1>1, <1>3, <1>4, <2>1, SettledIsActive, ReadyIs
    <2>4. RemoteKeys(t)' = Believed(t)
      BY <2>3, KeysAre
    <2>5. states'[t].added = {} /\ states'[t].removed = {}
      <3>1. states[t] \in TargetState
        BY <1>3 DEF TypeOK
      <3> QED BY <1>4, <2>3, <3>1 DEF ClearPendingChanges, TargetState
    <2>6. PICK S : S = Believed(t)
      OBVIOUS
    <2>7. Believed(t)' = S
      BY <2>4, <2>5, <2>6 DEF Believed
    <2>8. f[1].pets = S /\ f[1].trust # "lost" /\ (f[1].trust = "spoilt" => t \in spoilt)
      BY <1>8, <2>1, <2>2, <2>6
    <2>9. PICK x : x = f[1]
      OBVIOUS
    <2>10. Begins(t, x, x.pets)'
      BY <1>9, <2>8, <2>9
    <2> QED BY <2>7, <2>8, <2>9, <2>10
  <1>11. ~Settled(down, t, 1) =>
           \A x \in Idea : Begins(t, x, RemoteKeys(t)) => Begins(t, x, RemoteKeys(t))'
    <2> SUFFICES ASSUME ~Settled(down, t, 1), NEW x \in Idea, Begins(t, x, RemoteKeys(t))
                 PROVE  Begins(t, x, RemoteKeys(t))'
      OBVIOUS
    <2>1. t \notin Ready
      BY <1>1, <1>3, <1>4, <1>6, <1>2, FirstHeard, SettledIsActive, ReadyIs
    <2>2. RemoteKeys(t)' = RemoteKeys(t)
      BY <1>3, <2>1, KeysAre
    <2>3. x.pets = RemoteKeys(t)
      BY <1>8
    <2>4. Begins(t, x, x.pets)'
      BY <1>8, <1>9
    <2> QED BY <2>2, <2>3, <2>4
  <1>12. PICK n : n = Len(down)
    OBVIOUS
  <1>13. PICK g : g = Shifted(f, n)
    OBVIOUS
  <1>14. Told(t, g)'
    BY <1>1, <1>2, <1>3, <1>5, <1>10, <1>11, <1>12, <1>13, TakenTold
  <1> QED BY <1>14

LEMMA SyncSnapshot ==
  ASSUME TypeOK, TypeOK', AggregatorInv, AggregatorInv', TokensAgree, SyncInv,
         HandleSnapshot
  PROVE  SyncInv'
  <1>1. PICK v : v = Head(down).number
    OBVIOUS
  <1>2. CASE Takes(v)
    <2>1. /\ stream = "open" /\ v \in Nat /\ v <= clock /\ v <= Len(history) /\ snapver' = v
          /\ snapver <= v
      BY <1>2, TakesOpen
    <2>2. /\ listened' = ListenedAfter(v) /\ resets' = {} /\ current' = CurrentAfter
          /\ received' = ReceivedAfter \cap ListenedAfter(v) /\ local' = LocalAfter(v)
          /\ spoilt' = (spoilt \ Mismatched) \cup {u \in Mismatched : KeysAfter[u] # {}}
          /\ down # <<>> /\ down' = Tail(down) /\ UNCHANGED <<history, clock, srv, stream>>
      BY <1>2 DEF Takes, RaiseWatchSnapshot
    <2>3. StreamInOrder'
      BY <2>1, <2>2, InOrderTaken DEF SyncInv
    <2>4. ResumesAsAsked'
      <3> SUFFICES ASSUME NEW t \in listened'
                   PROVE  /\ up'[t] # <<>> => up'[t][Len(up'[t])].token = token'[t]
                          /\ up'[t] = <<>> => srv[t].on
        BY <2>2 DEF ResumesAsAsked
      <3>1. CASE Requests(v)[t] # <<>>
        BY <1>2, <3>1, StatesAre, RequestsAre
      <3>2. CASE Requests(v)[t] = <<>>
        <4>1. t \in Targets /\ t \in listened /\ up'[t] = up[t]
              /\ token'[t] = IF t \in Ready THEN v ELSE token[t]
          BY <1>2, <3>2, StatesAre, RequestsAre
        <4>2. up[t] # <<>> => t \notin Ready
          BY <2>1, <4>1, ReadyIs, DueAreCounted
        <4> QED BY <2>1, <4>1, <4>2 DEF SyncInv, ResumesAsAsked
      <3> QED BY <3>1, <3>2
    <2>5. Bookkeeping'
      <3>1. current' \subseteq listened' /\ received' \subseteq listened'
        BY <2>1, <2>2, ListenedNow DEF CurrentAfter
      <3>2. spoilt' \subseteq {Collection}
        BY <2>1, <2>2, MismatchedAre DEF SyncInv, Bookkeeping
      <3>3. ASSUME NEW t \in listened' \cap UserTargets, t # Collection
            PROVE  token'[t] = local'[t]
        <4>1. t \in listened \ Mismatched
          BY <2>1, <2>2, <3>3, ListenedNow, MismatchedAre
        <4>2. token'[t] = IF t \in Ready THEN v ELSE token[t]
          BY <1>2, <4>1, RequestsAre
        <4>3. local'[t] = IF t \in Ready THEN v ELSE local[t]
          BY <2>2 DEF LocalAfter
        <4> QED BY <3>3, <4>1, <4>2, <4>3 DEF SyncInv, Bookkeeping
      <3>4. ASSUME NEW t \in Targets
            PROVE  token'[t] <= v
        <4>1. token'[t] = IF Requests(v)[t] # <<>> THEN 0
                          ELSE IF t \in Ready THEN v ELSE token[t]
          BY <1>2 DEF Takes, RaiseWatchSnapshot
        <4>2. token[t] \in Nat /\ token[t] <= snapver /\ snapver \in Nat
          BY DEF TypeOK, SyncInv, Bookkeeping
        <4> QED BY <2>1, <4>1, <4>2
      <3> QED BY <2>1, <2>2, <3>1, <3>2, <3>3, <3>4 DEF Bookkeeping
    <2>6. AddedAreUpdates'
      <3> SUFFICES ASSUME NEW t \in listened', states'[t].out = 0
                   PROVE  states'[t].added = {}
        BY DEF AddedAreUpdates
      <3>1. Requests(v)[t] = <<>>
        BY <1>2, StatesAre
      <3>2. /\ states'[t] = IF t \in Ready THEN ClearPendingChanges(states[t]) ELSE states[t]
            /\ t \in Targets /\ t \in listened
        BY <1>2, <3>1, StatesAre, RequestsAre
      <3>3. t \in Ready
        BY <2>1, <3>2, ReadyIs
      <3>4. states[t] \in TargetState
        BY <3>2 DEF TypeOK
      <3> QED BY <3>2, <3>3, <3>4 DEF ClearPendingChanges, TargetState
    <2>7. TokensAreOfKeys' /\ StoredAreOfKeys' /\ Foreseen'
      BY <1>2, SnapshotTokens, SnapshotStored, SnapshotForeseen
    <2> QED BY <2>3, <2>4, <2>5, <2>6, <2>7 DEF SyncInv
  <1>3. CASE ~Takes(v)
    <2>1. /\ UNCHANGED <<up, idle, listened, token, aggregator, storeVars, viewVars, spoilt>>
          /\ UNCHANGED <<serverVars, stream>>
          /\ down # <<>> /\ down' = Tail(down) /\ Head(down).kind = "Snapshot"
      BY <1>1, <1>3 DEF HandleSnapshot, Receive, Takes, serverVars
    <2>2. UNCHANGED <<history, clock, srv, up, stream, listened, token, states, updates, resets,
                      local, stored, keys, snapver, current, received, spoilt>>
      BY <2>1 DEF aggregator, storeVars, viewVars, serverVars
    <2> QED BY <2>1, <2>2, SyncIgnored
  <1> QED BY <1>2, <1>3

LEMMA SyncInit == Init => SyncInv
  <1> SUFFICES ASSUME Init PROVE SyncInv
    OBVIOUS
  <1>1. /\ stream = "off" /\ listened = {} /\ resets = {} /\ current = {} /\ received = {}
        /\ spoilt = {} /\ token = [t \in Targets |-> 0] /\ snapver \in {0, 1}
        /\ stored = [t \in UserTargets |-> snapver]
        /\ keys = [t \in UserTargets |-> PetsAt(t, snapver)]
        /\ history \in [{1} -> SUBSET Pets]
    BY DEF Init
  <1>2. Len(history) = 1
    BY <1>1, InitType, HistoryType
  <1>3. StreamInOrder /\ ResumesAsAsked /\ Foreseen /\ Bookkeeping /\ TokensAreOfKeys
        /\ AddedAreUpdates
    BY <1>1, <1>2 DEF StreamInOrder, ResumesAsAsked, Foreseen, Bookkeeping, TokensAreOfKeys,
       AddedAreUpdates
  <1>4. StoredAreOfKeys
    BY <1>1 DEF StoredAreOfKeys, Continues, Covers
  <1> QED BY <1>3, <1>4 DEF SyncInv

LEMMA SyncWritten ==
  ASSUME TypeOK, TypeOK', AggregatorInv, AggregatorInv', TokensAgree, SyncInv,
         Commit \/ ServerAdvances \/ UNCHANGED vars
  PROVE  SyncInv'
  <1>1. /\ UNCHANGED <<srv, up, down, stream, listened, token, states, updates, resets,
                       local, stored, keys, received, snapver, spoilt, current>>
        /\ history' = history \/ \E S : history' = Append(history, S)
        /\ clock' = clock \/ (history' = history /\ clock < Len(history) /\ clock' = clock + 1)
    BY DEF Commit, ServerAdvances, vars, serverVars, streamVars, aggregator, storeVars, viewVars
  <1>2. history \in Seq(SUBSET Pets) /\ Len(history) \in Nat /\ clock \in Nat /\ snapver \in Nat
    BY HistoryType DEF TypeOK
  <1>3. Grows
    <2>1. CASE history' = history
      BY <1>1, <1>2, <2>1 DEF Grows
    <2>2. ASSUME NEW S, history' = Append(history, S)
          PROVE  Grows
      <3>1. Len(history') = Len(history) + 1 /\ \A w \in 1..Len(history) : history'[w] = history[w]
        BY <1>2, <2>2
      <3> QED BY <1>1, <1>2, <3>1 DEF Grows
    <2> QED BY <1>1, <2>1, <2>2
  <1>4. stream = "open" => clock <= clock' /\ clock' <= Len(history')
    <2> SUFFICES ASSUME stream = "open" PROVE clock <= clock' /\ clock' <= Len(history')
      OBVIOUS
    <2>1. clock <= Len(history) /\ Len(history) <= Len(history') /\ Len(history') \in Nat
      BY <1>3, HistoryType DEF SyncInv, StreamInOrder, Grows, TypeOK
    <2> QED BY <1>1, <1>2, <2>1
  <1> QED BY <1>1, <1>3, <1>4, SyncQuiet

LEMMA SyncStep ==
  ASSUME TypeOK, TypeOK', AggregatorInv, AggregatorInv', TokensAgree, SyncInv, [Next]_vars
  PROVE  SyncInv'
  <1>1. CASE Commit \/ ServerAdvances \/ UNCHANGED vars
    BY <1>1, SyncWritten
  <1>2. ASSUME NEW t \in Targets, ServerStep(t) \/ ServerReset(t)
        PROVE  SyncInv'
    BY <1>2, SyncServer
  <1>3. CASE ServerSendsSnapshot
    BY <1>3, SyncSnapshotSent
  <1>4. ASSUME NEW t \in UserTargets, Listen(t) \/ StopListening(t)
        PROVE  SyncInv'
    BY <1>4, SyncListen, SyncStopListening
  <1>5. CASE OnWatchStreamOpen
    BY <1>5, SyncOpen
  <1>6. CASE \/ OnWatchStreamClose \/ RestartNetwork \/ OnlineStateTimeout
             \/ IdleTimeout \/ Relaunch
    BY <1>6, SyncStream
  <1>7. CASE OnWatchStreamChange
    BY <1>7, SyncDocuments, SyncAnswered, SyncCurrent, SyncReset, SyncFilter, SyncSnapshot
    DEF OnWatchStreamChange
  <1> QED BY <1>1, <1>2, <1>3, <1>4, <1>5, <1>6, <1>7 DEF Next

LEMMA SyncAlways == Spec => []SyncInv
  <1>1. TypeOK /\ TypeOK' /\ AggregatorInv /\ AggregatorInv' /\ TokensAgree /\ SyncInv
          /\ [Next]_vars => SyncInv'
    BY SyncStep
  <1> QED BY <1>1, SyncInit, WatchTypeCorrect, AggregatorAlways, ResumeTokensAgree, PTL DEF Spec

(***************************************************************************)
(* What the client promises its listeners.                                 *)
(***************************************************************************)

(* The variables of module Listens, as they are here. *)
Seen == <<history, listened \cap UserTargets, current \ spoilt, local, keys, snapver>>

LEMMA SameQueries ==
  /\ Promised!UserTargets = UserTargets
  /\ \A t, S : Promised!Matching(t, S) = Matching(t, S)
  BY DEF Promised!UserTargets, UserTargets, Promised!Collection, Collection, Promised!Read, Read,
     Promised!Matching, Matching, Promised!IsDocumentQuery, IsDocumentQuery

LEMMA PromisedInit == Init => Promised!Init
  <1> SUFFICES ASSUME Init PROVE Promised!Init
    OBVIOUS
  <1>1. TypeOK
    BY InitType
  <1>2. /\ history \in [{1} -> SUBSET Pets] /\ listened = {} /\ current = {}
        /\ local \in [UserTargets -> Nat] /\ keys \in [UserTargets -> SUBSET Pets]
        /\ snapver \in Nat
    BY <1>1 DEF Init, TypeOK
  <1> QED BY <1>2, SameQueries DEF Promised!Init

LEMMA PromisedSnapshot ==
  ASSUME TypeOK, TypeOK', AggregatorInv, SyncInv, NEW v, Takes(v)
  PROVE  Promised!Snapshot
  <1>1. /\ stream = "open" /\ v \in Nat /\ v \in 1..Len(history) /\ snapver <= v /\ snapver' = v
    BY TakesOpen
  <1>2. /\ listened' = ListenedAfter(v) /\ current' = CurrentAfter /\ keys' = KeysAfter
        /\ local' = LocalAfter(v) /\ history' = history
        /\ spoilt' = (spoilt \ Mismatched) \cup {u \in Mismatched : KeysAfter[u] # {}}
        /\ down # <<>> /\ Head(down).kind = "Snapshot" /\ Head(down).number = v
    BY DEF Takes, RaiseWatchSnapshot
  <1>3. listened' \cap UserTargets = listened \cap UserTargets
    BY <1>1, <1>2, ListenedNow
  <1>4. v \in DOMAIN history
    BY <1>1, HistoryType
  <1>5. current' \ spoilt' \subseteq listened \cap UserTargets
    BY <1>2 DEF CurrentAfter
  <1>6. ASSUME NEW t \in current' \ spoilt'
        PROVE  \/ local'[t] = v /\ keys'[t] = Matching(t, history[v])
               \/ t \in current \ spoilt /\ local'[t] = local[t] /\ keys'[t] = keys[t]
    <2>1. t \in UserTargets /\ t \in listened /\ t \in listened' /\ t \in Targets
      BY <1>3, <1>5, <1>6, KindsOfTargets
    <2>2. IF t \in Ready THEN states[t].current ELSE t \in current
      BY <1>2, <1>6 DEF CurrentAfter
    <2>3. CASE t \in Ready
      <3>1. Continues(t, Believed(t), v)
        <4>1. \/ Continues(t, Believed(t), v)
              \/ t \in spoilt /\ t \notin resets
              \/ t \in resets /\ ~states[t].current
          BY <1>1, <1>2, <2>3, ReadyBelieves
        <4>2. t \in spoilt => t \in resets
          BY <1>1, <1>2, <1>6, MismatchedAre
        <4> QED BY <2>2, <2>3, <4>1, <4>2
      <3>2. Believed(t) = PetsAt(t, v)
        BY <1>1, <3>1, ContinuesNow
      <3>3. keys'[t] = Believed(t)
        <4>1. PICK S : S = Believed(t)
          OBVIOUS
        <4>2. RemoteKeys(t)' = S
          BY <2>1, <2>3, <4>1, KeysAre
        <4> QED BY <2>1, <4>1, <4>2 DEF RemoteKeys
      <3>4. local'[t] = v
        BY <1>2, <2>1, <2>3 DEF LocalAfter
      <3> QED BY <1>2, <1>4, <3>2, <3>3, <3>4 DEF PetsAt
    <2>4. CASE t \notin Ready
      <3>1. t \notin Mismatched
        BY <1>1, <2>4, MismatchedAre
      <3>2. t \in current /\ t \notin spoilt
        BY <1>2, <1>6, <2>2, <2>4, <3>1
      <3>3. local'[t] = local[t] /\ keys'[t] = keys[t]
        BY <1>2, <2>1, <2>4 DEF LocalAfter, KeysAfter
      <3> QED BY <3>2, <3>3
    <2> QED BY <2>3, <2>4
  <1>7. \A t \in current' \ spoilt' :
           Promised!BroughtTo(t, v) \/ (t \in current \ spoilt /\ Promised!Kept(t))
    <2> SUFFICES ASSUME NEW t \in current' \ spoilt'
                 PROVE  Promised!BroughtTo(t, v) \/ (t \in current \ spoilt /\ Promised!Kept(t))
      OBVIOUS
    <2>1. Promised!BroughtTo(t, v) <=> local'[t] = v /\ keys'[t] = Matching(t, history[v])
      BY SameQueries DEF Promised!BroughtTo
    <2>2. Promised!Kept(t) <=> local'[t] = local[t] /\ keys'[t] = keys[t]
      BY DEF Promised!Kept
    <2> QED BY <1>6, <2>1, <2>2
  <1> QED BY <1>1, <1>2, <1>3, <1>4, <1>5, <1>7 DEF Promised!Snapshot

LEMMA PromisedListens ==
  ASSUME TypeOK, SyncInv, NEW t \in UserTargets, Listen(t) \/ StopListening(t)
  PROVE  Promised!Listen(t) \/ Promised!StopListening(t)
  <1>1. CASE Listen(t)
    <2>1. /\ t \notin listened /\ listened' = listened \cup {t}
          /\ local' = [local EXCEPT ![t] = stored[t]]
          /\ UNCHANGED <<history, current, spoilt, keys, snapver>>
      BY <1>1 DEF Listen, serverVars, storeVars, viewVars
    <2>2. \A u \in current \ spoilt : u # t /\ u \in UserTargets
      BY <2>1 DEF SyncInv, Bookkeeping, TypeOK
    <2>3. \A u \in current \ spoilt : local'[u] = local[u] /\ keys'[u] = keys[u]
      BY <2>1, <2>2 DEF TypeOK
    <2>4. listened' \cap UserTargets = (listened \cap UserTargets) \cup {t}
      BY <2>1
    <2> QED BY <2>1, <2>3, <2>4 DEF Promised!Listen, Promised!Kept
  <1>2. CASE StopListening(t)
    <2>1. /\ t \in listened
          /\ listened' = listened \ ({t} \cup ((listened \cap LimboTargets)
                                                  \ Wanted(limbo', listened)))
          /\ current' = current \ {t}
          /\ UNCHANGED <<history, spoilt, local, keys, snapver>>
      BY <1>2 DEF StopListening, serverVars
    <2>2. listened' \cap UserTargets = (listened \cap UserTargets) \ {t}
      BY <2>1, KindsOfTargets
    <2>3. current' \ spoilt' = (current \ spoilt) \ {t}
      BY <2>1
    <2> QED BY <2>1, <2>2, <2>3 DEF Promised!StopListening, Promised!Kept
  <1> QED BY <1>1, <1>2

LEMMA PromisedOffline ==
  ASSUME \/ OnWatchStreamClose \/ RestartNetwork \/ OnlineStateTimeout \/ IdleTimeout
  PROVE  Promised!GoOffline \/ UNCHANGED Seen
  <1>1. /\ UNCHANGED <<history, listened, local, keys, snapver, spoilt>>
        /\ current' = {} \/ current' = current
    BY DEF OnWatchStreamClose, RestartNetwork, OnlineStateTimeout, IdleTimeout, SetAndBroadcast,
       storeVars, serverVars
  <1> QED BY <1>1 DEF Promised!GoOffline, Seen

LEMMA PromisedStep ==
  ASSUME TypeOK, TypeOK', AggregatorInv, SyncInv, [Next]_vars
  PROVE  Promised!Next \/ UNCHANGED Seen
  <1>1. CASE Commit
    <2>1. \E S \in SUBSET Pets : history' = Append(history, S)
      <3>1. PICK p \in Pets : \E S \in {Latest \cup {p}, Latest \ {p}} :
                                 S # Latest /\ history' = Append(history, S)
        BY <1>1 DEF Commit
      <3>2. Latest \subseteq Pets
        BY HistoryType DEF Latest
      <3> QED BY <3>1, <3>2
    <2>2. UNCHANGED <<listened, current, spoilt, local, keys, snapver>>
      BY <1>1 DEF Commit, storeVars, viewVars
    <2> QED BY <2>1, <2>2 DEF Promised!Next, Promised!Commit
  <1>2. CASE ServerAdvances \/ ServerSendsSnapshot \/ OnWatchStreamOpen \/ UNCHANGED vars
    BY <1>2 DEF ServerAdvances, ServerSendsSnapshot, OnWatchStreamOpen, vars, Seen, serverVars,
       storeVars, viewVars
  <1>3. ASSUME NEW t \in Targets, ServerStep(t) \/ ServerReset(t)
        PROVE  UNCHANGED Seen
    BY <1>3 DEF ServerStep, ServerReset, ServerWatch, ServerUnwatch, ServerSendsDocuments,
       ServerSendsCurrent, ServerSendsFilter, Say, storeVars, viewVars, Seen
  <1>4. ASSUME NEW t \in UserTargets, Listen(t) \/ StopListening(t)
        PROVE  Promised!Next
    BY <1>4, PromisedListens, SameQueries DEF Promised!Next
  <1>5. CASE \/ OnWatchStreamClose \/ RestartNetwork \/ OnlineStateTimeout \/ IdleTimeout
    BY <1>5, PromisedOffline DEF Promised!Next
  <1>6. CASE Relaunch
    BY <1>6 DEF Relaunch, Promised!Next, Promised!Relaunch
  <1>7. CASE OnWatchStreamChange
    <2>1. CASE HandleSnapshot
      <3>1. PICK v : v = Head(down).number
        OBVIOUS
      <3>2. CASE Takes(v)
        BY <3>2, PromisedSnapshot DEF Promised!Next
      <3>3. CASE ~Takes(v)
        BY <2>1, <3>1, <3>3 DEF HandleSnapshot, Receive, Takes, serverVars, storeVars, viewVars, Seen
      <3> QED BY <3>2, <3>3
    <2>2. CASE ~HandleSnapshot
      BY <1>7, <2>2 DEF OnWatchStreamChange, HandleDocumentChange, HandleTargetAdded,
         HandleTargetRemoved, HandleTargetCurrent, HandleTargetReset, HandleExistenceFilter,
         Received, serverVars, storeVars, viewVars, Seen
    <2> QED BY <2>1, <2>2
  <1> QED BY <1>1, <1>2, <1>3, <1>4, <1>5, <1>6, <1>7 DEF Next

(* Whatever the network does, a listen that is in sync has exactly the pets the
   server had at the snapshot that brought it there, listens that one snapshot
   brings in sync are of one moment, and no snapshot is of an earlier moment
   than one before it. *)
THEOREM ListenersGetWhatIsPromised == Spec => PromisedSpec
  <1>1. TypeOK /\ TypeOK' /\ AggregatorInv /\ SyncInv /\ [Next]_vars
          => [Promised!Next]_Promised!listensVars
    BY PromisedStep DEF Promised!listensVars, Seen
  <1> QED BY <1>1, PromisedInit, WatchTypeCorrect, AggregatorAlways, SyncAlways, PTL
          DEF Spec, PromisedSpec, Promised!Spec


---------------------------------------------------------------------------------
(***************************************************************************)
(* What follows from the promise alone.                                    *)
(***************************************************************************)

PromiseInv ==
  /\ history \in Seq(SUBSET Pets) /\ history # <<>>
  /\ snapver \in Nat
  /\ Promised!InSyncIsOneCommit

LEMMA PromiseInvInit == Promised!Init => PromiseInv
  <1> SUFFICES ASSUME Promised!Init PROVE PromiseInv
    OBVIOUS
  <1>1. history \in [{1} -> SUBSET Pets] /\ snapver \in Nat /\ current \ spoilt = {}
    BY DEF Promised!Init
  <1>2. history \in Seq(SUBSET Pets) /\ history # <<>>
    <2>1. 1 .. 1 = {1}
      OBVIOUS
    <2>2. history \in [1 .. 1 -> SUBSET Pets] /\ 1 \in Nat
      BY <1>1, <2>1
    <2>3. history \in Seq(SUBSET Pets)
      BY <2>2, SeqDef
    <2> QED BY <1>1, <2>3, EmptySeq
  <1> QED BY <1>1, <1>2 DEF PromiseInv, Promised!InSyncIsOneCommit

(* The step of a listen that is in sync before and after. *)
LEMMA PromiseInvStep ==
  ASSUME PromiseInv, [Promised!Next]_Promised!listensVars
  PROVE  /\ PromiseInv'
         /\ \A t \in (current \ spoilt) \cap (current' \ spoilt') : local[t] <= local'[t]
  <1> DEFINE synced == current \ spoilt
             heard  == listened \cap UserTargets
             Right(t) == /\ t \in heard
                         /\ local[t] \in DOMAIN history
                         /\ local[t] <= snapver
                         /\ keys[t] = Matching(t, history[local[t]])
             Stays(t) == local'[t] = local[t] /\ keys'[t] = keys[t]
  <1>1. /\ history \in Seq(SUBSET Pets) /\ history # <<>> /\ snapver \in Nat
        /\ \A t \in synced : Right(t)
        /\ DOMAIN history = 1 .. Len(history) /\ Len(history) \in Nat
    BY SameQueries DEF PromiseInv, Promised!InSyncIsOneCommit
  <1>2. \A t : Promised!Kept(t) <=> Stays(t)
    BY DEF Promised!Kept
  <1>3. ASSUME UNCHANGED <<history, snapver>>,
               \A t \in synced' : t \in synced /\ t \in heard' /\ Stays(t)
        PROVE  /\ PromiseInv'
               /\ \A t \in synced \cap synced' : local[t] <= local'[t]
    <2>1. ASSUME NEW t \in synced'
          PROVE  Right(t)'
      BY <1>1, <1>3, <2>1
    <2>2. ASSUME NEW t \in synced'
          PROVE  local[t] <= local'[t]
      BY <1>1, <1>3, <2>2
    <2> QED BY <1>1, <1>3, <2>1, <2>2, SameQueries
            DEF PromiseInv, Promised!InSyncIsOneCommit
  <1>4. CASE UNCHANGED Promised!listensVars
    BY <1>1, <1>3, <1>4 DEF Promised!listensVars
  <1>5. CASE Promised!Commit
    <2>1. /\ \E S \in SUBSET Pets : history' = Append(history, S)
          /\ UNCHANGED <<heard, synced, local, keys, snapver>>
      BY <1>5 DEF Promised!Commit
    <2>2. /\ history' \in Seq(SUBSET Pets) /\ history' # <<>>
          /\ \A v \in DOMAIN history : v \in DOMAIN history' /\ history'[v] = history[v]
      BY <1>1, <2>1
    <2>3. ASSUME NEW t \in synced'
          PROVE  Right(t)' /\ local[t] <= local'[t]
      BY <1>1, <2>1, <2>2
    <2> QED BY <1>1, <2>1, <2>2, <2>3, SameQueries
            DEF PromiseInv, Promised!InSyncIsOneCommit
  <1>6. CASE \E t \in UserTargets : Promised!Listen(t) \/ Promised!StopListening(t)
    BY <1>1, <1>2, <1>3, <1>6 DEF Promised!Listen, Promised!StopListening
  <1>7. CASE Promised!GoOffline \/ Promised!Relaunch
    BY <1>1, <1>3, <1>7 DEF Promised!GoOffline, Promised!Relaunch
  <1>8. CASE Promised!Snapshot
    <2>1. PICK v \in DOMAIN history :
            /\ snapver <= v /\ snapver' = v
            /\ synced' \subseteq heard
            /\ \A t \in synced' : Promised!BroughtTo(t, v) \/ (t \in synced /\ Promised!Kept(t))
      BY <1>8 DEF Promised!Snapshot
    <2>2. history' = history /\ heard' = heard
      BY <1>8 DEF Promised!Snapshot
    <2>3. ASSUME NEW t \in synced'
          PROVE  \/ local'[t] = v /\ keys'[t] = Matching(t, history[v])
                 \/ t \in synced /\ Stays(t)
      <3>1. Promised!BroughtTo(t, v) <=> local'[t] = v /\ keys'[t] = Matching(t, history[v])
        BY SameQueries DEF Promised!BroughtTo
      <3> QED BY <1>2, <2>1, <3>1
    <2>4. ASSUME NEW t \in synced'
          PROVE  Right(t)'
      BY <1>1, <2>1, <2>2, <2>3
    <2>5. ASSUME NEW t \in synced \cap synced'
          PROVE  local[t] <= local'[t]
      BY <1>1, <2>1, <2>3
    <2>6. snapver' \in Nat
      BY <1>1, <2>1
    <2> QED BY <1>1, <2>2, <2>4, <2>5, <2>6, SameQueries
            DEF PromiseInv, Promised!InSyncIsOneCommit
  <1> QED BY <1>4, <1>5, <1>6, <1>7, <1>8, SameQueries DEF Promised!Next

(* Of a query that the client says is in sync, the view has the pets of one
   commit (what remote_event.h says of 'current' and CurrentIsConsistent finds
   to fail holds of every current target but the spoilt ones), and no listener
   is taken back behind what it was shown. *)
THEOREM ListenersSeeOneCommit ==
  Spec => []Promised!InSyncIsOneCommit /\ Promised!InSyncNeverGoesBack
  <1>1. PromiseInv /\ [Promised!Next]_Promised!listensVars
          => /\ PromiseInv'
             /\ [\A t \in (current \ spoilt) \cap (current \ spoilt)' :
                   local[t] <= local'[t]]_Promised!listensVars
    BY PromiseInvStep
  <1>2. PromiseInv => Promised!InSyncIsOneCommit
    BY DEF PromiseInv
  <1>3. PromisedSpec => []PromiseInv
    BY <1>1, PromiseInvInit, PTL DEF PromisedSpec, Promised!Spec
  <1>4. PromisedSpec => []Promised!InSyncIsOneCommit
    BY <1>2, <1>3, PTL
  <1>5. PromisedSpec => Promised!InSyncNeverGoesBack
    BY <1>1, <1>3, PTL DEF PromisedSpec, Promised!Spec, Promised!InSyncNeverGoesBack
  <1> QED BY <1>4, <1>5, ListenersGetWhatIsPromised
================================================================================
