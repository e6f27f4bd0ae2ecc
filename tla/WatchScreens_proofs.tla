-------------------------- MODULE WatchScreens_proofs ---------------------------
(***************************************************************************)
(* What the screens show.  A query of which the client says that it is in  *)
(* sync, with no pet in limbo, shows the pets the server had at the last   *)
(* snapshot: SyncedScreenIsServers, for any pets, any queries and any      *)
(* number of commits and failures.                                         *)
(*                                                                         *)
(* SyncInv, of module WatchPromise_proofs, says of which pets the keys of  *)
(* a target are; but the screen shows documents of the cache, and many     *)
(* targets share those, also ones whose keys are wrong.  So DocumentsInv   *)
(* says of every document where it is on its way from the server to the    *)
(* cache: in a message that will count, among the updates that wait for    *)
(* the next snapshot, or cached; and that it is of a version the pet has   *)
(* kept until the commit that is told of.  It rests on two facts: messages *)
(* tell of the commits in order, and a pet the client takes for missing is *)
(* not on the server (which is SyncInv once more).                         *)
(***************************************************************************)
EXTENDS WatchPromise_proofs

(***************************************************************************)
(* What the cache is going to have.                                        *)
(***************************************************************************)

(* The document that the cache or an update has of p has lasted until commit v,
   or is of a later one. *)
CacheHas(p, v) == cache[p].is = "Document" /\ Lasts(p, cache[p].version, v)
UpdateHas(p, v) == updates[p].is = "Document" /\ Lasts(p, updates[p].version, v)

(* One of the first k messages of t that count brings such a document. *)
SentWithin(t, p, v, k) ==
  \E j \in 1..k :
    /\ Settled(down, t, j - 1)
    /\ down[j].kind = "Documents" /\ down[j].target = t /\ p \in down[j].added
    /\ Lasts(p, down[j].number, v)

(* After k messages the client will have a document of p that lasts until v. *)
WillHave(t, p, v, k) == CacheHas(p, v) \/ UpdateHas(p, v) \/ SentWithin(t, p, v, k)

(* The pets of t that a snapshot in flight takes for granted will be there ... *)
ShownAreSent(t) ==
  \A k \in 1..Len(down) : Settled(down, t, k - 1) /\ down[k].kind = "Snapshot" =>
    \A p \in PetsAt(t, down[k].number) :
      Lasts(p, down[k].number, snapver) => WillHave(t, p, down[k].number, k - 1)

(* ... and those that the server will not send again. *)
KnownAreSent(t) ==
  \A p \in PetsAt(t, srv[t].at) :
    Lasts(p, srv[t].at, snapver) /\ Lasts(p, srv[t].at, clock) =>
      WillHave(t, p, clock, Len(down))

(* The pets that t had at commit u are in the cache, but for some that were gone
   for a while since, up to the last snapshot. *)
CachedAt(t, u) == \A p \in PetsAt(t, u) : Lasts(p, u, snapver) => CacheHas(p, u)

(* Document d says of p what was so at commit c. *)
Says(d, p, c) ==
  \/ d.is = "Document" /\ d.version \in 1..c /\ Lasts(p, d.version, c)
  \/ d.is = "NoDocument" /\ d.version = c /\ p \notin history[c]
  \/ d = Forgotten /\ snapver <= c /\ p \notin history[c]

(* Message m says what was so at commit c. *)
Tells(m, c) ==
  /\ m.kind = "Snapshot" => m.number = c
  /\ m.kind = "Documents" =>
       /\ m.number = c /\ c \in 1..Len(history)
       /\ m.added \subseteq history[c] /\ m.removed \cap history[c] = {}
  /\ m.kind = "Filter" /\ IsDocumentQuery(m.target) /\ m.number = 0 =>
       c \in 1..Len(history) /\ snapver <= c /\ m.target.path \notin history[c]

(* The messages tell of the commits g, one after the other, and the updates are
   of no later ones. *)
Dated(g) ==
  /\ g \in [0..Len(down) -> Nat]
  /\ \A i, j \in 0..Len(down) : i <= j => g[i] <= g[j]
  /\ g[Len(down)] <= clock
  /\ \A i \in 1..Len(down) : Tells(down[i], g[i])
  /\ \A p \in Pets : updates[p] # Unknown => \E c \in 1..g[0] : Says(updates[p], p, c)

(* The cache says what was so when it was written. *)
CacheIsTrue ==
  \A p \in Pets :
    /\ cache[p].version <= snapver
    /\ cache[p].is = "none" => cache[p].version = 0
    /\ cache[p].is = "Document" => p \in history[cache[p].version] /\ cache[p].version # 0
    /\ cache[p].is = "NoDocument" => p \notin history[cache[p].version] /\ cache[p].version # 0

(* What is under way, or waits for a snapshot, was so at some commit, in order. *)
MessagesAreTrue == /\ stream = "open" => \E g : Dated(g)
                   /\ stream # "open" => updates = Nothing

(* A target with no request under way has been sent all that it lacks. *)
DocumentsComeInTime ==
  stream = "open" => \A t \in listened : up[t] = <<>> => ShownAreSent(t) /\ KnownAreSent(t)

(* What a token vouches for, in memory or on disk, is cached. *)
TokensAreCached ==
  /\ \A t \in listened : CachedAt(t, token[t])
  /\ \A t \in UserTargets : CachedAt(t, stored[t]) /\ CachedAt(t, local[t])

(* Limbo is what is cached and not said to match. *)
LimboIsUnkeyed == \A t \in current : limbo[t] = Matching(t, Cached(cache)) \ keys[t]

(* A target in sync has the keys of the commit it was in sync with. *)
SyncedAreOfACommit ==
  \A t \in current \ spoilt : local[t] \in 1..Len(history) /\ keys[t] = PetsAt(t, local[t])

DocumentsInv ==
  /\ MessagesAreTrue
  /\ CacheIsTrue
  /\ DocumentsComeInTime
  /\ TokensAreCached
  /\ LimboIsUnkeyed
  /\ SyncedAreOfACommit

---------------------------------------------------------------------------------
(* A pet lasts from a to c if it does to b and from there. *)
LEMMA LastsJoined ==
  ASSUME NEW p, NEW a \in Int, NEW b \in Int, NEW c \in Int, Lasts(p, a, b), Lasts(p, b, c)
  PROVE  Lasts(p, a, c)
  <1> SUFFICES ASSUME NEW w \in a..c PROVE p \in history[w]
    BY DEF Lasts
  <1>1. w \in a..b \/ w \in b..c
    OBVIOUS
  <1> QED BY <1>1 DEF Lasts

(* A pet that lasts does so for any part of the time. *)
LEMMA LastsPart ==
  ASSUME NEW p, NEW a \in Int, NEW b \in Int, NEW c \in Int, NEW d \in Int,
         Lasts(p, a, d), a <= b, c <= d
  PROVE  Lasts(p, b, c)
  <1> SUFFICES ASSUME NEW w \in b..c PROVE p \in history[w]
    BY DEF Lasts
  <1>1. w \in a..d
    OBVIOUS
  <1> QED BY <1>1 DEF Lasts

(* The version of a pet is the first commit in a row that has it. *)
LEMMA WrittenAtLasts ==
  ASSUME NEW p, NEW v \in Nat, v # 0, p \in history[v]
  PROVE  WrittenAt(p, v) \in 1..v /\ Lasts(p, WrittenAt(p, v), v)
  <1> DEFINE run == {w \in 1..v : \A u \in w..v : p \in history[u]}
             less == {ss \in Nat \X Nat : ss[1] < ss[2]}
  <1>1. v \in run /\ run \subseteq Nat /\ run # {}
    OBVIOUS
  <1>2. PICK m \in run : \A y \in run : ~(<<y, m>> \in less)
    <2>1. IsWellFoundedOn(less, Nat)
      BY NatLessThanWellFounded DEF OpToRel
    <2> HIDE DEF run, less
    <2> QED BY <1>1, <2>1, WFMin
  <1>3. m \in 1..v /\ \A u \in m..v : p \in history[u]
    OBVIOUS
  <1>4. run = m..v
    <2>1. \A w \in m..v : w \in run
      BY <1>3
    <2>2. ASSUME NEW w \in run PROVE w \in m..v
      <3>1. w \in 1..v /\ m \in Nat /\ w \in Nat
        BY <1>3
      <3>2. ~(w < m)
        BY <1>2, <3>1
      <3> QED BY <3>1, <3>2
    <2> QED BY <2>1, <2>2
  <1>5. Cardinality(run) = v - m + 1
    <2>1. m \in Int /\ v \in Int /\ ~(m > v)
      BY <1>3
    <2>2. Cardinality(m..v) = v - m + 1
      BY <2>1, FS_Interval
    <2> QED BY <1>4, <2>2
  <1>6. WrittenAt(p, v) = (v + 1) - (v - m + 1)
    BY <1>5 DEF WrittenAt
  <1>7. WrittenAt(p, v) = m
    BY <1>3, <1>6
  <1> QED BY <1>3, <1>7 DEF Lasts

(***************************************************************************)
(* A snapshot is taken into the cache.                                     *)
(***************************************************************************)

(* A pet that the client takes for missing is not on the server. *)
LEMMA MissingIsGone ==
  ASSUME TypeOK, AggregatorInv, SyncInv, NEW v, Takes(v), NEW t \in Missing
  PROVE  t.path \notin history[v] /\ updates[t.path] = Unknown
  <1>1. /\ stream = "open" /\ v \in Nat /\ snapver <= v /\ v \in 1..Len(history)
    BY TakesOpen
  <1>2. /\ t \in Ready /\ IsDocumentQuery(t) /\ updates[t.path] = Unknown
        /\ t.path \notin RemoteKeys(t)
    BY DEF Missing
  <1>3. t \notin spoilt /\ t \notin resets
    <2>1. ~IsDocumentQuery(Collection)
      BY DEF IsDocumentQuery, Collection
    <2> QED BY <1>2, <2>1 DEF SyncInv, Bookkeeping
  <1>4. down # <<>> /\ Head(down).kind = "Snapshot" /\ Head(down).number = v
    BY DEF Takes
  <1>5. Continues(t, Believed(t), v)
    BY <1>1, <1>2, <1>3, <1>4, ReadyBelieves
  <1>6. Believed(t) = PetsAt(t, v)
    BY <1>1, <1>5, ContinuesNow
  <1>7. t.path \notin states[t].added
    <2>1. t \in listened /\ states[t].out = 0
      BY <1>1, <1>2, ReadyIs DEF Ready
    <2> QED BY <1>2, <2>1 DEF SyncInv, AddedAreUpdates
  <1>8. t.path \notin Believed(t)
    BY <1>2, <1>7 DEF Believed
  <1> QED BY <1>1, <1>2, <1>6, <1>8, InPetsAt

(* The documents of the event say what was so at some commit up to its own. *)
LEMMA EventIsTrue ==
  ASSUME TypeOK, AggregatorInv, SyncInv, NEW v, Takes(v), NEW g, Dated(g), NEW p \in Pets,
         NEW doc, doc = DocumentUpdates(v)[p]
  PROVE  /\ doc = updates[p] \/ (updates[p] = Unknown /\ doc.is = "NoDocument")
         /\ doc = Unknown \/ \E c \in 1..v : Says(doc, p, c)
  <1>1. v \in Nat /\ v # 0
    BY TakesOpen
  <1>2. g[0] <= v /\ g[0] \in Nat
    <2>1. Len(down) \in Nat /\ Len(down) # 0 /\ Head(down) = down[1]
      BY EmptySeq DEF TypeOK, Takes
    <2>2. 0 \in 0..Len(down) /\ 1 \in 0..Len(down) /\ 1 \in 1..Len(down)
      BY <2>1
    <2>3. g[0] <= g[1] /\ g[0] \in Nat
      BY <2>2 DEF Dated
    <2>4. g[1] = v
      BY <2>1, <2>2 DEF Dated, Tells, Takes
    <2> QED BY <2>3, <2>4
  <1>3. doc = IF p \in {t.path : t \in Missing} THEN NoDocument(v) ELSE updates[p]
    BY DEF DocumentUpdates, Removed
  <1>4. CASE p \in {t.path : t \in Missing}
    <2>1. updates[p] = Unknown /\ p \notin history[v]
      BY <1>4, MissingIsGone
    <2>2. doc.is = "NoDocument" /\ doc.version = v
      BY <1>3, <1>4 DEF NoDocument
    <2> QED BY <1>1, <2>1, <2>2 DEF Says
  <1>5. CASE p \notin {t.path : t \in Missing}
    <2>1. doc = updates[p]
      BY <1>3, <1>5
    <2>2. updates[p] # Unknown => \E c \in 1..g[0] : Says(updates[p], p, c)
      BY DEF Dated
    <2>3. \A c \in 1..g[0] : c \in 1..v
      BY <1>1, <1>2
    <2> QED BY <2>1, <2>2, <2>3
  <1> QED BY <1>4, <1>5

(* What becomes of the cached document. *)
LEMMA CacheBecomes ==
  ASSUME TypeOK, NEW v, Takes(v), NEW p \in Pets, NEW doc, doc = DocumentUpdates(v)[p]
  PROVE  /\ doc = Forgotten => cache'[p] = Unknown
         /\ doc # Forgotten /\ doc.version > cache[p].version => cache'[p] = doc
         /\ doc # Forgotten /\ ~(doc.version > cache[p].version) => cache'[p] = cache[p]
  <1>1. cache' = CacheAfter(v)
    BY DEF Takes, RaiseWatchSnapshot
  <1>2. doc = Forgotten => ~(doc.version > cache[p].version)
    <2>1. Forgotten.version = 0 /\ cache[p].version \in Nat
      BY DEF Forgotten, NoDocument, TypeOK, DocumentState
    <2> QED BY <2>1
  <1>3. cache'[p] = CASE doc = Forgotten                -> Unknown
                      [] doc.version > cache[p].version -> doc
                      [] OTHER                          -> cache[p]
    BY <1>1 DEF CacheAfter
  <1> QED BY <1>2, <1>3

(* No document that lasts is lost. *)
LEMMA CacheTaken ==
  ASSUME TypeOK, TypeOK', AggregatorInv, SyncInv, CacheIsTrue, NEW v, Takes(v),
         NEW g, Dated(g), NEW p \in Pets, NEW n \in Int, v <= n, CacheHas(p, n) \/ UpdateHas(p, n)
  PROVE  CacheHas(p, n)'
  <1>1. /\ v \in Nat /\ snapver <= v /\ snapver \in Nat /\ history' = history
    <2>1. snapver \in Nat
      BY DEF TypeOK
    <2> QED BY <2>1, TakesOpen DEF Takes
  <1>2. PICK doc : doc = DocumentUpdates(v)[p]
    OBVIOUS
  <1>3. /\ doc = updates[p] \/ (updates[p] = Unknown /\ doc.is = "NoDocument")
        /\ doc = Unknown \/ \E c \in 1..v : Says(doc, p, c)
    BY <1>2, EventIsTrue
  <1>4. /\ doc = Forgotten => cache'[p] = Unknown
        /\ doc # Forgotten /\ doc.version > cache[p].version => cache'[p] = doc
        /\ doc # Forgotten /\ ~(doc.version > cache[p].version) => cache'[p] = cache[p]
    BY <1>2, CacheBecomes
  <1>5. cache[p] \in DocumentState /\ cache[p].version \in Nat
    BY DEF TypeOK, DocumentState
  <1>6. /\ cache[p].version <= snapver
        /\ cache[p].is = "none" => cache[p].version = 0
        /\ cache[p].is = "Document" => p \in history[cache[p].version] /\ cache[p].version # 0
        /\ cache[p].is = "NoDocument" => p \notin history[cache[p].version] /\ cache[p].version # 0
    BY DEF CacheIsTrue
  <1>7. Unknown.is = "none" /\ Unknown.version = 0 /\ Forgotten.is = "NoDocument"
        /\ Unknown # Forgotten /\ Forgotten.version = 0
    BY DEF Unknown, Forgotten, NoDocument
  <1>8. ASSUME cache'[p].is = "Document", Lasts(p, cache'[p].version, n)
        PROVE  CacheHas(p, n)'
    BY <1>1, <1>8 DEF CacheHas, Lasts
  <1>9. CASE CacheHas(p, n)
    <2>1. PICK w \in Nat : w = cache[p].version
      BY <1>5
    <2>2. cache[p].is = "Document" /\ Lasts(p, w, n) /\ w <= v
      BY <1>1, <1>6, <1>9, <2>1 DEF CacheHas
    <2>3. CASE doc = Unknown
      BY <1>4, <1>7, <1>8, <2>1, <2>2, <2>3
    <2>4. ASSUME NEW c \in 1..v, Says(doc, p, c)
          PROVE  CacheHas(p, n)'
      <3>1. c \in Int /\ c <= n
        BY <1>1
      <3>2. w <= c => p \in history[c]
        BY <2>2, <3>1 DEF Lasts
      <3>3. doc # Forgotten
        <4>1. snapver <= c => w <= c
          BY <1>1, <1>6, <2>1
        <4> QED BY <1>7, <2>4, <3>2, <4>1 DEF Says
      <3>4. CASE doc.is = "Document"
        <4>1. PICK d \in 1..c : d = doc.version
          BY <2>4, <3>4 DEF Says, Forgotten, NoDocument
        <4>2. d > w => Lasts(p, d, n)
          BY <2>2, <3>1, LastsPart
        <4> QED BY <1>4, <1>8, <2>1, <2>2, <3>3, <3>4, <4>1, <4>2
      <3>5. CASE doc.is # "Document"
        <4>1. doc.version = c /\ p \notin history[c]
          BY <2>4, <3>3, <3>5 DEF Says
        <4>2. ~(c > w)
          BY <3>1, <3>2, <4>1
        <4> QED BY <1>4, <1>8, <2>1, <2>2, <3>3, <4>1, <4>2
      <3> QED BY <3>4, <3>5
    <2> QED BY <1>3, <2>3, <2>4
  <1>10. CASE UpdateHas(p, n)
    <2>1. updates[p].is = "Document" /\ Lasts(p, updates[p].version, n)
      BY <1>10 DEF UpdateHas
    <2>2. doc = updates[p] /\ doc # Forgotten /\ doc # Unknown
      BY <1>3, <1>7, <2>1
    <2>3. PICK c \in 1..v : Says(doc, p, c)
      BY <1>3, <2>2
    <2>4. PICK d \in 1..c : d = doc.version
      BY <2>1, <2>2, <2>3 DEF Says
    <2>5. CASE d > cache[p].version
      BY <1>4, <1>8, <2>1, <2>2, <2>4, <2>5
    <2>6. CASE ~(d > cache[p].version)
      <3>1. PICK w \in Nat : w = cache[p].version
        BY <1>5
      <3>2. d <= w /\ w <= n /\ w # 0 /\ d \in Int
        BY <1>1, <1>6, <2>6, <3>1
      <3>3. p \in history[w]
        BY <2>1, <2>2, <2>4, <3>2 DEF Lasts
      <3>4. cache[p].is = "Document"
        BY <1>5, <1>6, <3>1, <3>2, <3>3 DEF DocumentState
      <3>5. Lasts(p, w, n)
        BY <2>1, <2>2, <2>4, <3>2, LastsPart
      <3> QED BY <1>4, <1>8, <2>2, <2>4, <2>6, <3>1, <3>4, <3>5
    <2> QED BY <2>5, <2>6
  <1> QED BY <1>9, <1>10

(* What a snapshot leaves in the cache is what was so at its version. *)
LEMMA CacheStaysTrue ==
  ASSUME TypeOK, TypeOK', AggregatorInv, SyncInv, CacheIsTrue, NEW v, Takes(v),
         NEW g, Dated(g)
  PROVE  CacheIsTrue'
  <1>1. /\ v \in Nat /\ v # 0 /\ snapver <= v /\ snapver \in Nat /\ history' = history
        /\ snapver' = v
    <2>1. snapver \in Nat
      BY DEF TypeOK
    <2> QED BY <2>1, TakesOpen DEF Takes
  <1> SUFFICES ASSUME NEW p \in Pets
      PROVE  /\ cache'[p].version <= v
             /\ cache'[p].is = "none" => cache'[p].version = 0
             /\ cache'[p].is = "Document" =>
                  p \in history[cache'[p].version] /\ cache'[p].version # 0
             /\ cache'[p].is = "NoDocument" =>
                  p \notin history[cache'[p].version] /\ cache'[p].version # 0
    BY <1>1 DEF CacheIsTrue
  <1>2. PICK doc : doc = DocumentUpdates(v)[p]
    OBVIOUS
  <1>3. doc = Unknown \/ \E c \in 1..v : Says(doc, p, c)
    BY <1>2, EventIsTrue
  <1>4. /\ doc = Forgotten => cache'[p] = Unknown
        /\ doc # Forgotten /\ doc.version > cache[p].version => cache'[p] = doc
        /\ doc # Forgotten /\ ~(doc.version > cache[p].version) => cache'[p] = cache[p]
    BY <1>2, CacheBecomes
  <1>5. cache[p].version \in Nat
    BY DEF TypeOK, DocumentState
  <1>6. Unknown.is = "none" /\ Unknown.version = 0
    BY DEF Unknown
  <1>7. CASE cache'[p] = cache[p]
    BY <1>1, <1>5, <1>7 DEF CacheIsTrue
  <1>8. CASE cache'[p] = Unknown
    BY <1>1, <1>6, <1>8
  <1>9. CASE doc # Forgotten /\ doc.version > cache[p].version /\ cache'[p] = doc
    <2>1. PICK c \in 1..v : Says(doc, p, c)
      BY <1>3, <1>5, <1>6, <1>9
    <2>2. CASE doc.is = "Document"
      <3>1. PICK d \in 1..c : d = doc.version /\ Lasts(p, d, c)
        BY <1>9, <2>1, <2>2 DEF Says
      <3>2. d \in d..c /\ d <= v /\ d # 0
        BY <1>1
      <3>3. p \in history[d]
        BY <3>1, <3>2 DEF Lasts
      <3> QED BY <1>9, <2>2, <3>1, <3>2, <3>3
    <2>3. CASE doc.is # "Document"
      <3>1. doc.is = "NoDocument" /\ doc.version = c /\ p \notin history[c]
        BY <1>9, <2>1, <2>3 DEF Says
      <3>2. c <= v /\ c # 0
        OBVIOUS
      <3> QED BY <1>9, <3>1, <3>2
    <2> QED BY <2>2, <2>3
  <1> QED BY <1>4, <1>7, <1>8, <1>9

(***************************************************************************)
(* A message is heard.                                                     *)
(***************************************************************************)

(* The oldest message is of a commit, and no other is of an earlier one. *)
LEMMA FirstIsDated ==
  ASSUME TypeOK, NEW g, Dated(g), down # <<>>
  PROVE  /\ Len(down) \in Nat /\ Len(down) # 0 /\ Head(down) = down[1]
         /\ g[0] \in Nat /\ g[1] \in Nat /\ g[0] <= g[1] /\ Tells(Head(down), g[1])
         /\ \A k \in 1..Len(down) : g[k] \in Nat /\ g[1] <= g[k] /\ g[k] <= clock
                                    /\ Tells(down[k], g[k])
  <1>1. Len(down) \in Nat /\ Len(down) # 0 /\ Head(down) = down[1]
    BY EmptySeq DEF TypeOK
  <1>2. 0 \in 0..Len(down) /\ 1 \in 0..Len(down) /\ 1 \in 1..Len(down) /\ Len(down) \in 0..Len(down)
    BY <1>1
  <1>3. g[0] \in Nat /\ g[1] \in Nat /\ g[0] <= g[1] /\ Tells(Head(down), g[1])
    BY <1>1, <1>2 DEF Dated
  <1>4. ASSUME NEW k \in 1..Len(down)
        PROVE  g[k] \in Nat /\ g[1] <= g[k] /\ g[k] <= clock /\ Tells(down[k], g[k])
    <2>1. k \in 0..Len(down) /\ 1 <= k /\ k <= Len(down)
      BY <1>1
    <2>2. g[k] \in Nat /\ g[1] <= g[k] /\ g[k] <= g[Len(down)] /\ g[Len(down)] <= clock
          /\ g[Len(down)] \in Nat
      BY <1>2, <2>1 DEF Dated
    <2>3. clock \in Nat
      BY DEF TypeOK
    <2> QED BY <2>2, <2>3 DEF Dated
  <1> QED BY <1>1, <1>3, <1>4

(* What is said of the same or a later commit does not shorten a life. *)
LEMMA UpdateStays ==
  ASSUME UNCHANGED history, NEW p, NEW b \in Nat, NEW c \in Nat, NEW n \in Int, b <= c, c <= n,
         UpdateHas(p, n), \E a \in 1..b : Says(updates[p], p, a), Says(updates'[p], p, c)
  PROVE  UpdateHas(p, n)'
  <1>1. updates[p].is = "Document" /\ Lasts(p, updates[p].version, n)
    BY DEF UpdateHas
  <1>2. updates[p] # Forgotten
    BY <1>1 DEF Forgotten, NoDocument
  <1>3. PICK a \in 1..b : Says(updates[p], p, a)
    OBVIOUS
  <1>4. PICK w \in 1..a : w = updates[p].version
    BY <1>1, <1>2, <1>3 DEF Says
  <1>5. w <= c /\ w \in Int
    OBVIOUS
  <1>6. p \in history[c]
    BY <1>1, <1>4, <1>5 DEF Lasts
  <1>7. PICK d \in 1..c : d = updates'[p].version /\ updates'[p].is = "Document" /\ Lasts(p, d, c)
    BY <1>6 DEF Says
  <1>8. Lasts(p, c, n)
    BY <1>1, <1>4, <1>5, LastsPart
  <1>9. Lasts(p, d, n)
    BY <1>7, <1>8, LastsJoined
  <1> QED BY <1>7, <1>9 DEF UpdateHas, Lasts

(* A document that is on its way is still on its way, or has arrived, when the
   oldest message has been heard. *)
LEMMA WillHaveHeard ==
  ASSUME TypeOK, NEW g, Dated(g), down # <<>>, down' = Tail(down),
         UNCHANGED <<history, cache>>,
         NEW p \in Pets, NEW t \in Targets, NEW n \in Int, g[1] <= n,
         updates'[p] = updates[p] \/ Says(updates'[p], p, g[1]),
         /\ Settled(down, t, 0) /\ Head(down).kind = "Documents" /\ Head(down).target = t
         /\ p \in Head(down).added
         => updates'[p].is = "Document" /\ Says(updates'[p], p, g[1]),
         NEW l \in Nat, l + 1 <= Len(down), WillHave(t, p, n, l + 1)
  PROVE  WillHave(t, p, n, l)'
  <1>1. /\ Len(down) \in Nat /\ Len(down) # 0 /\ Head(down) = down[1]
        /\ g[0] \in Nat /\ g[1] \in Nat /\ g[0] <= g[1] /\ Tells(Head(down), g[1])
    BY FirstIsDated
  <1>2. CASE CacheHas(p, n)
    BY <1>2 DEF CacheHas, WillHave, Lasts
  <1>3. CASE UpdateHas(p, n)
    <2>1. CASE updates'[p] = updates[p]
      BY <1>3, <2>1 DEF UpdateHas, WillHave, Lasts
    <2>2. CASE Says(updates'[p], p, g[1])
      <3>1. updates[p] # Unknown
        BY <1>3 DEF UpdateHas, Unknown
      <3>2. \E a \in 1..g[0] : Says(updates[p], p, a)
        BY <3>1 DEF Dated
      <3>3. UpdateHas(p, n)'
        BY <1>1, <1>3, <2>2, <3>2, UpdateStays
      <3> QED BY <3>3 DEF WillHave
    <2> QED BY <2>1, <2>2
  <1>4. CASE SentWithin(t, p, n, l + 1)
    <2>1. PICK j \in 1..(l + 1) :
            /\ Settled(down, t, j - 1)
            /\ down[j].kind = "Documents" /\ down[j].target = t /\ p \in down[j].added
            /\ Lasts(p, down[j].number, n)
      BY <1>4 DEF SentWithin
    <2>2. CASE j = 1
      <3>1. Settled(down, t, 0)
        BY <2>1, <2>2
      <3>2. updates'[p].is = "Document" /\ Says(updates'[p], p, g[1])
        BY <1>1, <2>1, <2>2, <3>1
      <3>3. Lasts(p, g[1], n)
        BY <1>1, <2>1, <2>2 DEF Tells
      <3>4. PICK d \in 1..g[1] : d = updates'[p].version /\ Lasts(p, d, g[1])
        BY <3>2 DEF Says, Forgotten, NoDocument
      <3>5. Lasts(p, d, n)
        BY <1>1, <3>3, <3>4, LastsJoined
      <3>6. UpdateHas(p, n)'
        BY <3>2, <3>4, <3>5 DEF UpdateHas, Lasts
      <3> QED BY <3>6 DEF WillHave
    <2>3. CASE j # 1
      <3>1. PICK i \in 1..l : j = i + 1
        BY <2>3
      <3>2. i \in 1..Len(down') /\ down'[i] = down[j]
        BY <1>1, <3>1, HeadTailProperties DEF TypeOK
      <3>3. Settled(down', t, i - 1)
        <4>1. i - 1 \in Nat /\ (i - 1) + 1 = j - 1 /\ down \in Seq(Response)
          BY <3>1 DEF TypeOK
        <4> QED BY <2>1, <4>1, SettledTaken
      <3>4. SentWithin(t, p, n, l)'
        BY <2>1, <3>2, <3>3 DEF SentWithin, Lasts, Settled, Answers
      <3> QED BY <3>4 DEF WillHave
    <2> QED BY <2>2, <2>3
  <1> QED BY <1>2, <1>3, <1>4 DEF WillHave

(* The commits of the messages that are left. *)
LEMMA DatedTaken ==
  ASSUME TypeOK, TypeOK', NEW g, Dated(g), down # <<>>, down' = Tail(down),
         UNCHANGED <<history, clock>>, snapver' = snapver \/ snapver' = g[1],
         snapver <= snapver',
         \A p \in Pets : updates'[p] # Unknown => (\E c \in 1..g[1] : Says(updates[p], p, c))'
  PROVE  \E f : Dated(f)'
  <1>1. /\ Len(down) \in Nat /\ Len(down) # 0
        /\ \A k \in 1..Len(down) : g[k] \in Nat /\ g[1] <= g[k] /\ g[k] <= clock
                                    /\ Tells(down[k], g[k])
    BY FirstIsDated
  <1>2. PICK n \in Nat : n = Len(down) - 1
    BY <1>1
  <1>3. /\ Len(down') = n /\ Len(down) = n + 1
        /\ \A k \in 1..n : down'[k] = down[k + 1]
    BY <1>1, <1>2, HeadTailProperties DEF TypeOK
  <1>4. PICK f : f = [k \in 0..n |-> g[k + 1]]
    OBVIOUS
  <1>5. f \in [0..n -> Nat] /\ f[0] = g[1] /\ f[n] <= clock
    BY <1>1, <1>3, <1>4
  <1>6. \A i, j \in 0..n : i <= j => f[i] <= f[j]
    <2> SUFFICES ASSUME NEW i \in 0..n, NEW j \in 0..n, i <= j PROVE f[i] <= f[j]
      OBVIOUS
    <2>1. i + 1 \in 0..Len(down) /\ j + 1 \in 0..Len(down) /\ i + 1 <= j + 1
      BY <1>3
    <2>2. g[i + 1] <= g[j + 1]
      BY <2>1 DEF Dated
    <2> QED BY <1>4, <2>2
  <1>7. ASSUME NEW k \in 1..n
        PROVE  /\ down'[k].kind = "Snapshot" => down'[k].number = f[k]
               /\ down'[k].kind = "Documents" =>
                    /\ down'[k].number = f[k] /\ f[k] \in 1..Len(history)
                    /\ down'[k].added \subseteq history[f[k]]
                    /\ down'[k].removed \cap history[f[k]] = {}
               /\ down'[k].kind = "Filter" /\ IsDocumentQuery(down'[k].target)
                  /\ down'[k].number = 0 =>
                    /\ f[k] \in 1..Len(history) /\ snapver' <= f[k]
                    /\ down'[k].target.path \notin history[f[k]]
    <2>1. k + 1 \in 1..Len(down) /\ f[k] = g[k + 1] /\ down'[k] = down[k + 1]
      BY <1>3, <1>4
    <2>2. PICK m : m = down[k + 1]
      OBVIOUS
    <2>3. Tells(m, g[k + 1]) /\ g[1] <= g[k + 1]
      BY <1>1, <2>1, <2>2
    <2> QED BY <2>1, <2>2, <2>3 DEF Tells
  <1>8. \A k \in 1..n : Tells(down[k], f[k])'
    BY <1>7 DEF Tells
  <1>9. f' = f
    BY <1>4
  <1>10. Dated(f)'
    BY <1>3, <1>5, <1>6, <1>8 DEF Dated
  <1> QED BY <1>10

(* A message is heard that leaves alone everything but the aggregator.  Of the
   documents it gives an update that says what was so at its commit. *)
LEMMA DocumentsHeard ==
  ASSUME TypeOK, TypeOK', AggregatorInv, SyncInv, DocumentsInv,
         down # <<>>, down' = Tail(down),
         UNCHANGED <<history, clock, srv, up, stream, listened, token, local, stored, keys,
                     cache, snapver, current, limbo, spoilt>>,
         \A p \in Pets :
           \/ updates'[p] = updates[p]
           \/ \A c \in Nat : Tells(Head(down), c) => c # 0 /\ Says(updates'[p], p, c),
         \A t \in listened : \A p \in Pets :
           /\ states[t].out = 0
           /\ Head(down).kind = "Documents" /\ Head(down).target = t /\ p \in Head(down).added
           => /\ updates'[p].is = "Document"
              /\ \A c \in Nat : Tells(Head(down), c) => Says(updates'[p], p, c)
  PROVE  DocumentsInv'
  <1>1. stream = "open"
    BY DEF AggregatorInv, ClosedIsEmpty
  <1>2. PICK g : Dated(g)
    BY <1>1 DEF DocumentsInv, MessagesAreTrue
  <1>3. /\ Len(down) \in Nat /\ Len(down) # 0 /\ Head(down) = down[1]
        /\ g[0] \in Nat /\ g[1] \in Nat /\ g[0] <= g[1] /\ Tells(Head(down), g[1])
        /\ \A k \in 1..Len(down) : g[k] \in Nat /\ g[1] <= g[k] /\ g[k] <= clock
                                   /\ Tells(down[k], g[k])
    BY <1>2, FirstIsDated
  <1>4. MessagesAreTrue'
    <2>1. ASSUME NEW p \in Pets, updates'[p] # Unknown
          PROVE  (\E c \in 1..g[1] : Says(updates[p], p, c))'
      <3>1. ASSUME NEW c \in 1..g[1], Says(updates'[p], p, c)
            PROVE  (\E a \in 1..g[1] : Says(updates[p], p, a))'
        BY <3>1 DEF Says, Lasts
      <3>2. CASE updates'[p] = updates[p]
        <4>1. PICK c \in 1..g[0] : Says(updates[p], p, c)
          BY <1>2, <2>1, <3>2 DEF Dated
        <4>2. c \in 1..g[1]
          BY <1>3
        <4> QED BY <3>1, <3>2, <4>1, <4>2
      <3>3. CASE updates'[p] # updates[p]
        <4>1. g[1] \in 1..g[1] /\ Says(updates'[p], p, g[1])
          BY <1>3, <3>3
        <4> QED BY <3>1, <4>1
      <3> QED BY <3>2, <3>3
    <2>2. snapver <= snapver'
      BY DEF TypeOK
    <2>3. \E f : Dated(f)'
      BY <1>2, <2>1, <2>2, DatedTaken
    <2> QED BY <1>1, <2>3 DEF MessagesAreTrue
  <1>5. ASSUME NEW p \in Pets, NEW t \in listened, up[t] = <<>>, NEW n \in Int, g[1] <= n,
               NEW l \in Nat, l + 1 <= Len(down), WillHave(t, p, n, l + 1)
        PROVE  WillHave(t, p, n, l)'
    <2>1. t \in Targets
      BY DEF TypeOK
    <2>2. updates'[p] = updates[p] \/ Says(updates'[p], p, g[1])
      BY <1>3
    <2>3. Settled(down, t, 0) => states[t].out = 0
      BY <1>5, <2>1, SettledIsActive
    <2> QED BY <1>2, <1>3, <1>5, <2>1, <2>2, <2>3, WillHaveHeard
  <1>6. ASSUME NEW t \in listened, up[t] = <<>>
        PROVE  ShownAreSent(t)'
    <2> SUFFICES ASSUME NEW k \in 1..Len(down'), Settled(down', t, k - 1),
                        down'[k].kind = "Snapshot", NEW p \in PetsAt(t, down'[k].number),
                        Lasts(p, down'[k].number, snapver),
                        NEW v, v = down'[k].number, NEW l, l = k - 1
                 PROVE  WillHave(t, p, v, l)'
      BY DEF ShownAreSent, PetsAt, Lasts
    <2>1. /\ k + 1 \in 1..Len(down) /\ down'[k] = down[k + 1] /\ l \in Nat /\ l + 1 = k
          /\ l + 1 <= Len(down)
      <3>1. down \in Seq(Response) /\ Len(down) \in Nat
        BY DEF TypeOK
      <3>2. down # <<>> /\ down' = Tail(down)
        BY <1>3
      <3>3. Len(down') = Len(down) - 1 /\ \A i \in 1..Len(down') : down'[i] = down[i + 1]
        BY <3>1, <3>2, HeadTailProperties
      <3>4. down'[k] = down[k + 1]
        BY <3>3
      <3>5. k \in 1..(Len(down) - 1)
        BY <3>3
      <3> QED BY <3>1, <3>4, <3>5
    <2>2. Settled(down, t, k)
      <3>1. Settled(Tail(down), t, l) /\ down \in Seq(Response)
        BY DEF TypeOK
      <3> QED BY <2>1, <3>1, SettledTaken
    <2>3. v = g[k + 1] /\ g[1] <= v /\ v \in Int
      BY <1>3, <2>1 DEF Tells
    <2>4. WillHave(t, p, v, k)
      <3>1. ShownAreSent(t) /\ (k + 1) - 1 = k
        BY <1>1, <1>6 DEF DocumentsInv, DocumentsComeInTime
      <3>2. Settled(down, t, (k + 1) - 1)
        BY <2>2, <3>1
      <3> QED BY <2>1, <3>1, <3>2 DEF ShownAreSent
    <2>5. p \in Pets
      BY PetsAtMatch
    <2> QED BY <1>5, <1>6, <2>1, <2>3, <2>4, <2>5
  <1>7. ASSUME NEW t \in listened, up[t] = <<>>
        PROVE  KnownAreSent(t)'
    <2> SUFFICES ASSUME NEW p \in PetsAt(t, srv[t].at), Lasts(p, srv[t].at, snapver),
                        Lasts(p, srv[t].at, clock), NEW n, n = clock, NEW l, l = Len(down')
                 PROVE  WillHave(t, p, n, l)'
      BY DEF KnownAreSent, PetsAt, Lasts
    <2>1. l \in Nat /\ l + 1 = Len(down) /\ n \in Int /\ g[1] <= n
      BY <1>3, HeadTailProperties DEF TypeOK
    <2>2. WillHave(t, p, n, l + 1)
      BY <1>1, <1>7, <2>1 DEF DocumentsInv, DocumentsComeInTime, KnownAreSent
    <2>3. p \in Pets
      BY PetsAtMatch
    <2> QED BY <1>5, <1>7, <2>1, <2>2, <2>3
  <1>8. DocumentsComeInTime'
    BY <1>6, <1>7 DEF DocumentsComeInTime
  <1>9. TokensAreCached' /\ CacheIsTrue' /\ LimboIsUnkeyed' /\ SyncedAreOfACommit'
    BY DEF DocumentsInv, TokensAreCached, CacheIsTrue, LimboIsUnkeyed, SyncedAreOfACommit, Cached,
       CachedAt, CacheHas, Lasts, PetsAt
  <1> QED BY <1>4, <1>8, <1>9 DEF DocumentsInv

(* The documents that the server sends, ... *)
LEMMA HeardDocuments ==
  ASSUME TypeOK, TypeOK', AggregatorInv, SyncInv, DocumentsInv, HandleDocumentChange
  PROVE  DocumentsInv'
  <1>1. /\ down # <<>> /\ down' = Tail(down) /\ Head(down).kind = "Documents"
        /\ UNCHANGED <<history, clock, srv, up, stream, listened, token, local, stored, keys,
                       cache, snapver, current, limbo, spoilt>>
    BY DEF HandleDocumentChange, Received, Receive, serverVars, storeVars, viewVars
  <1>2. PICK m \in Response : m = Head(down)
    BY <1>1, HeadType
  <1>3. stream = "open"
    BY <1>1 DEF AggregatorInv, ClosedIsEmpty
  <1>4. IsActiveTarget(m.target) <=> m.target \in listened /\ states[m.target].out = 0
    BY <1>3, ActiveHasNothingDue DEF IsActiveTarget
  <1>5. CASE IsActiveTarget(m.target)
    <2>1. updates' = [p \in Pets |->
             IF p \in m.added THEN Document(WrittenAt(p, m.number))
             ELSE Removed(m.removed, NoDocument(m.number))[p]]
      BY <1>2, <1>5 DEF HandleDocumentChange
    <2>2. ASSUME NEW p \in m.added, p \in Pets
          PROVE  /\ updates'[p].is = "Document"
                 /\ \A c \in Nat : Tells(m, c) => c # 0 /\ Says(updates'[p], p, c)
      <3>1. updates'[p].is = "Document" /\ updates'[p].version = WrittenAt(p, m.number)
        BY <2>1, <2>2 DEF Document
      <3>2. ASSUME NEW c \in Nat, Tells(m, c)
            PROVE  c # 0 /\ Says(updates'[p], p, c)
        <4>1. m.number = c /\ c # 0 /\ p \in history[c]
          BY <1>1, <1>2, <2>2, <3>2 DEF Tells
        <4>2. WrittenAt(p, c) \in 1..c /\ Lasts(p, WrittenAt(p, c), c)
          BY <4>1, WrittenAtLasts
        <4> QED BY <3>1, <4>1, <4>2 DEF Says
      <3> QED BY <3>1, <3>2
    <2>3. ASSUME NEW p \in Pets, p \notin m.added, p \in m.removed
          PROVE  \A c \in Nat : Tells(m, c) => c # 0 /\ Says(updates'[p], p, c)
      <3>1. updates'[p].is = "NoDocument" /\ updates'[p].version = m.number
        BY <2>1, <2>3 DEF Removed, NoDocument
      <3> SUFFICES ASSUME NEW c \in Nat, Tells(m, c)
                   PROVE  c # 0 /\ Says(updates'[p], p, c)
        OBVIOUS
      <3>2. m.number = c /\ c # 0 /\ p \notin history[c]
        BY <1>1, <1>2, <2>3 DEF Tells
      <3> QED BY <3>1, <3>2 DEF Says
    <2>4. ASSUME NEW p \in Pets, p \notin m.added, p \notin m.removed
          PROVE  updates'[p] = updates[p]
      BY <2>1, <2>4 DEF Removed
    <2> QED BY <1>1, <1>2, <2>2, <2>3, <2>4, DocumentsHeard
  <1>6. CASE ~IsActiveTarget(m.target)
    <2>1. updates' = updates
      BY <1>2, <1>6 DEF HandleDocumentChange
    <2> QED BY <1>1, <1>2, <1>4, <1>6, <2>1, DocumentsHeard
  <1> QED BY <1>5, <1>6

(* ... the other messages, which bring no documents ... *)
LEMMA HeardOther ==
  ASSUME TypeOK, TypeOK', AggregatorInv, SyncInv, DocumentsInv,
         \/ HandleTargetAdded \/ HandleTargetRemoved \/ HandleTargetCurrent
         \/ HandleTargetReset \/ HandleExistenceFilter
  PROVE  DocumentsInv'
  <1>1. /\ down # <<>> /\ down' = Tail(down)
        /\ Head(down).kind \notin {"Documents", "Snapshot"}
        /\ UNCHANGED <<history, clock, srv, up, stream, listened, token, local, stored, keys,
                       cache, snapver, current, limbo, spoilt>>
    BY DEF HandleTargetAdded, HandleTargetRemoved, HandleTargetCurrent, HandleTargetReset,
       HandleExistenceFilter, Received, Receive, serverVars, storeVars, viewVars
  <1>2. CASE updates' = updates
    BY <1>1, <1>2, DocumentsHeard
  <1>3. CASE updates' # updates
    <2>1. PICK t : t = Head(down).target
      OBVIOUS
    <2>2. /\ Head(down).kind = "Filter" /\ IsDocumentQuery(t) /\ Head(down).number = 0
          /\ updates' = Removed({t.path}, Forgotten)
      BY <1>3, <2>1 DEF HandleTargetAdded, HandleTargetRemoved, HandleTargetCurrent,
         HandleTargetReset, HandleExistenceFilter, Received, Receive
    <2>3. ASSUME NEW p \in Pets
          PROVE  \/ updates'[p] = updates[p]
                 \/ \A c \in Nat : Tells(Head(down), c) => c # 0 /\ Says(updates'[p], p, c)
      <3>1. CASE p # t.path
        BY <2>2, <3>1 DEF Removed
      <3>2. CASE p = t.path
        <4>1. updates'[p] = Forgotten
          BY <2>2, <3>2 DEF Removed
        <4>2. ASSUME NEW c \in Nat, Tells(Head(down), c)
              PROVE  c # 0 /\ Says(updates'[p], p, c)
          BY <2>1, <2>2, <3>2, <4>1, <4>2 DEF Tells, Says
        <4> QED BY <4>2
      <3> QED BY <3>1, <3>2
    <2> QED BY <1>1, <2>3, DocumentsHeard
  <1> QED BY <1>2, <1>3

(* ... and a snapshot that is older than the last. *)
LEMMA HeardInVain ==
  ASSUME TypeOK, TypeOK', AggregatorInv, SyncInv, DocumentsInv,
         HandleSnapshot, ~Takes(Head(down).number)
  PROVE  DocumentsInv'
  <1>1. /\ down # <<>> /\ down' = Tail(down) /\ Head(down).kind = "Snapshot"
        /\ UNCHANGED <<up, listened, token, aggregator, storeVars, viewVars, spoilt>>
        /\ UNCHANGED <<serverVars, stream>>
    BY DEF HandleSnapshot, Receive, Takes, serverVars
  <1>2. UNCHANGED <<history, clock, srv, up, stream, listened, token, updates, local, stored,
                    keys, cache, snapver, current, limbo, spoilt>>
    BY <1>1 DEF aggregator, storeVars, viewVars, serverVars
  <1> QED BY <1>1, <1>2, DocumentsHeard

(***************************************************************************)
(* A snapshot.                                                             *)
(***************************************************************************)

(* What is cached stays cached, as far as it still has to be. *)
LEMMA CachedAtTaken ==
  ASSUME TypeOK, TypeOK', AggregatorInv, SyncInv, CacheIsTrue, NEW v, Takes(v),
         NEW g, Dated(g), NEW t \in Targets, NEW u \in Nat, u <= Len(history), CachedAt(t, u)
  PROVE  CachedAt(t, u)'
  <1>1. /\ v \in Nat /\ snapver <= v /\ snapver \in Nat /\ history' = history /\ snapver' = v
    <2>1. snapver \in Nat
      BY DEF TypeOK
    <2> QED BY <2>1, TakesOpen DEF Takes
  <1> SUFFICES ASSUME NEW p \in PetsAt(t, u), Lasts(p, u, v)
               PROVE  CacheHas(p, u)'
    BY <1>1 DEF CachedAt, PetsAt, Lasts
  <1>2. p \in Pets
    BY PetsAtMatch
  <1>3. CacheHas(p, u)
    <2>1. Lasts(p, u, snapver)
      BY <1>1, LastsPart
    <2> QED BY <2>1 DEF CachedAt
  <1>4. CASE v <= u
    BY <1>2, <1>3, <1>4, CacheTaken
  <1>5. CASE u < v
    <2>1. PICK w \in Nat : w = cache[p].version
      BY <1>2 DEF TypeOK, DocumentState
    <2>2. CacheHas(p, v)
      <3>1. Lasts(p, w, u) /\ cache[p].is = "Document"
        BY <1>3, <2>1 DEF CacheHas
      <3>2. Lasts(p, w, v)
        BY <1>1, <2>1, <3>1, LastsJoined
      <3> QED BY <2>1, <3>1, <3>2 DEF CacheHas
    <2>3. CacheHas(p, v)'
      BY <1>1, <1>2, <2>2, CacheTaken
    <2>4. PICK d \in Nat : d = cache'[p].version
      BY <1>2 DEF TypeOK, DocumentState
    <2>5. cache'[p].is = "Document" /\ Lasts(p, d, v)
      BY <1>1, <2>3, <2>4 DEF CacheHas, Lasts
    <2>6. Lasts(p, d, u)
      BY <1>1, <1>5, <2>4, <2>5, LastsPart
    <2> QED BY <1>1, <2>4, <2>5, <2>6 DEF CacheHas, Lasts
  <1> QED BY <1>1, <1>4, <1>5

(* What is on its way is not lost by what the snapshot leaves out. *)
LEMMA WillHaveTaken ==
  ASSUME TypeOK, TypeOK', AggregatorInv, SyncInv, CacheIsTrue, NEW v, Takes(v),
         NEW g, Dated(g), NEW p \in Pets, NEW t \in Targets, NEW n \in Int, v <= n,
         NEW l \in Nat, l + 1 <= Len(down), WillHave(t, p, n, l + 1)
  PROVE  WillHave(t, p, n, l)'
  <1>1. /\ down # <<>> /\ down' = Tail(down) /\ Head(down).kind = "Snapshot"
        /\ history' = history /\ down \in Seq(Response)
    BY DEF Takes, TypeOK
  <1>2. Len(down) \in Nat /\ Head(down) = down[1]
    BY <1>1, EmptySeq
  <1>3. CASE CacheHas(p, n) \/ UpdateHas(p, n)
    <2>1. CacheHas(p, n)'
      BY <1>3, CacheTaken
    <2> QED BY <2>1 DEF WillHave
  <1>4. CASE SentWithin(t, p, n, l + 1)
    <2>1. PICK j \in 1..(l + 1) :
            /\ Settled(down, t, j - 1)
            /\ down[j].kind = "Documents" /\ down[j].target = t /\ p \in down[j].added
            /\ Lasts(p, down[j].number, n)
      BY <1>4 DEF SentWithin
    <2>2. j # 1
      BY <1>1, <1>2, <2>1
    <2>3. PICK i \in 1..l : j = i + 1
      BY <2>2
    <2>4. down'[i] = down[j]
      BY <1>1, <1>2, <2>3, HeadTailProperties
    <2>5. Settled(down', t, i - 1)
      <3>1. i - 1 \in Nat /\ (i - 1) + 1 = j - 1
        BY <2>3
      <3> QED BY <1>1, <2>1, <3>1, SettledTaken
    <2>6. SentWithin(t, p, n, l)'
      BY <1>1, <2>1, <2>4, <2>5 DEF SentWithin, Lasts
    <2> QED BY <2>6 DEF WillHave
  <1> QED BY <1>3, <1>4 DEF WillHave

(* Of the targets that are ready the cache has what the server has. *)
LEMMA ReadyIsCached ==
  ASSUME TypeOK, TypeOK', AggregatorInv, SyncInv, DocumentsInv, NEW v, Takes(v),
         NEW g, Dated(g), NEW t \in Ready
  PROVE  CachedAt(t, v)'
  <1>1. /\ stream = "open" /\ v \in Nat /\ snapver <= v /\ snapver \in Nat /\ history' = history
        /\ snapver' = v
    <2>1. snapver \in Nat
      BY DEF TypeOK
    <2> QED BY <2>1, TakesOpen DEF Takes
  <1>2. t \in listened /\ t \in Targets /\ states[t].out = 0
    BY <1>1, ReadyIs DEF Ready, TypeOK
  <1>3. up[t] = <<>> /\ Settled(down, t, 0)
    BY <1>2, DueAreCounted, SettledIsActive
  <1>4. /\ Len(down) \in Nat /\ 1 \in 1..Len(down) /\ down[1].kind = "Snapshot"
        /\ down[1].number = v
    BY EmptySeq DEF Takes, TypeOK
  <1> SUFFICES ASSUME NEW p \in PetsAt(t, v) PROVE CacheHas(p, v)'
    BY <1>1 DEF CachedAt, PetsAt
  <1>5. p \in Pets /\ p \in history[v]
    BY InPetsAt, PetsAtMatch
  <1>6. Lasts(p, v, snapver)
    <2>1. \A w \in v..snapver : w = v
      BY <1>1
    <2> QED BY <1>5, <2>1 DEF Lasts
  <1>7. WillHave(t, p, v, 0)
    <2>1. ShownAreSent(t) /\ 1 - 1 = 0
      BY <1>1, <1>2, <1>3 DEF DocumentsInv, DocumentsComeInTime
    <2> QED BY <1>3, <1>4, <1>6, <2>1 DEF ShownAreSent
  <1>8. CacheHas(p, v) \/ UpdateHas(p, v)
    BY <1>7 DEF WillHave, SentWithin
  <1> QED BY <1>1, <1>5, <1>8, CacheTaken DEF DocumentsInv

(* A commit leaves a listen in sync with what it was in sync with. *)
LEMMA SyncedStaysSo ==
  ASSUME TypeOK, TypeOK', AggregatorInv, SyncInv, TokensAgree, SyncedAreOfACommit, [Next]_vars
  PROVE  SyncedAreOfACommit'
  <1>1. Promised!Next \/ UNCHANGED Seen
    BY PromisedStep
  <1> SUFFICES ASSUME NEW t \in current' \ spoilt'
               PROVE  local'[t] \in 1..Len(history)' /\ keys'[t] = PetsAt(t, local[t])'
    BY DEF SyncedAreOfACommit
  <1>2. t \in UserTargets
    BY DEF TypeOK
  <1>3. history' = history \/ \E S : history' = Append(history, S)
    BY <1>1 DEF Seen, Promised!Next, Promised!Commit, Promised!Listen, Promised!StopListening,
       Promised!Snapshot, Promised!GoOffline, Promised!Relaunch
  <1>4. \/ t \in current \ spoilt /\ local'[t] = local[t] /\ keys'[t] = keys[t]
        \/ \E v \in DOMAIN history : /\ local'[t] = v /\ keys'[t] = Matching(t, history[v])
                                     /\ history' = history
    BY <1>1, <1>2, SameQueries DEF Seen, Promised!Next, Promised!Commit, Promised!Listen,
       Promised!StopListening, Promised!Snapshot, Promised!GoOffline, Promised!Relaunch,
       Promised!Kept, Promised!BroughtTo
  <1>5. CASE t \in current \ spoilt /\ local'[t] = local[t] /\ keys'[t] = keys[t]
    <2>1. PICK u \in Nat : u = local[t]
      BY <1>2 DEF TypeOK
    <2>2. u <= Len(history)
      <3>1. u <= snapver /\ snapver <= Len(history) /\ snapver \in Nat
        BY <1>2, <2>1 DEF TokensAgree, SyncInv, StreamInOrder, TypeOK
      <3> QED BY <2>1, <3>1, HistoryType
    <2>3. PetsAt(t, u)' = PetsAt(t, u)
      <3>1. CASE history' = history
        BY <3>1 DEF PetsAt
      <3>2. ASSUME NEW S, history' = Append(history, S)
            PROVE  PetsAt(t, u)' = PetsAt(t, u)
        <4>1. /\ history \in Seq(SUBSET Pets) /\ Len(history) \in Nat
              /\ history' \in Seq(SUBSET Pets)
          BY HistoryType DEF TypeOK
        <4>2. /\ Len(history') = Len(history) + 1
              /\ \A w \in 1..Len(history) : history'[w] = history[w]
          BY <3>2, <4>1
        <4>3. u \in 1..Len(history)' <=> u \in 1..Len(history)
          BY <2>2, <4>1, <4>2
        <4> QED BY <4>1, <4>2, <4>3, HistoryType DEF PetsAt
      <3> QED BY <1>3, <3>1, <3>2
    <2>4. keys[t] = PetsAt(t, u) /\ u \in 1..Len(history)
      BY <1>5, <2>1 DEF SyncedAreOfACommit
    <2>5. u \in 1..Len(history')
      <3>1. history \in Seq(SUBSET Pets) /\ Len(history) \in Nat
        BY HistoryType DEF TypeOK
      <3>2. Len(history') \in Nat /\ Len(history) <= Len(history')
        BY <1>3, <3>1
      <3> QED BY <2>4, <3>1, <3>2
    <2> QED BY <1>5, <2>1, <2>3, <2>4, <2>5
  <1>6. ASSUME NEW v \in DOMAIN history, local'[t] = v, keys'[t] = Matching(t, history[v]),
               history' = history
        PROVE  local'[t] \in 1..Len(history)' /\ keys'[t] = PetsAt(t, local[t])'
    BY <1>6, HistoryType DEF PetsAt
  <1> QED BY <1>4, <1>5, <1>6

(* A snapshot keeps the invariant: what was announced up to it is cached, and
   the pets in limbo are counted anew. *)
LEMMA DocumentsTaken ==
  ASSUME TypeOK, TypeOK', AggregatorInv, SyncInv, TokensAgree, DocumentsInv, NEW v, Takes(v),
         SyncedAreOfACommit'
  PROVE  DocumentsInv'
  <1>1. /\ stream = "open" /\ v \in Nat /\ snapver <= v /\ snapver \in Nat /\ snapver' = v
        /\ v <= Len(history) /\ snapver <= Len(history)
    <2>1. snapver \in Nat
      BY DEF TypeOK
    <2> QED BY <2>1, TakesOpen
  <1>2. /\ down # <<>> /\ down' = Tail(down) /\ Head(down).kind = "Snapshot"
        /\ Head(down).number = v /\ UNCHANGED <<history, clock, srv, stream>>
        /\ updates' = Nothing /\ listened' = ListenedAfter(v) /\ local' = LocalAfter(v)
        /\ keys' = KeysAfter /\ cache' = CacheAfter(v) /\ current' = CurrentAfter
        /\ limbo' = LimboAfter(v)
    BY DEF Takes, RaiseWatchSnapshot
  <1>3. PICK g : Dated(g)
    BY <1>1 DEF DocumentsInv, MessagesAreTrue
  <1>4. /\ Len(down) \in Nat /\ Len(down) # 0 /\ Head(down) = down[1]
        /\ g[1] = v
        /\ \A k \in 1..Len(down) : g[k] \in Nat /\ v <= g[k] /\ g[k] <= clock
                                   /\ Tells(down[k], g[k])
    <2>1. /\ Len(down) \in Nat /\ Len(down) # 0 /\ Head(down) = down[1]
          /\ Tells(Head(down), g[1])
          /\ \A k \in 1..Len(down) : g[k] \in Nat /\ g[1] <= g[k] /\ g[k] <= clock
                                   /\ Tells(down[k], g[k])
      BY <1>2, <1>3, FirstIsDated
    <2>2. g[1] = v
      BY <1>2, <2>1 DEF Tells
    <2> QED BY <2>1, <2>2
  <1>5. MessagesAreTrue'
    <2>1. \A p \in Pets : updates'[p] = Unknown
      BY <1>2 DEF Nothing
    <2>2. Unknown' = Unknown
      BY DEF Unknown
    <2>3. \A p \in Pets : updates'[p] # Unknown => (\E c \in 1..g[1] : Says(updates[p], p, c))'
      BY <2>1
    <2>4. \E f : Dated(f)'
      BY <1>1, <1>2, <1>3, <1>4, <2>3, DatedTaken
    <2>5. stream' = "open"
      BY <1>1 DEF Takes
    <2> QED BY <2>4, <2>5 DEF MessagesAreTrue
  <1>6. CacheIsTrue'
    BY <1>3, CacheStaysTrue DEF DocumentsInv
  <1>7. ASSUME NEW t \in listened', up'[t] = <<>>
        PROVE  ShownAreSent(t)' /\ KnownAreSent(t)'
    <2>1. t \in Targets /\ t \in listened /\ up[t] = <<>>
      <3>1. t \in Targets /\ Requests(v)[t] = <<>> /\ t \in listened \ Mismatched
        BY <1>7, StatesAre, RequestsAre
      <3> QED BY <1>7, <3>1, StatesAre
    <2>2. ShownAreSent(t) /\ KnownAreSent(t)
      BY <1>1, <2>1 DEF DocumentsInv, DocumentsComeInTime
    <2>3. ShownAreSent(t)'
      <3> SUFFICES ASSUME NEW k \in 1..Len(down'), Settled(down', t, k - 1),
                          down'[k].kind = "Snapshot", NEW p \in PetsAt(t, down'[k].number),
                          Lasts(p, down'[k].number, v), NEW n, n = down'[k].number,
                          NEW l, l = k - 1
                   PROVE  WillHave(t, p, n, l)'
        BY <1>1, <1>2 DEF ShownAreSent, PetsAt, Lasts
      <3>1. /\ k + 1 \in 1..Len(down) /\ down'[k] = down[k + 1] /\ l \in Nat /\ l + 1 = k
            /\ l + 1 <= Len(down) /\ k \in Nat
        BY <1>2, <1>4, HeadTailProperties DEF TypeOK
      <3>2. Settled(down, t, k)
        <4>1. Settled(Tail(down), t, l) /\ down \in Seq(Response)
          BY <1>2 DEF TypeOK
        <4> QED BY <1>2, <3>1, <4>1, SettledTaken
      <3>3. v <= n /\ n \in Int
        BY <1>4, <3>1 DEF Tells
      <3>4. WillHave(t, p, n, k)
        <4>1. (k + 1) - 1 = k
          BY <3>1
        <4>2. Settled(down, t, (k + 1) - 1)
          BY <3>2, <4>1
        <4>3. Lasts(p, n, snapver)
          BY <1>1, <3>3, LastsPart
        <4>4. n = down[k + 1].number /\ down[k + 1].kind = "Snapshot" /\ p \in PetsAt(t, n)
          BY <3>1
        <4> QED BY <2>2, <3>1, <4>1, <4>2, <4>3, <4>4 DEF ShownAreSent
      <3>5. p \in Pets
        BY PetsAtMatch
      <3> QED BY <1>3, <2>1, <3>1, <3>3, <3>4, <3>5, WillHaveTaken DEF DocumentsInv
    <2>4. KnownAreSent(t)'
      <3> SUFFICES ASSUME NEW p \in PetsAt(t, srv[t].at), Lasts(p, srv[t].at, v),
                          Lasts(p, srv[t].at, clock), NEW n, n = clock, NEW l, l = Len(down')
                   PROVE  WillHave(t, p, n, l)'
        BY <1>1, <1>2 DEF KnownAreSent, PetsAt, Lasts
      <3>1. l \in Nat /\ l + 1 = Len(down) /\ l + 1 <= Len(down)
        BY <1>2, <1>4, HeadTailProperties DEF TypeOK
      <3>2. n \in Int /\ v <= n
        <4>1. clock \in Nat
          BY DEF TypeOK
        <4> QED BY <4>1, TakesOpen
      <3>3. srv[t].at \in Int
        BY <2>1 DEF TypeOK, ServerState
      <3>4. Lasts(p, srv[t].at, snapver)
        BY <1>1, <3>3, LastsPart
      <3>5. WillHave(t, p, n, l + 1)
        BY <2>2, <3>1, <3>4 DEF KnownAreSent
      <3>6. p \in Pets
        BY PetsAtMatch
      <3> QED BY <1>3, <2>1, <3>1, <3>2, <3>5, <3>6, WillHaveTaken DEF DocumentsInv
    <2> QED BY <2>3, <2>4
  <1>8. ASSUME NEW t \in Targets, NEW u \in Nat, u <= snapver, CachedAt(t, u)
        PROVE  CachedAt(t, u)'
    <2>1. u <= Len(history)
      BY <1>1, <1>8, HistoryType
    <2> QED BY <1>3, <1>8, <2>1, CachedAtTaken DEF DocumentsInv
  <1>9. ASSUME NEW t \in listened'
        PROVE  CachedAt(t, token[t])'
    <2>1. PICK u : u = token'[t]
      OBVIOUS
    <2>2. CachedAt(t, u)'
      <3>1. CASE u = 0
        <4>1. 0 \notin DOMAIN history'
          BY HistoryType DEF TypeOK
        <4> QED BY <3>1, <4>1 DEF CachedAt, PetsAt
      <3>2. CASE u # 0
        <4>1. t \in Targets /\ t \in listened
              /\ u = IF t \in Ready THEN v ELSE token[t]
          BY <2>1, <3>2, RequestsAre
        <4>2. CASE t \in Ready
          BY <1>3, <4>1, <4>2, ReadyIsCached
        <4>3. CASE t \notin Ready
          <5>1. u \in Nat /\ u <= snapver /\ CachedAt(t, u)
            BY <4>1, <4>3 DEF TypeOK, SyncInv, Bookkeeping, DocumentsInv, TokensAreCached
          <5> QED BY <1>8, <4>1, <5>1
        <4> QED BY <4>2, <4>3
      <3> QED BY <3>1, <3>2
    <2> QED BY <2>1, <2>2
  <1>10. ASSUME NEW t \in UserTargets
         PROVE  CachedAt(t, stored[t])' /\ CachedAt(t, local[t])'
    <2>1. t \in Targets
      BY KindsOfTargets
    <2>2. PICK a \in Nat, b \in Nat : a = stored'[t] /\ b = local'[t]
      BY DEF TypeOK
    <2>3. /\ a = stored[t] \/ (t \in Ready /\ a = v)
          /\ b = local[t] \/ (t \in Ready /\ b = v)
      BY <1>2, <2>2 DEF Takes, RaiseWatchSnapshot, LocalAfter
    <2>4. /\ stored[t] \in Nat /\ local[t] \in Nat /\ stored[t] <= snapver /\ local[t] <= snapver
          /\ CachedAt(t, stored[t]) /\ CachedAt(t, local[t])
      <3>1. stored[t] \in Nat /\ local[t] \in Nat /\ stored[t] <= local[t] /\ local[t] <= snapver
        BY DEF TypeOK, TokensAgree
      <3> QED BY <1>1, <3>1 DEF DocumentsInv, TokensAreCached
    <2>5. t \in Ready => CachedAt(t, v)'
      BY <1>3, ReadyIsCached
    <2>6. CachedAt(t, a)' /\ CachedAt(t, b)'
      <3>1. a = stored[t] => CachedAt(t, a)'
        BY <1>8, <2>1, <2>4
      <3>2. b = local[t] => CachedAt(t, b)'
        BY <1>8, <2>1, <2>4
      <3> QED BY <2>3, <2>5, <3>1, <3>2
    <2> QED BY <2>2, <2>6
  <1>11. LimboIsUnkeyed'
    <2> SUFFICES ASSUME NEW t \in current'
                 PROVE  limbo'[t] = Matching(t, Cached(cache')) \ keys'[t]
      BY DEF LimboIsUnkeyed, Matching, Cached, IsDocumentQuery
    <2>1. t \in UserTargets /\ t \in CurrentAfter
      BY <1>2 DEF TypeOK
    <2> QED BY <1>2, <2>1 DEF LimboAfter
  <1>12. DocumentsComeInTime' /\ TokensAreCached'
    BY <1>7, <1>9, <1>10 DEF DocumentsComeInTime, TokensAreCached
  <1> QED BY <1>5, <1>6, <1>11, <1>12 DEF DocumentsInv

(***************************************************************************)
(* Steps that tell the client nothing.                                     *)
(***************************************************************************)

(* A target that is resumed from nothing had no pets. *)
LEMMA CachedAtNothing ==
  ASSUME TypeOK, NEW t
  PROVE  CachedAt(t, 0)
  <1>1. 0 \notin DOMAIN history
    BY HistoryType
  <1> QED BY <1>1 DEF CachedAt, PetsAt

(* What is on its way stays so when commits and messages are added, and of a
   later commit if the pet lasts until then. *)
LEMMA WillHaveLonger ==
  ASSUME TypeOK, TypeOK', Grows, CacheIsTrue, NEW g, Dated(g), UNCHANGED <<cache, updates>>,
         NEW p \in Pets, NEW t, NEW l \in 0..Len(down), NEW n \in Int, l <= n,
         NEW d, d = down',
         \A j \in 1..l : /\ d[j] = down[j]
                         /\ Settled(down, t, j - 1) => Settled(d, t, j - 1),
         NEW a \in Int, NEW b \in Int, b <= Len(history),
         WillHave(t, p, a, l), Lasts(p, a, b)
  PROVE  WillHave(t, p, b, n)'
  <1>1. Len(down) \in Nat /\ down \in Seq(Response)
    BY DEF TypeOK
  <1>2. CASE CacheHas(p, a)
    <2>1. PICK w \in Nat : w = cache[p].version
      BY DEF TypeOK, DocumentState
    <2>2. w # 0 /\ Lasts(p, w, b)
      BY <1>2, <2>1, LastsJoined DEF CacheHas, CacheIsTrue
    <2>3. Lasts(p, w, b)'
      BY <2>2, LastsGrow
    <2> QED BY <1>2, <2>1, <2>3 DEF CacheHas, WillHave
  <1>3. CASE UpdateHas(p, a)
    <2>1. PICK w \in Nat : w = updates[p].version
      BY DEF TypeOK, DocumentState
    <2>2. w # 0
      <3>1. updates[p] # Unknown /\ updates[p].is = "Document"
        BY <1>3 DEF UpdateHas, Unknown
      <3>2. PICK c \in 1..g[0] : Says(updates[p], p, c)
        BY <3>1 DEF Dated
      <3> QED BY <2>1, <3>1, <3>2 DEF Says, Forgotten, NoDocument
    <2>3. Lasts(p, w, b)
      BY <1>3, <2>1, LastsJoined DEF UpdateHas
    <2>4. Lasts(p, w, b)'
      BY <2>2, <2>3, LastsGrow
    <2> QED BY <1>3, <2>1, <2>4 DEF UpdateHas, WillHave
  <1>4. CASE SentWithin(t, p, a, l)
    <2>1. PICK j \in 1..l :
            /\ Settled(down, t, j - 1)
            /\ down[j].kind = "Documents" /\ down[j].target = t /\ p \in down[j].added
            /\ Lasts(p, down[j].number, a)
      BY <1>4 DEF SentWithin
    <2>2. j \in 1..Len(down) /\ j \in 1..n
      BY <1>1
    <2>3. down[j] \in Response
      BY <1>1, <2>2
    <2>4. PICK w \in Nat : w = down[j].number
      BY <2>3 DEF Response
    <2>5. w # 0
      <3>1. Tells(down[j], g[j])
        BY <2>2 DEF Dated
      <3>2. w = g[j] /\ g[j] \in 1..Len(history)
        BY <2>1, <2>4, <3>1 DEF Tells
      <3> QED BY <3>2, HistoryType
    <2>6. Lasts(p, w, b)
      BY <2>1, <2>4, LastsJoined
    <2>7. Lasts(p, w, b)'
      BY <2>5, <2>6, LastsGrow
    <2>8. d[j] = down[j] /\ Settled(d, t, j - 1)
      BY <2>1
    <2>9. /\ d[j].kind = "Documents" /\ d[j].target = t /\ p \in d[j].added
          /\ d[j].number = w
      BY <2>1, <2>4, <2>8
    <2> QED BY <2>2, <2>7, <2>8, <2>9 DEF SentWithin, WillHave
  <1> QED BY <1>2, <1>3, <1>4 DEF WillHave

(* The server goes on, and no message is sent. *)
GoesOn ==
  /\ stream = "open" /\ UNCHANGED <<srv, down, updates>>
  /\ clock <= clock' /\ clock' <= Len(history')
  /\ \A t \in listened' : up'[t] = <<>> => t \in listened /\ up[t] = <<>>

(* The stream is new, and every target is asked for. *)
StartsAnew ==
  /\ down' = <<>> /\ updates' = Nothing
  /\ \A t \in listened' : up'[t] # <<>>

(* Steps of the streams and of the listens: the tokens are those of before, and
   the stream goes on or starts anew. *)
LEMMA DocumentsUntold ==
  ASSUME TypeOK, TypeOK', AggregatorInv, SyncInv, DocumentsInv, SyncedAreOfACommit',
         UNCHANGED <<history, cache, snapver, keys>>,
         stream' = "open" => GoesOn \/ StartsAnew, stream' # "open" => updates' = Nothing,
         \A t \in listened' : \/ token'[t] = 0
                              \/ t \in listened /\ token'[t] = token[t]
                              \/ t \in UserTargets /\ token'[t] = stored[t],
         \A t \in UserTargets : /\ local'[t] = local[t] \/ local'[t] = stored[t]
                                /\ stored'[t] = local[t] \/ stored'[t] = stored[t],
         \A t \in current' : t \in current /\ limbo'[t] = limbo[t]
  PROVE  DocumentsInv'
  <1>1. ASSUME stream' = "open", GoesOn
        PROVE  MessagesAreTrue' /\ DocumentsComeInTime'
    <2>1. PICK g : Dated(g)
      BY <1>1 DEF GoesOn, DocumentsInv, MessagesAreTrue
    <2>2. Dated(g)'
      <3>1. g[Len(down)] \in Nat /\ g[Len(down)] <= clock /\ clock \in Nat /\ clock' \in Nat
        <4>1. clock \in Nat /\ clock' \in Nat /\ Len(down) \in Nat
          BY DEF TypeOK
        <4> QED BY <2>1, <4>1 DEF Dated
      <3>2. g[Len(down)] <= clock'
        BY <1>1, <3>1 DEF GoesOn
      <3>3. /\ g \in [0..Len(down) -> Nat]
            /\ \A i, j \in 0..Len(down) : i <= j => g[i] <= g[j]
        BY <2>1 DEF Dated
      <3>4. \A i \in 1..Len(down) : Tells(down[i], g[i])'
        BY <1>1, <2>1 DEF GoesOn, Dated, Tells
      <3>5. \A p \in Pets : updates'[p] # Unknown => (\E c \in 1..g[0] : Says(updates[p], p, c))'
        BY <1>1, <2>1 DEF GoesOn, Dated, Says, Lasts
      <3>6. down' = down
        BY <1>1 DEF GoesOn
      <3> QED BY <3>2, <3>3, <3>4, <3>5, <3>6 DEF Dated
    <2>3. ASSUME NEW t \in listened', up'[t] = <<>>
          PROVE  ShownAreSent(t)' /\ KnownAreSent(t)'
      <3>1. ShownAreSent(t) /\ KnownAreSent(t) /\ t \in Targets
        BY <1>1, <2>3 DEF GoesOn, DocumentsInv, DocumentsComeInTime, TypeOK
      <3>2. ShownAreSent(t)'
        BY <1>1, <3>1
        DEF GoesOn, ShownAreSent, WillHave, CacheHas, UpdateHas, SentWithin, PetsAt, Lasts
      <3>3. KnownAreSent(t)'
        <4>1. PICK at \in Nat, a \in Nat, b \in Nat, l \in Nat :
                at = srv[t].at /\ a = clock /\ b = clock' /\ l = Len(down)
          <5>1. srv[t].at \in Nat /\ clock \in Nat /\ Len(down) \in Nat
            BY <3>1 DEF TypeOK, ServerState
          <5>2. clock' \in Nat
            BY DEF TypeOK
          <5> QED BY <5>1, <5>2
        <4>2. at <= a /\ a <= b /\ b <= Len(history) /\ Len(history) \in Nat
          <5>1. at <= a /\ a <= b
            BY <1>1, <3>1, <4>1 DEF GoesOn, SyncInv, StreamInOrder
          <5>2. b <= Len(history')
            BY <1>1, <4>1 DEF GoesOn
          <5> QED BY <5>1, <5>2, HistoryType
        <4> SUFFICES ASSUME NEW p \in PetsAt(t, at), Lasts(p, at, snapver), Lasts(p, at, b)
                     PROVE  WillHave(t, p, b, l)'
          BY <1>1, <4>1 DEF GoesOn, KnownAreSent, PetsAt, Lasts
        <4>3. Lasts(p, at, a) /\ Lasts(p, a, b)
          BY <4>2, LastsPart
        <4>4. WillHave(t, p, a, l) /\ p \in Pets
          BY <3>1, <4>1, <4>3, PetsAtMatch DEF KnownAreSent
        <4>5. Grows /\ CacheIsTrue
          BY HistoryType DEF Grows, DocumentsInv
        <4>6. l \in 0..Len(down) /\ UNCHANGED <<cache, updates>> /\ down' = down
          BY <1>1, <4>1 DEF GoesOn
        <4>7. PICK d : d = down'
          OBVIOUS
        <4>8. \A j \in 1..l : /\ d[j] = down[j]
                              /\ Settled(down, t, j - 1) => Settled(d, t, j - 1)
          BY <4>6, <4>7
        <4>9. p \in Pets /\ l <= l /\ b \in Int /\ a \in Int /\ l \in Int
          BY <4>4
        <4> QED BY <2>1, <4>1, <4>2, <4>3, <4>4, <4>5, <4>6, <4>7, <4>8, <4>9, WillHaveLonger
      <3> QED BY <3>2, <3>3
    <2> QED BY <2>2, <2>3 DEF MessagesAreTrue, DocumentsComeInTime
  <1>2. ASSUME stream' = "open", StartsAnew
        PROVE  MessagesAreTrue' /\ DocumentsComeInTime'
    <2>1. PICK g : g = [i \in 0..0 |-> 0]
      OBVIOUS
    <2>2. Len(down') = 0 /\ clock' \in Nat /\ \A p \in Pets : updates'[p] = Unknown
      BY <1>2 DEF StartsAnew, Nothing, TypeOK
    <2>3. g \in [0..0 -> Nat] /\ g[0] = 0
      BY <2>1
    <2>4. g' = g /\ 0..Len(down') = 0..0 /\ 1..Len(down') = {} /\ Len(down') = 0
      BY <2>2
    <2>5. \A i, j \in 0..0 : i <= j => g[i] <= g[j]
      BY <2>3
    <2>6. g \in [0..Len(down') -> Nat] /\ g[Len(down')] = 0 /\ 0 <= clock'
      BY <2>2, <2>3, <2>4
    <2>7. \A i, j \in 0..Len(down') : i <= j => g[i] <= g[j]
      BY <2>4, <2>5
    <2>8. Dated(g)'
      <3>1. \A i \in 1..Len(down') : Tells(down[i], g[i])'
        BY <2>4
      <3>2. g[Len(down')] <= clock'
        BY <2>2, <2>6
      <3> QED BY <2>2, <2>4, <2>6, <2>7, <3>1, <3>2 DEF Dated
    <2> QED BY <1>2, <2>8 DEF StartsAnew, MessagesAreTrue, DocumentsComeInTime
  <1>3. MessagesAreTrue' /\ DocumentsComeInTime'
    <2>1. CASE stream' = "open"
      BY <1>1, <1>2, <2>1
    <2>2. CASE stream' # "open"
      BY <2>2 DEF MessagesAreTrue, DocumentsComeInTime
    <2> QED BY <2>1, <2>2
  <1>4. \A t, u : CachedAt(t, u) <=> CachedAt(t, u)'
    BY DEF CachedAt, CacheHas, PetsAt, Lasts
  <1>5. TokensAreCached'
    <2>1. ASSUME NEW t \in listened' PROVE CachedAt(t, token[t])'
      <3>1. PICK u : u = token'[t]
        OBVIOUS
      <3>2. CachedAt(t, u)
        BY <3>1, CachedAtNothing DEF DocumentsInv, TokensAreCached
      <3> QED BY <1>4, <3>1, <3>2
    <2>2. ASSUME NEW t \in UserTargets PROVE CachedAt(t, stored[t])' /\ CachedAt(t, local[t])'
      <3>1. PICK a, b : a = stored'[t] /\ b = local'[t]
        OBVIOUS
      <3>2. CachedAt(t, a) /\ CachedAt(t, b)
        BY <3>1 DEF DocumentsInv, TokensAreCached
      <3> QED BY <1>4, <3>1, <3>2
    <2> QED BY <2>1, <2>2 DEF TokensAreCached
  <1>6. CacheIsTrue' /\ LimboIsUnkeyed'
    BY DEF DocumentsInv, CacheIsTrue, LimboIsUnkeyed, Cached
  <1> QED BY <1>3, <1>5, <1>6 DEF DocumentsInv

(***************************************************************************)
(* Commits, and what the server says.                                      *)
(***************************************************************************)

(* The pets that t has at commit u, but for some that were gone for a while
   since, will be there after k messages. *)
ShownAt(t, u, k) == \A p \in PetsAt(t, u) : Lasts(p, u, snapver) => WillHave(t, p, u, k)

(* The first messages that d has are those in flight. *)
Extends(d, t) ==
  /\ Len(down) <= Len(d)
  /\ \A j \in 1..Len(down) : d[j] = down[j]
  /\ \A j \in 1..Len(down) : Settled(d, t, j - 1) <=> Settled(down, t, j - 1)

(* Messages and commits that are added leave a snapshot what it was promised ... *)
LEMMA ShownLonger ==
  ASSUME TypeOK, TypeOK', Grows, CacheIsTrue, snapver <= Len(history), NEW g, Dated(g),
         UNCHANGED <<snapver, cache, updates>>, NEW t, NEW d, d = down', Extends(d, t),
         NEW u \in Nat, u <= Len(history), NEW l \in 0..Len(down), ShownAt(t, u, l)
  PROVE  ShownAt(t, u, l)'
  <1>1. PetsAt(t, u)' = PetsAt(t, u)
    BY PetsAtGrow
  <1>2. PICK s \in Nat : s = snapver
    BY DEF TypeOK
  <1>3. l \in Int /\ Len(down) \in Nat
    BY DEF TypeOK
  <1> SUFFICES ASSUME NEW p \in PetsAt(t, u), Lasts(p, u, s)'
               PROVE  WillHave(t, p, u, l)'
    BY <1>1, <1>2 DEF ShownAt
  <1>4. p \in Pets /\ u \in Nat \ {0} /\ p \in history[u]
    BY InPetsAt, PetsAtMatch, HistoryType
  <1>5. Lasts(p, u, s)
    BY <1>2, <1>4, LastsGrow
  <1>6. WillHave(t, p, u, l)
    BY <1>2, <1>5 DEF ShownAt
  <1>7. Lasts(p, u, u)
    BY <1>4 DEF Lasts
  <1>8. \A j \in 1..l : /\ d[j] = down[j]
                        /\ Settled(down, t, j - 1) => Settled(d, t, j - 1)
    <2>1. \A j \in 1..l : j \in 1..Len(down)
      BY <1>3
    <2> QED BY <2>1 DEF Extends
  <1>9. l <= l /\ u \in Int
    BY <1>3
  <1> QED BY <1>3, <1>4, <1>6, <1>7, <1>8, <1>9, WillHaveLonger

(* ... and leave the server right about what it need not send ... *)
LEMMA KnownLonger ==
  ASSUME TypeOK, TypeOK', Grows, CacheIsTrue, SyncInv, NEW g, Dated(g), stream = "open",
         UNCHANGED <<clock, snapver, cache, updates>>,
         NEW t \in Targets, srv'[t].at = srv[t].at, NEW d, d = down', Extends(d, t),
         KnownAreSent(t)
  PROVE  KnownAreSent(t)'
  <1>1. PICK u \in Nat, s \in Nat, c \in Nat, l \in Nat, n \in Nat :
          u = srv[t].at /\ s = snapver /\ c = clock /\ l = Len(down) /\ n = Len(d)
    <2>1. srv[t].at \in Nat /\ snapver \in Nat /\ clock \in Nat /\ Len(down) \in Nat
      BY DEF TypeOK, ServerState
    <2>2. Len(d) \in Nat
      BY DEF TypeOK
    <2> QED BY <2>1, <2>2
  <1>2. u <= c /\ c <= Len(history) /\ s <= Len(history) /\ l <= n
    <2>1. srv[t].at <= clock /\ clock \in 1..Len(history) /\ snapver <= Len(history)
      BY DEF SyncInv, StreamInOrder
    <2>2. Len(history) \in Nat
      BY HistoryType
    <2> QED BY <1>1, <2>1, <2>2 DEF Extends
  <1>3. PetsAt(t, u)' = PetsAt(t, u)
    <2>1. u <= Len(history)
      BY <1>1, <1>2, HistoryType
    <2> QED BY <2>1, PetsAtGrow
  <1> SUFFICES ASSUME NEW p \in PetsAt(t, u), Lasts(p, u, s)', Lasts(p, u, c)'
               PROVE  WillHave(t, p, c, n)'
    BY <1>1, <1>3 DEF KnownAreSent
  <1>4. p \in Pets /\ u \in Nat \ {0}
    BY InPetsAt, PetsAtMatch, HistoryType
  <1>5. Lasts(p, u, s) /\ Lasts(p, u, c)
    BY <1>2, <1>4, LastsGrow
  <1>6. WillHave(t, p, c, l)
    BY <1>1, <1>5 DEF KnownAreSent
  <1>7. Lasts(p, c, c)
    BY <1>2, <1>5, LastsPart
  <1>8. \A j \in 1..l : /\ d[j] = down[j]
                        /\ Settled(down, t, j - 1) => Settled(d, t, j - 1)
    BY <1>1 DEF Extends
  <1>9. c \in Int /\ n \in Int /\ l \in 0..Len(down)
    BY <1>1
  <1> QED BY <1>2, <1>4, <1>6, <1>7, <1>8, <1>9, WillHaveLonger

(* ... and the cache right about what a token stands for. *)
LEMMA CachedAtGrows ==
  ASSUME TypeOK, TypeOK', Grows, CacheIsTrue, snapver <= Len(history),
         UNCHANGED <<snapver, cache>>, NEW t, NEW u \in Nat, u <= Len(history), CachedAt(t, u)
  PROVE  CachedAt(t, u)'
  <1>1. PetsAt(t, u)' = PetsAt(t, u)
    BY PetsAtGrow
  <1>2. PICK s \in Nat : s = snapver
    BY DEF TypeOK
  <1> SUFFICES ASSUME NEW p \in PetsAt(t, u), Lasts(p, u, s)'
               PROVE  CacheHas(p, u)'
    BY <1>1, <1>2 DEF CachedAt
  <1>3. p \in Pets /\ u \in Nat \ {0}
    BY InPetsAt, PetsAtMatch, HistoryType
  <1>4. Lasts(p, u, s)
    BY <1>2, <1>3, LastsGrow
  <1>5. CacheHas(p, u)
    BY <1>2, <1>4 DEF CachedAt
  <1>6. PICK w \in Nat : w = cache[p].version
    BY <1>3 DEF TypeOK, DocumentState
  <1>7. w # 0 /\ Lasts(p, w, u)
    BY <1>3, <1>5, <1>6 DEF CacheHas, CacheIsTrue
  <1>8. Lasts(p, w, u)'
    BY <1>7, LastsGrow
  <1> QED BY <1>5, <1>6, <1>8 DEF CacheHas

(* Commits leave true what a document says, ... *)
LEMMA SaysGrows ==
  ASSUME TypeOK, TypeOK', Grows, snapver' = snapver,
         NEW d, NEW p, NEW c \in Nat, c \in 1..Len(history), Says(d, p, c)
  PROVE  Says(d, p, c)'
  <1>1. history'[c] = history[c]
    BY DEF Grows
  <1>2. CASE d.is = "Document" /\ d.version \in 1..c /\ Lasts(p, d.version, c)
    <2>1. PICK w \in 1..c : w = d.version
      BY <1>2
    <2>2. w \in Nat \ {0} /\ c <= Len(history) /\ c \in Int
      BY HistoryType
    <2>3. Lasts(p, w, c)'
      BY <1>2, <2>1, <2>2, LastsGrow
    <2> QED BY <1>2, <2>1, <2>3 DEF Says
  <1> QED BY <1>1, <1>2 DEF Says

(* ... and what a message tells. *)
LEMMA TellsGrows ==
  ASSUME TypeOK, TypeOK', Grows, snapver' = snapver,
         NEW m, NEW c, Tells(m, c)
  PROVE  Tells(m, c)'
  <1>1. Len(history) \in Nat /\ Len(history') \in Nat /\ Len(history) <= Len(history')
    BY HistoryType DEF Grows, TypeOK
  <1>2. c \in 1..Len(history) => c \in 1..Len(history') /\ history'[c] = history[c]
    BY <1>1 DEF Grows
  <1> QED BY <1>2 DEF Tells

(* A commit changes the history and nothing else. *)
LEMMA CommitGrows ==
  ASSUME TypeOK, TypeOK', Commit
  PROVE  /\ Grows
         /\ UNCHANGED <<clock, srv, up, down, stream, listened, token, updates, local,
                        stored, keys, cache, snapver, current, limbo>>
  <1>1. UNCHANGED <<clock, srv, up, down, stream, listened, token, updates, local,
                    stored, keys, cache, snapver, current, limbo>>
    BY DEF Commit, streamVars, aggregator, storeVars, viewVars
  <1>2. PICK S : history' = Append(history, S)
    BY DEF Commit
  <1>3. history \in Seq(SUBSET Pets) /\ Len(history) \in Nat /\ snapver \in Nat
    BY HistoryType DEF TypeOK
  <1>4. Len(history') = Len(history) + 1 /\ \A w \in 1..Len(history) : history'[w] = history[w]
    BY <1>2, <1>3
  <1> QED BY <1>1, <1>3, <1>4 DEF Grows

(* A commit keeps the invariant. *)
LEMMA DocumentsCommitted ==
  ASSUME TypeOK, TypeOK', AggregatorInv, SyncInv, TokensAgree, DocumentsInv,
         SyncedAreOfACommit', Commit
  PROVE  DocumentsInv'
  <1>1. /\ Grows
        /\ UNCHANGED <<clock, srv, up, down, stream, listened, token, updates, local,
                       stored, keys, cache, snapver, current, limbo>>
    BY CommitGrows
  <1>2. snapver <= Len(history) /\ snapver \in Nat /\ Len(history) \in Nat /\ CacheIsTrue
    BY HistoryType DEF SyncInv, StreamInOrder, DocumentsInv
  <1>3. CacheIsTrue'
    <2> SUFFICES ASSUME NEW p \in Pets, NEW w \in Nat, w = cache[p].version, w # 0
                 PROVE  p \in history'[w] <=> p \in history[w]
      BY <1>1, <1>2 DEF CacheIsTrue, TypeOK, DocumentState
    <2>1. w <= snapver
      BY <1>2 DEF CacheIsTrue
    <2>2. w \in 1..Len(history)
      BY <1>2, <2>1
    <2> QED BY <1>1, <2>2 DEF Grows
  <1>4. ASSUME NEW t, NEW u \in Nat, u <= snapver, CachedAt(t, u)
        PROVE  CachedAt(t, u)'
    <2>1. u <= Len(history)
      BY <1>2, <1>4
    <2> QED BY <1>1, <1>2, <1>4, <2>1, CachedAtGrows
  <1>5. TokensAreCached'
    <2>1. ASSUME NEW t \in listened' PROVE CachedAt(t, token[t])'
      <3>1. PICK u \in Nat : u = token[t]
        BY <1>1, <2>1 DEF TypeOK
      <3>2. u <= snapver /\ CachedAt(t, u)
        BY <1>1, <2>1, <3>1 DEF SyncInv, Bookkeeping, DocumentsInv, TokensAreCached, TypeOK
      <3> QED BY <1>1, <1>4, <3>1, <3>2
    <2>2. ASSUME NEW t \in UserTargets PROVE CachedAt(t, stored[t])' /\ CachedAt(t, local[t])'
      <3>1. PICK a \in Nat, b \in Nat : a = stored[t] /\ b = local[t]
        BY DEF TypeOK
      <3>2. a <= b /\ b <= snapver /\ CachedAt(t, a) /\ CachedAt(t, b)
        BY <3>1 DEF TokensAgree, DocumentsInv, TokensAreCached
      <3>3. a <= snapver
        BY <1>2, <3>2
      <3>4. CachedAt(t, a)' /\ CachedAt(t, b)'
        BY <1>4, <3>2, <3>3
      <3> QED BY <1>1, <3>1, <3>4
    <2> QED BY <2>1, <2>2 DEF TokensAreCached
  <1>6. ASSUME stream = "open"
        PROVE  MessagesAreTrue' /\ DocumentsComeInTime'
    <2>1. PICK g : Dated(g)
      BY <1>6 DEF DocumentsInv, MessagesAreTrue
    <2>2. clock \in Nat /\ Len(down) \in Nat /\ clock <= Len(history) /\ clock \in 1..Len(history)
      BY <1>6, HistoryType DEF TypeOK, SyncInv, StreamInOrder
    <2>3. \A i \in 1..Len(down) : Tells(down[i], g[i])'
      <3> SUFFICES ASSUME NEW i \in 1..Len(down) PROVE Tells(down[i], g[i])'
        OBVIOUS
      <3>1. PICK m, c : m = down[i] /\ c = g[i]
        OBVIOUS
      <3>2. Tells(m, c)'
        BY <1>1, <2>1, <3>1, TellsGrows DEF Dated
      <3>3. m = down'[i]
        BY <1>1, <3>1
      <3> QED BY <3>1, <3>2, <3>3
    <2>4. ASSUME NEW p \in Pets, updates'[p] # Unknown
          PROVE  (\E c \in 1..g[0] : Says(updates[p], p, c))'
      <3>1. updates[p] # Unknown
        BY <1>1, <2>4
      <3>2. PICK c \in 1..g[0] : Says(updates[p], p, c)
        BY <2>1, <3>1 DEF Dated
      <3>3. g[0] \in Nat /\ g[0] <= clock
        <4>1. /\ g \in [0..Len(down) -> Nat] /\ 0 \in 0..Len(down) /\ Len(down) \in 0..Len(down)
              /\ g[0] <= g[Len(down)] /\ g[Len(down)] <= clock
          BY <2>1, <2>2 DEF Dated
        <4> QED BY <2>2, <4>1
      <3>4. c \in Nat /\ c \in 1..Len(history)
        BY <2>2, <3>3
      <3>5. PICK d : d = updates[p]
        OBVIOUS
      <3>6. Says(d, p, c)'
        BY <1>1, <3>2, <3>4, <3>5, SaysGrows
      <3>7. d = updates'[p] /\ g' = g
        BY <1>1, <3>5
      <3>8. Says(updates[p], p, c)'
        BY <3>6, <3>7 DEF Says
      <3> QED BY <3>2, <3>7, <3>8
    <2>5. Dated(g)'
      <3>1. /\ g \in [0..Len(down) -> Nat]
            /\ \A i, j \in 0..Len(down) : i <= j => g[i] <= g[j]
            /\ g[Len(down)] <= clock
        BY <2>1 DEF Dated
      <3>2. down' = down /\ clock' = clock
        BY <1>1
      <3> QED BY <2>3, <2>4, <3>1, <3>2 DEF Dated
    <2>6. ASSUME NEW t \in listened', up'[t] = <<>>
          PROVE  ShownAreSent(t)' /\ KnownAreSent(t)'
      <3>1. ShownAreSent(t) /\ KnownAreSent(t) /\ t \in Targets
        BY <1>1, <1>6, <2>6 DEF DocumentsInv, DocumentsComeInTime, TypeOK
      <3>2. PICK d : d = down'
        OBVIOUS
      <3>3. d = down /\ Extends(d, t)
        BY <1>1, <2>2, <3>2 DEF Extends
      <3>4. KnownAreSent(t)'
        BY <1>1, <1>2, <1>6, <2>1, <3>1, <3>2, <3>3, KnownLonger
      <3>5. ASSUME NEW k \in 1..Len(down), Settled(down, t, k - 1), down[k].kind = "Snapshot"
            PROVE  \E u : u = down[k].number /\ ShownAt(t, u, k - 1)'
        <4>1. PICK u \in Nat : u = down[k].number /\ u <= clock
          BY <1>6, <3>5, SnapshotNumber DEF SyncInv
        <4>2. PICK l \in Nat : l = k - 1
          BY <2>2
        <4>3. ShownAt(t, u, l)
          BY <3>1, <3>5, <4>1, <4>2 DEF ShownAreSent, ShownAt
        <4>4. l \in 0..Len(down) /\ u <= Len(history)
          BY <1>2, <2>2, <4>1, <4>2
        <4>5. ShownAt(t, u, l)'
          BY <1>1, <1>2, <2>1, <3>2, <3>3, <4>3, <4>4, ShownLonger
        <4> QED BY <4>1, <4>2, <4>5
      <3>6. ShownAreSent(t)'
        BY <3>2, <3>3, <3>5 DEF ShownAreSent, ShownAt
      <3> QED BY <3>4, <3>6
    <2>7. stream' = "open"
      BY <1>1, <1>6
    <2> QED BY <2>5, <2>6, <2>7 DEF MessagesAreTrue, DocumentsComeInTime
  <1>7. MessagesAreTrue' /\ DocumentsComeInTime'
    <2>1. CASE stream = "open"
      BY <1>6, <2>1
    <2>2. CASE stream # "open"
      BY <1>1, <2>2 DEF DocumentsInv, MessagesAreTrue, DocumentsComeInTime
    <2> QED BY <2>1, <2>2
  <1>8. LimboIsUnkeyed'
    BY <1>1 DEF DocumentsInv, LimboIsUnkeyed, Cached
  <1> QED BY <1>3, <1>5, <1>7, <1>8 DEF DocumentsInv

(* A message that answers no request of t leaves its others where they are. *)
LEMMA ExtendsSaid ==
  ASSUME TypeOK, NEW m \in Response, NEW t, ~IsAnswer(m, t), NEW d, d = Append(down, m)
  PROVE  Extends(d, t) /\ \A k \in Int : Settled(d, t, k) <=> Settled(down, t, k)
  <1>1. down \in Seq(Response) /\ Len(down) \in Nat
    BY DEF TypeOK
  <1>2. Answers(d, t) = Answers(down, t)
    BY <1>1, SettledSaid
  <1>3. Len(d) = Len(down) + 1 /\ \A j \in 1..Len(down) : d[j] = down[j]
    BY <1>1
  <1> QED BY <1>1, <1>2, <1>3 DEF Extends, Settled

(* A new message tells of the commit that the server is at. *)
LEMMA DatedSaid ==
  ASSUME TypeOK, TypeOK', NEW m \in Response, down' = Append(down, m), NEW g, Dated(g),
         UNCHANGED <<history, clock, snapver, updates>>, Tells(m, clock),
         NEW n, n = Len(down), NEW f, f = Extended(g, n, clock)
  PROVE  Dated(f)'
  <1>1. PICK d \in Seq(Response), c \in Nat : d = down' /\ c = clock
    BY DEF TypeOK
  <1>2. down \in Seq(Response) /\ n \in Nat
    BY DEF TypeOK
  <1>3. Len(d) = n + 1 /\ d[n + 1] = m /\ \A j \in 1..n : d[j] = down[j]
    BY <1>1, <1>2
  <1>4. /\ g \in [0..n -> Nat] /\ \A i, j \in 0..n : i <= j => g[i] <= g[j]
        /\ g[n] <= c
        /\ \A i \in 1..n : Tells(down[i], g[i])
        /\ \A p \in Pets : updates[p] # Unknown => \E w \in 1..g[0] : Says(updates[p], p, w)
    BY <1>1 DEF Dated
  <1>5. /\ f = [k \in 0..(n + 1) |-> IF k <= n THEN g[k] ELSE c]
        /\ f \in [0..(n + 1) -> Nat]
        /\ f[n + 1] = c /\ \A i \in 0..n : f[i] = g[i]
    BY <1>1, <1>2, <1>4 DEF Extended
  <1>6. \A i, j \in 0..(n + 1) : i <= j => f[i] <= f[j]
    <2> SUFFICES ASSUME NEW i \in 0..(n + 1), NEW j \in 0..(n + 1), i <= j
                 PROVE  f[i] <= f[j]
      OBVIOUS
    <2>1. CASE j = n + 1
      <3>1. CASE i = n + 1
        BY <1>5, <2>1, <3>1
      <3>2. CASE i # n + 1
        <4>1. i \in 0..n /\ n \in 0..n /\ i <= n
          BY <1>2, <3>2
        <4>2. g[i] \in Nat /\ g[n] \in Nat /\ g[i] <= g[n]
          BY <1>4, <4>1
        <4> QED BY <1>4, <1>5, <2>1, <4>1, <4>2
      <3> QED BY <3>1, <3>2
    <2>2. CASE j # n + 1
      <3>1. i \in 0..n /\ j \in 0..n
        BY <1>2, <2>2
      <3> QED BY <1>4, <1>5, <3>1
    <2> QED BY <2>1, <2>2
  <1>7. \A i \in 1..(n + 1) : Tells(d[i], f[i])
    <2> SUFFICES ASSUME NEW i \in 1..(n + 1) PROVE Tells(d[i], f[i])
      OBVIOUS
    <2>1. CASE i = n + 1
      BY <1>1, <1>3, <1>5, <2>1
    <2>2. CASE i # n + 1
      <3>1. i \in 1..n /\ i \in 0..n
        BY <1>2, <2>2
      <3> QED BY <1>3, <1>4, <1>5, <3>1
    <2> QED BY <2>1, <2>2
  <1>8. f[0] = g[0] /\ c <= c
    BY <1>2, <1>5
  <1>9. \A i \in 1..(n + 1) : Tells(d[i], f[i])'
    BY <1>7 DEF Tells
  <1>10. \A p \in Pets : updates'[p] # Unknown => (\E w \in 1..f[0] : Says(updates[p], p, w))'
    BY <1>4, <1>8 DEF Says, Lasts
  <1>11. d = down' /\ Len(down') = n + 1 /\ clock' = c
    BY <1>1, <1>3
  <1> QED BY <1>5, <1>6, <1>8, <1>9, <1>10, <1>11 DEF Dated

(* What a new message m has to mean to a target. *)
Answering(t, m) ==
  /\ KnownAreSent(t)'
  /\ ~IsAnswer(m, t) =>
       /\ up[t] = <<>>
       /\ m.kind = "Snapshot" => ShownAt(t, clock, Len(down))

(* A new message keeps the invariant if it means to every target that is asked
   for what it has to. *)
LEMMA DocumentsSaid ==
  ASSUME TypeOK, TypeOK', SyncInv, DocumentsInv, SyncedAreOfACommit', stream = "open",
         NEW m \in Response, down' = Append(down, m), Tells(m, clock),
         UNCHANGED <<history, clock, stream, listened, token, updates, local, stored, keys,
                     cache, snapver, current, limbo>>,
         \A t \in listened : up'[t] = <<>> => Answering(t, m)
  PROVE  DocumentsInv'
  <1>1. PICK g : Dated(g)
    BY DEF DocumentsInv, MessagesAreTrue
  <1>2. PICK n \in Nat, c \in Nat, d \in Seq(Response) : n = Len(down) /\ c = clock /\ d = down'
    <2>1. down' \in Seq(Response)
      BY DEF TypeOK
    <2>2. clock \in Nat /\ Len(down) \in Nat
      BY DEF TypeOK
    <2> QED BY <2>1, <2>2
  <1>3. Len(d) = n + 1 /\ d[n + 1] = m /\ (\A j \in 1..n : d[j] = down[j])
        /\ down \in Seq(Response)
    <2>1. down \in Seq(Response)
      BY DEF TypeOK
    <2> QED BY <1>2, <2>1
  <1>4. MessagesAreTrue'
    <2>1. PICK f : f = Extended(g, n, clock)
      OBVIOUS
    <2>2. Dated(f)'
      BY <1>1, <1>2, <2>1, DatedSaid
    <2> QED BY <2>2 DEF MessagesAreTrue
  <1>5. Grows /\ CacheIsTrue /\ snapver <= Len(history) /\ c <= Len(history)
    BY <1>2, HistoryType DEF Grows, DocumentsInv, SyncInv, StreamInOrder
  <1>6. ASSUME NEW t \in listened', up'[t] = <<>>
        PROVE  ShownAreSent(t)' /\ KnownAreSent(t)'
    <2>1. t \in listened /\ Answering(t, m)
      BY <1>6
    <2>2. ASSUME NEW k \in 1..Len(d), Settled(d, t, k - 1), d[k].kind = "Snapshot"
          PROVE  \E u, l : u = d[k].number /\ l = k - 1 /\ ShownAt(t, u, l)'
      <3>1. ~IsAnswer(m, t)
        <4>1. SUFFICES ASSUME IsAnswer(m, t) PROVE FALSE
          OBVIOUS
        <4>2. \A j \in Int : Settled(d, t, j) => j >= n + 1
          BY <1>2, <1>3, <4>1, SettledAnswered
        <4>3. k - 1 \in Int /\ k - 1 < n + 1
          BY <1>3
        <4> QED BY <1>2, <2>2, <4>2, <4>3
      <3>2. /\ Extends(d, t) /\ up[t] = <<>>
            /\ m.kind = "Snapshot" => ShownAt(t, clock, Len(down))
        BY <1>2, <2>1, <3>1, ExtendsSaid DEF Answering
      <3>3. PICK l \in 0..Len(down), u \in Nat : u = d[k].number /\ l = k - 1 /\ u <= c
                                             /\ ShownAt(t, u, l)
        <4>1. CASE k = n + 1
          <5>2. m.number = clock
            BY <1>3, <2>2, <4>1 DEF Tells
          <5>3. c = d[k].number /\ n = k - 1 /\ ShownAt(t, c, n) /\ n \in 0..Len(down)
            BY <1>2, <1>3, <2>2, <3>2, <4>1, <5>2
          <5> QED BY <1>2, <5>3
        <4>2. CASE k # n + 1
          <5>1. k \in 1..Len(down) /\ down[k] = d[k]
            BY <1>2, <1>3, <4>2
          <5>2. Settled(down, t, k - 1) /\ down[k].kind = "Snapshot"
            BY <2>2, <3>2, <5>1 DEF Extends
          <5>3. ShownAreSent(t)
            BY <2>1, <3>2 DEF DocumentsInv, DocumentsComeInTime
          <5>4. PICK u \in Nat : u = down[k].number /\ u <= clock
            BY <5>1, <5>2, SnapshotNumber DEF SyncInv
          <5>5. PICK l \in 0..Len(down) : l = k - 1
            BY <1>2, <5>1
          <5>6. ShownAt(t, u, l)
            BY <5>1, <5>2, <5>3, <5>4, <5>5 DEF ShownAreSent, ShownAt
          <5> QED BY <1>2, <5>1, <5>4, <5>5, <5>6
        <4> QED BY <4>1, <4>2
      <3>4. u <= Len(history)
        BY <1>5, <3>3, HistoryType
      <3>5. UNCHANGED <<snapver, cache, updates>>
        OBVIOUS
      <3>6. ShownAt(t, u, l)'
        BY <1>1, <1>2, <1>5, <3>2, <3>3, <3>4, <3>5, ShownLonger
      <3> QED BY <3>3, <3>6
    <2>3. ShownAreSent(t)'
      BY <1>2, <2>2 DEF ShownAreSent, ShownAt
    <2> QED BY <2>1, <2>3 DEF Answering
  <1>7. DocumentsComeInTime'
    BY <1>6 DEF DocumentsComeInTime
  <1>8. \A t, u : CachedAt(t, u) <=> CachedAt(t, u)'
    BY DEF CachedAt, CacheHas, PetsAt, Lasts
  <1>9. TokensAreCached'
    <2>1. ASSUME NEW t \in listened' PROVE CachedAt(t, token[t])'
      BY <1>8 DEF DocumentsInv, TokensAreCached, CachedAt, CacheHas, PetsAt, Lasts
    <2>2. ASSUME NEW t \in UserTargets PROVE CachedAt(t, stored[t])' /\ CachedAt(t, local[t])'
      BY <1>8 DEF DocumentsInv, TokensAreCached, CachedAt, CacheHas, PetsAt, Lasts
    <2> QED BY <2>1, <2>2 DEF TokensAreCached
  <1>10. CacheIsTrue' /\ LimboIsUnkeyed'
    BY DEF DocumentsInv, CacheIsTrue, LimboIsUnkeyed, Cached
  <1> QED BY <1>4, <1>7, <1>9, <1>10 DEF DocumentsInv

(* A server that has told nothing has to send everything. *)
LEMMA KnownOfNothing ==
  ASSUME TypeOK', NEW t, srv'[t].at = 0
  PROVE  KnownAreSent(t)'
  <1>1. 0 \notin DOMAIN history'
    BY DEF TypeOK
  <1> QED BY <1>1 DEF KnownAreSent, PetsAt

(* A message about another target, or about nothing that was written, means
   nothing new to t. *)
LEMMA StillAnswering ==
  ASSUME TypeOK, TypeOK', SyncInv, DocumentsInv, stream = "open",
         NEW m \in Response, down' = Append(down, m), m.kind # "Snapshot",
         UNCHANGED <<history, clock, snapver, cache, updates>>,
         NEW t \in listened, ~IsAnswer(m, t), up[t] = <<>>, srv'[t].at = srv[t].at
  PROVE  Answering(t, m)
  <1>1. PICK g : Dated(g)
    BY DEF DocumentsInv, MessagesAreTrue
  <1>2. KnownAreSent(t) /\ t \in Targets
    BY DEF DocumentsInv, DocumentsComeInTime, TypeOK
  <1>3. Grows /\ CacheIsTrue
    BY HistoryType DEF Grows, DocumentsInv
  <1>4. PICK d : d = down'
    OBVIOUS
  <1>5. Extends(d, t)
    BY <1>4, ExtendsSaid
  <1>6. KnownAreSent(t)'
    BY <1>1, <1>2, <1>3, <1>4, <1>5, KnownLonger
  <1> QED BY <1>6 DEF Answering

(* The pets that a server which has told of commit u need not send for the one
   it is at. *)
LEMMA NotWritten ==
  ASSUME TypeOK, NEW t, NEW u \in Nat, NEW c \in Nat, u <= c,
         NEW p \in PetsAt(t, c) \ Written(t, u, c)
  PROVE  u # 0 /\ Lasts(p, u, c) /\ (c <= Len(history) => p \in PetsAt(t, u))
  <1>1. u # 0 /\ \A w \in u..c : p \in history[w]
    BY DEF Written
  <1>2. p \in history[u] /\ (IsDocumentQuery(t) => p = t.path)
    BY <1>1, InPetsAt
  <1>3. c <= Len(history) => u \in 1..Len(history)
    BY <1>1, HistoryType
  <1> QED BY <1>1, <1>2, <1>3, InPetsAt DEF Lasts

(* What t had been told at commit u, with the documents written since, is what
   it has to be told at commit c. *)
LEMMA WrittenAreKnown ==
  ASSUME TypeOK, SyncInv, stream = "open", NEW t \in listened, KnownAreSent(t),
         NEW c \in Nat, c = clock, NEW p \in PetsAt(t, c) \ Written(t, srv[t].at, c),
         Lasts(p, c, snapver)
  PROVE  WillHave(t, p, c, Len(down))
  <1>1. PICK u \in Nat, s \in Nat : u = srv[t].at /\ s = snapver
    BY DEF TypeOK, ServerState
  <1>2. u <= c /\ c <= Len(history)
    <2>1. srv[t].at <= clock /\ clock \in 1..Len(history)
      BY DEF SyncInv, StreamInOrder, TypeOK
    <2> QED BY <1>1, <2>1, HistoryType
  <1>3. Lasts(p, u, c) /\ p \in PetsAt(t, u)
    BY <1>1, <1>2, NotWritten
  <1>4. Lasts(p, u, s)
    BY <1>1, <1>3, LastsJoined
  <1> QED BY <1>1, <1>3, <1>4 DEF KnownAreSent

(* The server sends what was written since, or finds that nothing was. *)
LEMMA DocumentsSent ==
  ASSUME TypeOK, TypeOK', AggregatorInv, SyncInv, DocumentsInv, SyncedAreOfACommit',
         NEW t \in Targets, ServerSendsDocuments(t)
  PROVE  DocumentsInv'
  <1>1. /\ stream = "open" /\ srv[t] \in ServerState /\ srv \in [Targets -> ServerState]
    BY DEF ServerSendsDocuments, AggregatorInv, ClosedIsEmpty, Off, TypeOK
  <1>2. PICK u \in Nat, c \in Nat : u = srv[t].at /\ c = clock
    BY <1>1 DEF ServerState, TypeOK
  <1>3. c \in 1..Len(history) /\ u <= c /\ c <= Len(history)
    <2>1. srv[t].at <= clock /\ clock \in 1..Len(history)
      BY <1>1 DEF SyncInv, StreamInOrder
    <2> QED BY <1>2, <2>1, HistoryType
  <1>4. PICK A, R : A = Written(t, u, c)
                    /\ R = IF srv[t].blind THEN {} ELSE PetsAt(t, u) \ PetsAt(t, c)
    OBVIOUS
  <1>5. PICK m : m = [Message("Documents", t) EXCEPT !.added = A, !.removed = R, !.number = c]
    OBVIOUS
  <1>6. A \in SUBSET Pets /\ R \in SUBSET Pets /\ A \subseteq PetsAt(t, c)
    BY <1>4, PetsAtMatch DEF Written
  <1>7. /\ m \in Response /\ m.kind = "Documents" /\ m.target = t
        /\ m.added = A /\ m.removed = R /\ m.number = c
    <2>1. m \in Response
      BY <1>2, <1>5, <1>6, MessageType
    <2> QED BY <1>5, <2>1 DEF Message
  <1>8. PICK state : state = [srv[t] EXCEPT !.at = c]
    OBVIOUS
  <1>9. /\ state \in ServerState /\ state.at = c
        /\ up' = up /\ srv' = [srv EXCEPT ![t] = state]
        /\ UNCHANGED <<history, clock, stream, listened, token, updates, local, stored, keys,
                       cache, snapver, current, limbo>>
        /\ down' = IF A = {} /\ R = {} THEN down ELSE Append(down, m)
    <2>1. state \in ServerState /\ state.at = c
      BY <1>1, <1>2, <1>8 DEF ServerState
    <2>2. /\ A = Written(t, srv[t].at, clock)
          /\ R = IF srv[t].blind THEN {} ELSE PetsAt(t, srv[t].at) \ PetsAt(t, clock)
          /\ m = [Message("Documents", t) EXCEPT !.added = A, !.removed = R, !.number = clock]
          /\ state = [srv[t] EXCEPT !.at = clock]
      BY <1>2, <1>4, <1>5, <1>8
    <2>3. CASE A = {} /\ R = {}
      <3>1. /\ srv' = [srv EXCEPT ![t] = state] /\ up' = up
            /\ UNCHANGED <<history, clock, down, stream, listened, token, aggregator,
                           storeVars, viewVars>>
        BY <2>2, <2>3 DEF ServerSendsDocuments, Message
      <3> QED BY <2>1, <2>3, <3>1 DEF aggregator, storeVars, viewVars
    <2>4. CASE ~(A = {} /\ R = {})
      <3>1. Say(m, state) /\ up' = up
        BY <1>7, <2>2, <2>4 DEF ServerSendsDocuments
      <3> QED BY <1>7, <2>1, <2>4, <3>1 DEF Say, aggregator, storeVars, viewVars
    <2> QED BY <2>3, <2>4
  <1>10. PICK g : Dated(g)
    BY <1>1 DEF DocumentsInv, MessagesAreTrue
  <1>11. Grows /\ CacheIsTrue
    BY <1>9, HistoryType DEF Grows, DocumentsInv
  <1>12. /\ PetsAt(t, c)' = PetsAt(t, c) /\ \A p, a, b : Lasts(p, a, b) <=> Lasts(p, a, b)'
         /\ srv'[t].at = c
    BY <1>9 DEF PetsAt, Lasts, TypeOK
  <1>13. PICK n \in Nat, e \in Nat, d \in Seq(Response) : n = Len(down) /\ d = down' /\ e = Len(d)
    <2>1. down' \in Seq(Response)
      BY DEF TypeOK
    <2>2. Len(down) \in Nat /\ Len(down') \in Nat
      BY <2>1 DEF TypeOK
    <2> QED BY <2>2, <2>1
  <1>14. ~IsAnswer(m, t) /\ ~IsAnswer(m, t)'
    BY <1>7 DEF IsAnswer
  <1>15. Extends(d, t) /\ n <= e /\ n \in 0..Len(down)
    <2>1. CASE A = {} /\ R = {}
      BY <1>9, <1>13, <2>1 DEF Extends
    <2>2. CASE ~(A = {} /\ R = {})
      <3>1. d = Append(down, m)
        BY <1>9, <1>13, <2>2
      <3>2. Extends(d, t)
        BY <1>7, <1>14, <3>1, ExtendsSaid
      <3> QED BY <1>13, <3>2 DEF Extends
    <2> QED BY <2>1, <2>2
  <1>16. ASSUME t \in listened, up[t] = <<>>
         PROVE  KnownAreSent(t)'
    <2>1. KnownAreSent(t)
      BY <1>1, <1>16 DEF DocumentsInv, DocumentsComeInTime
    <2> SUFFICES ASSUME NEW p \in PetsAt(t, c), Lasts(p, c, snapver)
                 PROVE  WillHave(t, p, c, e)'
      BY <1>2, <1>9, <1>12, <1>13 DEF KnownAreSent
    <2>2. p \in Pets /\ p \in history[c]
      BY PetsAtMatch, InPetsAt
    <2>3. Lasts(p, c, c)
      BY <2>2 DEF Lasts
    <2>4. CASE p \notin A
      <3>1. WillHave(t, p, c, n)
        BY <1>1, <1>2, <1>4, <1>13, <1>16, <2>1, <2>4, WrittenAreKnown
      <3>2. \A j \in 1..n : /\ d[j] = down[j]
                            /\ Settled(down, t, j - 1) => Settled(d, t, j - 1)
        BY <1>13, <1>15 DEF Extends
      <3>3. UNCHANGED <<cache, updates>> /\ c \in Int /\ e \in Int
        BY <1>9
      <3> QED BY <1>3, <1>10, <1>11, <1>13, <1>15, <2>2, <2>3, <3>1, <3>2, <3>3, WillHaveLonger
    <2>5. CASE p \in A
      <3>1. d = Append(down, m)
        BY <1>9, <1>13, <2>5
      <3>2. e = n + 1 /\ d[e] = m /\ e \in 1..e
        BY <1>13, <3>1 DEF TypeOK
      <3>3. Settled(d, t, e - 1)
        <4>1. Settled(down, t, n) /\ n \in Int
          BY <1>13, SettledEnd DEF TypeOK
        <4>2. Settled(d, t, n)
          BY <1>7, <1>14, <3>1, <4>1, ExtendsSaid
        <4>3. e - 1 = n
          BY <3>2
        <4> QED BY <4>2, <4>3
      <3>4. Lasts(p, c, c)'
        BY <1>12, <2>3
      <3> QED BY <1>7, <1>13, <2>5, <3>2, <3>3, <3>4 DEF SentWithin, WillHave
    <2> QED BY <2>4, <2>5
  <1>17. CASE ~(A = {} /\ R = {})
    <2>1. down' = Append(down, m)
      BY <1>9, <1>17
    <2>2. Tells(m, clock)
      <3>1. \A p \in R : p \notin history[c]
        <4> SUFFICES ASSUME NEW p \in R PROVE p \notin history[c]
          OBVIOUS
        <4>1. p \in PetsAt(t, u) /\ p \notin PetsAt(t, c)
          BY <1>4
        <4> QED BY <1>3, <4>1, InPetsAt
      <3>2. A \subseteq history[c]
        BY <1>6, InPetsAt
      <3> QED BY <1>2, <1>3, <1>7, <3>1, <3>2 DEF Tells
    <2>3. ASSUME NEW x \in listened, up'[x] = <<>>
          PROVE  Answering(x, m)
      <3>1. CASE x = t
        BY <1>7, <1>9, <1>16, <2>3, <3>1 DEF Answering
      <3>2. CASE x # t
        <4>1. srv'[x].at = srv[x].at /\ up[x] = <<>> /\ ~IsAnswer(m, x)
          BY <1>1, <1>7, <1>9, <2>3, <3>2 DEF IsAnswer, TypeOK
        <4> QED BY <1>1, <1>7, <1>9, <2>1, <4>1, StillAnswering
      <3> QED BY <3>1, <3>2
    <2> QED BY <1>1, <1>7, <1>9, <2>1, <2>2, <2>3, DocumentsSaid
  <1>18. CASE A = {} /\ R = {}
    <2>1. down' = down
      BY <1>9, <1>18
    <2>2. MessagesAreTrue'
      <3>1. Dated(g)'
        <4>1. \A i \in 1..Len(down) : Tells(down[i], g[i])'
          BY <1>9, <1>10, <2>1 DEF Dated, Tells
        <4>2. \A p \in Pets : updates'[p] # Unknown => (\E w \in 1..g[0] : Says(updates[p], p, w))'
          BY <1>9, <1>10 DEF Dated, Says, Lasts
        <4>3. /\ g \in [0..Len(down) -> Nat] /\ g[Len(down)] <= clock
              /\ \A i, j \in 0..Len(down) : i <= j => g[i] <= g[j]
          BY <1>10 DEF Dated
        <4>4. down' = down /\ clock' = clock
          BY <1>9, <2>1
        <4> QED BY <4>1, <4>2, <4>3, <4>4 DEF Dated
      <3> QED BY <1>1, <1>9, <3>1 DEF MessagesAreTrue
    <2>3. ASSUME NEW x \in listened', up'[x] = <<>>
          PROVE  ShownAreSent(x)' /\ KnownAreSent(x)'
      <3>1. x \in listened /\ up[x] = <<>> /\ ShownAreSent(x) /\ KnownAreSent(x)
        BY <1>1, <1>9, <2>3 DEF DocumentsInv, DocumentsComeInTime
      <3>2. ShownAreSent(x)'
        <4>1. UNCHANGED <<history, down, cache, updates, snapver>>
          BY <1>9, <2>1
        <4>2. ShownAreSent(x)
          BY <3>1
        <4> QED
          BY <4>1, <4>2
          DEF ShownAreSent, WillHave, CacheHas, UpdateHas, SentWithin, PetsAt, Lasts
      <3>3. CASE x = t
        BY <1>16, <3>1, <3>2, <3>3
      <3>4. CASE x # t
        <4>1. srv'[x] = srv[x]
          BY <1>1, <1>9, <3>4
        <4>2. KnownAreSent(x)'
          BY <1>9, <2>1, <3>1, <4>1
          DEF KnownAreSent, WillHave, CacheHas, UpdateHas, SentWithin, PetsAt, Lasts
        <4> QED BY <3>2, <4>2
      <3> QED BY <3>3, <3>4
    <2>4. DocumentsComeInTime'
      BY <2>3 DEF DocumentsComeInTime
    <2>5. TokensAreCached'
      BY <1>9 DEF DocumentsInv, TokensAreCached, CachedAt, CacheHas, PetsAt, Lasts
    <2>6. CacheIsTrue' /\ LimboIsUnkeyed'
      BY <1>9 DEF DocumentsInv, CacheIsTrue, LimboIsUnkeyed, Cached
    <2> QED BY <2>2, <2>4, <2>5, <2>6 DEF DocumentsInv
  <1> QED BY <1>17, <1>18

(* A message of one target keeps the invariant if it does so for this target. *)
LEMMA DocumentsSays ==
  ASSUME TypeOK, TypeOK', SyncInv, DocumentsInv, SyncedAreOfACommit', stream = "open",
         NEW t \in Targets, NEW m \in Response, NEW state, Say(m, state),
         m.target = t, m.kind # "Snapshot", Tells(m, clock),
         \A x \in Targets : x # t => up'[x] = up[x],
         t \in listened /\ up'[t] = <<>> => Answering(t, m)
  PROVE  DocumentsInv'
  <1>1. /\ UNCHANGED <<history, clock, stream, listened, token, updates, local, stored, keys,
                       cache, snapver, current, limbo>>
        /\ down' = Append(down, m) /\ srv' = [srv EXCEPT ![t] = state]
    BY DEF Say, aggregator, storeVars, viewVars
  <1>2. ASSUME NEW x \in listened, up'[x] = <<>>
        PROVE  Answering(x, m)
    <2>1. CASE x = t
      BY <1>2, <2>1
    <2>2. CASE x # t
      <3>1. x \in Targets /\ srv'[x].at = srv[x].at /\ up[x] = <<>> /\ ~IsAnswer(m, x)
        BY <1>1, <1>2, <2>2 DEF IsAnswer, TypeOK
      <3> QED BY <1>1, <3>1, StillAnswering
    <2> QED BY <2>1, <2>2
  <1> QED BY <1>1, <1>2, DocumentsSaid

(* A request is answered.  The server starts from the token, of which the cache
   has what it stands for. *)
LEMMA DocumentsAnswered ==
  ASSUME TypeOK, TypeOK', AggregatorInv, SyncInv, DocumentsInv, SyncedAreOfACommit',
         NEW t \in Targets, ServerWatch(t) \/ ServerUnwatch(t)
  PROVE  DocumentsInv'
  <1>1. /\ up[t] # <<>> /\ up' = [up EXCEPT ![t] = Tail(@)] /\ up[t] \in Seq(Request)
        /\ up \in [Targets -> Seq(Request)] /\ srv \in [Targets -> ServerState]
    BY DEF ServerWatch, ServerUnwatch, TypeOK
  <1>2. stream = "open"
    BY <1>1 DEF AggregatorInv, ClosedIsEmpty
  <1>3. up'[t] = Tail(up[t]) /\ \A x \in Targets : x # t => up'[x] = up[x]
    BY <1>1
  <1>4. CASE ServerWatch(t)
    <2>1. PICK u : u = Head(up[t]).token
      OBVIOUS
    <2>2. PICK blind :
            Say(Message("Added", t), [Off EXCEPT !.on = TRUE, !.at = u, !.blind = blind])
      BY <1>4, <2>1 DEF ServerWatch
    <2>3. PICK state : state = [Off EXCEPT !.on = TRUE, !.at = u, !.blind = blind]
      OBVIOUS
    <2>4. PICK m : m = Message("Added", t)
      OBVIOUS
    <2>5. m \in Response /\ m.kind = "Added" /\ m.target = t /\ Say(m, state) /\ IsAnswer(m, t)
      BY <2>2, <2>3, <2>4, MessageType DEF Message, IsAnswer
    <2>6. Tells(m, clock)
      BY <2>5 DEF Tells
    <2>7. ASSUME t \in listened, up'[t] = <<>>
          PROVE  Answering(t, m)
      <3>1. u = token[t]
        <4>1. Len(up[t]) = 1 /\ up[t][1] = Head(up[t])
          BY <1>1, <1>3, <2>7, LastOfTail
        <4> QED BY <1>1, <1>2, <2>1, <2>7, <4>1 DEF SyncInv, ResumesAsAsked
      <3>2. /\ srv'[t].at = u /\ clock' = clock /\ snapver' = snapver /\ history' = history
            /\ cache' = cache
        <4>1. srv' = [srv EXCEPT ![t] = state] /\ state.at = u
          BY <2>3, <2>5 DEF Say, Off
        <4> QED BY <1>1, <2>5, <4>1 DEF Say, storeVars
      <3>3. PICK c \in Nat, w \in Nat, l \in Nat : c = clock /\ w = u /\ l = Len(down')
        <4>1. clock \in Nat /\ token[t] \in Nat
          BY <2>7 DEF TypeOK
        <4>2. Len(down') \in Nat
          BY DEF TypeOK
        <4> QED BY <3>1, <4>1, <4>2
      <3>4. CachedAt(t, w)
        BY <2>7, <3>1, <3>3 DEF DocumentsInv, TokensAreCached
      <3>5. KnownAreSent(t)'
        <4> SUFFICES ASSUME NEW p \in PetsAt(t, w), Lasts(p, w, snapver), Lasts(p, w, c)
                     PROVE  WillHave(t, p, c, l)'
          BY <3>2, <3>3 DEF KnownAreSent, PetsAt, Lasts
        <4>1. CacheHas(p, w) /\ p \in Pets
          BY <3>4, PetsAtMatch DEF CachedAt
        <4>2. PICK x \in Nat : x = cache[p].version
          BY <4>1 DEF TypeOK, DocumentState
        <4>3. Lasts(p, x, c)
          BY <4>1, <4>2, LastsJoined DEF CacheHas
        <4> QED BY <3>2, <4>1, <4>2, <4>3 DEF CacheHas, WillHave, Lasts
      <3> QED BY <2>5, <3>5 DEF Answering
    <2> QED BY <1>2, <1>3, <2>5, <2>6, <2>7, DocumentsSays
  <1>5. CASE ServerUnwatch(t)
    <2>1. PICK m : m = Message("Removed", t)
      OBVIOUS
    <2>2. m \in Response /\ m.kind = "Removed" /\ m.target = t /\ Say(m, Off) /\ IsAnswer(m, t)
      BY <1>5, <2>1, MessageType DEF Message, IsAnswer, ServerUnwatch
    <2>3. Tells(m, clock)
      BY <2>2 DEF Tells
    <2>4. srv'[t].at = 0
      BY <1>1, <2>2 DEF Say, Off
    <2>5. Answering(t, m)
      BY <2>2, <2>4, KnownOfNothing DEF Answering
    <2> QED BY <1>2, <1>3, <2>2, <2>3, <2>5, DocumentsSays
  <1> QED BY <1>4, <1>5

(* All that the server does for one target keeps the invariant. *)
LEMMA DocumentsServed ==
  ASSUME TypeOK, TypeOK', AggregatorInv, SyncInv, DocumentsInv, SyncedAreOfACommit',
         NEW t \in Targets, ServerStep(t) \/ ServerReset(t)
  PROVE  DocumentsInv'
  <1>1. srv[t].on \/ srv[t].told => stream = "open"
    BY DEF AggregatorInv, ClosedIsEmpty, Off
  <1>2. srv[t] \in ServerState /\ srv \in [Targets -> ServerState] /\ clock \in Nat
    BY DEF TypeOK
  <1>3. ASSUME NEW m \in Response, NEW state, Say(m, state), m.target = t, up' = up,
               m.kind \in {"Current", "Filter", "Reset"}, stream = "open", Tells(m, clock),
               state.at = srv[t].at \/ state.at = 0
        PROVE  DocumentsInv'
    <2>1. /\ UNCHANGED <<history, clock, updates, cache, snapver>>
          /\ down' = Append(down, m) /\ srv' = [srv EXCEPT ![t] = state]
      BY <1>3 DEF Say, aggregator, storeVars
    <2>2. srv'[t] = state /\ ~IsAnswer(m, t) /\ m.kind # "Snapshot"
      BY <1>2, <1>3, <2>1 DEF IsAnswer
    <2>3. ASSUME t \in listened, up'[t] = <<>>
          PROVE  Answering(t, m)
      <3>1. up[t] = <<>>
        BY <1>3, <2>3
      <3>2. CASE state.at = 0
        BY <2>2, <3>1, <3>2, KnownOfNothing DEF Answering
      <3>3. CASE state.at = srv[t].at
        BY <1>3, <2>1, <2>2, <2>3, <3>1, <3>3, StillAnswering
      <3> QED BY <1>3, <3>2, <3>3
    <2> QED BY <1>3, <2>2, <2>3, DocumentsSays
  <1>4. CASE ServerSendsCurrent(t)
    <2>1. PICK m : m = Message("Current", t)
      OBVIOUS
    <2>2. m \in Response /\ m.kind = "Current" /\ m.target = t
      BY <2>1, MessageType DEF Message
    <2>3. PICK state : state = [srv[t] EXCEPT !.told = TRUE]
      OBVIOUS
    <2>4. state.at = srv[t].at
      BY <1>2, <2>3 DEF ServerState
    <2>5. Say(m, state) /\ up' = up /\ stream = "open"
      BY <1>1, <1>4, <2>1, <2>3 DEF ServerSendsCurrent
    <2>6. Tells(m, clock)
      BY <2>2 DEF Tells
    <2> QED BY <1>3, <2>2, <2>4, <2>5, <2>6
  <1>5. CASE ServerReset(t)
    <2>1. PICK m : m = Message("Reset", t)
      OBVIOUS
    <2>2. m \in Response /\ m.kind = "Reset" /\ m.target = t
      BY <2>1, MessageType DEF Message
    <2>3. PICK state : state = [Off EXCEPT !.on = TRUE]
      OBVIOUS
    <2>4. state.at = 0
      BY <2>3 DEF Off
    <2>5. Say(m, state) /\ up' = up /\ stream = "open"
      BY <1>1, <1>5, <2>1, <2>3 DEF ServerReset
    <2>6. Tells(m, clock)
      BY <2>2 DEF Tells
    <2> QED BY <1>3, <2>2, <2>4, <2>5, <2>6
  <1>6. CASE ServerSendsFilter(t)
    <2>1. PICK Q, c : Q = PetsAt(t, c) /\ c = clock
      OBVIOUS
    <2>2. PICK m : m = [Message("Filter", t) EXCEPT !.number = Cardinality(Q)]
      OBVIOUS
    <2>3. Q \in SUBSET Pets /\ IsFiniteSet(Q) /\ Cardinality(Q) \in Nat
      BY <2>1, PetsAtType, FS_Subset, FS_CardinalityType, PetQueriesAssumption
    <2>4. m \in Response /\ m.kind = "Filter" /\ m.target = t /\ m.number = Cardinality(Q)
      BY <2>2, <2>3, MessageType DEF Message
    <2>5. PICK state : state = [srv[t] EXCEPT !.blind = FALSE]
      OBVIOUS
    <2>6. state.at = srv[t].at
      BY <1>2, <2>5 DEF ServerState
    <2>7. Say(m, state) /\ up' = up /\ stream = "open" /\ srv[t].blind
      BY <1>1, <1>6, <2>1, <2>2, <2>5 DEF ServerSendsFilter
    <2>8. c \in 1..Len(history) /\ snapver <= c
      BY <2>1, <2>7 DEF SyncInv, StreamInOrder
    <2>9. Tells(m, c)
      <3> SUFFICES ASSUME IsDocumentQuery(t), m.number = 0 PROVE t.path \notin history[c]
        BY <2>4, <2>8 DEF Tells
      <3>1. Q = {}
        BY <2>3, <2>4, FS_EmptySet
      <3> QED BY <2>1, <2>8, <3>1, InPetsAt
    <2> QED BY <1>3, <2>1, <2>4, <2>6, <2>7, <2>9
  <1> QED BY <1>4, <1>5, <1>6, DocumentsAnswered, DocumentsSent DEF ServerStep

(* A snapshot is sent when the server has told everybody of its commit. *)
LEMMA DocumentsShown ==
  ASSUME TypeOK, TypeOK', AggregatorInv, SyncInv, DocumentsInv, SyncedAreOfACommit',
         ServerSendsSnapshot
  PROVE  DocumentsInv'
  <1>1. stream = "open"
    BY DEF AggregatorInv, ClosedIsEmpty, Off, ServerSendsSnapshot
  <1>2. PICK c \in Nat : c = clock /\ c \in 1..Len(history)
    BY <1>1 DEF TypeOK, SyncInv, StreamInOrder
  <1>3. PICK m : m = [Message("Snapshot", Collection) EXCEPT !.number = c]
    OBVIOUS
  <1>4. m \in Response /\ m.kind = "Snapshot" /\ m.number = c
    BY <1>3, MessageType, KindsOfTargets DEF Message
  <1>5. /\ UNCHANGED <<history, clock, up, stream, listened, token, updates, local, stored,
                       keys, cache, snapver, current, limbo>>
        /\ down' = Append(down, m)
    BY <1>2, <1>3 DEF ServerSendsSnapshot, aggregator, storeVars, viewVars
  <1>6. ASSUME NEW t \in Targets
        PROVE  srv'[t].at = srv[t].at /\ (srv[t].on => srv[t].at = c)
    <2>1. srv'[t] = IF srv[t].on THEN [srv[t] EXCEPT !.sent = clock] ELSE srv[t]
      BY DEF ServerSendsSnapshot
    <2>2. srv[t].on => srv[t].at = c
      BY <1>2 DEF ServerSendsSnapshot
    <2>3. srv[t] \in ServerState
      BY DEF TypeOK
    <2> QED BY <2>1, <2>2, <2>3 DEF ServerState
  <1>7. Tells(m, clock)
    BY <1>2, <1>4 DEF Tells
  <1>8. Grows /\ CacheIsTrue
    BY <1>5, HistoryType DEF Grows, DocumentsInv
  <1>9. PICK g, d : Dated(g) /\ d = down'
    BY <1>1 DEF DocumentsInv, MessagesAreTrue
  <1>10. ASSUME NEW t \in listened, up'[t] = <<>>
         PROVE  Answering(t, m)
    <2>1. up[t] = <<>> /\ t \in Targets /\ srv[t].at = c /\ KnownAreSent(t)
      BY <1>1, <1>5, <1>6, <1>10 DEF SyncInv, ResumesAsAsked, DocumentsInv, DocumentsComeInTime,
         TypeOK
    <2>2. ~IsAnswer(m, t)
      BY <1>4 DEF IsAnswer
    <2>3. Extends(d, t)
      BY <1>4, <1>5, <1>9, <2>2, ExtendsSaid
    <2>4. KnownAreSent(t)'
      BY <1>1, <1>5, <1>6, <1>8, <1>9, <2>1, <2>3, KnownLonger
    <2>5. ShownAt(t, c, Len(down))
      <3> SUFFICES ASSUME NEW p \in PetsAt(t, c), Lasts(p, c, snapver)
                   PROVE  WillHave(t, p, c, Len(down))
        BY DEF ShownAt
      <3>1. Lasts(p, c, c)
        BY InPetsAt DEF Lasts
      <3> QED BY <1>2, <2>1, <3>1 DEF KnownAreSent
    <2> QED BY <1>2, <2>1, <2>4, <2>5 DEF Answering
  <1> QED BY <1>1, <1>4, <1>5, <1>7, <1>10, DocumentsSaid

(* Who is asked for something has a request on the stream. *)
LEMMA SendAsks ==
  ASSUME TypeOK, NEW requests \in [Targets -> Seq(Request)], Send(states, requests),
         NEW t \in Targets
  PROVE  /\ requests[t] # <<>> => up'[t] # <<>>
         /\ requests[t] = <<>> => up'[t] = up[t]
  <1>1. requests[t] \in Seq(Request) /\ up[t] \in Seq(Request)
    BY DEF TypeOK
  <1>2. up'[t] = up[t] \o requests[t]
    BY DEF Send
  <1> QED BY <1>1, <1>2, Joined

(* A listen begins or ends. *)
LEMMA DocumentsListened ==
  ASSUME TypeOK, TypeOK', AggregatorInv, SyncInv, DocumentsInv, SyncedAreOfACommit',
         NEW t \in UserTargets, Listen(t) \/ StopListening(t)
  PROVE  DocumentsInv'
  <1>1. CASE Listen(t)
    <2>1. /\ UNCHANGED <<history, clock, srv, down, cache, snapver, keys, stored, current, limbo>>
          /\ listened' = listened \cup {t} /\ t \in Targets
          /\ token' = [token EXCEPT ![t] = stored[t]]
          /\ local' = [local EXCEPT ![t] = stored[t]]
      BY <1>1, KindsOfTargets DEF Listen, serverVars, viewVars
    <2>2. stream' = "open" => GoesOn
      <3> SUFFICES ASSUME stream' = "open" PROVE GoesOn
        OBVIOUS
      <3>1. PICK requests : requests = [NoRequests EXCEPT ![t] = <<Watch(stored[t])>>]
        OBVIOUS
      <3>2. stream = "open" /\ updates' = updates /\ Send(states, requests)
        BY <1>1, <3>1 DEF Listen
      <3>3. <<Watch(stored[t])>> \in Seq(Request) /\ <<Watch(stored[t])>> # <<>>
        BY StatesType DEF TypeOK
      <3>4. /\ requests \in [Targets -> Seq(Request)]
            /\ requests[t] # <<>> /\ \A x \in Targets : x # t => requests[x] = <<>>
        <4>1. NoRequests \in [Targets -> Seq(Request)] /\ <<>> \in Seq(Request)
          BY EmptySeq DEF NoRequests
        <4>2. requests[t] = <<Watch(stored[t])>> /\ requests \in [Targets -> Seq(Request)]
          BY <2>1, <3>1, <3>3, <4>1
        <4>3. \A x \in Targets : x # t => requests[x] = <<>>
          BY <2>1, <3>1 DEF NoRequests
        <4> QED BY <3>3, <4>2, <4>3
      <3>5. clock <= clock' /\ clock' <= Len(history')
        BY <2>1, <3>2 DEF SyncInv, StreamInOrder, TypeOK
      <3>6. ASSUME NEW x \in listened', up'[x] = <<>>
            PROVE  x \in listened /\ up[x] = <<>>
        <4>1. x \in Targets
          BY <3>6 DEF TypeOK
        <4> QED BY <2>1, <3>2, <3>4, <3>6, <4>1, SendAsks
      <3> QED BY <2>1, <3>2, <3>5, <3>6 DEF GoesOn
    <2>3. stream' # "open" => updates' = Nothing
      BY <1>1 DEF Listen, DocumentsInv, MessagesAreTrue, FreshAggregator, aggregator
    <2>4. \A x \in listened' : token'[x] = (IF x = t THEN stored[t] ELSE token[x])
      BY <2>1 DEF TypeOK
    <2>5. \A x \in UserTargets : local'[x] = (IF x = t THEN stored[x] ELSE local[x])
      BY <2>1 DEF TypeOK
    <2> QED BY <2>1, <2>2, <2>3, <2>4, <2>5, DocumentsUntold
  <1>2. CASE StopListening(t)
    <2>1. PICK gone : /\ listened' = listened \ gone
                      /\ token' = [x \in Targets |-> IF x \in gone THEN 0 ELSE token[x]]
                      /\ stream = "open" =>
                           Send(states, [x \in Targets |-> IF x \in gone THEN <<Unwatch>>
                                                                         ELSE <<>>])
      BY <1>2 DEF StopListening
    <2>2. /\ UNCHANGED <<history, clock, srv, down, stream, updates, cache, snapver, keys, local>>
          /\ stored' = [stored EXCEPT ![t] = local[t]]
          /\ current' = current \ {t} /\ limbo' = [limbo EXCEPT ![t] = {}]
      BY <1>2 DEF StopListening, serverVars
    <2>3. stream' = "open" => GoesOn
      <3> SUFFICES ASSUME stream' = "open" PROVE GoesOn
        OBVIOUS
      <3>1. PICK requests :
              requests = [x \in Targets |-> IF x \in gone THEN <<Unwatch>> ELSE <<>>]
        OBVIOUS
      <3>2. stream = "open" /\ Send(states, requests)
        BY <2>1, <2>2, <3>1
      <3>3. requests \in [Targets -> Seq(Request)]
        BY <3>1, StatesType
      <3>4. clock <= clock' /\ clock' <= Len(history')
        BY <2>2, <3>2 DEF SyncInv, StreamInOrder, TypeOK
      <3>5. ASSUME NEW x \in listened', up'[x] = <<>>
            PROVE  x \in listened /\ up[x] = <<>>
        <4>1. x \in Targets /\ x \in listened /\ x \notin gone
          BY <2>1, <3>5 DEF TypeOK
        <4> QED BY <3>1, <3>2, <3>3, <3>5, <4>1, SendAsks
      <3> QED BY <2>2, <3>2, <3>4, <3>5 DEF GoesOn
    <2>4. stream' # "open" => updates' = Nothing
      BY <2>2 DEF DocumentsInv, MessagesAreTrue
    <2>5. \A x \in listened' : x \in listened /\ token'[x] = token[x]
      BY <2>1 DEF TypeOK
    <2>6. \A x \in UserTargets : stored'[x] = (IF x = t THEN local[x] ELSE stored[x])
      BY <2>2 DEF TypeOK
    <2>7. \A x \in current' : x \in current /\ limbo'[x] = limbo[x]
      BY <2>2 DEF TypeOK
    <2> QED BY <2>2, <2>3, <2>4, <2>5, <2>6, <2>7, DocumentsUntold
  <1> QED BY <1>1, <1>2

(* The stream opens. *)
LEMMA DocumentsOpened ==
  ASSUME TypeOK, TypeOK', AggregatorInv, SyncInv, DocumentsInv, SyncedAreOfACommit',
         OnWatchStreamOpen
  PROVE  DocumentsInv'
  <1>1. /\ UNCHANGED <<history, srv, down, listened, token, updates, local, stored, keys,
                       cache, snapver, current, limbo>>
        /\ stream # "open" /\ stream' = "open"
    BY DEF OnWatchStreamOpen, storeVars, viewVars
  <1>2. PICK requests :
          requests = [t \in Targets |-> IF t \in listened THEN <<Watch(token[t])>> ELSE <<>>]
    OBVIOUS
  <1>3. Send(states, requests) /\ requests \in [Targets -> Seq(Request)]
    <2>1. \A t \in Targets : <<Watch(token[t])>> \in Seq(Request)
      BY StatesType DEF TypeOK
    <2> QED BY <1>2, <2>1 DEF OnWatchStreamOpen
  <1>4. ASSUME NEW t \in listened' PROVE up'[t] # <<>>
    <2>1. t \in Targets /\ t \in listened
      BY <1>1, <1>4 DEF TypeOK
    <2> QED BY <1>2, <1>3, <2>1, SendAsks
  <1>5. StartsAnew
    BY <1>1, <1>4 DEF StartsAnew, AggregatorInv, ClosedIsEmpty, DocumentsInv, MessagesAreTrue
  <1> QED BY <1>1, <1>5, DocumentsUntold

(* The stream goes on, fails, idles out, or the app is killed. *)
LEMMA DocumentsStreamed ==
  ASSUME TypeOK, TypeOK', AggregatorInv, SyncInv, DocumentsInv, SyncedAreOfACommit',
         \/ ServerAdvances \/ OnWatchStreamClose \/ RestartNetwork \/ OnlineStateTimeout
         \/ IdleTimeout \/ Relaunch \/ UNCHANGED vars
  PROVE  DocumentsInv'
  <1>1. \A state : SetAndBroadcast(state) => current' \subseteq current
    BY DEF SetAndBroadcast
  <1>2. CASE ServerAdvances \/ OnlineStateTimeout \/ UNCHANGED vars
    <2>1. /\ UNCHANGED <<history, srv, up, down, stream, listened, token, updates, local, stored,
                         keys, cache, snapver, limbo>>
          /\ current' \subseteq current
          /\ clock' = clock \/ (clock < Len(history) /\ clock' = clock + 1)
      BY <1>1, <1>2 DEF ServerAdvances, OnlineStateTimeout, vars, serverVars, streamVars,
         aggregator, storeVars, viewVars
    <2>2. stream = "open" => clock <= clock' /\ clock' <= Len(history')
      <3>1. Len(history) \in Nat /\ clock \in Nat /\ (stream = "open" => clock <= Len(history))
        BY HistoryType DEF TypeOK, SyncInv, StreamInOrder
      <3> QED BY <2>1, <3>1
    <2>3. stream' = "open" => GoesOn
      BY <2>1, <2>2 DEF GoesOn
    <2>4. stream' # "open" => updates' = Nothing
      BY <2>1 DEF DocumentsInv, MessagesAreTrue
    <2> QED BY <2>1, <2>3, <2>4, DocumentsUntold
  <1>3. CASE OnWatchStreamClose \/ RestartNetwork \/ IdleTimeout
    <2>1. /\ UNCHANGED <<history, listened, token, local, stored, keys, cache, snapver, limbo>>
          /\ current' \subseteq current /\ updates' = Nothing /\ stream' # "open"
      BY <1>1, <1>3 DEF OnWatchStreamClose, RestartNetwork, IdleTimeout, FreshStream,
         FreshAggregator, storeVars
    <2> QED BY <2>1, DocumentsUntold
  <1>4. CASE Relaunch
    <2>1. /\ UNCHANGED <<history, stored, keys, cache, snapver>>
          /\ listened' = {} /\ current' = {} /\ updates' = Nothing
          /\ stream' # "open" /\ local' = stored
      BY <1>4 DEF Relaunch, FreshStream, FreshAggregator
    <2> QED BY <2>1, DocumentsUntold
  <1> QED BY <1>2, <1>3, <1>4

(* The invariant holds of a new installation, and of one that is in sync. *)
LEMMA DocumentsInit == Init => DocumentsInv
  <1> SUFFICES ASSUME Init PROVE DocumentsInv
    OBVIOUS
  <1>1. /\ stream = "off" /\ listened = {} /\ current = {} /\ updates = Nothing
        /\ snapver \in {0, 1} /\ history \in [{1} -> SUBSET Pets]
        /\ stored = [t \in UserTargets |-> snapver] /\ local = stored
        /\ cache = [p \in Pets |-> IF snapver = 1 /\ p \in history[1]
                                     THEN Document(1) ELSE Unknown]
    BY DEF Init
  <1>2. \A p \in Pets : \/ cache[p] = Unknown
                        \/ snapver = 1 /\ p \in history[1] /\ cache[p] = Document(1)
    BY <1>1
  <1>3. CacheIsTrue
    BY <1>1, <1>2 DEF CacheIsTrue, Unknown, Document
  <1>4. ASSUME NEW t, NEW u, u = snapver
        PROVE  CachedAt(t, u)
    <2> SUFFICES ASSUME NEW p \in PetsAt(t, u) PROVE CacheHas(p, u)
      BY DEF CachedAt
    <2>1. u \in DOMAIN history /\ p \in Matching(t, history[u])
      BY DEF PetsAt
    <2>2. u = 1
      BY <1>1, <2>1
    <2>3. p \in Pets /\ p \in history[1]
      BY <1>1, <2>1, <2>2 DEF Matching
    <2>4. cache[p] = Document(1)
      BY <1>1, <1>4, <2>2, <2>3
    <2>5. \A w \in 1..1 : w = 1
      OBVIOUS
    <2> QED BY <2>2, <2>3, <2>4, <2>5 DEF CacheHas, Lasts, Document
  <1>5. TokensAreCached
    BY <1>1, <1>4 DEF TokensAreCached
  <1>6. MessagesAreTrue /\ DocumentsComeInTime /\ LimboIsUnkeyed /\ SyncedAreOfACommit
    BY <1>1 DEF MessagesAreTrue, DocumentsComeInTime, LimboIsUnkeyed, SyncedAreOfACommit
  <1> QED BY <1>3, <1>5, <1>6 DEF DocumentsInv

(* Every step keeps the invariant. *)
LEMMA DocumentsStep ==
  ASSUME TypeOK, TypeOK', AggregatorInv, TokensAgree, SyncInv, DocumentsInv, [Next]_vars
  PROVE  DocumentsInv'
  <1>1. SyncedAreOfACommit'
    BY SyncedStaysSo DEF DocumentsInv
  <1>2. CASE Commit
    BY <1>1, <1>2, DocumentsCommitted
  <1>3. ASSUME NEW t \in Targets, ServerStep(t) \/ ServerReset(t)
        PROVE  DocumentsInv'
    BY <1>1, <1>3, DocumentsServed
  <1>4. CASE ServerSendsSnapshot
    BY <1>1, <1>4, DocumentsShown
  <1>5. ASSUME NEW t \in UserTargets, Listen(t) \/ StopListening(t)
        PROVE  DocumentsInv'
    BY <1>1, <1>5, DocumentsListened
  <1>6. CASE OnWatchStreamOpen
    BY <1>1, <1>6, DocumentsOpened
  <1>7. CASE \/ ServerAdvances \/ OnWatchStreamClose \/ RestartNetwork \/ OnlineStateTimeout
             \/ IdleTimeout \/ Relaunch \/ UNCHANGED vars
    BY <1>1, <1>7, DocumentsStreamed
  <1>8. CASE HandleSnapshot
    <2>1. PICK v : v = Head(down).number
      OBVIOUS
    <2>2. CASE Takes(v)
      BY <1>1, <2>2, DocumentsTaken
    <2>3. CASE ~Takes(v)
      BY <1>8, <2>1, <2>3, HeardInVain
    <2> QED BY <2>2, <2>3
  <1>9. CASE OnWatchStreamChange
    BY <1>8, <1>9, HeardDocuments, HeardOther DEF OnWatchStreamChange
  <1> QED BY <1>2, <1>3, <1>4, <1>5, <1>6, <1>7, <1>9 DEF Next

(* The invariant holds at all times. *)
LEMMA DocumentsAlways == Spec => []DocumentsInv
  <1>1. TypeOK /\ TypeOK' /\ AggregatorInv /\ TokensAgree /\ SyncInv /\ DocumentsInv
          /\ [Next]_vars => DocumentsInv'
    BY DocumentsStep
  <1> QED BY <1>1, DocumentsInit, WatchTypeCorrect, AggregatorAlways, ResumeTokensAgree,
          SyncAlways, PTL DEF Spec

(***************************************************************************)
(* What the screen shows.                                                  *)
(***************************************************************************)

(* A query that is in sync, with no pet in limbo, shows exactly the pets that
   the server had at the last snapshot, whatever the network, the server and
   the other listens did in between. *)
THEOREM SyncedScreensAreRight == Spec => []SyncedScreenIsServers
  <1>1. ASSUME TypeOK, SyncInv, TokensAgree, DocumentsInv
        PROVE  SyncedScreenIsServers
    <2> SUFFICES ASSUME NEW t \in current \ spoilt, local[t] = snapver, limbo[t] = {}
                 PROVE  Matching(t, Cached(cache)) = Matching(t, history[snapver])
      BY <1>1 DEF SyncedScreenIsServers
    <2>1. t \in UserTargets /\ snapver \in Nat /\ snapver \in 1..Len(history)
      BY <1>1 DEF TypeOK, DocumentsInv, SyncedAreOfACommit
    <2>2. PetsAt(t, snapver) = Matching(t, history[snapver])
      BY <1>1, <2>1, HistoryType DEF PetsAt
    <2>3. keys[t] = PetsAt(t, snapver)
      BY <1>1 DEF DocumentsInv, SyncedAreOfACommit
    <2>4. Matching(t, Cached(cache)) \subseteq keys[t]
      BY <1>1 DEF DocumentsInv, LimboIsUnkeyed
    <2>5. ASSUME NEW p \in PetsAt(t, snapver)
          PROVE  p \in Matching(t, Cached(cache))
      <3>1. Lasts(p, snapver, snapver)
        BY <1>1, <2>1, <2>5, InPetsAt DEF Lasts
      <3>2. CachedAt(t, snapver)
        BY <1>1, <2>1 DEF DocumentsInv, TokensAreCached
      <3>3. p \in Pets /\ cache[p].is = "Document"
        BY <1>1, <2>5, <3>1, <3>2, PetsAtMatch DEF CachedAt, CacheHas
      <3> QED BY <1>1, <2>1, <2>5, <3>3, InPetsAt DEF Matching, Cached
    <2> QED BY <2>2, <2>3, <2>4, <2>5
  <1> QED BY <1>1, WatchTypeCorrect, SyncAlways, ResumeTokensAgree, DocumentsAlways, PTL
=================================================================================
