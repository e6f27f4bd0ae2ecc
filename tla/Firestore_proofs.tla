--------------------------- MODULE Firestore_proofs ---------------------------
(***************************************************************************)
(* Theorems about module Firestore, for any sets of phones and pets, any   *)
(* writes the clients may issue and any number of faults, after the lemmas *)
(* about the operators of PetDocuments that they rest on.                  *)
(***************************************************************************)
EXTENDS Firestore, WellFoundedInduction, TLAPS

NatLess == {ss \in Nat \X Nat : ss[1] < ss[2]}

LEMMA NatLessWellFounded == IsWellFoundedOn(NatLess, Nat)
  BY NatLessThanWellFounded DEF OpToRel, NatLess

(* The largest element is found in every nonempty set of positions. *)
LEMMA LastOfIsLast ==
  ASSUME NEW n \in Nat, NEW S \in SUBSET (1 .. n), S # {}
  PROVE  LastOf(S) \in S /\ \A j \in S : j <= LastOf(S)
  <1> DEFINE T == {n - i : i \in S}
  <1>0. \A i \in S : i \in 1 .. n
    OBVIOUS
  <1>1. T \subseteq Nat /\ T # {}
    <2>1. \A i \in S : n - i \in Nat
      BY <1>0
    <2>2. PICK i \in S : TRUE
      OBVIOUS
    <2> QED BY <2>1, <2>2
  <1>2. PICK x \in T : \A y \in T : ~(<<y, x>> \in NatLess)
    <2> HIDE DEF T
    <2> QED BY <1>1, NatLessWellFounded, WFMin
  <1>3. \A y \in T : ~(y < x)
    BY <1>1, <1>2 DEF NatLess
  <1>4. PICK i \in S : x = n - i
    OBVIOUS
  <1>5. \A j \in S : j <= i
    <2> SUFFICES ASSUME NEW j \in S PROVE j <= i
      OBVIOUS
    <2>1. ~(n - j < n - i)
      BY <1>3, <1>4
    <2> QED BY <1>0, <2>1
  <1> QED BY <1>5 DEF LastOf
---------------------------------------------------------------------------------
LEMMA PatchObjectType ==
  ASSUME NEW m \in Mutation, NEW data \in Fields
  PROVE  PatchObject(data, m) \in Fields
  BY DEF PatchObject, Mutation, Fields

LEMMA MutatedType ==
  ASSUME NEW m \in Mutation, NEW doc \in MaybeDocument, NEW v \in Nat
  PROVE  /\ Mutated(m, doc, v) \in MaybeDocument
         /\ Mutated(m, doc, v).version = v
         /\ ~Mutated(m, doc, v).committed
         /\ Exists(Mutated(m, doc, v)) <=> m.type # "delete"
  <1>1. PatchObject(doc.data, m) \in Fields
    BY PatchObjectType DEF MaybeDocument
  <1>2. NewPet \in Fields
    BY DEF NewPet, Fields
  <1>3. m.data \in Fields /\ m.type \in {"set", "patch", "delete"}
    BY DEF Mutation
  <1>4. CASE m.type = "set"
    BY <1>3, <1>4 DEF Mutated, Document, MaybeDocument, Exists
  <1>5. CASE m.type = "patch"
    BY <1>1, <1>5 DEF Mutated, Document, MaybeDocument, Exists
  <1>6. CASE m.type = "delete"
    BY <1>2, <1>6 DEF Mutated, NoDocument, MaybeDocument, Exists
  <1> QED BY <1>3, <1>4, <1>5, <1>6

(* An acknowledged write leaves an entry of the acknowledged version, marked
   as computed by the client, and a document only if it is no delete. *)
LEMMA ApplyToRemoteDocumentType ==
  ASSUME NEW m \in Mutation, NEW doc \in MaybeDocument, NEW v \in Nat
  PROVE  LET new == ApplyToRemoteDocument(m, doc, v)
         IN /\ new \in MaybeDocument
            /\ new.version = v
            /\ new.committed
            /\ Exists(new) => m.type # "delete"
  <1>1. CASE IsValidFor(m, doc)
    <2> DEFINE new == Mutated(m, doc, v)
    <2>1. new \in MaybeDocument /\ new.version = v /\ (Exists(new) => m.type # "delete")
      BY MutatedType
    <2>2. ApplyToRemoteDocument(m, doc, v) = [new EXCEPT !.committed = TRUE]
      BY <1>1 DEF ApplyToRemoteDocument
    <2> HIDE DEF new
    <2> QED BY <2>1, <2>2 DEF MaybeDocument, Exists
  <1>2. CASE ~IsValidFor(m, doc)
    <2>1. NewPet \in Fields
      BY DEF NewPet, Fields
    <2> QED BY <1>2, <2>1 DEF ApplyToRemoteDocument, UnknownDocument,
                              MaybeDocument, Exists
  <1> QED BY <1>1, <1>2

LEMMA AbsentType == Absent \in MaybeDocument
  BY DEF Absent, NoDocument, MaybeDocument, NewPet, Fields

---------------------------------------------------------------------------------
(* The base document and the patches found by the closed form of the local
   view are queued writes of the pet. *)
LEMMA WritesOfPositions ==
  ASSUME NEW q \in Seq(Mutation), NEW p, NEW S \in SUBSET WritesOf(q, p),
         LastOf(S) # 0
  PROVE  LastOf(S) \in S /\ q[LastOf(S)] \in Mutation
  <1>1. Len(q) \in Nat /\ DOMAIN q = 1 .. Len(q)
    OBVIOUS
  <1>2. S # {}
    BY DEF LastOf
  <1>3. S \in SUBSET (1 .. Len(q))
    BY <1>1 DEF WritesOf
  <1>4. LastOf(S) \in S
    BY <1>1, <1>2, <1>3, LastOfIsLast
  <1>5. \A i \in 1 .. Len(q) : q[i] \in Mutation
    OBVIOUS
  <1> QED BY <1>3, <1>4, <1>5

LEMMA BaseDocumentType ==
  ASSUME NEW q \in Seq(Mutation), NEW cached \in MaybeDocument, NEW p
  PROVE  BaseDocument(q, cached, p) \in MaybeDocument
  <1> DEFINE b == Base(q, p)
  <1>1. CASE b = 0
    BY <1>1 DEF BaseDocument
  <1>2. CASE b # 0
    <2>1. q[b] \in Mutation
      BY <1>2, WritesOfPositions DEF Base, WritesOf
    <2>2. cached.version \in Nat
      BY DEF MaybeDocument
    <2>3. ApplyToLocalView(q[b], cached) \in MaybeDocument
      BY <2>1, <2>2, MutatedType DEF ApplyToLocalView
    <2> QED BY <1>2, <2>3 DEF BaseDocument
  <1> QED BY <1>1, <1>2

(* Queued writes without a set do not make a missing pet appear. *)
LEMMA NothingUnderPatches ==
  ASSUME NEW q \in Seq(Mutation), NEW cached \in MaybeDocument, NEW p,
         ~Exists(cached),
         \A i \in WritesOf(q, p) : q[i].type # "set"
  PROVE  ~Exists(GetDocument(q, cached, p))
  <1> DEFINE b == Base(q, p)
             base == BaseDocument(q, cached, p)
  <1>1. CASE b = 0
    BY <1>1 DEF BaseDocument, GetDocument
  <1>2. CASE b # 0
    <2>1. b \in WritesOf(q, p) /\ q[b] \in Mutation /\ q[b].type # "patch"
      BY <1>2, WritesOfPositions DEF Base
    <2>2. q[b].type = "delete"
      BY <2>1 DEF Mutation
    <2>3. cached.version \in Nat
      BY DEF MaybeDocument
    <2>4. ~Exists(ApplyToLocalView(q[b], cached))
      BY <2>1, <2>2, <2>3, MutatedType DEF ApplyToLocalView
    <2>5. ~Exists(base)
      BY <1>2, <2>4 DEF BaseDocument
    <2> HIDE DEF base, b
    <2> QED BY <2>5 DEF GetDocument, base
  <1> QED BY <1>1, <1>2

(* The local view of a pet is a document. *)
LEMMA GetDocumentType ==
  ASSUME NEW q \in Seq(Mutation), NEW cached \in MaybeDocument, NEW p
  PROVE  GetDocument(q, cached, p) \in MaybeDocument
  <1> DEFINE base == BaseDocument(q, cached, p)
             at(f) == LastPatch(q, p, f)
             data == [breakfast |-> IF at("breakfast") = 0 THEN base.data.breakfast
                                    ELSE q[at("breakfast")].data.breakfast,
                      dinner    |-> IF at("dinner") = 0 THEN base.data.dinner
                                    ELSE q[at("dinner")].data.dinner,
                      treats    |-> IF at("treats") = 0 THEN base.data.treats
                                    ELSE q[at("treats")].data.treats]
  <1>1. base \in MaybeDocument
    BY BaseDocumentType
  <1>2. \A f \in FieldNames : at(f) # 0 => q[at(f)] \in Mutation
    BY WritesOfPositions DEF LastPatch, WritesOf
  <1>3. data \in Fields
    <2>1. base.data \in Fields
      BY <1>1 DEF MaybeDocument
    <2>2. \A f \in FieldNames : at(f) # 0 => q[at(f)].data \in Fields
      BY <1>2 DEF Mutation
    <2> HIDE DEF base, at
    <2> QED BY <2>1, <2>2 DEF Fields, FieldNames
  <1>4. GetDocument(q, cached, p) =
          IF ~Exists(base) THEN base ELSE Document(data, base.version)
    BY DEF GetDocument
  <1> HIDE DEF base, data
  <1> QED BY <1>1, <1>3, <1>4 DEF Document, MaybeDocument

(* It has between 0 and n treats if the cache and the queued writes have. *)
LEMMA GetDocumentTreats ==
  ASSUME NEW q \in Seq(Mutation), NEW cached \in MaybeDocument, NEW p,
         NEW n \in Nat, cached.data.treats \in 0 .. n,
         \A i \in WritesOf(q, p) : q[i].data.treats \in 0 .. n
  PROVE  GetDocument(q, cached, p).data.treats \in 0 .. n
  <1> DEFINE base == BaseDocument(q, cached, p)
             b == Base(q, p)
             t == LastPatch(q, p, "treats")
  <1>1. base.data.treats \in 0 .. n
    <2>1. CASE b = 0
      BY <2>1 DEF BaseDocument
    <2>2. CASE b # 0
      <3>1. b \in WritesOf(q, p) /\ q[b] \in Mutation /\ q[b].type # "patch"
        BY <2>2, WritesOfPositions DEF Base
      <3>2. Mutated(q[b], cached, cached.version).data \in {q[b].data, NewPet}
        BY <3>1 DEF Mutated, Mutation, Document, NoDocument
      <3>3. q[b].data.treats \in 0 .. n /\ NewPet.treats \in 0 .. n
        BY <3>1 DEF NewPet
      <3>4. Mutated(q[b], cached, cached.version).data.treats \in 0 .. n
        BY <3>2, <3>3
      <3>5. base = ApplyToLocalView(q[b], cached)
        BY <2>2 DEF BaseDocument
      <3> QED BY <3>4, <3>5 DEF ApplyToLocalView
    <2> QED BY <2>1, <2>2
  <1>2. t # 0 => q[t].data.treats \in 0 .. n
    BY WritesOfPositions DEF LastPatch, WritesOf
  <1>3. GetDocument(q, cached, p).data.treats =
          IF ~Exists(base) \/ t = 0 THEN base.data.treats ELSE q[t].data.treats
    BY DEF GetDocument, Document
  <1> HIDE DEF base, t
  <1> QED BY <1>1, <1>2, <1>3

---------------------------------------------------------------------------------
(***************************************************************************)
(* The head of the queue moves from the queued writes to the cached        *)
(* document, and the local view stays what it is.                          *)
(***************************************************************************)

(* The last of a set of positions, in the queue without its head. *)
LEMMA LastOfShift ==
  ASSUME NEW n \in Nat, NEW S \in SUBSET (1 .. n + 1)
  PROVE  LET T == {i \in 1 .. n : i + 1 \in S}
         IN /\ T = {} => LastOf(T) = 0 /\ LastOf(S) = IF 1 \in S THEN 1 ELSE 0
            /\ T # {} => LastOf(T) \in 1 .. n /\ LastOf(S) = LastOf(T) + 1
  <1> DEFINE T == {i \in 1 .. n : i + 1 \in S}
  <1>1. \A j \in S : j = 1 \/ (j - 1 \in T /\ j \in Nat)
    <2> SUFFICES ASSUME NEW j \in S, j # 1 PROVE j - 1 \in T
      OBVIOUS
    <2>1. j \in 1 .. n + 1
      OBVIOUS
    <2>2. j - 1 \in 1 .. n /\ (j - 1) + 1 = j
      BY <2>1
    <2> QED BY <2>2
  <1>2. S # {} => LastOf(S) \in S /\ \A j \in S : j <= LastOf(S)
    <2>1. n + 1 \in Nat
      OBVIOUS
    <2> QED BY <2>1, LastOfIsLast
  <1>3. ASSUME T = {}
        PROVE  LastOf(T) = 0 /\ LastOf(S) = IF 1 \in S THEN 1 ELSE 0
    <2>1. \A j \in S : j = 1
      BY <1>1, <1>3
    <2>2. LastOf({}) = 0
      BY DEF LastOf
    <2>3. CASE S = {}
      BY <1>3, <2>2, <2>3
    <2>4. CASE S # {}
      BY <1>2, <1>3, <2>1, <2>2, <2>4
    <2> QED BY <2>3, <2>4
  <1>4. ASSUME T # {}
        PROVE  LastOf(T) \in 1 .. n /\ LastOf(S) = LastOf(T) + 1
    <2>1. LastOf(T) \in T /\ \A j \in T : j <= LastOf(T)
      BY <1>4, LastOfIsLast
    <2>2. LastOf(T) \in 1 .. n /\ LastOf(T) + 1 \in S
      BY <2>1
    <2>3. LastOf(S) \in S /\ LastOf(T) + 1 <= LastOf(S)
      BY <1>2, <2>2
    <2>4. LastOf(S) \in Nat /\ LastOf(S) <= LastOf(T) + 1
      <3>1. CASE LastOf(S) = 1
        BY <2>2, <3>1
      <3>2. CASE LastOf(S) - 1 \in T /\ LastOf(S) \in Nat
        <4>1. LastOf(S) - 1 <= LastOf(T)
          BY <2>1, <3>2
        <4> QED BY <2>2, <3>2, <4>1
      <3> QED BY <1>1, <2>3, <3>1, <3>2
    <2> QED BY <2>2, <2>3, <2>4
  <1> QED BY <1>3, <1>4

(* Base and LastPatch of a queue, from those of its tail. *)
LEMMA BaseOfTail ==
  ASSUME NEW q \in Seq(Mutation), q # <<>>, NEW p
  PROVE  LET b == Base(Tail(q), p)
             h == Head(q)
         IN /\ b = 0 => Base(q, p) = IF h.pet = p /\ h.type # "patch" THEN 1 ELSE 0
            /\ b # 0 => /\ b \in DOMAIN Tail(q) /\ b >= 1
                        /\ Base(q, p) = b + 1
                        /\ q[b + 1] = Tail(q)[b]
  <1> DEFINE n == Len(Tail(q))
             S == {i \in WritesOf(q, p) : q[i].type # "patch"}
             T == {i \in WritesOf(Tail(q), p) : Tail(q)[i].type # "patch"}
  <1>1. /\ n \in Nat /\ DOMAIN Tail(q) = 1 .. n /\ DOMAIN q = 1 .. n + 1
        /\ q[1] = Head(q) /\ \A i \in 1 .. n : Tail(q)[i] = q[i + 1]
    OBVIOUS
  <1>2. S \in SUBSET (1 .. n + 1)
    BY <1>1 DEF WritesOf
  <1>3. T = {i \in 1 .. n : i + 1 \in S}
    <2>1. \A i \in 1 .. n : i + 1 \in 1 .. n + 1
      BY <1>1
    <2> QED BY <1>1, <2>1 DEF WritesOf
  <1>4. 1 \in S <=> Head(q).pet = p /\ Head(q).type # "patch"
    <2>1. 1 \in 1 .. n + 1
      BY <1>1
    <2> QED BY <1>1, <2>1 DEF WritesOf
  <1>5. Base(q, p) = LastOf(S) /\ Base(Tail(q), p) = LastOf(T)
    BY DEF Base
  <1> HIDE DEF S, T, n
  <1>6. /\ T = {} => LastOf(T) = 0 /\ LastOf(S) = IF 1 \in S THEN 1 ELSE 0
        /\ T # {} => LastOf(T) \in 1 .. n /\ LastOf(S) = LastOf(T) + 1
    BY <1>1, <1>2, <1>3, LastOfShift
  <1> QED BY <1>1, <1>4, <1>5, <1>6

LEMMA LastPatchOfTail ==
  ASSUME NEW q \in Seq(Mutation), q # <<>>, NEW p, NEW f
  PROVE  LET t == LastPatch(Tail(q), p, f)
             h == Head(q)
         IN /\ t = 0 => LastPatch(q, p, f) =
                          IF /\ Base(q, p) = 0 /\ h.pet = p
                             /\ h.type = "patch" /\ f \in h.mask
                            THEN 1 ELSE 0
            /\ t # 0 => /\ t \in DOMAIN Tail(q) /\ t >= 1
                        /\ LastPatch(q, p, f) = t + 1
                        /\ q[t + 1] = Tail(q)[t]
  <1> DEFINE n == Len(Tail(q))
             S == {i \in WritesOf(q, p) :
                     i > Base(q, p) /\ q[i].type = "patch" /\ f \in q[i].mask}
             T == {i \in WritesOf(Tail(q), p) :
                     /\ i > Base(Tail(q), p)
                     /\ Tail(q)[i].type = "patch" /\ f \in Tail(q)[i].mask}
  <1>1. /\ n \in Nat /\ DOMAIN Tail(q) = 1 .. n /\ DOMAIN q = 1 .. n + 1
        /\ q[1] = Head(q) /\ \A i \in 1 .. n : Tail(q)[i] = q[i + 1]
    OBVIOUS
  <1>2. S \in SUBSET (1 .. n + 1)
    BY <1>1 DEF WritesOf
  <1>a. /\ Base(q, p) \in Nat
        /\ \A i \in 1 .. n : i + 1 > Base(q, p) <=> i > Base(Tail(q), p)
    <2>1. CASE Base(Tail(q), p) = 0
      <3>1. Base(q, p) = 0 \/ Base(q, p) = 1
        BY <2>1, BaseOfTail
      <3> QED BY <1>1, <2>1, <3>1
    <2>2. CASE Base(Tail(q), p) # 0
      <3>1. /\ Base(q, p) = Base(Tail(q), p) + 1
            /\ Base(Tail(q), p) \in 1 .. n
        BY <1>1, <2>2, BaseOfTail
      <3> QED BY <1>1, <3>1
    <2> QED BY <2>1, <2>2
  <1>3. T = {i \in 1 .. n : i + 1 \in S}
    <2>1. \A i \in 1 .. n : i + 1 \in 1 .. n + 1
      BY <1>1
    <2> QED BY <1>1, <1>a, <2>1 DEF WritesOf
  <1>4. 1 \in S <=> /\ Base(q, p) = 0 /\ Head(q).pet = p
                    /\ Head(q).type = "patch" /\ f \in Head(q).mask
    <2>1. 1 \in 1 .. n + 1
      BY <1>1
    <2>2. 1 > Base(q, p) <=> Base(q, p) = 0
      BY <1>a
    <2> QED BY <1>1, <2>1, <2>2 DEF WritesOf
  <1>5. LastPatch(q, p, f) = LastOf(S) /\ LastPatch(Tail(q), p, f) = LastOf(T)
    BY DEF LastPatch
  <1> HIDE DEF S, T, n
  <1>6. /\ T = {} => LastOf(T) = 0 /\ LastOf(S) = IF 1 \in S THEN 1 ELSE 0
        /\ T # {} => LastOf(T) \in 1 .. n /\ LastOf(S) = LastOf(T) + 1
    BY <1>1, <1>2, <1>3, LastOfShift
  <1> QED BY <1>1, <1>4, <1>5, <1>6

(* Two views of a pet that look the same: neither exists, or both do and with
   the same data. *)
SameLook(doc1, doc2) ==
  /\ Exists(doc1) <=> Exists(doc2)
  /\ Exists(doc1) => doc1.data = doc2.data

LEMMA BaseOfAcknowledged ==
  ASSUME NEW q \in Seq(Mutation), q # <<>>, NEW cached \in MaybeDocument, NEW p,
         NEW v \in Nat, NEW new,
         new = IF Head(q).pet = p THEN ApplyToRemoteDocument(Head(q), cached, v)
                                  ELSE cached,
         Base(q, p) # 0
  PROVE  SameLook(BaseDocument(q, cached, p), BaseDocument(Tail(q), new, p))
  <1> DEFINE h == Head(q)
             t == Base(Tail(q), p)
             m == q[Base(q, p)]
  <1>1. m \in Mutation /\ m.type # "patch"
    BY WritesOfPositions DEF Base
  <1>2. BaseDocument(q, cached, p) = Mutated(m, cached, cached.version)
    BY <1>1 DEF BaseDocument, ApplyToLocalView, IsValidFor
  <1>3. CASE t = 0
    <2>1. Base(q, p) = 1 /\ h.pet = p
      BY <1>3, BaseOfTail
    <2>2. m = h
      BY <2>1
    <2>3. BaseDocument(Tail(q), new, p) = [Mutated(m, cached, v) EXCEPT !.committed = TRUE]
      BY <1>1, <1>3, <2>1, <2>2
         DEF BaseDocument, ApplyToRemoteDocument, IsValidFor
    <2> HIDE DEF m
    <2> QED BY <1>1, <1>2, <2>3
         DEF SameLook, Mutated, Mutation, Document, NoDocument, Exists
  <1>4. CASE t # 0
    <2>1. m = Tail(q)[t]
      BY <1>4, BaseOfTail
    <2>2. BaseDocument(Tail(q), new, p) = Mutated(m, new, new.version)
      BY <1>1, <1>4, <2>1 DEF BaseDocument, ApplyToLocalView, IsValidFor
    <2> HIDE DEF m
    <2> QED BY <1>1, <1>2, <2>2
         DEF SameLook, Mutated, Mutation, Document, NoDocument, Exists
  <1> QED BY <1>3, <1>4

(* Field f of the local view. *)
Seen(q, base, p, f) ==
  IF LastPatch(q, p, f) = 0 THEN base.data[f] ELSE q[LastPatch(q, p, f)].data[f]

LEMMA SeenIsView ==
  ASSUME NEW q \in Seq(Mutation), NEW cached, NEW p
  PROVE  LET base == BaseDocument(q, cached, p)
             seen == [breakfast |-> Seen(q, base, p, "breakfast"),
                      dinner    |-> Seen(q, base, p, "dinner"),
                      treats    |-> Seen(q, base, p, "treats")]
         IN GetDocument(q, cached, p) =
              IF ~Exists(base) THEN base ELSE Document(seen, base.version)
  BY DEF GetDocument, Seen

LEMMA AcknowledgedLooksTheSame ==
  ASSUME NEW q \in Seq(Mutation), q # <<>>, NEW cached \in MaybeDocument, NEW p,
         NEW v \in Nat, NEW new,
         new = IF Head(q).pet = p THEN ApplyToRemoteDocument(Head(q), cached, v)
                                  ELSE cached
  PROVE  SameLook(GetDocument(q, cached, p), GetDocument(Tail(q), new, p))
  <1> DEFINE h == Head(q)
             base1 == BaseDocument(q, cached, p)
             base2 == BaseDocument(Tail(q), new, p)
  <1>0. h \in Mutation /\ Tail(q) \in Seq(Mutation)
    OBVIOUS
  <1>1. Exists(base1) <=> Exists(base2)
    <2>1. CASE Base(q, p) # 0
      BY <2>1, BaseOfAcknowledged DEF SameLook
    <2>2. CASE Base(q, p) = 0
      <3>1. Base(Tail(q), p) = 0 /\ (h.pet = p => h.type = "patch")
        BY <2>2, BaseOfTail
      <3>2. base1 = cached /\ base2 = new
        BY <2>2, <3>1 DEF BaseDocument
      <3>3. h.pet = p => (Exists(new) <=> Exists(cached))
        <4> SUFFICES ASSUME h.pet = p PROVE Exists(new) <=> Exists(cached)
          OBVIOUS
        <4>1. h.type = "patch"
          BY <3>1
        <4>2. CASE Exists(cached)
          <5>1. new = [Document(PatchObject(cached.data, h), v) EXCEPT !.committed = TRUE]
            BY <4>1, <4>2 DEF ApplyToRemoteDocument, IsValidFor, Mutated
          <5> QED BY <4>2, <5>1 DEF Document, Exists
        <4>3. CASE ~Exists(cached)
          <5>1. new = UnknownDocument(v)
            BY <4>1, <4>3 DEF ApplyToRemoteDocument, IsValidFor
          <5> QED BY <4>3, <5>1 DEF UnknownDocument, Exists
        <4> QED BY <4>2, <4>3
      <3> QED BY <3>2, <3>3
    <2> QED BY <2>1, <2>2
  <1>2. ASSUME Exists(base1), NEW f \in FieldNames
        PROVE  Seen(q, base1, p, f) = Seen(Tail(q), base2, p, f)
    <2> DEFINE t == LastPatch(Tail(q), p, f)
    <2>1. CASE t # 0
      <3>1. /\ t \in DOMAIN Tail(q) /\ t >= 1
            /\ LastPatch(q, p, f) = t + 1 /\ q[t + 1] = Tail(q)[t]
        BY <2>1, LastPatchOfTail
      <3>2. DOMAIN Tail(q) \subseteq Int
        OBVIOUS
      <3>3. LastPatch(q, p, f) # 0
        BY <3>1, <3>2
      <3> QED BY <2>1, <3>1, <3>3 DEF Seen
    <2>2. CASE t = 0 /\ Base(q, p) # 0
      <3>1. LastPatch(q, p, f) = 0
        BY <2>2, LastPatchOfTail
      <3>2. base1.data = base2.data
        BY <1>2, <2>2, BaseOfAcknowledged DEF SameLook
      <3> QED BY <2>2, <3>1, <3>2 DEF Seen
    <2>3. CASE t = 0 /\ Base(q, p) = 0
      <3>1. Base(Tail(q), p) = 0 /\ (h.pet = p => h.type = "patch")
        BY <2>3, BaseOfTail
      <3>2. base1 = cached /\ base2 = new
        BY <2>3, <3>1 DEF BaseDocument
      <3>3. CASE h.pet # p
        <4>1. LastPatch(q, p, f) = 0
          BY <2>3, <3>3, LastPatchOfTail
        <4> QED BY <2>3, <3>2, <3>3, <4>1 DEF Seen
      <3>4. CASE h.pet = p
        <4>1. new = [Document(PatchObject(cached.data, h), v) EXCEPT !.committed = TRUE]
          BY <1>2, <3>1, <3>2, <3>4 DEF ApplyToRemoteDocument, IsValidFor, Mutated
        <4>2. new.data = PatchObject(cached.data, h)
          BY <4>1 DEF Document
        <4>3. LastPatch(q, p, f) = IF f \in h.mask THEN 1 ELSE 0
          BY <2>3, <3>1, <3>4, LastPatchOfTail
        <4>4. new.data[f] = IF f \in h.mask THEN h.data[f] ELSE cached.data[f]
          BY <1>0, <4>2 DEF PatchObject, FieldNames
        <4>5. q[1] = h
          OBVIOUS
        <4> HIDE DEF h
        <4> QED BY <2>3, <3>2, <4>3, <4>4, <4>5 DEF Seen
      <3> QED BY <3>3, <3>4
    <2> QED BY <2>1, <2>2, <2>3
  <1>3. CASE ~Exists(base1)
    BY <1>0, <1>1, <1>3, SeenIsView DEF SameLook
  <1>4. CASE Exists(base1)
    <2> DEFINE seen(r, base) == [breakfast |-> Seen(r, base, p, "breakfast"),
                                 dinner    |-> Seen(r, base, p, "dinner"),
                                 treats    |-> Seen(r, base, p, "treats")]
    <2>1. seen(q, base1) = seen(Tail(q), base2)
      BY <1>2, <1>4 DEF FieldNames
    <2>2. /\ GetDocument(q, cached, p) = Document(seen(q, base1), base1.version)
          /\ GetDocument(Tail(q), new, p) = Document(seen(Tail(q), base2), base2.version)
      BY <1>0, <1>1, <1>4, SeenIsView
    <2> HIDE DEF seen, base1, base2
    <2> QED BY <2>1, <2>2 DEF SameLook, Document, Exists
  <1> QED BY <1>3, <1>4

---------------------------------------------------------------------------------
LEMMA NoSnapshotType == NoSnapshot \in Snapshot
  BY AbsentType DEF NoSnapshot, Snapshot

LEMMA InitDocumentType ==
  ASSUME NEW p \in Pets
  PROVE  InitDocument(p) \in MaybeDocument
  BY AbsentType DEF InitDocument, Document, MaybeDocument, NewPet, Fields

---------------------------------------------------------------------------------
(***************************************************************************)
(* Type correctness.                                                       *)
(***************************************************************************)

LEMMA StoreInitType == StoreInit => StoreTypeOK
  <1> SUFFICES ASSUME StoreInit PROVE StoreTypeOK
    OBVIOUS
  <1> USE DEF StoreInit
  <1>1. server \in [Pets -> MaybeDocument] /\ commit \in Nat
    BY InitDocumentType
  <1>2. queue \in [Devices -> Seq(Mutation)] /\ results \in [Devices -> Seq(Result)]
    OBVIOUS
  <1>3. cache \in [Devices -> [Pets -> MaybeDocument]]
    BY InitDocumentType, AbsentType
  <1>4. watch \in [Devices -> Snapshot]
    BY NoSnapshotType
  <1>5. /\ snapver \in [Devices -> Nat]
        /\ online \in [Devices -> {"Unknown", "Online", "Offline"}]
        /\ faults \in 0 .. MaxFaults
    BY FirestoreAssumption
  <1> QED BY <1>1, <1>2, <1>3, <1>4, <1>5 DEF StoreTypeOK

LEMMA QueuedIsMutation ==
  ASSUME StoreTypeOK, NEW d \in Devices, NEW i \in DOMAIN queue[d]
  PROVE  queue[d][i] \in Mutation /\ queue[d][i].pet \in Pets
  <1>1. queue[d] \in Seq(Mutation)
    BY DEF StoreTypeOK
  <1>2. queue[d][i] \in Mutation
    BY <1>1
  <1> QED BY <1>2 DEF Mutation

LEMMA WriteMutationsType ==
  ASSUME StoreTypeOK, NEW d \in Devices, NEW m \in Mutation, WriteMutations(d, m)
  PROVE  StoreTypeOK'
  BY DEF StoreTypeOK, WriteMutations

LEMMA AnswerType ==
  ASSUME StoreTypeOK, NEW d \in Devices, NEW ok \in BOOLEAN, NEW v \in Nat,
         Answer(d, ok, v)
  PROVE  results' \in [Devices -> Seq(Result)]
  BY DEF StoreTypeOK, Answer, Result

LEMMA ServerHandlesWriteType ==
  ASSUME StoreTypeOK, NEW d \in Devices, ServerHandlesWrite(d)
  PROVE  StoreTypeOK'
  <1> PICK i \in Unanswered(d) : ServerHandlesWrite(d)!2!(i)
    BY DEF ServerHandlesWrite
  <1> DEFINE m == queue[d][i]
  <1>1. m \in Mutation /\ m.pet \in Pets /\ server[m.pet] \in MaybeDocument
    BY QueuedIsMutation DEF StoreTypeOK, Unanswered
  <1>2. commit + 1 \in Nat /\ server[m.pet].version \in Nat /\ 0 \in Nat
    BY <1>1 DEF StoreTypeOK, MaybeDocument
  <1>3. results' \in [Devices -> Seq(Result)]
    BY <1>2, AnswerType
  <1>4. /\ server' \in [Pets -> MaybeDocument]
        /\ commit' \in Nat
    <2>1. CASE UNCHANGED serverVars
      BY <2>1 DEF StoreTypeOK, serverVars
    <2>2. CASE /\ commit' = commit + 1
               /\ server' = [server EXCEPT ![m.pet] = Mutated(m, @, commit + 1)]
      <3>1. Mutated(m, server[m.pet], commit + 1) \in MaybeDocument
        BY <1>1, <1>2, MutatedType
      <3> HIDE DEF m
      <3> QED BY <1>1, <1>2, <2>2, <3>1 DEF StoreTypeOK
    <2> QED BY <2>1, <2>2
  <1> QED BY <1>3, <1>4 DEF ServerHandlesWrite, StoreTypeOK

LEMMA PopWriteType ==
  ASSUME StoreTypeOK, NEW d \in Devices, PopWrite(d),
         results[d] # <<>>, queue[d] # <<>>
  PROVE  /\ queue' \in [Devices -> Seq(Mutation)]
         /\ results' \in [Devices -> Seq(Result)]
         /\ Head(queue[d]) \in Mutation
         /\ Head(results[d]) \in Result
  BY DEF StoreTypeOK, PopWrite

LEMMA AcknowledgementType ==
  ASSUME StoreTypeOK, AnswersMatchQueue, NEW d \in Devices,
         HandleSuccessfulWrite(d)
  PROVE  StoreTypeOK'
  <1> DEFINE m == Head(queue[d])
             v == Head(results[d]).version
             new == ApplyBatchResult(m, cache[d][m.pet], v)
  <1>1. queue[d] # <<>> /\ results[d] # <<>>
    BY DEF HandleSuccessfulWrite, AnswersMatchQueue, StoreTypeOK
  <1>2. /\ queue' \in [Devices -> Seq(Mutation)]
        /\ results' \in [Devices -> Seq(Result)]
        /\ m \in Mutation /\ m.pet \in Pets
        /\ v \in Nat
    BY <1>1, PopWriteType DEF HandleSuccessfulWrite, Result, Mutation
  <1>3. cache[d][m.pet] \in MaybeDocument
    BY <1>2 DEF StoreTypeOK
  <1>4. new \in MaybeDocument
    BY <1>2, <1>3, ApplyToRemoteDocumentType DEF ApplyBatchResult
  <1>5. cache' = [cache EXCEPT ![d][m.pet] = new]
    BY DEF HandleSuccessfulWrite
  <1>6. cache' \in [Devices -> [Pets -> MaybeDocument]]
    <2> HIDE DEF new, m
    <2> QED BY <1>2, <1>4, <1>5 DEF StoreTypeOK
  <1> QED BY <1>2, <1>6 DEF HandleSuccessfulWrite, StoreTypeOK

LEMMA ApplyRemoteEventType ==
  ASSUME StoreTypeOK, NEW d \in Devices, ApplyRemoteEvent(d)
  PROVE  StoreTypeOK'
  <1>1. watch[d] \in Snapshot
    BY DEF StoreTypeOK
  <1>2. \A p \in Pets : ApplyUpdate(watch[d].docs[p], cache[d][p]) \in MaybeDocument
    BY <1>1 DEF StoreTypeOK, Snapshot, ApplyUpdate
  <1>3. cache' \in [Devices -> [Pets -> MaybeDocument]]
    BY <1>2 DEF ApplyRemoteEvent, StoreTypeOK
  <1>4. snapver' \in [Devices -> Nat] /\ watch' \in [Devices -> Snapshot]
    BY <1>1, NoSnapshotType DEF ApplyRemoteEvent, StoreTypeOK, Snapshot
  <1> QED BY <1>3, <1>4 DEF ApplyRemoteEvent, StoreTypeOK

(* Every other step: it changes the streams of one device only. *)
LEMMA OtherStepType ==
  ASSUME StoreTypeOK, AnswersMatchQueue, NEW d \in Devices,
         \/ HandleRejectedWrite(d) \/ OnWriteStreamClose(d) \/ SendSnapshot(d)
         \/ OnWatchStreamClose(d) \/ Restart(d)
  PROVE  StoreTypeOK'
  <1>1. CASE HandleRejectedWrite(d)
    <2>1. queue[d] # <<>> /\ results[d] # <<>>
      BY <1>1 DEF HandleRejectedWrite, AnswersMatchQueue, StoreTypeOK
    <2> QED BY <1>1, <2>1, PopWriteType DEF HandleRejectedWrite, StoreTypeOK
  <1>2. CASE OnWriteStreamClose(d)
    BY <1>2, FirestoreAssumption DEF OnWriteStreamClose, StoreTypeOK
  <1>3. CASE SendSnapshot(d)
    BY <1>3 DEF SendSnapshot, StoreTypeOK, Snapshot
  <1>4. CASE OnWatchStreamClose(d)
    BY <1>4, FirestoreAssumption, NoSnapshotType
       DEF OnWatchStreamClose, AfterFailure, StoreTypeOK
  <1>5. CASE Restart(d)
    BY <1>5, FirestoreAssumption, NoSnapshotType DEF Restart, StoreTypeOK
  <1> QED BY <1>1, <1>2, <1>3, <1>4, <1>5

(* Answers are for queued writes. *)
LEMMA AnswersMatchStep ==
  ASSUME StoreTypeOK, AnswersMatchQueue, [StoreNext]_storeVars
  PROVE  AnswersMatchQueue'
  <1> SUFFICES ASSUME NEW e \in Devices
               PROVE  Len(results'[e]) <= Len(queue'[e])
    BY DEF AnswersMatchQueue
  <1>0. /\ Len(results[e]) <= Len(queue[e])
        /\ results[e] \in Seq(Result) /\ queue[e] \in Seq(Mutation)
    BY DEF AnswersMatchQueue, StoreTypeOK
  <1>1. CASE UNCHANGED storeVars
    BY <1>0, <1>1 DEF storeVars
  <1>2. ASSUME NEW d \in Devices, NEW m \in Mutation, WriteMutations(d, m)
        PROVE  Len(results'[e]) <= Len(queue'[e])
    BY <1>0, <1>2 DEF WriteMutations, StoreTypeOK
  <1>3. ASSUME NEW d \in Devices, ServerHandlesWrite(d)
        PROVE  Len(results'[e]) <= Len(queue'[e])
    <2> PICK i \in Unanswered(d) : ServerHandlesWrite(d)!2!(i)
      BY <1>3 DEF ServerHandlesWrite
    <2>1. /\ queue' = queue
          /\ i \in DOMAIN queue[d] /\ i = Len(results[d]) + 1
      BY <1>3 DEF ServerHandlesWrite, Unanswered
    <2>2. PICK r : results' = [results EXCEPT ![d] = Append(@, r)]
      BY DEF Answer
    <2>3. results[d] \in Seq(Result) /\ queue[d] \in Seq(Mutation)
      BY DEF StoreTypeOK
    <2>4. CASE e = d
      <3>1. results'[e] = Append(results[d], r)
        BY <2>2, <2>4 DEF StoreTypeOK
      <3>2. Len(results'[e]) = Len(results[d]) + 1
        BY <2>3, <3>1
      <3> QED BY <2>1, <2>3, <2>4, <3>2
    <2>5. CASE e # d
      BY <1>0, <2>1, <2>2, <2>5 DEF StoreTypeOK
    <2> QED BY <2>4, <2>5
  <1>4. ASSUME NEW d \in Devices, HandleSuccessfulWrite(d) \/ HandleRejectedWrite(d)
        PROVE  Len(results'[e]) <= Len(queue'[e])
    <2>1. PopWrite(d) /\ results[d] # <<>>
      BY <1>4 DEF HandleSuccessfulWrite, HandleRejectedWrite
    <2>2. CASE e = d
      BY <1>0, <2>1, <2>2 DEF PopWrite, StoreTypeOK
    <2>3. CASE e # d
      BY <1>0, <2>1, <2>3 DEF PopWrite, StoreTypeOK
    <2> QED BY <2>2, <2>3
  <1>5. ASSUME NEW d \in Devices, OnWriteStreamClose(d) \/ Restart(d)
        PROVE  Len(results'[e]) <= Len(queue'[e])
    <2>1. queue' = queue /\ results' = [results EXCEPT ![d] = <<>>]
      BY <1>5 DEF OnWriteStreamClose, Restart
    <2> QED BY <1>0, <2>1 DEF StoreTypeOK
  <1>6. ASSUME NEW d \in Devices,
               SendSnapshot(d) \/ ApplyRemoteEvent(d) \/ OnWatchStreamClose(d)
        PROVE  Len(results'[e]) <= Len(queue'[e])
    BY <1>0, <1>6 DEF SendSnapshot, ApplyRemoteEvent, OnWatchStreamClose
  <1> QED BY <1>1, <1>2, <1>3, <1>4, <1>5, <1>6 DEF StoreNext, Network

LEMMA StoreTypeStep ==
  ASSUME StoreTypeOK, AnswersMatchQueue, [StoreNext]_storeVars
  PROVE  StoreTypeOK'
  <1>1. CASE UNCHANGED storeVars
    BY <1>1 DEF storeVars, StoreTypeOK
  <1>2. CASE StoreNext
    BY <1>2, WriteMutationsType, ServerHandlesWriteType, AcknowledgementType,
       ApplyRemoteEventType, OtherStepType DEF StoreNext, Network
  <1> QED BY <1>1, <1>2

(* Every variable keeps its type, and every answer on a write stream is for a
   write that is still queued. *)
THEOREM StoreTypeCorrect == StoreSpec => [](StoreTypeOK /\ AnswersMatchQueue)
  <1>1. StoreInit => StoreTypeOK /\ AnswersMatchQueue
    BY StoreInitType DEF StoreInit, AnswersMatchQueue
  <1>2. StoreTypeOK /\ AnswersMatchQueue /\ [StoreNext]_storeVars
          => StoreTypeOK' /\ AnswersMatchQueue'
    BY StoreTypeStep, AnswersMatchStep
  <1> QED BY <1>1, <1>2, PTL DEF StoreSpec
---------------------------------------------------------------------------------
(***************************************************************************)
(* The remote document cache of every phone against the server's           *)
(* collection: it never goes back, and it is the server's document as soon *)
(* as the snapshot version says so.                                        *)
(***************************************************************************)

(* Nobody knows a version the server has not given out, and only a phone's
   cache holds content computed by the client. *)
VersionsInOrder ==
  /\ \A p \in Pets : server[p].version <= commit /\ ~server[p].committed
  /\ \A d \in Devices : /\ snapver[d] <= commit
                        /\ watch[d].version <= commit
  /\ \A d \in Devices, p \in Pets :
       /\ cache[d][p].version <= server[p].version
       /\ watch[d].docs[p].version <= server[p].version
       /\ watch[d].docs[p].version <= watch[d].version
  /\ \A d \in Devices : \A i \in DOMAIN results[d] :
       results[d][i].version <= server[queue[d][i].pet].version

(* What came from the server with the latest version is the server's document. *)
LatestIsServers ==
  \A d \in Devices, p \in Pets :
    /\ (cache[d][p].version = server[p].version /\ ~cache[d][p].committed)
         => cache[d][p] = server[p]
    /\ (watch[d] # NoSnapshot /\ server[p].version <= watch[d].version)
         => watch[d].docs[p] = server[p]

CacheInv ==
  /\ StoreTypeOK
  /\ AnswersMatchQueue
  /\ VersionsInOrder
  /\ LatestIsServers
  /\ CacheCatchesUp

(* For the existence of pets: the acknowledgement of a set or a patch with the
   latest version, and a cached document of that version, are of a pet that
   exists. *)
LatestExists ==
  \A d \in Devices :
    /\ \A p \in Pets :
         (cache[d][p].version = server[p].version /\ Exists(cache[d][p]))
           => Exists(server[p])
    /\ \A i \in DOMAIN results[d] :
         LET m == queue[d][i]
         IN (/\ results[d][i].ok
             /\ results[d][i].version = server[m.pet].version
             /\ m.type # "delete") => Exists(server[m.pet])

---------------------------------------------------------------------------------
(***************************************************************************)
(* What a step does to the server and to the answers on the write streams. *)
(***************************************************************************)

(* Only a commit changes the server, and nothing but the answers with it. *)
LEMMA ServerStep ==
  ASSUME CacheInv, [StoreNext]_storeVars
  PROVE  /\ commit' \in Nat /\ commit' >= commit
         /\ \A p \in Pets :
              \/ server'[p] = server[p]
              \/ /\ server'[p].version = commit' /\ commit' > commit
                 /\ ~server'[p].committed
         /\ \/ UNCHANGED serverVars
            \/ UNCHANGED <<cache, snapver, watch, queue>>
  <1> USE DEF CacheInv
  <1>1. CASE \E d \in Devices : ServerHandlesWrite(d)
    <2> PICK d \in Devices : ServerHandlesWrite(d)
      BY <1>1
    <2> PICK i \in Unanswered(d) : ServerHandlesWrite(d)!2!(i)
      BY DEF ServerHandlesWrite
    <2> DEFINE m == queue[d][i]
    <2>1. m \in Mutation /\ m.pet \in Pets /\ server[m.pet] \in MaybeDocument
      BY QueuedIsMutation DEF StoreTypeOK, Unanswered
    <2>2. commit \in Nat /\ commit + 1 \in Nat
      BY DEF StoreTypeOK
    <2>3. UNCHANGED <<cache, snapver, watch, queue>>
      BY DEF ServerHandlesWrite
    <2>4. CASE UNCHANGED serverVars
      BY <2>2, <2>3, <2>4 DEF serverVars
    <2>5. CASE /\ commit' = commit + 1
               /\ server' = [server EXCEPT ![m.pet] = Mutated(m, @, commit + 1)]
      <3> DEFINE new == Mutated(m, server[m.pet], commit + 1)
      <3>1. new.version = commit + 1 /\ ~new.committed
        BY <2>1, <2>2, MutatedType
      <3> HIDE DEF new, m
      <3>2. server' = [server EXCEPT ![m.pet] = new]
        BY <2>5 DEF new
      <3>3. ASSUME NEW p \in Pets
            PROVE  \/ server'[p] = server[p]
                   \/ server'[p] = new
        BY <3>2 DEF StoreTypeOK
      <3> QED BY <2>2, <2>3, <2>5, <3>1, <3>3
    <2> QED BY <2>4, <2>5
  <1>2. CASE ~\E d \in Devices : ServerHandlesWrite(d)
    <2>1. UNCHANGED serverVars
      BY <1>2 DEF StoreNext, Network, storeVars, serverVars, WriteMutations,
         HandleSuccessfulWrite, HandleRejectedWrite, OnWriteStreamClose,
         SendSnapshot, ApplyRemoteEvent, OnWatchStreamClose, Restart
    <2> QED BY <2>1 DEF serverVars, StoreTypeOK
  <1> QED BY <1>1, <1>2

(* An answer on a stream was there before, for the same write, or the server
   has just given it, from the document it leaves. *)
LEMMA AnswerStep ==
  ASSUME CacheInv, [StoreNext]_storeVars,
         NEW e \in Devices, NEW i \in DOMAIN results'[e]
  PROVE  LET r == results'[e][i]
             m == queue'[e][i]
         IN /\ m.pet \in Pets
            /\ \/ \E j \in DOMAIN results[e] :
                    r = results[e][j] /\ m = queue[e][j]
               \/ /\ r.version <= server'[m.pet].version
                  /\ (r.ok /\ m.type # "delete") => Exists(server'[m.pet])
  <1> USE DEF CacheInv
  <1> DEFINE Goal == LET r == results'[e][i]
                         m == queue'[e][i]
                     IN \/ \E j \in DOMAIN results[e] :
                             r = results[e][j] /\ m = queue[e][j]
                        \/ /\ r.version <= server'[m.pet].version
                           /\ (r.ok /\ m.type # "delete") => Exists(server'[m.pet])
  <1>0. /\ results[e] \in Seq(Result) /\ queue[e] \in Seq(Mutation)
        /\ Len(results[e]) <= Len(queue[e])
    BY DEF StoreTypeOK, AnswersMatchQueue
  <1>1. queue'[e][i].pet \in Pets
    <2>1. StoreTypeOK' /\ AnswersMatchQueue'
      BY StoreTypeStep, AnswersMatchStep
    <2>2. /\ results'[e] \in Seq(Result) /\ queue'[e] \in Seq(Mutation)
          /\ Len(results'[e]) <= Len(queue'[e])
      BY <2>1 DEF StoreTypeOK, AnswersMatchQueue
    <2>3. queue'[e][i] \in Mutation
      BY <2>2
    <2> QED BY <2>3 DEF Mutation
  <1>2. ASSUME results'[e] = results[e] /\ queue'[e] = queue[e] PROVE Goal
    BY <1>2
  <1>3. ASSUME results'[e] = <<>> PROVE Goal
    BY <1>3
  <1>4. ASSUME NEW d \in Devices, NEW m \in Mutation, WriteMutations(d, m)
        PROVE  Goal
    <2>1. results' = results /\ queue' = [queue EXCEPT ![d] = Append(@, m)]
      BY <1>4 DEF WriteMutations
    <2>2. i \in DOMAIN results[e] /\ i \in DOMAIN queue[e]
      BY <1>0, <2>1
    <2>3. queue'[e][i] = queue[e][i]
      BY <1>0, <2>1, <2>2 DEF StoreTypeOK
    <2> QED BY <2>1, <2>2, <2>3
  <1>5. ASSUME NEW d \in Devices, HandleSuccessfulWrite(d) \/ HandleRejectedWrite(d)
        PROVE  Goal
    <2>1. PopWrite(d) /\ results[d] # <<>>
      BY <1>5 DEF HandleSuccessfulWrite, HandleRejectedWrite
    <2>2. CASE e = d
      <3>1. queue'[e] = Tail(queue[e]) /\ results'[e] = Tail(results[e])
        BY <2>1, <2>2 DEF PopWrite, StoreTypeOK
      <3>2. i + 1 \in DOMAIN results[e] /\ results'[e][i] = results[e][i + 1]
        BY <1>0, <2>1, <2>2, <3>1
      <3>3. queue'[e][i] = queue[e][i + 1]
        BY <1>0, <2>1, <2>2, <3>1, <3>2
      <3> QED BY <3>2, <3>3
    <2>3. CASE e # d
      BY <1>2, <2>1, <2>3 DEF PopWrite, StoreTypeOK
    <2> QED BY <2>2, <2>3
  <1>6. ASSUME NEW d \in Devices, OnWriteStreamClose(d) \/ Restart(d)
        PROVE  Goal
    <2>1. queue' = queue /\ results' = [results EXCEPT ![d] = <<>>]
      BY <1>6 DEF OnWriteStreamClose, Restart
    <2> QED BY <1>2, <1>3, <2>1 DEF StoreTypeOK
  <1>7. ASSUME NEW d \in Devices, ServerHandlesWrite(d)
        PROVE  Goal
    <2> PICK k \in Unanswered(d) : ServerHandlesWrite(d)!2!(k)
      BY <1>7 DEF ServerHandlesWrite
    <2> DEFINE m == queue[d][k]
    <2>1. /\ queue' = queue
          /\ k \in DOMAIN queue[d] /\ k = Len(results[d]) + 1
      BY <1>7 DEF ServerHandlesWrite, Unanswered
    <2>2. m \in Mutation /\ m.pet \in Pets /\ server[m.pet] \in MaybeDocument
      BY <2>1, QueuedIsMutation DEF StoreTypeOK
    <2>3. PICK r : /\ results' = [results EXCEPT ![d] = Append(@, r)]
                   /\ r.version <= server'[m.pet].version
                   /\ (r.ok /\ m.type # "delete") => Exists(server'[m.pet])
      <3>1. commit \in Nat /\ commit + 1 \in Nat /\ server[m.pet].version \in Nat
        BY <2>2 DEF StoreTypeOK, MaybeDocument
      <3>2. CASE Answer(d, FALSE, 0) /\ UNCHANGED serverVars
        <4>1. results' = [results EXCEPT ![d] = Append(@, [ok |-> FALSE, version |-> 0])]
          BY <3>2 DEF Answer
        <4>2. 0 <= server'[m.pet].version
          BY <3>1, <3>2 DEF serverVars
        <4> WITNESS [ok |-> FALSE, version |-> 0]
        <4> QED BY <4>1, <4>2
      <3>3. CASE /\ IsNoOp(m) /\ UNCHANGED serverVars
                 /\ Answer(d, TRUE, server[m.pet].version)
        <4>1. results' = [results EXCEPT ![d] =
                 Append(@, [ok |-> TRUE, version |-> server[m.pet].version])]
          BY <3>3 DEF Answer
        <4>2. /\ server[m.pet].version <= server'[m.pet].version
              /\ Exists(server'[m.pet])
          BY <3>1, <3>3 DEF serverVars, IsNoOp
        <4> WITNESS [ok |-> TRUE, version |-> server[m.pet].version]
        <4> HIDE DEF m
        <4> QED BY <4>1, <4>2
      <3>4. CASE /\ server' = [server EXCEPT ![m.pet] = Mutated(m, @, commit + 1)]
                 /\ Answer(d, TRUE, commit + 1)
        <4>1. results' = [results EXCEPT ![d] =
                 Append(@, [ok |-> TRUE, version |-> commit + 1])]
          BY <3>4 DEF Answer
        <4>2. server'[m.pet] = Mutated(m, server[m.pet], commit + 1)
          BY <2>2, <3>4 DEF StoreTypeOK
        <4>3. /\ server'[m.pet].version = commit + 1
              /\ Exists(server'[m.pet]) <=> m.type # "delete"
          BY <2>2, <3>1, <4>2, MutatedType
        <4>4. commit + 1 <= server'[m.pet].version
          BY <3>1, <4>3
        <4> WITNESS [ok |-> TRUE, version |-> commit + 1]
        <4> HIDE DEF m
        <4> QED BY <4>1, <4>3, <4>4
      <3> QED BY <3>2, <3>3, <3>4
    <2>4. CASE e # d
      BY <1>2, <2>1, <2>3, <2>4 DEF StoreTypeOK
    <2>5. CASE e = d
      <3>1. results'[e] = Append(results[e], r)
        BY <2>3, <2>5 DEF StoreTypeOK
      <3>2. CASE i = k
        <4>1. results'[e][i] = r
          BY <1>0, <2>1, <2>5, <3>1, <3>2
        <4>2. queue'[e][i] = m
          BY <2>1, <2>5, <3>2
        <4> HIDE DEF m
        <4> QED BY <2>3, <4>1, <4>2
      <3>3. CASE i # k
        <4>1. i \in DOMAIN results[e] /\ results'[e][i] = results[e][i]
          BY <1>0, <2>1, <2>5, <3>1, <3>3
        <4> QED BY <2>1, <4>1
      <3> QED BY <3>2, <3>3
    <2> QED BY <2>4, <2>5
  <1>8. ASSUME NEW d \in Devices,
               SendSnapshot(d) \/ ApplyRemoteEvent(d) \/ OnWatchStreamClose(d)
        PROVE  Goal
    BY <1>2, <1>8 DEF SendSnapshot, ApplyRemoteEvent, OnWatchStreamClose
  <1>9. ASSUME UNCHANGED storeVars PROVE Goal
    BY <1>2, <1>9 DEF storeVars
  <1>10. Goal
    <2> HIDE DEF Goal
    <2> QED BY <1>4, <1>5, <1>6, <1>7, <1>8, <1>9 DEF StoreNext, Network
  <1> QED BY <1>1, <1>10

---------------------------------------------------------------------------------
(***************************************************************************)
(* What a step does to a phone's cache and to its watch stream.            *)
(***************************************************************************)

(* The cache entry of a pet is left alone, or takes an acknowledged write, or
   takes the pet's document from the snapshot, which is the only step that
   moves the snapshot version. *)
LEMMA CacheStep ==
  ASSUME CacheInv, [StoreNext]_storeVars, NEW e \in Devices, NEW p \in Pets
  PROVE  \/ cache'[e][p] = cache[e][p] /\ snapver'[e] = snapver[e]
         \/ /\ snapver'[e] = snapver[e]
            /\ cache'[e][p].committed
            /\ cache'[e][p].version > cache[e][p].version
            /\ \E j \in DOMAIN results[e] :
                 /\ results[e][j].ok
                 /\ queue[e][j].pet = p
                 /\ results[e][j].version = cache'[e][p].version
                 /\ Exists(cache'[e][p]) => queue[e][j].type # "delete"
         \/ /\ watch[e] # NoSnapshot
            /\ cache'[e][p] = ApplyUpdate(watch[e].docs[p], cache[e][p])
            /\ snapver'[e] = watch[e].version
  <1> USE DEF CacheInv
  <1>1. CASE cache' = cache /\ snapver' = snapver
    BY <1>1
  <1>2. ASSUME NEW d \in Devices, ApplyRemoteEvent(d)
        PROVE  \/ cache'[e][p] = cache[e][p] /\ snapver'[e] = snapver[e]
               \/ /\ watch[e] # NoSnapshot
                  /\ cache'[e][p] = ApplyUpdate(watch[e].docs[p], cache[e][p])
                  /\ snapver'[e] = watch[e].version
    BY <1>2 DEF ApplyRemoteEvent, StoreTypeOK
  <1>3. ASSUME NEW d \in Devices, HandleSuccessfulWrite(d)
        PROVE  \/ cache'[e][p] = cache[e][p] /\ snapver'[e] = snapver[e]
               \/ /\ snapver'[e] = snapver[e]
                  /\ cache'[e][p].committed
                  /\ cache'[e][p].version > cache[e][p].version
                  /\ \E j \in DOMAIN results[e] :
                       /\ results[e][j].ok
                       /\ queue[e][j].pet = p
                       /\ results[e][j].version = cache'[e][p].version
                       /\ Exists(cache'[e][p]) => queue[e][j].type # "delete"
    <2> DEFINE m == Head(queue[d])
               v == Head(results[d]).version
               new == ApplyBatchResult(m, cache[d][m.pet], v)
    <2>1. queue[d] # <<>> /\ results[d] # <<>>
      BY <1>3 DEF HandleSuccessfulWrite, AnswersMatchQueue, StoreTypeOK
    <2>2. /\ 1 \in DOMAIN results[d]
          /\ results[d][1].ok /\ results[d][1].version = v /\ queue[d][1] = m
      BY <1>3, <2>1 DEF HandleSuccessfulWrite, StoreTypeOK
    <2>3. m \in Mutation /\ m.pet \in Pets /\ v \in Nat
      BY <1>3, <2>1, PopWriteType DEF HandleSuccessfulWrite, Result, Mutation
    <2>4. cache[d][m.pet] \in MaybeDocument
      BY <2>3 DEF StoreTypeOK
    <2>5. \/ new = cache[d][m.pet]
          \/ /\ new.committed /\ new.version = v
             /\ v > cache[d][m.pet].version
             /\ Exists(new) => m.type # "delete"
      <3>1. cache[d][m.pet].version \in Nat
        BY <2>4 DEF MaybeDocument
      <3>2. LET doc == ApplyToRemoteDocument(m, cache[d][m.pet], v)
            IN doc.committed /\ doc.version = v /\ (Exists(doc) => m.type # "delete")
        BY <2>3, <2>4, ApplyToRemoteDocumentType
      <3> HIDE DEF m, v
      <3> QED BY <2>3, <3>1, <3>2 DEF ApplyBatchResult
    <2>6. cache' = [cache EXCEPT ![d][m.pet] = new] /\ snapver' = snapver
      BY <1>3 DEF HandleSuccessfulWrite
    <2> HIDE DEF new, m, v
    <2>7. CASE e = d /\ p = m.pet
      <3>1. cache'[e][p] = new
        BY <2>3, <2>6, <2>7 DEF StoreTypeOK
      <3> QED BY <2>2, <2>5, <2>6, <2>7, <3>1
    <2>8. CASE ~(e = d /\ p = m.pet)
      BY <2>3, <2>6, <2>8 DEF StoreTypeOK
    <2> QED BY <2>7, <2>8
  <1>4. CASE UNCHANGED storeVars
    BY <1>1, <1>4 DEF storeVars
  <1>5. CASE \E d \in Devices :
               \/ \E m \in Mutation : WriteMutations(d, m)
               \/ ServerHandlesWrite(d) \/ HandleRejectedWrite(d)
               \/ OnWriteStreamClose(d) \/ SendSnapshot(d)
               \/ OnWatchStreamClose(d) \/ Restart(d)
    BY <1>1, <1>5 DEF WriteMutations, ServerHandlesWrite, HandleRejectedWrite,
       OnWriteStreamClose, SendSnapshot, OnWatchStreamClose, Restart
  <1> QED BY <1>2, <1>3, <1>4, <1>5 DEF StoreNext, Network

LEMMA WatchStep ==
  ASSUME CacheInv, [StoreNext]_storeVars, NEW e \in Devices
  PROVE  \/ watch'[e] = watch[e]
         \/ watch'[e] = NoSnapshot
         \/ /\ watch'[e] = [version |-> commit, docs |-> server]
            /\ UNCHANGED serverVars
  <1> USE DEF CacheInv
  <1>1. ASSUME NEW d \in Devices, SendSnapshot(d)
        PROVE  \/ watch'[e] = watch[e]
               \/ /\ watch'[e] = [version |-> commit, docs |-> server]
                  /\ UNCHANGED serverVars
    BY <1>1 DEF SendSnapshot, serverVars, StoreTypeOK
  <1>2. ASSUME NEW d \in Devices,
               ApplyRemoteEvent(d) \/ OnWatchStreamClose(d) \/ Restart(d)
        PROVE  watch'[e] = watch[e] \/ watch'[e] = NoSnapshot
    BY <1>2 DEF ApplyRemoteEvent, OnWatchStreamClose, Restart, StoreTypeOK
  <1>3. CASE watch' = watch
    BY <1>3
  <1> QED BY <1>1, <1>2, <1>3 DEF StoreNext, Network, storeVars, WriteMutations,
         ServerHandlesWrite, HandleSuccessfulWrite, HandleRejectedWrite,
         OnWriteStreamClose

---------------------------------------------------------------------------------
(***************************************************************************)
(* The invariant.                                                          *)
(***************************************************************************)

LEMMA CacheInvInit == StoreInit => CacheInv
  <1> SUFFICES ASSUME StoreInit PROVE CacheInv
    OBVIOUS
  <1>1. StoreTypeOK /\ AnswersMatchQueue
    BY StoreInitType DEF StoreInit, AnswersMatchQueue
  <1>2. \A p \in Pets : InitDocument(p).version \in {0, 1} /\ ~InitDocument(p).committed
    BY DEF InitDocument, Document, Absent, NoDocument
  <1>3. \A p \in Pets : InitDocument(p).version = 0 => InitDocument(p) = Absent
    BY DEF InitDocument, Document
  <1>4. Absent.version = 0 /\ ~Absent.committed
    BY DEF Absent, NoDocument
  <1>5. VersionsInOrder
    <2>0. /\ commit = 1
          /\ \A p \in Pets : server[p] = InitDocument(p)
          /\ \A d \in Devices, p \in Pets :
               /\ cache[d][p] = InitDocument(p) \/ cache[d][p] = Absent
               /\ watch[d].docs[p] = Absent /\ watch[d].version = 0
      BY DEF StoreInit, NoSnapshot
    <2>1. \A p \in Pets : server[p].version <= commit /\ ~server[p].committed
      <3>1. \A p \in Pets : server[p].version = 0 \/ server[p].version = 1
        BY <1>2, <2>0
      <3>2. \A p \in Pets : ~server[p].committed
        BY <1>2, <2>0
      <3>3. \A p \in Pets : server[p].version <= commit
        <4> TAKE p \in Pets
        <4>1. server[p].version = 0 \/ server[p].version = 1
          BY <3>1
        <4> QED BY <2>0, <4>1
      <3> QED BY <3>2, <3>3
    <2>2. \A d \in Devices : snapver[d] <= commit /\ watch[d].version <= commit
      BY DEF StoreInit, NoSnapshot
    <2>3. \A d \in Devices, p \in Pets :
            /\ cache[d][p].version <= server[p].version
            /\ watch[d].docs[p].version <= server[p].version
            /\ watch[d].docs[p].version <= watch[d].version
      <3> SUFFICES ASSUME NEW d \in Devices, NEW p \in Pets
                   PROVE  /\ cache[d][p].version <= server[p].version
                          /\ watch[d].docs[p].version <= server[p].version
                          /\ watch[d].docs[p].version <= watch[d].version
        OBVIOUS
      <3>1. server[p].version = 0 \/ server[p].version = 1
        BY <1>2, <2>0
      <3>2. cache[d][p].version = server[p].version \/ cache[d][p].version = 0
        BY <1>4, <2>0
      <3>3. watch[d].docs[p].version = 0 /\ watch[d].version = 0
        BY <1>4, <2>0
      <3> QED BY <3>1, <3>2, <3>3
    <2>4. \A d \in Devices : DOMAIN results[d] = {}
      BY DEF StoreInit
    <2> QED BY <2>1, <2>2, <2>3, <2>4 DEF VersionsInOrder
  <1>6. LatestIsServers
    BY <1>3, <1>4 DEF LatestIsServers, StoreInit
  <1>7. CacheCatchesUp
    <2> SUFFICES ASSUME NEW d \in Devices, NEW p \in Pets,
                        server[p].version <= snapver[d]
                 PROVE  cache[d][p] = server[p]
      BY DEF CacheCatchesUp
    <2>1. CASE d \in Installed
      BY <2>1 DEF StoreInit
    <2>2. CASE d \notin Installed
      <3>1. server[p] = InitDocument(p) /\ snapver[d] = 0 /\ cache[d][p] = Absent
        BY <2>2 DEF StoreInit
      <3>2. InitDocument(p).version = 0
        BY <1>2, <3>1
      <3> QED BY <1>3, <3>1, <3>2
    <2> QED BY <2>1, <2>2
  <1> QED BY <1>1, <1>5, <1>6, <1>7 DEF CacheInv

(* The versions and the acknowledgements of one phone, as numbers. *)
LEMMA VersionsAreNat ==
  ASSUME StoreTypeOK, NEW d \in Devices, NEW p \in Pets
  PROVE  /\ server[p].version \in Nat /\ commit \in Nat
         /\ cache[d][p].version \in Nat /\ snapver[d] \in Nat
         /\ watch[d].version \in Nat /\ watch[d].docs[p].version \in Nat
         /\ NoSnapshot.version = 0 /\ NoSnapshot.docs[p].version = 0
  BY DEF StoreTypeOK, MaybeDocument, Snapshot, NoSnapshot, Absent, NoDocument

LEMMA VersionsStep ==
  ASSUME CacheInv, [StoreNext]_storeVars
  PROVE  VersionsInOrder'
  <1> USE DEF CacheInv
  <1>0. StoreTypeOK'
    BY StoreTypeStep
  <1>1. ASSUME NEW p \in Pets
        PROVE  /\ server'[p].version <= commit' /\ ~server'[p].committed
               /\ server'[p].version >= server[p].version
               /\ server[p].version \in Nat /\ server'[p].version \in Nat
               /\ commit' \in Nat /\ commit \in Nat /\ commit' >= commit
    <2>1. /\ server[p].version <= commit /\ ~server[p].committed
          /\ server[p].version \in Nat /\ commit \in Nat
          /\ server'[p].version \in Nat /\ commit' \in Nat
      BY <1>0 DEF VersionsInOrder, StoreTypeOK, MaybeDocument
    <2> QED BY <2>1, ServerStep
  <1>2. ASSUME NEW d \in Devices
        PROVE  snapver'[d] <= commit' /\ watch'[d].version <= commit'
    <2>1. /\ snapver[d] <= commit /\ watch[d].version <= commit
          /\ snapver[d] \in Nat /\ watch[d].version \in Nat
          /\ commit \in Nat /\ commit' \in Nat /\ commit' >= commit
          /\ NoSnapshot.version = 0
      BY ServerStep DEF VersionsInOrder, StoreTypeOK, Snapshot, NoSnapshot
    <2>2. watch'[d].version \in {watch[d].version, 0, commit}
      BY <2>1, WatchStep
    <2>3. snapver'[d] \in {snapver[d], watch[d].version}
      <3>1. CASE snapver' = snapver
        BY <3>1
      <3>2. ASSUME NEW e \in Devices, ApplyRemoteEvent(e)
            PROVE  snapver'[d] \in {snapver[d], watch[d].version}
        BY <3>2 DEF ApplyRemoteEvent, StoreTypeOK
      <3> QED BY <3>1, <3>2 DEF StoreNext, Network, storeVars, WriteMutations,
             ServerHandlesWrite, HandleSuccessfulWrite, HandleRejectedWrite,
             OnWriteStreamClose, SendSnapshot, OnWatchStreamClose, Restart
    <2> QED BY <2>1, <2>2, <2>3
  <1>3. ASSUME NEW d \in Devices, NEW p \in Pets
        PROVE  /\ cache'[d][p].version <= server'[p].version
               /\ watch'[d].docs[p].version <= server'[p].version
               /\ watch'[d].docs[p].version <= watch'[d].version
    <2>1. /\ cache[d][p].version <= server[p].version
          /\ watch[d].docs[p].version <= server[p].version
          /\ watch[d].docs[p].version <= watch[d].version
          /\ server[p].version <= commit
      BY DEF VersionsInOrder
    <2>2. /\ watch'[d].docs[p].version <= server'[p].version
          /\ watch'[d].docs[p].version <= watch'[d].version
      BY <1>1, <2>1, WatchStep, VersionsAreNat DEF serverVars
    <2>3. cache'[d][p].version <= server'[p].version
      <3>1. \A j \in DOMAIN results[d] : queue[d][j].pet = p =>
              results[d][j].version <= server[p].version
        BY DEF VersionsInOrder
      <3>2. \A j \in DOMAIN results[d] : results[d][j].version \in Nat
        <4>1. results[d] \in Seq(Result)
          BY DEF StoreTypeOK
        <4>2. \A j \in DOMAIN results[d] : results[d][j] \in Result
          BY <4>1
        <4> QED BY <4>2 DEF Result
      <3>3. ApplyUpdate(watch[d].docs[p], cache[d][p]) \in
              {watch[d].docs[p], cache[d][p]}
        BY DEF ApplyUpdate
      <3> QED BY <1>1, <2>1, <3>1, <3>2, <3>3, CacheStep, VersionsAreNat
    <2> QED BY <2>2, <2>3
  <1>4. ASSUME NEW d \in Devices, NEW i \in DOMAIN results'[d]
        PROVE  results'[d][i].version <= server'[queue'[d][i].pet].version
    <2> DEFINE r == results'[d][i]
               m == queue'[d][i]
    <2>1. CASE \E j \in DOMAIN results[d] : r = results[d][j] /\ m = queue[d][j]
      <3>1. r.version <= server[m.pet].version
        BY <2>1 DEF VersionsInOrder
      <3>2. r.version \in Nat
        <4>1. results'[d] \in Seq(Result)
          BY <1>0 DEF StoreTypeOK
        <4>2. r \in Result
          BY <4>1
        <4> QED BY <4>2 DEF Result
      <3>3. m.pet \in Pets
        BY AnswerStep
      <3> QED BY <1>1, <3>1, <3>2, <3>3
    <2> QED BY <2>1, AnswerStep
  <1> QED BY <1>1, <1>2, <1>3, <1>4 DEF VersionsInOrder

LEMMA LatestStep ==
  ASSUME CacheInv, [StoreNext]_storeVars, NEW d \in Devices, NEW p \in Pets
  PROVE  /\ (cache'[d][p].version = server'[p].version /\ ~cache'[d][p].committed)
              => cache'[d][p] = server'[p]
         /\ (watch'[d] # NoSnapshot /\ server'[p].version <= watch'[d].version)
              => watch'[d].docs[p] = server'[p]
         /\ server'[p].version <= snapver'[d] => cache'[d][p] = server'[p]
  <1> USE DEF CacheInv
  <1>0. /\ cache[d][p].version <= server[p].version
        /\ watch[d].docs[p].version <= server[p].version
        /\ watch[d].docs[p].version <= watch[d].version
        /\ server[p].version <= commit /\ ~server[p].committed
        /\ snapver[d] <= commit /\ watch[d].version <= commit
    BY DEF VersionsInOrder
  <1>1. /\ (cache[d][p].version = server[p].version /\ ~cache[d][p].committed)
             => cache[d][p] = server[p]
        /\ (watch[d] # NoSnapshot /\ server[p].version <= watch[d].version)
             => watch[d].docs[p] = server[p]
        /\ server[p].version <= snapver[d] => cache[d][p] = server[p]
    BY DEF LatestIsServers, CacheCatchesUp
  <1>2. CASE server'[p] # server[p]
    BY <1>0, <1>2, ServerStep, VersionsAreNat DEF serverVars
  <1>3. CASE server'[p] = server[p]
    <2>1. (watch'[d] # NoSnapshot /\ server'[p].version <= watch'[d].version)
            => watch'[d].docs[p] = server'[p]
      BY <1>1, <1>3, WatchStep
    <2>2. CASE cache'[d][p] = cache[d][p] /\ snapver'[d] = snapver[d]
      BY <1>1, <1>3, <2>1, <2>2
    <2>3. CASE /\ snapver'[d] = snapver[d]
               /\ cache'[d][p].committed
               /\ cache'[d][p].version > cache[d][p].version
      <3>0. VersionsInOrder' /\ StoreTypeOK'
        BY VersionsStep, StoreTypeStep
      <3>1. cache'[d][p].version <= server'[p].version /\ cache'[d][p].version \in Nat
        <4>1. cache'[d][p].version <= server'[p].version
          BY <3>0 DEF VersionsInOrder
        <4>2. cache'[d][p] \in MaybeDocument
          BY <3>0 DEF StoreTypeOK
        <4> QED BY <4>1, <4>2 DEF MaybeDocument
      <3>2. cache[d][p] # server[p]
        BY <1>3, <2>3, <3>1, VersionsAreNat
      <3> QED BY <1>1, <1>3, <2>1, <2>3, <3>2
    <2>4. CASE /\ watch[d] # NoSnapshot
               /\ cache'[d][p] = ApplyUpdate(watch[d].docs[p], cache[d][p])
               /\ snapver'[d] = watch[d].version
      <3>1. (cache'[d][p].version = server'[p].version /\ ~cache'[d][p].committed)
              => cache'[d][p] = server'[p]
        BY <1>0, <1>1, <1>3, <2>4, VersionsAreNat DEF ApplyUpdate
      <3>2. server'[p].version <= snapver'[d] => cache'[d][p] = server'[p]
        BY <1>0, <1>1, <1>3, <2>4, VersionsAreNat DEF ApplyUpdate
      <3> QED BY <2>1, <3>1, <3>2
    <2> QED BY <2>2, <2>3, <2>4, CacheStep
  <1> QED BY <1>2, <1>3

LEMMA CacheInvStep == CacheInv /\ [StoreNext]_storeVars => CacheInv'
  <1> SUFFICES ASSUME CacheInv, [StoreNext]_storeVars PROVE CacheInv'
    OBVIOUS
  <1>1. StoreTypeOK' /\ AnswersMatchQueue'
    BY StoreTypeStep, AnswersMatchStep DEF CacheInv
  <1>2. VersionsInOrder'
    BY VersionsStep
  <1>3. LatestIsServers' /\ CacheCatchesUp'
    BY LatestStep DEF LatestIsServers, CacheCatchesUp
  <1> QED BY <1>1, <1>2, <1>3 DEF CacheInv

LEMMA CacheInvAlways == StoreSpec => []CacheInv
  BY CacheInvInit, CacheInvStep, PTL DEF StoreSpec

(* Once a phone's snapshot version covers the last commit of a pet, its cache
   holds exactly the server's document. *)
THEOREM CacheIsCaughtUp == StoreSpec => []CacheCatchesUp
  <1>1. CacheInv => CacheCatchesUp
    BY DEF CacheInv
  <1> QED BY <1>1, CacheInvAlways, PTL

LEMMA CacheGrows ==
  ASSUME CacheInv, [StoreNext]_storeVars, NEW d \in Devices, NEW p \in Pets
  PROVE  cache'[d][p].version >= cache[d][p].version
  <1>1. cache[d][p].version \in Nat /\ watch[d].docs[p].version \in Nat
    BY VersionsAreNat DEF CacheInv
  <1>2. ApplyUpdate(watch[d].docs[p], cache[d][p]).version >= cache[d][p].version
    BY <1>1 DEF ApplyUpdate
  <1>3. cache'[d][p].version > cache[d][p].version
          => cache'[d][p].version >= cache[d][p].version
    <2>1. cache'[d][p].version \in Nat
      BY StoreTypeStep DEF CacheInv, StoreTypeOK, MaybeDocument
    <2> QED BY <1>1, <2>1
  <1> QED BY <1>1, <1>2, <1>3, CacheStep

(* No step replaces what a phone knows of a pet by an older version. *)
THEOREM CacheIsMonotonic == StoreSpec => CacheNeverRegresses
  <1>1. CacheInv /\ [StoreNext]_storeVars =>
          [\A d \in Devices, p \in Pets :
             cache'[d][p].version >= cache[d][p].version]_cache
    BY CacheGrows
  <1> QED BY <1>1, CacheInvAlways, PTL DEF StoreSpec, CacheNeverRegresses

---------------------------------------------------------------------------------
(***************************************************************************)
(* Deleted pets.                                                           *)
(***************************************************************************)

LEMMA LatestExistsInit == StoreInit => LatestExists
  <1> SUFFICES ASSUME StoreInit, NEW d \in Devices PROVE LatestExists!(d)
    BY DEF LatestExists
  <1>1. DOMAIN results[d] = {}
    BY DEF StoreInit
  <1>2. ~Exists(Absent)
    BY DEF Absent, NoDocument, Exists
  <1>3. \A p \in Pets : Exists(cache[d][p]) => Exists(server[p])
    BY <1>2 DEF StoreInit
  <1> QED BY <1>1, <1>3

LEMMA LatestExistsStep ==
  ASSUME CacheInv, LatestExists, [StoreNext]_storeVars
  PROVE  LatestExists'
  <1> USE DEF CacheInv
  <1>1. ASSUME NEW d \in Devices, NEW p \in Pets,
               cache'[d][p].version = server'[p].version, Exists(cache'[d][p])
        PROVE  Exists(server'[p])
    <2>1. CASE server'[p] # server[p]
      <3>1. cache'[d][p].version # commit'
        BY <2>1, ServerStep, VersionsAreNat DEF VersionsInOrder, serverVars
      <3> QED BY <1>1, <2>1, <3>1, ServerStep
    <2>2. CASE server'[p] = server[p]
      <3>1. CASE cache'[d][p] = cache[d][p]
        BY <1>1, <2>2, <3>1 DEF LatestExists
      <3>2. CASE \E j \in DOMAIN results[d] :
                   /\ results[d][j].ok
                   /\ queue[d][j].pet = p
                   /\ results[d][j].version = cache'[d][p].version
                   /\ Exists(cache'[d][p]) => queue[d][j].type # "delete"
        BY <1>1, <2>2, <3>2 DEF LatestExists
      <3>3. CASE /\ watch[d] # NoSnapshot
                 /\ cache'[d][p] = ApplyUpdate(watch[d].docs[p], cache[d][p])
        <4>1. CASE cache'[d][p] = watch[d].docs[p]
          <5>1. server[p].version <= watch[d].version
            BY <1>1, <2>2, <4>1 DEF VersionsInOrder
          <5>2. watch[d].docs[p] = server[p]
            BY <3>3, <5>1 DEF LatestIsServers
          <5> QED BY <1>1, <2>2, <4>1, <5>2
        <4>2. CASE cache'[d][p] = cache[d][p]
          BY <3>1, <4>2
        <4> QED BY <3>3, <4>1, <4>2 DEF ApplyUpdate
      <3> QED BY <3>1, <3>2, <3>3, CacheStep
    <2> QED BY <2>1, <2>2
  <1>2. ASSUME NEW d \in Devices, NEW i \in DOMAIN results'[d],
               results'[d][i].ok,
               results'[d][i].version = server'[queue'[d][i].pet].version,
               queue'[d][i].type # "delete"
        PROVE  Exists(server'[queue'[d][i].pet])
    <2> DEFINE r == results'[d][i]
               m == queue'[d][i]
    <2>0. m.pet \in Pets
      BY AnswerStep
    <2>1. CASE \E j \in DOMAIN results[d] : r = results[d][j] /\ m = queue[d][j]
      <3>1. r.version <= server[m.pet].version
        BY <2>1 DEF VersionsInOrder
      <3>2. CASE server'[m.pet] = server[m.pet]
        BY <1>2, <2>1, <3>2 DEF LatestExists
      <3>3. CASE server'[m.pet] # server[m.pet]
        <4>1. /\ server'[m.pet].version = commit' /\ commit' > commit
              /\ commit' \in Nat
          BY <2>0, <3>3, ServerStep
        <4>2. /\ server[m.pet].version <= commit
              /\ server[m.pet].version \in Nat /\ commit \in Nat
          BY <2>0, VersionsAreNat DEF VersionsInOrder
        <4> HIDE DEF r, m
        <4>3. r.version # server'[m.pet].version
          BY <3>1, <4>1, <4>2
        <4> QED BY <1>2, <4>3 DEF r, m
      <3> QED BY <3>2, <3>3
    <2> QED BY <1>2, <2>1, AnswerStep
  <1> QED BY <1>1, <1>2 DEF LatestExists

(* What the phone shows of a pet it knows to be deleted. *)
LEMMA GhostsNeedASet ==
  ASSUME CacheInv, LatestExists
  PROVE  NoGhostPets
  <1> SUFFICES ASSUME NEW d \in Devices, NEW p \in Pets,
                      cache[d][p].version = server[p].version,
                      ~Exists(server[p]),
                      \A i \in WritesOf(queue[d], p) : queue[d][i].type # "set"
               PROVE  ~Exists(View(d, p))
    BY DEF NoGhostPets
  <1>1. ~Exists(cache[d][p])
    BY DEF LatestExists
  <1>2. queue[d] \in Seq(Mutation) /\ cache[d][p] \in MaybeDocument
    BY DEF CacheInv, StoreTypeOK
  <1> QED BY <1>1, <1>2, NothingUnderPatches DEF View

(* A phone that knows a pet's latest commit and finds it deleted does not show
   it, whatever updates of it are still queued. *)
THEOREM DeletedPetsAreHidden == StoreSpec => []NoGhostPets
  <1>1. StoreInit => CacheInv /\ LatestExists
    BY CacheInvInit, LatestExistsInit
  <1>2. CacheInv /\ LatestExists /\ [StoreNext]_storeVars
          => CacheInv' /\ LatestExists'
    BY CacheInvStep, LatestExistsStep
  <1>3. CacheInv /\ LatestExists => NoGhostPets
    BY GhostsNeedASet
  <1> QED BY <1>1, <1>2, <1>3, PTL DEF StoreSpec

---------------------------------------------------------------------------------
(* An acknowledgement moves the write from the queue to the cache, and no view
   of the phone looks different for it. *)
LEMMA AcknowledgementIsUnseen ==
  ASSUME StoreTypeOK, AnswersMatchQueue, NEW d \in Devices,
         HandleSuccessfulWrite(d),
         cache[d][Head(queue[d]).pet].version < Head(results[d]).version,
         NEW p \in Pets
  PROVE  /\ Exists(View(d, p)') = Exists(View(d, p))
         /\ Exists(View(d, p)) => View(d, p)'.data = View(d, p).data
  <1> DEFINE m == Head(queue[d])
             v == Head(results[d]).version
             new == IF m.pet = p THEN ApplyToRemoteDocument(m, cache[d][p], v)
                                 ELSE cache[d][p]
  <1>1. /\ queue[d] \in Seq(Mutation) /\ queue[d] # <<>>
        /\ results[d] \in Seq(Result) /\ results[d] # <<>>
        /\ cache[d][p] \in MaybeDocument
    BY DEF HandleSuccessfulWrite, AnswersMatchQueue, StoreTypeOK
  <1>2. m \in Mutation /\ m.pet \in Pets /\ v \in Nat
    <2>1. m \in Mutation /\ Head(results[d]) \in Result
      BY <1>1
    <2> QED BY <2>1 DEF Mutation, Result
  <1>3. queue'[d] = Tail(queue[d])
    BY DEF HandleSuccessfulWrite, PopWrite, StoreTypeOK
  <1>4. cache'[d][p] = new
    <2>1. cache' = [cache EXCEPT ![d][m.pet] = ApplyBatchResult(m, @, v)]
      BY DEF HandleSuccessfulWrite
    <2>2. m.pet = p => ApplyBatchResult(m, cache[d][p], v)
                         = ApplyToRemoteDocument(m, cache[d][p], v)
      BY DEF ApplyBatchResult
    <2> HIDE DEF m, v
    <2> QED BY <1>2, <2>1, <2>2 DEF StoreTypeOK
  <1>5. SameLook(GetDocument(queue[d], cache[d][p], p),
                 GetDocument(Tail(queue[d]), new, p))
    BY <1>1, <1>2, AcknowledgedLooksTheSame
  <1>6. SameLook(View(d, p), View(d, p)')
    BY <1>3, <1>4, <1>5 DEF View
  <1>7. Exists(View(d, p)) \in BOOLEAN /\ Exists(View(d, p)') \in BOOLEAN
    BY DEF Exists
  <1> QED BY <1>6, <1>7 DEF SameLook

(* Nothing of it depends on what else happens. *)
LEMMA StepsDoNotFlicker ==
  ASSUME StoreTypeOK, AnswersMatchQueue
  PROVE  \A d \in Devices :
           (/\ HandleSuccessfulWrite(d)
            /\ LET p == Head(queue[d]).pet
               IN cache[d][p].version < Head(results[d]).version)
           => \A p \in Pets :
                /\ Exists(View(d, p)') = Exists(View(d, p))
                /\ Exists(View(d, p)) => View(d, p)'.data = View(d, p).data
  BY AcknowledgementIsUnseen

(* The user sees nothing of an acknowledgement, unless the cache already holds
   what the server made of the write or of a later one. *)
THEOREM AcknowledgementsAreUnseen == StoreSpec => NoFlicker
  BY StepsDoNotFlicker, StoreTypeCorrect, PTL DEF NoFlicker

---------------------------------------------------------------------------------
(***************************************************************************)
(* The closed form of the local view is the replay of the queue.  Both are *)
(* followed from a queue to the queue with one more write.                 *)
(***************************************************************************)

(* The last of a set of positions, and of it with one more position behind. *)
LEMMA LastOfGrown ==
  ASSUME NEW n \in Nat, NEW S \in SUBSET (1 .. n)
  PROVE  LastOf(S) \in 0 .. n /\ LastOf(S \cup {n + 1}) = n + 1
  <1>1. LastOf(S) \in 0 .. n
    <2>1. CASE S = {}
      BY <2>1 DEF LastOf
    <2>2. CASE S # {}
      <3>1. LastOf(S) \in S
        BY <2>2, LastOfIsLast
      <3>2. \A i \in S : i \in 0 .. n
        OBVIOUS
      <3> QED BY <3>1, <3>2
    <2> QED BY <2>1, <2>2
  <1> PICK k \in Nat : k = n + 1
    OBVIOUS
  <1>2. \A i \in S \cup {k} : i \in 1 .. k /\ (k <= i => i = k)
    <2>1. \A i \in S : i \in 1 .. n
      OBVIOUS
    <2> QED BY <2>1
  <1>3. PICK T \in SUBSET (1 .. k) : T = S \cup {k}
    BY <1>2
  <1>4. T # {}
    BY <1>3
  <1>5. LastOf(T) \in T /\ \A j \in T : j <= LastOf(T)
    BY <1>4, LastOfIsLast
  <1>6. LastOf(T) = k
    <2>1. LastOf(T) \in S \cup {k} /\ k <= LastOf(T)
      BY <1>3, <1>5
    <2> QED BY <1>2, <2>1
  <1> QED BY <1>1, <1>3, <1>6

(* Base, LastPatch and the view of a queue with one more write. *)
LEMMA BaseOfAppend ==
  ASSUME NEW q \in Seq(Mutation), NEW m \in Mutation, NEW p
  PROVE  /\ Base(q, p) \in 0 .. Len(q)
         /\ Base(Append(q, m), p) =
              IF m.pet = p /\ m.type # "patch" THEN Len(q) + 1 ELSE Base(q, p)
  <1> DEFINE r == Append(q, m)
             n == Len(q)
             S == {i \in WritesOf(q, p) : q[i].type # "patch"}
             T == {i \in WritesOf(r, p) : r[i].type # "patch"}
  <1>1. /\ n \in Nat /\ DOMAIN q = 1 .. n /\ DOMAIN r = 1 .. n + 1
        /\ r[n + 1] = m /\ \A i \in 1 .. n : r[i] = q[i]
    OBVIOUS
  <1>2. S \in SUBSET (1 .. n)
    BY <1>1 DEF WritesOf
  <1>3. T = IF m.pet = p /\ m.type # "patch" THEN S \cup {n + 1} ELSE S
    <2>1. \A i \in 1 .. n + 1 : i \in 1 .. n \/ i = n + 1
      BY <1>1
    <2>2. n + 1 \in 1 .. n + 1 /\ \A i \in 1 .. n : i \in 1 .. n + 1
      BY <1>1
    <2> HIDE DEF r, n
    <2> QED BY <1>1, <2>1, <2>2 DEF WritesOf
  <1>4. Base(q, p) = LastOf(S) /\ Base(r, p) = LastOf(T)
    BY DEF Base
  <1> HIDE DEF S, T
  <1> QED BY <1>1, <1>2, <1>3, <1>4, LastOfGrown

LEMMA LastPatchOfAppend ==
  ASSUME NEW q \in Seq(Mutation), NEW m \in Mutation, NEW p, NEW f
  PROVE  /\ LastPatch(q, p, f) \in 0 .. Len(q)
         /\ LastPatch(Append(q, m), p, f) =
              IF m.pet # p THEN LastPatch(q, p, f)
              ELSE IF m.type # "patch" THEN 0
              ELSE IF f \in m.mask THEN Len(q) + 1 ELSE LastPatch(q, p, f)
  <1> DEFINE r == Append(q, m)
             n == Len(q)
             S == {i \in WritesOf(q, p) :
                     i > Base(q, p) /\ q[i].type = "patch" /\ f \in q[i].mask}
             T == {i \in WritesOf(r, p) :
                     i > Base(r, p) /\ r[i].type = "patch" /\ f \in r[i].mask}
  <1>1. /\ n \in Nat /\ DOMAIN q = 1 .. n /\ DOMAIN r = 1 .. n + 1
        /\ r[n + 1] = m /\ \A i \in 1 .. n : r[i] = q[i]
    OBVIOUS
  <1>2. /\ Base(q, p) \in 0 .. n
        /\ Base(r, p) = IF m.pet = p /\ m.type # "patch" THEN n + 1 ELSE Base(q, p)
    BY BaseOfAppend
  <1>3. S \in SUBSET (1 .. n)
    BY <1>1 DEF WritesOf
  <1>4. T = IF m.pet # p THEN S
            ELSE IF m.type # "patch" THEN {}
            ELSE IF f \in m.mask THEN S \cup {n + 1} ELSE S
    <2>1. \A i \in 1 .. n + 1 : i \in 1 .. n \/ i = n + 1
      BY <1>1
    <2>2. n + 1 \in 1 .. n + 1 /\ \A i \in 1 .. n : i \in 1 .. n + 1
      BY <1>1
    <2>3. n + 1 > Base(q, p)
      BY <1>1, <1>2
    <2>4. \A i \in 1 .. n + 1 : ~(i > n + 1)
      BY <1>1
    <2> HIDE DEF r, n
    <2>5. CASE m.pet = p /\ m.type # "patch"
      BY <1>2, <2>4, <2>5, <1>1 DEF WritesOf
    <2>6. CASE ~(m.pet = p /\ m.type # "patch")
      BY <1>1, <1>2, <2>1, <2>2, <2>3, <2>6 DEF WritesOf
    <2> QED BY <2>5, <2>6
  <1>5. LastPatch(q, p, f) = LastOf(S) /\ LastPatch(r, p, f) = LastOf(T)
    BY DEF LastPatch
  <1>6. LastOf({}) = 0
    BY DEF LastOf
  <1> HIDE DEF S, T
  <1> QED BY <1>1, <1>3, <1>4, <1>5, <1>6, LastOfGrown

LEMMA ViewOfAppend ==
  ASSUME NEW q \in Seq(Mutation), NEW m \in Mutation, NEW cached \in MaybeDocument, NEW p
  PROVE  GetDocument(Append(q, m), cached, p) =
           IF m.pet = p THEN ApplyToLocalView(m, GetDocument(q, cached, p))
                        ELSE GetDocument(q, cached, p)
  <1> DEFINE r == Append(q, m)
             n == Len(q)
             base == BaseDocument(q, cached, p)
             view(s, b) == [breakfast |-> Seen(s, b, p, "breakfast"),
                            dinner    |-> Seen(s, b, p, "dinner"),
                            treats    |-> Seen(s, b, p, "treats")]
  <1>1. /\ n \in Nat /\ r \in Seq(Mutation)
        /\ r[n + 1] = m /\ \A i \in 1 .. n : r[i] = q[i]
    OBVIOUS
  <1>2. GetDocument(q, cached, p) =
          IF ~Exists(base) THEN base ELSE Document(view(q, base), base.version)
    BY SeenIsView
  <1>3. GetDocument(r, cached, p) =
          LET b == BaseDocument(r, cached, p)
          IN IF ~Exists(b) THEN b ELSE Document(view(r, b), b.version)
    BY <1>1, SeenIsView
  <1>4. base.version = cached.version
    <2>1. CASE Base(q, p) = 0
      BY <2>1 DEF BaseDocument
    <2>2. CASE Base(q, p) # 0
      <3>1. PICK o \in Mutation : o = q[Base(q, p)]
        BY <2>2, WritesOfPositions DEF Base
      <3>2. base = ApplyToLocalView(o, cached)
        BY <2>2, <3>1 DEF BaseDocument
      <3>3. ApplyToLocalView(o, cached).version = cached.version
        BY DEF ApplyToLocalView, Mutated, Document, NoDocument, Mutation
      <3> QED BY <3>2, <3>3
    <2> QED BY <2>1, <2>2
  <1>5. CASE m.pet = p /\ m.type # "patch"
    <2>1. Base(r, p) = n + 1 /\ n + 1 # 0
      BY <1>1, <1>5, BaseOfAppend
    <2>2. BaseDocument(r, cached, p) = Mutated(m, cached, cached.version)
      BY <1>1, <1>5, <2>1 DEF BaseDocument, ApplyToLocalView, IsValidFor
    <2>3. \A f : LastPatch(r, p, f) = 0
      BY <1>5, LastPatchOfAppend
    <2>4. PICK b : b = Mutated(m, cached, cached.version)
      OBVIOUS
    <2>5. GetDocument(r, cached, p) =
            IF ~Exists(b) THEN b ELSE Document(view(r, b), b.version)
      BY <1>3, <2>2, <2>4
    <2>6. view(r, b) = [breakfast |-> b.data.breakfast, dinner |-> b.data.dinner,
                        treats |-> b.data.treats]
      BY <2>3 DEF Seen
    <2>7. CASE m.type = "delete"
      <3>1. b = NoDocument(cached.version)
        BY <2>4, <2>7 DEF Mutated
      <3>2. GetDocument(r, cached, p) = b
        BY <2>5, <3>1 DEF NoDocument, Exists
      <3>3. GetDocument(q, cached, p).version = cached.version
        BY <1>2, <1>4 DEF Document
      <3> QED BY <1>5, <2>7, <3>1, <3>2, <3>3 DEF ApplyToLocalView, IsValidFor, Mutated
    <2>8. CASE m.type = "set"
      <3>1. b = Document(m.data, cached.version)
        BY <2>4, <2>8 DEF Mutated
      <3>2. view(r, b) = m.data
        BY <2>6, <3>1 DEF Document, Mutation, Fields
      <3>3. GetDocument(r, cached, p) = b
        BY <2>5, <3>1, <3>2 DEF Document, Exists
      <3>4. GetDocument(q, cached, p).version = cached.version
        BY <1>2, <1>4 DEF Document
      <3> QED BY <1>5, <2>8, <3>1, <3>3, <3>4 DEF ApplyToLocalView, IsValidFor, Mutated
    <2> QED BY <1>5, <2>7, <2>8 DEF Mutation
  <1>6. CASE ~(m.pet = p /\ m.type # "patch")
    <2>1. Base(r, p) = Base(q, p) /\ Base(q, p) \in 0 .. n
      BY <1>6, BaseOfAppend
    <2>2. BaseDocument(r, cached, p) = base
      <3>1. Base(q, p) # 0 => r[Base(q, p)] = q[Base(q, p)]
        BY <1>1, <2>1
      <3> QED BY <2>1, <3>1 DEF BaseDocument
    <2>3. \A f : Seen(r, base, p, f) = IF m.pet = p /\ f \in m.mask THEN m.data[f]
                                                                  ELSE Seen(q, base, p, f)
      <3> TAKE f
      <3>1. /\ LastPatch(q, p, f) \in 0 .. n
            /\ LastPatch(r, p, f) = IF m.pet = p /\ f \in m.mask THEN n + 1
                                                                ELSE LastPatch(q, p, f)
        BY <1>6, LastPatchOfAppend
      <3> HIDE DEF r, n, base
      <3>2. n + 1 # 0 /\ (LastPatch(q, p, f) # 0 => r[LastPatch(q, p, f)] = q[LastPatch(q, p, f)])
        BY <1>1, <3>1
      <3> QED BY <1>1, <3>1, <3>2 DEF Seen
    <2>4. CASE m.pet # p
      <3>1. view(r, base) = view(q, base)
        BY <2>3, <2>4
      <3> QED BY <1>2, <1>3, <2>2, <2>4, <3>1
    <2>5. CASE m.pet = p /\ ~Exists(base)
      <3>1. m.type = "patch"
        BY <1>6, <2>5
      <3> QED BY <1>2, <1>3, <2>2, <2>5, <3>1 DEF ApplyToLocalView, IsValidFor
    <2>6. CASE m.pet = p /\ Exists(base)
      <3>1. m.type = "patch"
        BY <1>6, <2>6
      <3>2. PICK g : g = view(q, base)
        OBVIOUS
      <3>3. view(r, base) = PatchObject(g, m)
        BY <2>3, <2>6, <3>2 DEF PatchObject
      <3>4. GetDocument(q, cached, p) = Document(g, base.version)
        BY <1>2, <2>6, <3>2
      <3>5. GetDocument(r, cached, p) = Document(PatchObject(g, m), base.version)
        BY <1>3, <2>2, <2>6, <3>3
      <3>6. ApplyToLocalView(m, Document(g, base.version))
              = Document(PatchObject(g, m), base.version)
        <4> HIDE DEF base
        <4> QED BY <3>1 DEF ApplyToLocalView, IsValidFor, Exists, Mutated, Document
      <3> QED BY <2>6, <3>4, <3>5, <3>6
    <2> QED BY <2>4, <2>5, <2>6
  <1> QED BY <1>5, <1>6

(* A view that shows no queued write is the cached document. *)
LEMMA ViewOfNoWrites ==
  ASSUME NEW q \in Seq(Mutation), NEW cached \in MaybeDocument, NEW p, WritesOf(q, p) = {}
  PROVE  GetDocument(q, cached, p) =
           IF ~Exists(cached) THEN cached ELSE Document(cached.data, cached.version)
  <1>1. LastOf({}) = 0
    BY DEF LastOf
  <1>2. Base(q, p) = 0
    <2>1. {i \in WritesOf(q, p) : q[i].type # "patch"} = {}
      OBVIOUS
    <2> QED BY <1>1, <2>1 DEF Base
  <1>3. ASSUME NEW f PROVE LastPatch(q, p, f) = 0
    <2>1. {i \in WritesOf(q, p) :
             i > Base(q, p) /\ q[i].type = "patch" /\ f \in q[i].mask} = {}
      OBVIOUS
    <2> QED BY <1>1, <2>1 DEF LastPatch
  <1>4. BaseDocument(q, cached, p) = cached
    BY <1>2 DEF BaseDocument
  <1>5. [breakfast |-> Seen(q, cached, p, "breakfast"),
         dinner    |-> Seen(q, cached, p, "dinner"),
         treats    |-> Seen(q, cached, p, "treats")] = cached.data
    BY <1>3 DEF Seen, MaybeDocument, Fields
  <1> QED BY <1>4, <1>5, SeenIsView

(* What the writes of q leave of the cached document: the view, but for a
   document that no write touches. *)
Left(q, cached, p) ==
  IF WritesOf(q, p) = {} THEN cached ELSE GetDocument(q, cached, p)

LEMMA LeftOfAppend ==
  ASSUME NEW q \in Seq(Mutation), NEW m \in Mutation, NEW cached \in MaybeDocument, NEW p
  PROVE  Left(Append(q, m), cached, p) =
           IF m.pet = p THEN ApplyToLocalView(m, Left(q, cached, p)) ELSE Left(q, cached, p)
  <1> DEFINE r == Append(q, m)
  <1>1. WritesOf(r, p) = {} <=> WritesOf(q, p) = {} /\ m.pet # p
    <2>1. /\ \A i \in DOMAIN q : i \in DOMAIN r /\ r[i] = q[i]
          /\ \A i \in DOMAIN r : i \in DOMAIN q \/ r[i] = m
          /\ \E i \in DOMAIN r : r[i] = m
      <3>1. /\ Len(q) \in Nat /\ DOMAIN q = 1 .. Len(q) /\ DOMAIN r = 1 .. Len(q) + 1
            /\ r[Len(q) + 1] = m /\ \A i \in 1 .. Len(q) : r[i] = q[i]
        OBVIOUS
      <3> HIDE DEF r
      <3>2. Len(q) + 1 \in DOMAIN r /\ \A i \in DOMAIN r : i \in DOMAIN q \/ i = Len(q) + 1
        BY <3>1
      <3> QED BY <3>1, <3>2
    <2> HIDE DEF r
    <2> QED BY <2>1 DEF WritesOf
  <1>2. GetDocument(r, cached, p) =
          IF m.pet = p THEN ApplyToLocalView(m, GetDocument(q, cached, p))
                       ELSE GetDocument(q, cached, p)
    BY ViewOfAppend
  <1>3. ASSUME WritesOf(q, p) = {}
        PROVE  ApplyToLocalView(m, GetDocument(q, cached, p)) = ApplyToLocalView(m, cached)
    <2>1. GetDocument(q, cached, p) =
            IF ~Exists(cached) THEN cached ELSE Document(cached.data, cached.version)
      BY <1>3, ViewOfNoWrites
    <2> PICK doc : doc = GetDocument(q, cached, p)
      OBVIOUS
    <2>2. CASE ~Exists(cached)
      BY <2>1, <2>2
    <2>3. CASE Exists(cached)
      <3>1. doc = Document(cached.data, cached.version)
        BY <2>1, <2>3
      <3>2. Exists(doc) /\ doc.data = cached.data /\ doc.version = cached.version
        BY <3>1 DEF Document, Exists
      <3>3. Mutated(m, doc, doc.version) = Mutated(m, cached, cached.version)
        BY <3>2 DEF Mutated
      <3> QED BY <2>3, <3>2, <3>3 DEF ApplyToLocalView, IsValidFor
    <2> QED BY <2>2, <2>3
  <1> HIDE DEF r
  <1> QED BY <1>1, <1>2, <1>3 DEF Left, r

(* The replay of a queue is what its writes leave: the function that Replay
   defines exists, since what the writes up to each position leave is one, and
   is unique, since two of them would have a first position where they differ. *)
LEMMA ReplayIsLeft ==
  ASSUME NEW q \in Seq(Mutation), NEW cached \in MaybeDocument, NEW p
  PROVE  Replay(q, cached, p) = Left(q, cached, p)
  <1> DEFINE n == Len(q)
             Step(f, i) == IF i = 0 THEN cached
                           ELSE IF q[i].pet = p THEN ApplyToLocalView(q[i], f[i - 1])
                           ELSE f[i - 1]
             Replays(f) == f = [i \in 0 .. n |-> Step(f, i)]
             found == [i \in 0 .. n |-> Left(SubSeq(q, 1, i), cached, p)]
             doc == CHOOSE f : Replays(f)
  <1>0. n \in Nat /\ DOMAIN q = 1 .. n
    OBVIOUS
  <1>1. found[0] = cached
    <2>1. SubSeq(q, 1, 0) = <<>> /\ DOMAIN <<>> = {} /\ 0 \in 0 .. n
      OBVIOUS
    <2> QED BY <2>1 DEF Left, WritesOf
  <1>2. ASSUME NEW i \in 1 .. n
        PROVE  /\ i \in 0 .. n /\ i - 1 \in 0 .. n
               /\ found[i] = IF q[i].pet = p THEN ApplyToLocalView(q[i], found[i - 1])
                                            ELSE found[i - 1]
    <2>1. i \in 0 .. n /\ i - 1 \in 0 .. n
      BY <1>0
    <2>2. /\ SubSeq(q, 1, i - 1) \in Seq(Mutation) /\ q[i] \in Mutation
          /\ SubSeq(q, 1, i) = Append(SubSeq(q, 1, i - 1), q[i])
      BY <1>0
    <2>3. PICK s \in Seq(Mutation) : s = SubSeq(q, 1, i - 1)
      BY <2>2
    <2>4. PICK m \in Mutation : m = q[i]
      BY <2>2
    <2>5. Left(Append(s, m), cached, p) =
            IF m.pet = p THEN ApplyToLocalView(m, Left(s, cached, p)) ELSE Left(s, cached, p)
      BY LeftOfAppend
    <2> QED BY <2>1, <2>2, <2>3, <2>4, <2>5
  <1>3. found[n] = Left(q, cached, p)
    <2>1. SubSeq(q, 1, n) = q /\ n \in 0 .. n
      BY <1>0
    <2> QED BY <2>1
  <1>4. Replays(found)
    <2>1. \A i \in 0 .. n : found[i] = Step(found, i)
      <3> HIDE DEF found
      <3>1. \A i \in 0 .. n : i = 0 \/ i \in 1 .. n
        BY <1>0
      <3> QED BY <1>1, <1>2, <3>1
    <2>2. found = [i \in 0 .. n |-> found[i]]
      OBVIOUS
    <2> HIDE DEF found
    <2> QED BY <2>1, <2>2
  <1>5. Replays(doc)
    <2> HIDE DEF found, Replays
    <2> QED BY <1>4
  <1>6. Replay(q, cached, p) = doc[n]
    BY DEF Replay
  <1>7. /\ doc[0] = cached
        /\ \A i \in 1 .. n : doc[i] = IF q[i].pet = p THEN ApplyToLocalView(q[i], doc[i - 1])
                                                      ELSE doc[i - 1]
    <2>1. \A i \in 1 .. n : i \in 0 .. n /\ i # 0
      BY <1>0
    <2>2. 0 \in 0 .. n
      BY <1>0
    <2> HIDE DEF doc
    <2> QED BY <1>5, <2>1, <2>2
  <1> HIDE DEF found, doc, n
  <1>8. \A i \in 0 .. n : doc[i] = found[i]
    <2> DEFINE T == {i \in 0 .. n : doc[i] # found[i]}
    <2> SUFFICES ASSUME T # {} PROVE FALSE
      OBVIOUS
    <2>1. T \subseteq Nat
      BY <1>0
    <2>2. PICK i \in T : \A j \in T : ~(<<j, i>> \in NatLess)
      <3> HIDE DEF T
      <3> QED BY <2>1, NatLessWellFounded, WFMin
    <2>3. i \in 1 .. n
      BY <1>0, <1>1, <1>7, <2>2
    <2>4. i - 1 \in 0 .. n /\ i - 1 \in Nat /\ i \in Nat /\ i - 1 < i
      BY <1>0, <2>3
    <2>5. i - 1 \notin T
      BY <2>2, <2>4 DEF NatLess
    <2>6. doc[i - 1] = found[i - 1]
      BY <2>4, <2>5
    <2> QED BY <1>2, <1>7, <2>2, <2>3, <2>6
  <1>9. n \in 0 .. n
    BY <1>0
  <1> QED BY <1>3, <1>6, <1>8, <1>9

(* What the specification shows of a pet, in closed form, is what
   LocalDocumentsView::GetDocument computes by applying the queued writes one
   after the other to the cached document: for a queue of any length and any
   mixture of sets, patches and deletes. *)
LEMMA ViewIsReplay ==
  ASSUME NEW q \in Seq(Mutation), NEW cached \in MaybeDocument, NEW p \in Pets
  PROVE  /\ GetDocument(q, cached, p).kind = Replay(q, cached, p).kind
         /\ GetDocument(q, cached, p).data = Replay(q, cached, p).data
  <1>1. Replay(q, cached, p) = Left(q, cached, p)
    BY ReplayIsLeft
  <1>2. /\ GetDocument(q, cached, p).kind = Left(q, cached, p).kind
        /\ GetDocument(q, cached, p).data = Left(q, cached, p).data
    <2>1. WritesOf(q, p) = {} =>
            GetDocument(q, cached, p) =
              IF ~Exists(cached) THEN cached ELSE Document(cached.data, cached.version)
      BY ViewOfNoWrites
    <2> QED BY <2>1 DEF Left, Document, Exists
  <1> QED BY <1>1, <1>2
=================================================================================
