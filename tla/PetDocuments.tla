------------------------------ MODULE PetDocuments ------------------------------
(***************************************************************************)
(* The documents of the "pets" collection and the writes the app makes to  *)
(* them: what a write does to a document on the server, in the local view  *)
(* of the device that made it, and in that device's remote document cache  *)
(* once the server has acknowledged it.  Pure definitions, no state.       *)
(*                                                                         *)
(* A pet's name never changes after AddPetView's Submit and no property    *)
(* depends on it: it is left out.  The key of a document is its pet.       *)
(***************************************************************************)
EXTENDS Integers, Sequences

CONSTANT Pets          \* the document ids of the collection

(* struct Pet: the fields the cards read and write. *)
FieldNames == {"breakfast", "dinner", "treats"}

Fields == [breakfast : BOOLEAN, dinner : BOOLEAN, treats : Int]

(* The Pet that PetViewModel holds for AddPetView's form. *)
NewPet == [breakfast |-> FALSE, dinner |-> FALSE, treats |-> 0]

(***************************************************************************)
(* Writes.  A write is a batch of one mutation: the app never groups two.  *)
(***************************************************************************)
Mutation ==
  [type : {"set", "patch", "delete"}, pet : Pets,
   mask : SUBSET FieldNames, data : Fields]

SetData(p, data) ==
  [type |-> "set", pet |-> p, mask |-> FieldNames, data |-> data]

(* Mutant of UpdateData: the whole pet is written back. *)
UpdateWholePet(p, mask, data) ==
  [type |-> "patch", pet |-> p, mask |-> FieldNames, data |-> data]

UpdateData(p, mask, data) ==
  [type |-> "patch", pet |-> p, mask |-> mask, data |-> data]

DeleteDocument(p) ==
  [type |-> "delete", pet |-> p, mask |-> {}, data |-> NewPet]

(***************************************************************************)
(* Documents.  "doc" is a Document, "no" a NoDocument (also what stands    *)
(* for a key the cache has no entry for, with version 0), "unknown" an     *)
(* UnknownDocument.  committed is has_committed_mutations: the entry was   *)
(* computed by the client from an acknowledgement, and the watch stream    *)
(* has not confirmed it.                                                   *)
(***************************************************************************)
MaybeDocument ==
  [kind : {"doc", "no", "unknown"}, data : Fields, version : Nat,
   committed : BOOLEAN]

Document(data, v) ==
  [kind |-> "doc", data |-> data, version |-> v, committed |-> FALSE]

NoDocument(v) ==
  [kind |-> "no", data |-> NewPet, version |-> v, committed |-> FALSE]

UnknownDocument(v) ==
  [kind |-> "unknown", data |-> NewPet, version |-> v, committed |-> TRUE]

Absent == NoDocument(0)

Exists(doc) == doc.kind = "doc"

(* Mutant of IsValidFor: updateData without its precondition. *)
AlwaysValidFor(m, doc) == TRUE

(* updateData carries Precondition::Exists(true); set and delete carry None. *)
IsValidFor(m, doc) == m.type = "patch" => Exists(doc)

(* Mutant of PatchObject: treats are counted up, not set. *)
IncrementObject(data, m) ==
  [breakfast |-> IF "breakfast" \in m.mask THEN m.data.breakfast ELSE data.breakfast,
   dinner    |-> IF "dinner" \in m.mask THEN m.data.dinner ELSE data.dinner,
   treats    |-> IF "treats" \in m.mask THEN data.treats + m.data.treats
                                         ELSE data.treats]

(* A patch changes the fields of its mask and no other. *)
PatchObject(data, m) ==
  [breakfast |-> IF "breakfast" \in m.mask THEN m.data.breakfast ELSE data.breakfast,
   dinner    |-> IF "dinner" \in m.mask THEN m.data.dinner ELSE data.dinner,
   treats    |-> IF "treats" \in m.mask THEN m.data.treats ELSE data.treats]

(* What the mutation leaves of a document it is valid for, at version v. *)
Mutated(m, doc, v) ==
  CASE m.type = "set"    -> Document(m.data, v)
    [] m.type = "patch"  -> Document(PatchObject(doc.data, m), v)
    [] m.type = "delete" -> NoDocument(v)

(* The optimistic effect of a queued write on the device that queued it.  (The
   code gives a locally deleted document version 0: nobody reads a version of
   the local view.) *)
ApplyToLocalView(m, doc) ==
  IF IsValidFor(m, doc) THEN Mutated(m, doc, doc.version) ELSE doc

(* The effect of an acknowledged write on the remote document cache. *)
ApplyToRemoteDocument(m, doc, v) ==
  IF IsValidFor(m, doc)
    THEN [Mutated(m, doc, v) EXCEPT !.committed = TRUE]
    ELSE UnknownDocument(v)

(***************************************************************************)
(* The local view of pet p: the cached document under the queued writes q, *)
(* in queue order.  Written without recursion: the last set or delete of p *)
(* fixes whether p exists, and every later patch of p wins field by field. *)
(***************************************************************************)
WritesOf(q, p) == {i \in DOMAIN q : q[i].pet = p}

LastOf(S) == IF S = {} THEN 0 ELSE CHOOSE i \in S : \A j \in S : j <= i

(* The last set or delete of p in q, 0 when there is none. *)
Base(q, p) == LastOf({i \in WritesOf(q, p) : q[i].type # "patch"})

(* Mutant of BaseDocument: a queued update creates the pet in the local view. *)
BaseOfAnUpsert(q, cached, p) ==
  IF Base(q, p) = 0
    THEN IF Exists(cached) \/ WritesOf(q, p) = {} THEN cached
                                                 ELSE Document(NewPet, cached.version)
    ELSE ApplyToLocalView(q[Base(q, p)], cached)

BaseDocument(q, cached, p) ==
  IF Base(q, p) = 0 THEN cached
                    ELSE ApplyToLocalView(q[Base(q, p)], cached)

(* The last patch of field f of p after that, 0 when there is none. *)
LastPatch(q, p, f) ==
  LastOf({i \in WritesOf(q, p) :
            i > Base(q, p) /\ q[i].type = "patch" /\ f \in q[i].mask})

GetDocument(q, cached, p) ==
  LET base == BaseDocument(q, cached, p)
      at(f) == LastPatch(q, p, f)
  IN IF ~Exists(base) THEN base
     ELSE Document(
       [breakfast |-> IF at("breakfast") = 0 THEN base.data.breakfast
                      ELSE q[at("breakfast")].data.breakfast,
        dinner    |-> IF at("dinner") = 0 THEN base.data.dinner
                      ELSE q[at("dinner")].data.dinner,
        treats    |-> IF at("treats") = 0 THEN base.data.treats
                      ELSE q[at("treats")].data.treats],
       base.version)

(* What the client computes: each queued write of p in turn is applied to what
   the writes before it left of the cached document. *)
Replay(q, cached, p) ==
  LET document[i \in 0 .. Len(q)] ==
        IF i = 0 THEN cached
        ELSE IF q[i].pet = p THEN ApplyToLocalView(q[i], document[i - 1])
        ELSE document[i - 1]
  IN document[Len(q)]
=================================================================================
