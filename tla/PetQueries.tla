------------------------------ MODULE PetQueries ------------------------------
(***************************************************************************)
(* What the client listens to: the collection "pets" (HomeView,            *)
(* ProfileView), single pets (getDocument of a tap), and, of its own       *)
(* accord, pets in limbo.                                                  *)
(***************************************************************************)
EXTENDS FiniteSets

CONSTANTS
  Pets,     \* names of the documents of the collection "pets"
  AllPets,  \* the path of the collection
  Reads     \* the pets whose documents are read one by one

ASSUME PetQueriesAssumption ==
  /\ IsFiniteSet(Pets)
  /\ Reads \subseteq Pets
  /\ AllPets \notin Pets

Collection == [path |-> AllPets, purpose |-> "Listen"]
Read(p)    == [path |-> p, purpose |-> "Listen"]
Limbo(p)   == [path |-> p, purpose |-> "LimboResolution"]

UserTargets  == {Collection} \cup {Read(p) : p \in Reads}
LimboTargets == {Limbo(p) : p \in Pets}
Targets      == UserTargets \cup LimboTargets

IsDocumentQuery(t) == t.path # AllPets

(* The pets of S that target t is about. *)
Matching(t, S) == IF IsDocumentQuery(t) THEN S \cap {t.path} ELSE S
================================================================================
