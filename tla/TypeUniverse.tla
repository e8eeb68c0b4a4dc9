---------------------------- MODULE TypeUniverse ----------------------------
(***************************************************************************)
(* The type table of core/universe.rs: `types`, a concurrent map from ids  *)
(* to types, and `fingerprint_index`, from a fingerprint to the ids listed *)
(* under it.  insert_type updates the one and then the other, so two       *)
(* inserts may meet between the two steps.  A type is what the operations  *)
(* on it tell apart: its own id and its fingerprint.                       *)
(***************************************************************************)
EXTENDS Naturals

CONSTANTS
    TypeIds,        \* the ids in use
    Fingerprints,
    Types,          \* the types inserted, as [id, fingerprint, text]
    Absent          \* what `types` holds for an id it does not have

ASSUME TypeUniverseConstants ==
    /\ \A typ \in Types : typ.id \in TypeIds /\ typ.fingerprint \in Fingerprints
    /\ Absent \notin Types

VARIABLES
    types,              \* id |-> the type under it
    fingerprint_index   \* fingerprint |-> the ids listed under it (a Vec in the
                        \* code; how often it lists an id makes no difference here)

universe == <<types, fingerprint_index>>

\* What is inserted: a type under an id, which need not be the type's own.
Entries == [id : TypeIds, typ : Types]

UniverseTypeOK ==
    /\ types \in [TypeIds -> Types \cup {Absent}]
    /\ fingerprint_index \in [Fingerprints -> SUBSET TypeIds]

UniverseInit ==
    /\ types = [i \in TypeIds |-> Absent]
    /\ fingerprint_index = [f \in Fingerprints |-> {}]

Upsert(e) == types' = [types EXCEPT ![e.id] = e.typ]

\* self.types.insert(id, typ).ok(): scc refuses a key it has, and the
\* refusal is dropped.
InsertIfAbsent(e) ==
    types' = IF types[e.id] = Absent THEN [types EXCEPT ![e.id] = e.typ] ELSE types

ListIfKnown(e) ==
    fingerprint_index' = [fingerprint_index EXCEPT ![e.typ.fingerprint] =
                            IF @ = {} THEN {} ELSE @ \cup {e.id}]

\* fingerprint_index.entry(fingerprint).or_default().push(id), whether the
\* type went in or not.
List(e) ==
    fingerprint_index' = [fingerprint_index EXCEPT ![e.typ.fingerprint] = @ \cup {e.id}]
=============================================================================
