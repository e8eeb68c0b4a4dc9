---------------------------- MODULE DenseStorage ----------------------------
(***************************************************************************)
(* DenseStorage<T> of core/storage.rs: components in a contiguous vector,  *)
(* beside it the vector of the entities that own them, and a map from an   *)
(* entity to its index.  remove() keeps the vectors dense by moving the    *)
(* last element into the gap.  A storage is a value here, and its methods  *)
(* are functions from storages to storages; the modules that have storages *)
(* as their state are built from them.  Indices start at 1, as sequences   *)
(* do, so that 0 can stand for an entity the map does not have.            *)
(***************************************************************************)
EXTENDS Naturals, Sequences

CONSTANTS
    Entities,   \* entity ids
    Components, \* values of the component type T
    Absent      \* what a lookup of an entity without a component gives

ASSUME AbsentIsNoComponent == Absent \notin Components

NoIndex == 0

Storage == [entities : Seq(Entities), components : Seq(Components),
            entity_to_index : [Entities -> Nat]]

NewStorage == [entities |-> <<>>, components |-> <<>>,
               entity_to_index |-> [e \in Entities |-> NoIndex]]

\* The invariant of the type: the map and the two vectors say the same.
Dense(s) ==
    /\ Len(s.components) = Len(s.entities)
    /\ \A e \in Entities :
          s.entity_to_index[e] # NoIndex =>
             /\ s.entity_to_index[e] \in 1 .. Len(s.entities)
             /\ s.entities[s.entity_to_index[e]] = e
    /\ \A n \in 1 .. Len(s.entities) : s.entity_to_index[s.entities[n]] = n

StoredEntities(s) == {e \in Entities : s.entity_to_index[e] # NoIndex}

\* get, for every entity at once: the map the storage stands for.
Contents(s) ==
    [e \in Entities |-> IF s.entity_to_index[e] = NoIndex THEN Absent
                        ELSE s.components[s.entity_to_index[e]]]

PushAlways(s, e, c) ==
    [entities |-> Append(s.entities, e),
     components |-> Append(s.components, c),
     entity_to_index |-> [s.entity_to_index EXCEPT ![e] = Len(s.components) + 1]]

DenseInsert(s, e, c) ==
    IF s.entity_to_index[e] # NoIndex
    THEN [s EXCEPT !.components = [@ EXCEPT ![s.entity_to_index[e]] = c]]
    ELSE [entities |-> Append(s.entities, e),
          components |-> Append(s.components, c),
          entity_to_index |-> [s.entity_to_index EXCEPT ![e] = Len(s.components) + 1]]

\* swap(i, last) and pop(): the last element takes the place of the i-th.
SwapRemove(seq, i) ==
    [n \in 1 .. Len(seq) - 1 |-> IF n = i THEN seq[Len(seq)] ELSE seq[n]]

RemoveWithoutSwap(s, e) ==
    LET i == s.entity_to_index[e]
        last == s.entities[Len(s.entities)]
    IN  IF i = NoIndex THEN s
        ELSE [entities |-> SwapRemove(s.entities, i),
              components |-> SubSeq(s.components, 1, Len(s.components) - 1),
              entity_to_index |-> [x \in Entities |->
                  CASE x = e -> NoIndex
                    [] x = last /\ x # e -> i
                    [] OTHER -> s.entity_to_index[x]]]

RemoveShifting(s, e) ==
    LET i == s.entity_to_index[e]
    IN  IF i = NoIndex THEN s
        ELSE [entities |-> SubSeq(s.entities, 1, i - 1)
                             \o SubSeq(s.entities, i + 1, Len(s.entities)),
              components |-> SubSeq(s.components, 1, i - 1)
                             \o SubSeq(s.components, i + 1, Len(s.components)),
              entity_to_index |-> [x \in Entities |->
                  IF x = e THEN NoIndex ELSE s.entity_to_index[x] - 1]]

DenseRemove(s, e) ==
    LET i == s.entity_to_index[e]
        last == s.entities[Len(s.entities)]
    IN  IF i = NoIndex THEN s
        ELSE [entities |-> SwapRemove(s.entities, i),
              components |-> SwapRemove(s.components, i),
              entity_to_index |-> [x \in Entities |->
                  CASE x = e -> NoIndex
                    [] x = last /\ x # e -> i
                    [] OTHER -> s.entity_to_index[x]]]
=============================================================================
