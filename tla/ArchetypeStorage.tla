-------------------------- MODULE ArchetypeStorage --------------------------
(***************************************************************************)
(* ArchetypeStorage of core/storage.rs: archetypes in a sharded map, each  *)
(* with its list of entities and a DenseStorage for each component type,   *)
(* and a second map from an entity to the archetype it is said to be in.   *)
(* A method of Archetype runs under the guard of its map entry and is one  *)
(* step; move_entity takes three guards in turn and is three.              *)
(***************************************************************************)
EXTENDS DenseStorage, FiniteSets, SequencesExt

CONSTANTS
    ArchetypeIds,
    ComponentTypes,
    T,              \* the type ArchetypeStorage<T>::insert_component stores
    Movers           \* threads that move entities

ASSUME ArchetypeConstants ==
    /\ T \in ComponentTypes
    /\ Absent \notin Storage

VARIABLES
    archetypes,         \* id |-> the archetype, or Absent
    entity_locations,   \* entity |-> an archetype id, or Absent
    standing, move            \* where each mover stands, in which move

archetypeVars == <<archetypes, entity_locations, standing, move>>

Archetype == [entities : Seq(Entities), storages : [ComponentTypes -> Storage \cup {Absent}]]

ASSUME AbsentIsNoArchetype == Absent \notin Archetype

Moves == [entity : Entities, to : ArchetypeIds]

ArchetypeTypeOK ==
    /\ archetypes \in [ArchetypeIds -> Archetype \cup {Absent}]
    /\ entity_locations \in [Entities -> ArchetypeIds \cup {Absent}]
    /\ standing \in [Movers -> {"idle", "enter", "locate"}]
    /\ move \in [Movers -> Moves \cup {Absent}]
    /\ \A t \in Movers : standing[t] # "idle" => move[t] \in Moves

ArchetypeInit ==
    /\ archetypes = [a \in ArchetypeIds |-> Absent]
    /\ entity_locations = [e \in Entities |-> Absent]
    /\ standing = [t \in Movers |-> "idle"]
    /\ move = [t \in Movers |-> Absent]

-----------------------------------------------------------------------------
(* The methods of Archetype.                                               *)

Exists(a) == archetypes[a] # Absent

PushEntity(arch, e) == [arch EXCEPT !.entities = Append(@, e)]

insert_entity(arch, e) ==
    IF e \in Range(arch.entities) THEN arch
    ELSE [arch EXCEPT !.entities = Append(@, e)]

RemoveListedOnly(arch, e) ==
    IF e \notin Range(arch.entities) THEN arch
    ELSE [arch EXCEPT !.entities = SwapRemove(@, CHOOSE n \in DOMAIN @ : @[n] = e)]

\* position() finds the first, and only, place of the entity.
remove_entity(arch, e) ==
    IF e \notin Range(arch.entities) THEN arch
    ELSE [entities |-> SwapRemove(arch.entities,
                         CHOOSE n \in DOMAIN arch.entities : arch.entities[n] = e),
          storages |-> [c \in ComponentTypes |->
                          IF arch.storages[c] = Absent THEN Absent
                          ELSE DenseRemove(arch.storages[c], e)]]

StorageOf(arch, c) == IF arch.storages[c] = Absent THEN NewStorage ELSE arch.storages[c]

insert_component(arch, c, e, v) ==
    [insert_entity(arch, e) EXCEPT !.storages[c] = DenseInsert(StorageOf(arch, c), e, v)]

register_component(arch, c) == [arch EXCEPT !.storages[c] = StorageOf(arch, c)]

-----------------------------------------------------------------------------
(* The methods of ArchetypeStorage, and those of an Archetype called       *)
(* through the guard get_or_create hands out.                              *)

Update(a, arch) ==
    /\ archetypes' = [archetypes EXCEPT ![a] = arch]
    /\ UNCHANGED <<standing, move>>

GetOrCreate(a) ==
    /\ ~ Exists(a)
    /\ Update(a, [entities |-> <<>>, storages |-> [c \in ComponentTypes |-> Absent]])
    /\ UNCHANGED entity_locations

RegisterComponent(a, c) ==
    /\ Exists(a)
    /\ Update(a, register_component(archetypes[a], c))
    /\ UNCHANGED entity_locations

InsertEntity(a, e) ==
    /\ Exists(a)
    /\ Update(a, insert_entity(archetypes[a], e))
    /\ UNCHANGED entity_locations

RemoveEntity(a, e) ==
    /\ Exists(a)
    /\ Update(a, remove_entity(archetypes[a], e))
    /\ UNCHANGED entity_locations

PutComponent(a, c, e, v) ==
    /\ Exists(a)
    /\ Update(a, insert_component(archetypes[a], c, e, v))
    /\ UNCHANGED entity_locations

\* ArchetypeStorage::insert_component sets the location with the archetype's
\* guard in hand.
InsertComponent(a, e, v) ==
    /\ Exists(a)
    /\ Update(a, insert_component(archetypes[a], T, e, v))
    /\ entity_locations' = [entity_locations EXCEPT ![e] = a]

\* move_entity: out of the old archetype, if it exists...
MoveOut(t, e, from, to) ==
    /\ standing[t] = "idle"
    /\ archetypes' = IF Exists(from)
                     THEN [archetypes EXCEPT ![from] = remove_entity(@, e)] ELSE archetypes
    /\ standing' = [standing EXCEPT ![t] = "enter"]
    /\ move' = [move EXCEPT ![t] = [entity |-> e, to |-> to]]
    /\ UNCHANGED entity_locations

\* ... into the new one, if it exists...
MoveIn(t) ==
    LET m == move[t]
    IN  /\ standing[t] = "enter"
        /\ archetypes' = IF Exists(m.to)
                         THEN [archetypes EXCEPT ![m.to] = insert_entity(@, m.entity)]
                         ELSE archetypes
        /\ standing' = [standing EXCEPT ![t] = "locate"]
        /\ UNCHANGED <<entity_locations, move>>

\* ... and the location is the new one, whether it exists or not.
MoveLocate(t) ==
    LET m == move[t]
    IN  /\ standing[t] = "locate"
        /\ entity_locations' = [entity_locations EXCEPT ![m.entity] = m.to]
        /\ standing' = [standing EXCEPT ![t] = "idle"]
        /\ move' = [move EXCEPT ![t] = Absent]
        /\ UNCHANGED archetypes

ArchetypeNext ==
    \/ \E a \in ArchetypeIds :
          \/ GetOrCreate(a)
          \/ \E c \in ComponentTypes : RegisterComponent(a, c)
          \/ \E e \in Entities :
                \/ InsertEntity(a, e)
                \/ RemoveEntity(a, e)
                \/ \E v \in Components :
                      \/ InsertComponent(a, e, v)
                      \/ \E c \in ComponentTypes : PutComponent(a, c, e, v)
    \/ \E t \in Movers :
          \/ \E e \in Entities, from, to \in ArchetypeIds : MoveOut(t, e, from, to)
          \/ MoveIn(t)
          \/ MoveLocate(t)

ArchetypeSpec == ArchetypeInit /\ [][ArchetypeNext]_archetypeVars

-----------------------------------------------------------------------------
DenseWithin(arch) ==
    \A c \in ComponentTypes : arch.storages[c] # Absent => Dense(arch.storages[c])

OwnedWithin(arch) ==
    /\ IsInjective(arch.entities)
    /\ \A c \in ComponentTypes :
          arch.storages[c] # Absent => StoredEntities(arch.storages[c]) \subseteq Range(arch.entities)

(* Every dense storage stays consistent whatever is inserted, overwritten, *)
(* removed and moved: the index map, the entities and the components       *)
(* describe one and the same map, with no gap and nothing twice.           *)
StoragesDense == \A a \in ArchetypeIds : Exists(a) => DenseWithin(archetypes[a])

(* An archetype lists each of its entities once, and a component is stored *)
(* only for an entity on the list: removing an entity leaves none of its   *)
(* components behind for the iterators to find.                            *)
ComponentsOwned == \A a \in ArchetypeIds : Exists(a) => OwnedWithin(archetypes[a])

\* The maps the storages stand for.
Nothing == [e \in Entities |-> Absent]

ContentWithin(arch) ==
    [c \in ComponentTypes |->
        IF arch.storages[c] = Absent THEN Nothing ELSE Contents(arch.storages[c])]

content ==
    [a \in ArchetypeIds |->
        IF Exists(a) THEN ContentWithin(archetypes[a]) ELSE [c \in ComponentTypes |-> Nothing]]

(* The archetypes implement plain maps: each step stores one component or  *)
(* forgets all of one entity, and no other entity's component changes,     *)
(* whatever the swap-removal does to the vectors.                          *)
Abstract == INSTANCE ComponentMap WITH content <- content
ImplementsComponentMap == Abstract!Spec
=============================================================================
