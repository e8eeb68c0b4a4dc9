----------------------- MODULE ArchetypeStorageProofs -----------------------
(* Proofs about ArchetypeStorage, for any entities, components, archetypes *)
(* and movers: the storages stay dense, and the archetypes implement plain *)
(* maps.  They rest on what the methods of a dense storage of any size do. *)
EXTENDS ArchetypeStorage, TLAPS

-----------------------------------------------------------------------------
(* What the methods of a dense storage do: the storage stays well formed,  *)
(* and the map it stands for changes at the one entity the method was      *)
(* called with.                                                            *)

USE DEF NoIndex, Storage, Dense

(* A new storage is well formed and has no component.                      *)
LEMMA NewIsDense ==
  /\ NewStorage \in Storage /\ Dense(NewStorage)
  /\ Contents(NewStorage) = [e \in Entities |-> Absent]
  BY DEF NewStorage, Contents

(* In a well-formed storage no entity is listed twice, and those listed    *)
(* are those the map has.                                                  *)
LEMMA DenseInjective ==
  ASSUME NEW s \in Storage, Dense(s)
  PROVE  /\ \A m, n \in 1 .. Len(s.entities) : s.entities[m] = s.entities[n] => m = n
         /\ \A n \in 1 .. Len(s.entities) : s.entities[n] \in StoredEntities(s)
  BY DEF StoredEntities

(* A component that is there is overwritten in its place.                  *)
LEMMA OverwriteInPlace ==
  ASSUME NEW s \in Storage, Dense(s), NEW e \in Entities, NEW c \in Components,
         s.entity_to_index[e] # NoIndex
  PROVE  /\ DenseInsert(s, e, c) \in Storage /\ Dense(DenseInsert(s, e, c))
         /\ Contents(DenseInsert(s, e, c)) = [Contents(s) EXCEPT ![e] = c]
         /\ StoredEntities(DenseInsert(s, e, c)) = StoredEntities(s) \cup {e}
<1> DEFINE i == s.entity_to_index[e]
           q == [s.components EXCEPT ![i] = c]
           r == DenseInsert(s, e, c)
<1>1. /\ i \in 1 .. Len(s.entities) /\ Len(s.components) = Len(s.entities)
      /\ s.entities[i] = e /\ s.components \in Seq(Components)
  OBVIOUS
<1>2. q \in Seq(Components) /\ Len(q) = Len(s.components) /\ DOMAIN q = DOMAIN s.components
  BY <1>1
<1>3. r = [s EXCEPT !.components = q]
  BY DEF DenseInsert
<1>4. /\ r.entities = s.entities /\ r.components = q
      /\ r.entity_to_index = s.entity_to_index /\ r \in Storage
  BY <1>2, <1>3
<1> HIDE DEF r
<1>5. Dense(r)
  BY <1>1, <1>2, <1>4
<1>6. ASSUME NEW x \in Entities, x # e, s.entity_to_index[x] # NoIndex
      PROVE  q[s.entity_to_index[x]] = s.components[s.entity_to_index[x]]
  <2>1. s.entity_to_index[x] \in 1 .. Len(s.components) /\ s.entity_to_index[x] # i
    BY <1>1, <1>6
  <2> QED
    BY <1>1, <2>1
<1>7. q[i] = c
  BY <1>1
<1> HIDE DEF q
<1>8. Contents(r) = [Contents(s) EXCEPT ![e] = c]
  <2>1. ASSUME NEW x \in Entities PROVE Contents(r)[x] = [Contents(s) EXCEPT ![e] = c][x]
    BY <1>4, <1>6, <1>7 DEF Contents
  <2> QED
    BY <2>1 DEF Contents
<1>9. StoredEntities(r) = StoredEntities(s) \cup {e}
  BY <1>4 DEF StoredEntities
<1> QED
  BY <1>4, <1>5, <1>8, <1>9 DEF r

(* A component of an entity that has none goes to the end.                 *)
LEMMA PushAtEnd ==
  ASSUME NEW s \in Storage, Dense(s), NEW e \in Entities, NEW c \in Components,
         s.entity_to_index[e] = NoIndex
  PROVE  /\ DenseInsert(s, e, c) \in Storage /\ Dense(DenseInsert(s, e, c))
         /\ Contents(DenseInsert(s, e, c)) = [Contents(s) EXCEPT ![e] = c]
         /\ StoredEntities(DenseInsert(s, e, c)) = StoredEntities(s) \cup {e}
<1> DEFINE N == Len(s.entities)
           r == DenseInsert(s, e, c)
<1>1. /\ N \in Nat /\ Len(s.components) = N
      /\ s.entities \in Seq(Entities) /\ s.components \in Seq(Components)
      /\ \A n \in 1 .. N : s.entities[n] # e
  OBVIOUS
<1>2. /\ r.entities = Append(s.entities, e) /\ r.components = Append(s.components, c)
      /\ r.entity_to_index = [s.entity_to_index EXCEPT ![e] = N + 1]
      /\ r \in Storage
  BY <1>1 DEF DenseInsert
<1> HIDE DEF r
<1>3. /\ Len(r.entities) = N + 1 /\ r.entities[N + 1] = e
      /\ Len(r.components) = N + 1 /\ r.components[N + 1] = c
      /\ \A n \in 1 .. N : /\ r.entities[n] = s.entities[n]
                           /\ r.components[n] = s.components[n]
  BY <1>1, <1>2
<1>4. \A x \in Entities :
        r.entity_to_index[x] = IF x = e THEN N + 1 ELSE s.entity_to_index[x]
  BY <1>2
<1>5. Dense(r)
  <2>1. ASSUME NEW x \in Entities, r.entity_to_index[x] # NoIndex
        PROVE  /\ r.entity_to_index[x] \in 1 .. N + 1
               /\ r.entities[r.entity_to_index[x]] = x
    BY <1>1, <1>3, <1>4, <2>1
  <2>2. ASSUME NEW n \in 1 .. N + 1 PROVE r.entity_to_index[r.entities[n]] = n
    <3>1. CASE n = N + 1
      BY <1>3, <1>4, <3>1
    <3>2. CASE n \in 1 .. N
      BY <1>1, <1>3, <1>4, <3>2
    <3> QED
      BY <1>1, <3>1, <3>2
  <2> QED
    BY <1>3, <2>1, <2>2
<1>6. Contents(r) = [Contents(s) EXCEPT ![e] = c]
  <2>1. ASSUME NEW x \in Entities PROVE Contents(r)[x] = [Contents(s) EXCEPT ![e] = c][x]
    BY <1>1, <1>3, <1>4 DEF Contents
  <2> QED
    BY <2>1 DEF Contents
<1>7. StoredEntities(r) = StoredEntities(s) \cup {e}
  BY <1>1, <1>4 DEF StoredEntities
<1> QED
  BY <1>2, <1>5, <1>6, <1>7 DEF r

(* The last component takes the removed one's place, and only the entity   *)
(* that was named loses its component.                                     *)
LEMMA RemoveKeeps ==
  ASSUME NEW s \in Storage, Dense(s), NEW e \in Entities, s.entity_to_index[e] # NoIndex
  PROVE  /\ DenseRemove(s, e) \in Storage /\ Dense(DenseRemove(s, e))
         /\ Contents(DenseRemove(s, e)) = [Contents(s) EXCEPT ![e] = Absent]
         /\ StoredEntities(DenseRemove(s, e)) = StoredEntities(s) \ {e}
<1> DEFINE i == s.entity_to_index[e]
           N == Len(s.entities)
           last == s.entities[N]
           r == DenseRemove(s, e)
<1>1. /\ N \in Nat /\ i \in 1 .. N /\ s.entities[i] = e /\ last \in Entities
      /\ Len(s.components) = N /\ s.entity_to_index[last] = N
      /\ s.entities \in Seq(Entities) /\ s.components \in Seq(Components)
  OBVIOUS
<1>2. /\ r.entities = SwapRemove(s.entities, i)
      /\ r.components = SwapRemove(s.components, i)
      /\ r.entity_to_index \in [Entities -> Nat]
      /\ r = [entities |-> r.entities, components |-> r.components,
              entity_to_index |-> r.entity_to_index]
  BY <1>1 DEF DenseRemove
<1>3. \A x \in Entities :
        r.entity_to_index[x] = IF x = e THEN NoIndex
                               ELSE IF x = last THEN i ELSE s.entity_to_index[x]
  BY DEF DenseRemove
<1> HIDE DEF r
<1>a. /\ r.entities \in Seq(Entities) /\ Len(r.entities) = N - 1
      /\ \A n \in 1 .. N - 1 : r.entities[n] = IF n = i THEN last ELSE s.entities[n]
  <2>0. s.entities \in Seq(Entities) /\ i \in 1 .. Len(s.entities)
    BY <1>1
  <2>1. /\ SwapRemove(s.entities, i) \in Seq(Entities)
        /\ Len(SwapRemove(s.entities, i)) = Len(s.entities) - 1
        /\ \A n \in 1 .. Len(s.entities) - 1 :
              SwapRemove(s.entities, i)[n] = IF n = i THEN s.entities[Len(s.entities)]
                                             ELSE s.entities[n]
    BY <2>0 DEF SwapRemove
  <2> QED
    BY <1>2, <2>1
<1>b. /\ r.components \in Seq(Components) /\ Len(r.components) = N - 1
      /\ \A n \in 1 .. N - 1 :
            r.components[n] = IF n = i THEN s.components[N] ELSE s.components[n]
  <2>0. s.components \in Seq(Components) /\ i \in 1 .. Len(s.components)
    BY <1>1
  <2>1. /\ SwapRemove(s.components, i) \in Seq(Components)
        /\ Len(SwapRemove(s.components, i)) = Len(s.components) - 1
        /\ \A n \in 1 .. Len(s.components) - 1 :
              SwapRemove(s.components, i)[n] = IF n = i THEN s.components[Len(s.components)]
                                               ELSE s.components[n]
    BY <2>0 DEF SwapRemove
  <2> QED
    BY <1>1, <1>2, <2>1
<1>4. r \in Storage
  BY <1>2, <1>a, <1>b
<1> HIDE DEF Storage
<1>5. ASSUME NEW x \in Entities, x # e, s.entity_to_index[x] # NoIndex
      PROVE  /\ r.entity_to_index[x] \in 1 .. N - 1
             /\ r.entities[r.entity_to_index[x]] = x
             /\ r.components[r.entity_to_index[x]] = s.components[s.entity_to_index[x]]
  <2>0. s.entity_to_index[x] \in 1 .. N /\ s.entities[s.entity_to_index[x]] = x
    BY <1>5
  <2> HIDE DEF Dense
  <2>1. CASE x = last
    <3>1. i # N /\ i \in 1 .. N - 1 /\ r.entity_to_index[x] = i
      BY <1>1, <1>3, <1>5, <2>1
    <3> QED
      BY <1>1, <1>a, <1>b, <2>1, <3>1
  <2>2. CASE x # last
    <3>1. s.entity_to_index[x] # N
      BY <2>0, <2>2
    <3>2. /\ s.entity_to_index[x] # i /\ s.entity_to_index[x] \in 1 .. N - 1
          /\ r.entity_to_index[x] = s.entity_to_index[x]
      BY <1>1, <1>3, <1>5, <2>0, <2>2, <3>1
    <3>3. ASSUME NEW j \in 1 .. N - 1, j # i
          PROVE  r.entities[j] = s.entities[j] /\ r.components[j] = s.components[j]
      BY <1>a, <1>b, <3>3
    <3> HIDE DEF i, N
    <3> QED
      BY <2>0, <3>2, <3>3
  <2> QED
    BY <2>1, <2>2
<1>6. ASSUME NEW n \in 1 .. N - 1 PROVE r.entity_to_index[r.entities[n]] = n
  <2>1. CASE n = i
    <3>1. last # e
      BY <1>1, <2>1
    <3>2. r.entities[n] = last
      BY <1>a, <2>1
    <3> QED
      BY <1>1, <1>3, <2>1, <3>1, <3>2
  <2>2. CASE n # i
    <3>1. /\ n \in 1 .. N /\ s.entities[n] \in Entities /\ s.entity_to_index[s.entities[n]] = n
          /\ r.entities[n] = s.entities[n]
      BY <1>1, <1>a, <2>2
    <3> HIDE DEF Dense
    <3>2. s.entities[n] # e /\ s.entities[n] # last
      <4>1. n # N
        BY <1>1
      <4>2. s.entity_to_index[e] = i /\ s.entity_to_index[last] = N
        BY <1>1
      <4> HIDE DEF i, N, last
      <4> QED
        BY <2>2, <3>1, <4>1, <4>2
    <3> QED
      BY <1>3, <3>1, <3>2
  <2> QED
    BY <2>1, <2>2
<1>7. ASSUME NEW x \in Entities PROVE r.entity_to_index[x] = NoIndex <=>
                                        x = e \/ s.entity_to_index[x] = NoIndex
  BY <1>1, <1>3, <1>5
<1> HIDE DEF i, N, last
<1>8. Dense(r)
  BY <1>a, <1>b, <1>5, <1>6, <1>7
<1>9. Contents(r) = [Contents(s) EXCEPT ![e] = Absent]
  <2>1. ASSUME NEW x \in Entities PROVE Contents(r)[x] = [Contents(s) EXCEPT ![e] = Absent][x]
    BY <1>5, <1>7 DEF Contents
  <2> QED
    BY <2>1 DEF Contents
<1>10. StoredEntities(r) = StoredEntities(s) \ {e}
  BY <1>7 DEF StoredEntities
<1> QED
  BY <1>4, <1>8, <1>9, <1>10 DEF r

(* insert: the storage stays dense, and stands for the map with e at c.    *)
THEOREM InsertIsPut ==
  ASSUME NEW s \in Storage, Dense(s), NEW e \in Entities, NEW c \in Components
  PROVE  /\ DenseInsert(s, e, c) \in Storage /\ Dense(DenseInsert(s, e, c))
         /\ Contents(DenseInsert(s, e, c)) = [Contents(s) EXCEPT ![e] = c]
         /\ StoredEntities(DenseInsert(s, e, c)) = StoredEntities(s) \cup {e}
<1> HIDE DEF NoIndex, Storage, Dense
<1>1. CASE s.entity_to_index[e] # NoIndex
  BY <1>1, OverwriteInPlace, Zenon
<1>2. CASE s.entity_to_index[e] = NoIndex
  BY <1>2, PushAtEnd
<1> QED
  BY <1>1, <1>2

(* remove: the storage stays dense, and stands for the map without e.      *)
THEOREM RemoveIsForget ==
  ASSUME NEW s \in Storage, Dense(s), NEW e \in Entities
  PROVE  /\ DenseRemove(s, e) \in Storage /\ Dense(DenseRemove(s, e))
         /\ Contents(DenseRemove(s, e)) = [Contents(s) EXCEPT ![e] = Absent]
         /\ StoredEntities(DenseRemove(s, e)) = StoredEntities(s) \ {e}
<1>1. CASE s.entity_to_index[e] = NoIndex
  BY <1>1 DEF DenseRemove, Contents, StoredEntities
<1> QED
  BY <1>1, RemoveKeeps

HIDE DEF NoIndex, Storage, Dense

-----------------------------------------------------------------------------
(* What each method of Archetype does to one archetype.                    *)

USE DEF Archetype, DenseWithin

(* insert_entity touches the list alone.                                   *)
LEMMA InsertEntityKeeps ==
  ASSUME NEW arch \in Archetype, DenseWithin(arch), NEW e \in Entities
  PROVE  /\ insert_entity(arch, e) \in Archetype /\ DenseWithin(insert_entity(arch, e))
         /\ ContentWithin(insert_entity(arch, e)) = ContentWithin(arch)
<1>1. insert_entity(arch, e).storages = arch.storages
  BY DEF insert_entity
<1>2. insert_entity(arch, e) \in Archetype
  <2>1. Append(arch.entities, e) \in Seq(Entities)
    OBVIOUS
  <2>2. ASSUME NEW q \in Seq(Entities) PROVE [arch EXCEPT !.entities = q] \in Archetype
    OBVIOUS
  <2> QED
    BY <2>1, <2>2 DEF insert_entity
<1> QED
  BY <1>1, <1>2 DEF ContentWithin

(* register_component adds a storage with nothing in it, or nothing.       *)
LEMMA RegisterKeeps ==
  ASSUME NEW arch \in Archetype, DenseWithin(arch), NEW c \in ComponentTypes
  PROVE  /\ register_component(arch, c) \in Archetype
         /\ DenseWithin(register_component(arch, c))
         /\ ContentWithin(register_component(arch, c)) = ContentWithin(arch)
  BY NewIsDense, ArchetypeConstants
     DEF register_component, StorageOf, ContentWithin, Nothing

(* Swap-removal from a list gives a list.                                  *)
LEMMA SwapRemoveInSeq ==
  ASSUME NEW S, NEW seq \in Seq(S), NEW i \in 1 .. Len(seq)
  PROVE  SwapRemove(seq, i) \in Seq(S)
  BY DEF SwapRemove

(* remove_entity forgets all components of an entity on the list.          *)
LEMMA RemoveEntityForgets ==
  ASSUME NEW arch \in Archetype, DenseWithin(arch), NEW e \in Entities
  PROVE  /\ remove_entity(arch, e) \in Archetype /\ DenseWithin(remove_entity(arch, e))
         /\ \/ ContentWithin(remove_entity(arch, e)) = ContentWithin(arch)
            \/ ContentWithin(remove_entity(arch, e)) =
                 [c \in ComponentTypes |-> [ContentWithin(arch)[c] EXCEPT ![e] = Absent]]
<1>1. CASE e \notin Range(arch.entities)
  BY <1>1 DEF remove_entity
<1>2. CASE e \in Range(arch.entities)
  <2> DEFINE k == CHOOSE n \in DOMAIN arch.entities : arch.entities[n] = e
             list == SwapRemove(arch.entities, k)
             store(c) == IF arch.storages[c] = Absent THEN Absent
                         ELSE DenseRemove(arch.storages[c], e)
             r == remove_entity(arch, e)
  <2>1. arch.entities \in Seq(Entities) /\ k \in 1 .. Len(arch.entities)
    <3>1. \E n \in DOMAIN arch.entities : arch.entities[n] = e
      BY <1>2 DEF Range
    <3>2. k \in DOMAIN arch.entities
      BY <3>1
    <3> QED
      BY <3>2
  <2>2. list \in Seq(Entities)
    BY <2>1, SwapRemoveInSeq
  <2>3. r = [entities |-> list, storages |-> [c \in ComponentTypes |-> store(c)]]
    BY <1>2, Zenon DEF remove_entity
  <2> HIDE DEF list, k
  <2>4. ASSUME NEW c \in ComponentTypes, arch.storages[c] # Absent
        PROVE  /\ store(c) \in Storage /\ Dense(store(c))
               /\ Contents(store(c)) = [Contents(arch.storages[c]) EXCEPT ![e] = Absent]
    <3>1. arch.storages[c] \in Storage /\ Dense(arch.storages[c])
      BY <2>4
    <3>2. store(c) = DenseRemove(arch.storages[c], e)
      BY <2>4
    <3> HIDE DEF store
    <3> QED
      BY <3>1, <3>2, RemoveIsForget, Zenon
  <2>5. ASSUME NEW c \in ComponentTypes, arch.storages[c] = Absent PROVE store(c) = Absent
    BY <2>5
  <2> HIDE DEF store, r
  <2>6. /\ r.entities = list
        /\ \A c \in ComponentTypes : r.storages[c] = store(c)
    BY <2>3
  <2>7. \A c \in ComponentTypes : store(c) \in Storage \cup {Absent}
    BY <2>4, <2>5
  <2>8. r \in Archetype
    BY <2>2, <2>3, <2>7
  <2>9. DenseWithin(r)
    BY <2>4, <2>5, <2>6
  <2>10. ASSUME NEW c \in ComponentTypes
         PROVE  (IF r.storages[c] = Absent THEN Nothing ELSE Contents(r.storages[c])) =
                [IF arch.storages[c] = Absent THEN Nothing ELSE Contents(arch.storages[c])
                   EXCEPT ![e] = Absent]
    <3>1. CASE arch.storages[c] = Absent
      <4>1. r.storages[c] = Absent
        BY <2>5, <2>6, <3>1
      <4>2. Nothing = [Nothing EXCEPT ![e] = Absent]
        BY DEF Nothing
      <4> QED
        BY <3>1, <4>1, <4>2
    <3>2. CASE arch.storages[c] # Absent
      <4>1. r.storages[c] # Absent
        BY <2>4, <2>6, <3>2, ArchetypeConstants
      <4> QED
        BY <2>4, <2>6, <3>2, <4>1
    <3> QED
      BY <3>1, <3>2
  <2>11. ContentWithin(r) =
           [c \in ComponentTypes |-> [ContentWithin(arch)[c] EXCEPT ![e] = Absent]]
    BY <2>10 DEF ContentWithin
  <2> QED
    BY <2>8, <2>9, <2>11 DEF r
<1> QED
  BY <1>1, <1>2

\* What a map becomes when a component is stored.
Stored(map, c, e, v) == [map EXCEPT ![c] = [map[c] EXCEPT ![e] = v]]

(* insert_component stores one component.                                  *)
LEMMA InsertComponentPuts ==
  ASSUME NEW arch \in Archetype, DenseWithin(arch), NEW c \in ComponentTypes,
         NEW e \in Entities, NEW v \in Components
  PROVE  /\ insert_component(arch, c, e, v) \in Archetype
         /\ DenseWithin(insert_component(arch, c, e, v))
         /\ ContentWithin(insert_component(arch, c, e, v)) =
              Stored(ContentWithin(arch), c, e, v)
<1> DEFINE listed == insert_entity(arch, e)
           old == StorageOf(arch, c)
           new == DenseInsert(old, e, v)
           r == insert_component(arch, c, e, v)
<1>1. listed \in Archetype /\ listed.storages = arch.storages
  <2>1. listed.storages = arch.storages
    BY DEF insert_entity
  <2> QED
    BY <2>1, InsertEntityKeeps
<1>2. old \in Storage /\ Dense(old)
  BY NewIsDense DEF StorageOf
<1>3. Contents(old) = IF arch.storages[c] = Absent THEN Nothing ELSE Contents(arch.storages[c])
  BY NewIsDense DEF StorageOf, Nothing
<1> HIDE DEF old
<1>4. new \in Storage /\ Dense(new) /\ Contents(new) = [Contents(old) EXCEPT ![e] = v]
  BY <1>2, InsertIsPut, Zenon
<1>5. r = [listed EXCEPT !.storages[c] = new]
  BY DEF insert_component, old
<1> HIDE DEF listed, new, r
<1>6. /\ r \in Archetype
      /\ \A d \in ComponentTypes : r.storages[d] = IF d = c THEN new ELSE arch.storages[d]
  BY <1>1, <1>4, <1>5
<1>7. DenseWithin(r)
  BY <1>4, <1>6
<1>8. ContentWithin(r) = Stored(ContentWithin(arch), c, e, v)
  <2>1. new # Absent
    BY <1>4, ArchetypeConstants
  <2>2. ContentWithin(arch)[c] = Contents(old)
    BY <1>3 DEF ContentWithin
  <2>3. ASSUME NEW d \in ComponentTypes
        PROVE  ContentWithin(r)[d] = Stored(ContentWithin(arch), c, e, v)[d]
    <3>1. CASE d = c
      <4>1. ContentWithin(r)[d] = Contents(new)
        BY <1>6, <2>1, <3>1 DEF ContentWithin
      <4>2. Stored(ContentWithin(arch), c, e, v)[d] = [ContentWithin(arch)[c] EXCEPT ![e] = v]
        BY <3>1 DEF ContentWithin, Stored
      <4> QED
        BY <1>4, <2>2, <4>1, <4>2
    <3>2. CASE d # c
      BY <1>6, <3>2 DEF ContentWithin, Stored
    <3> QED
      BY <3>1, <3>2
  <2> QED
    BY <2>3 DEF ContentWithin, Stored
<1> QED
  BY <1>6, <1>7, <1>8 DEF r

-----------------------------------------------------------------------------
(* The steps.  What is known of every state, and what a step does to the   *)
(* archetypes, is the same for the methods called one by one and for the   *)
(* first two steps of a move.                                              *)

Kept == ArchetypeTypeOK /\ StoragesDense

Empty == [entities |-> <<>>, storages |-> [c \in ComponentTypes |-> Absent]]

\* A step that puts arch in the place of archetype a.
Becomes(a, arch) == archetypes' = [archetypes EXCEPT ![a] = arch]

\* What the abstract specification lets content do.
Mapped == Abstract!Next \/ UNCHANGED content

(* A new archetype has no component.                                       *)
LEMMA EmptyIsEmpty ==
  /\ Empty \in Archetype /\ DenseWithin(Empty)
  /\ ContentWithin(Empty) = [c \in ComponentTypes |-> Nothing]
  BY DEF Empty, ContentWithin

(* An archetype that exists is one, and dense.                             *)
LEMMA ExistingIsDense ==
  ASSUME Kept, NEW a \in ArchetypeIds, Exists(a)
  PROVE  archetypes[a] \in Archetype /\ DenseWithin(archetypes[a])
  BY DEF Kept, ArchetypeTypeOK, StoragesDense, Exists

(* Replacing one archetype changes content there and nowhere else.         *)
LEMMA ReplaceOne ==
  ASSUME Kept, NEW a \in ArchetypeIds, NEW arch \in Archetype, DenseWithin(arch),
         Becomes(a, arch)
  PROVE  /\ archetypes' \in [ArchetypeIds -> Archetype \cup {Absent}]
         /\ StoragesDense'
         /\ content' = [content EXCEPT ![a] = ContentWithin(arch)]
<1>1. archetypes' \in [ArchetypeIds -> Archetype \cup {Absent}]
  BY DEF Kept, ArchetypeTypeOK, Becomes
<1>2. \A b \in ArchetypeIds : archetypes'[b] = IF b = a THEN arch ELSE archetypes[b]
  BY DEF Kept, ArchetypeTypeOK, Becomes
<1>3. StoragesDense'
  BY <1>2 DEF Kept, StoragesDense, Exists
<1>4. content' = [content EXCEPT ![a] = ContentWithin(arch)]
  <2>1. arch # Absent
    BY AbsentIsNoArchetype
  <2>2. ASSUME NEW b \in ArchetypeIds
        PROVE  content'[b] = [content EXCEPT ![a] = ContentWithin(arch)][b]
    <3>1. CASE b = a
      BY <1>2, <2>1, <3>1 DEF content, Exists
    <3>2. CASE b # a
      BY <1>2, <3>2 DEF content, Exists, ContentWithin
    <3> QED
      BY <3>1, <3>2
  <2> QED
    BY <2>2 DEF content
<1> QED
  BY <1>1, <1>3, <1>4

(* A replacement that keeps the archetype's content leaves content alone.  *)
LEMMA SameContent ==
  ASSUME Kept, NEW a \in ArchetypeIds, NEW arch \in Archetype, DenseWithin(arch),
         Becomes(a, arch), content[a] = ContentWithin(arch)
  PROVE  UNCHANGED content
  BY ReplaceOne DEF content

(* The content of an archetype that exists, and of one that does not.      *)
LEMMA ContentAt ==
  ASSUME NEW a \in ArchetypeIds
  PROVE  content[a] = IF Exists(a) THEN ContentWithin(archetypes[a])
                      ELSE [c \in ComponentTypes |-> Nothing]
  BY DEF content

(* Making an archetype, if get_or_create does.                             *)
LEMMA CreateStep ==
  ASSUME Kept, NEW a \in ArchetypeIds, ~ Exists(a), Becomes(a, Empty)
  PROVE  StoragesDense' /\ Mapped
  BY EmptyIsEmpty, ReplaceOne, SameContent, ContentAt DEF Mapped

(* Listing an entity, by itself or as the second step of a move.           *)
LEMMA ListStep ==
  ASSUME Kept, NEW a \in ArchetypeIds, NEW e \in Entities, Exists(a),
         Becomes(a, insert_entity(archetypes[a], e))
  PROVE  /\ archetypes' \in [ArchetypeIds -> Archetype \cup {Absent}]
         /\ StoragesDense' /\ Mapped
  BY ExistingIsDense, InsertEntityKeeps, ReplaceOne, SameContent, ContentAt DEF Mapped

(* Registering a component type.                                           *)
LEMMA RegisterStep ==
  ASSUME Kept, NEW a \in ArchetypeIds, NEW c \in ComponentTypes, Exists(a),
         Becomes(a, register_component(archetypes[a], c))
  PROVE  /\ archetypes' \in [ArchetypeIds -> Archetype \cup {Absent}]
         /\ StoragesDense' /\ Mapped
  BY ExistingIsDense, RegisterKeeps, ReplaceOne, SameContent, ContentAt DEF Mapped

(* Removing an entity, by itself or as the first step of a move.           *)
LEMMA RemoveStep ==
  ASSUME Kept, NEW a \in ArchetypeIds, NEW e \in Entities, Exists(a),
         Becomes(a, remove_entity(archetypes[a], e))
  PROVE  /\ archetypes' \in [ArchetypeIds -> Archetype \cup {Absent}]
         /\ StoragesDense' /\ Mapped
<1> DEFINE arch == archetypes[a]
           r == remove_entity(arch, e)
<1>1. arch \in Archetype /\ DenseWithin(arch) /\ content[a] = ContentWithin(arch)
  BY ExistingIsDense, ContentAt
<1>2. /\ r \in Archetype /\ DenseWithin(r)
      /\ \/ ContentWithin(r) = ContentWithin(arch)
         \/ ContentWithin(r) =
              [c \in ComponentTypes |-> [ContentWithin(arch)[c] EXCEPT ![e] = Absent]]
  BY <1>1, RemoveEntityForgets
<1>3. Becomes(a, r)
  OBVIOUS
<1> HIDE DEF arch, r
<1>4. /\ archetypes' \in [ArchetypeIds -> Archetype \cup {Absent}]
      /\ StoragesDense' /\ content' = [content EXCEPT ![a] = ContentWithin(r)]
  BY <1>2, <1>3, ReplaceOne
<1>5. CASE ContentWithin(r) = ContentWithin(arch)
  BY <1>1, <1>2, <1>3, <1>4, <1>5, SameContent DEF Mapped
<1>6. CASE ContentWithin(r) =
             [c \in ComponentTypes |-> [ContentWithin(arch)[c] EXCEPT ![e] = Absent]]
  <2>1. Abstract!Forget(a, e)
    BY <1>1, <1>4, <1>6 DEF Abstract!Forget
  <2> QED
    BY <1>4, <2>1 DEF Mapped, Abstract!Next
<1> QED
  BY <1>2, <1>5, <1>6

(* Storing a component, of type T or of any other.                         *)
LEMMA PutStep ==
  ASSUME Kept, NEW a \in ArchetypeIds, NEW c \in ComponentTypes, NEW e \in Entities,
         NEW v \in Components, Exists(a),
         Becomes(a, insert_component(archetypes[a], c, e, v))
  PROVE  /\ archetypes' \in [ArchetypeIds -> Archetype \cup {Absent}]
         /\ StoragesDense' /\ Mapped
<1> DEFINE arch == archetypes[a]
           r == insert_component(arch, c, e, v)
<1>1. arch \in Archetype /\ DenseWithin(arch) /\ content[a] = ContentWithin(arch)
  BY ExistingIsDense, ContentAt
<1>2. /\ r \in Archetype /\ DenseWithin(r)
      /\ ContentWithin(r) = Stored(ContentWithin(arch), c, e, v)
  BY <1>1, InsertComponentPuts
<1>3. Becomes(a, r)
  OBVIOUS
<1> HIDE DEF arch, r
<1>4. /\ archetypes' \in [ArchetypeIds -> Archetype \cup {Absent}]
      /\ StoragesDense' /\ content' = [content EXCEPT ![a] = ContentWithin(r)]
  BY <1>2, <1>3, ReplaceOne
<1>5. Abstract!Put(a, c, e, v)
  BY <1>1, <1>2, <1>4 DEF Abstract!Put, Stored
<1> QED
  BY <1>4, <1>5 DEF Mapped, Abstract!Next

(* Every step keeps the invariant, and is a step of the maps or none.      *)
LEMMA Steps ==
  ASSUME Kept, [ArchetypeNext]_archetypeVars
  PROVE  Kept' /\ Mapped
<1> USE DEF Update, Becomes
<1>1. ASSUME NEW a \in ArchetypeIds, GetOrCreate(a) PROVE Kept' /\ Mapped
  <2>1. Becomes(a, Empty) /\ ~ Exists(a)
    BY <1>1 DEF GetOrCreate, Empty
  <2>2. archetypes' \in [ArchetypeIds -> Archetype \cup {Absent}]
    BY <2>1, EmptyIsEmpty, ReplaceOne
  <2> QED
    BY <1>1, <2>1, <2>2, CreateStep DEF GetOrCreate, Kept, ArchetypeTypeOK
<1>2. ASSUME NEW a \in ArchetypeIds, NEW c \in ComponentTypes, RegisterComponent(a, c)
      PROVE  Kept' /\ Mapped
  BY <1>2, RegisterStep DEF RegisterComponent, Kept, ArchetypeTypeOK
<1>3. ASSUME NEW a \in ArchetypeIds, NEW e \in Entities, InsertEntity(a, e)
      PROVE  Kept' /\ Mapped
  BY <1>3, ListStep DEF InsertEntity, Kept, ArchetypeTypeOK
<1>4. ASSUME NEW a \in ArchetypeIds, NEW e \in Entities, RemoveEntity(a, e)
      PROVE  Kept' /\ Mapped
  BY <1>4, RemoveStep DEF RemoveEntity, Kept, ArchetypeTypeOK
<1>5. ASSUME NEW a \in ArchetypeIds, NEW c \in ComponentTypes, NEW e \in Entities,
             NEW v \in Components, PutComponent(a, c, e, v)
      PROVE  Kept' /\ Mapped
  BY <1>5, PutStep DEF PutComponent, Kept, ArchetypeTypeOK
<1>6. ASSUME NEW a \in ArchetypeIds, NEW e \in Entities, NEW v \in Components,
             InsertComponent(a, e, v)
      PROVE  Kept' /\ Mapped
  BY <1>6, PutStep, ArchetypeConstants DEF InsertComponent, Kept, ArchetypeTypeOK
<1>7. ASSUME NEW t \in Movers, NEW e \in Entities, NEW from \in ArchetypeIds,
             NEW to \in ArchetypeIds, MoveOut(t, e, from, to)
      PROVE  Kept' /\ Mapped
  <2>1. /\ archetypes' \in [ArchetypeIds -> Archetype \cup {Absent}]
        /\ StoragesDense' /\ Mapped
    <3>1. CASE Exists(from)
      <4>1. Becomes(from, remove_entity(archetypes[from], e))
        BY <1>7, <3>1 DEF MoveOut
      <4> QED
        BY <3>1, <4>1, RemoveStep
    <3>2. CASE ~ Exists(from)
      BY <1>7, <3>2 DEF MoveOut, Kept, ArchetypeTypeOK, StoragesDense, Exists, Mapped, content
    <3> QED
      BY <3>1, <3>2
  <2>2. [entity |-> e, to |-> to] \in Moves
    BY DEF Moves
  <2> QED
    BY <1>7, <2>1, <2>2 DEF MoveOut, Kept, ArchetypeTypeOK
<1>8. ASSUME NEW t \in Movers, MoveIn(t) PROVE Kept' /\ Mapped
  <2>1. move[t].entity \in Entities /\ move[t].to \in ArchetypeIds
    BY <1>8 DEF MoveIn, Kept, ArchetypeTypeOK, Moves
  <2>2. /\ archetypes' \in [ArchetypeIds -> Archetype \cup {Absent}]
        /\ StoragesDense' /\ Mapped
    <3>1. CASE Exists(move[t].to)
      <4>1. Becomes(move[t].to, insert_entity(archetypes[move[t].to], move[t].entity))
        BY <1>8, <3>1 DEF MoveIn
      <4> QED
        BY <2>1, <3>1, <4>1, ListStep
    <3>2. CASE ~ Exists(move[t].to)
      BY <1>8, <3>2 DEF MoveIn, Kept, ArchetypeTypeOK, StoragesDense, Exists, Mapped, content
    <3> QED
      BY <3>1, <3>2
  <2> QED
    BY <1>8, <2>2 DEF MoveIn, Kept, ArchetypeTypeOK
<1>9. ASSUME NEW t \in Movers, MoveLocate(t) PROVE Kept' /\ Mapped
  <2>1. move[t].entity \in Entities /\ move[t].to \in ArchetypeIds
    BY <1>9 DEF MoveLocate, Kept, ArchetypeTypeOK, Moves
  <2> QED
    BY <1>9, <2>1 DEF MoveLocate, Kept, ArchetypeTypeOK, StoragesDense, Exists, Mapped, content
<1>10. CASE UNCHANGED archetypeVars
  BY <1>10 DEF archetypeVars, Kept, ArchetypeTypeOK, StoragesDense, Exists, Mapped, content
<1> QED
  BY <1>1, <1>2, <1>3, <1>4, <1>5, <1>6, <1>7, <1>8, <1>9, <1>10 DEF ArchetypeNext

(* Nothing is there at first.                                              *)
LEMMA Starts == ArchetypeInit => Kept /\ Abstract!Init
  BY DEF ArchetypeInit, Kept, ArchetypeTypeOK, StoragesDense, Exists, content, Nothing, Abstract!Init

(* The variables have their types, in every archetype and at every mover.  *)
THEOREM Typing == ArchetypeSpec => []ArchetypeTypeOK
<1>1. ArchetypeSpec => []Kept
  BY Starts, Steps, PTL DEF ArchetypeSpec
<1>2. Kept => ArchetypeTypeOK
  BY DEF Kept
<1> QED
  BY <1>1, <1>2, PTL

(* Whatever the threads insert, register, remove and move, the index map   *)
(* and the two vectors of every storage describe one and the same map.     *)
THEOREM Density == ArchetypeSpec => []StoragesDense
<1>1. ArchetypeSpec => []Kept
  BY Starts, Steps, PTL DEF ArchetypeSpec
<1>2. Kept => StoragesDense
  BY DEF Kept
<1> QED
  BY <1>1, <1>2, PTL

(* The archetypes implement plain maps: a step stores one component, or    *)
(* forgets those of one entity in one archetype, or changes none.          *)
THEOREM Refinement == ArchetypeSpec => ImplementsComponentMap
<1>1. Kept /\ [ArchetypeNext]_archetypeVars => Kept' /\ [Abstract!Next]_content
  BY Steps DEF Mapped
<1> QED
  BY <1>1, Starts, PTL DEF ArchetypeSpec, ImplementsComponentMap, Abstract!Spec

-----------------------------------------------------------------------------
(* Whose components the storages hold.                                     *)

(* Adding an entity that is not on the list.                               *)
LEMMA AppendListed ==
  ASSUME NEW seq \in Seq(Entities), IsInjective(seq), NEW e \in Entities, e \notin Range(seq)
  PROVE  IsInjective(Append(seq, e)) /\ Range(Append(seq, e)) = Range(seq) \cup {e}
<1> DEFINE q == Append(seq, e)
           N == Len(seq)
<1>1. /\ N \in Nat /\ q \in Seq(Entities) /\ Len(q) = N + 1 /\ q[N + 1] = e
      /\ \A n \in 1 .. N : q[n] = seq[n] /\ seq[n] \in Range(seq)
      /\ DOMAIN q = 1 .. N + 1 /\ DOMAIN seq = 1 .. N
  BY DEF Range
<1> HIDE DEF q, N
<1>2. IsInjective(q)
  BY <1>1 DEF IsInjective
<1>3. Range(q) = Range(seq) \cup {e}
  BY <1>1, SMTT(30) DEF Range
<1> QED
  BY <1>2, <1>3 DEF q

(* Taking one off by swap-removal: the others stay, in some order.         *)
LEMMA SwapRemoveListed ==
  ASSUME NEW seq \in Seq(Entities), IsInjective(seq), NEW k \in 1 .. Len(seq)
  PROVE  /\ IsInjective(SwapRemove(seq, k))
         /\ Range(SwapRemove(seq, k)) = Range(seq) \ {seq[k]}
<1> DEFINE q == SwapRemove(seq, k)
           N == Len(seq)
<1>1. /\ N \in Nat \ {0} /\ k \in 1 .. N
      /\ DOMAIN q = 1 .. N - 1 /\ DOMAIN seq = 1 .. N
      /\ \A n \in 1 .. N - 1 : q[n] = IF n = k THEN seq[N] ELSE seq[n]
  BY DEF SwapRemove
<1>2. \A m, n \in 1 .. N : seq[m] = seq[n] => m = n
  BY <1>1 DEF IsInjective
<1> HIDE DEF q, N
<1>3. IsInjective(q)
  BY <1>1, <1>2 DEF IsInjective
<1>4. Range(q) \subseteq Range(seq) \ {seq[k]}
  BY <1>1, <1>2 DEF Range
<1>5. ASSUME NEW n \in 1 .. N, n # k PROVE seq[n] \in Range(q)
  <2>1. CASE n = N
    <3>1. k \in 1 .. N - 1 /\ q[k] = seq[N]
      BY <1>1, <1>5, <2>1
    <3> QED
      BY <1>1, <2>1, <3>1 DEF Range
  <2>2. CASE n # N
    <3>1. n \in 1 .. N - 1 /\ q[n] = seq[n]
      BY <1>1, <1>5, <2>2
    <3> QED
      BY <1>1, <3>1 DEF Range
  <2> QED
    BY <2>1, <2>2
<1>6. Range(seq) \ {seq[k]} \subseteq Range(q)
  BY <1>1, <1>5 DEF Range
<1> QED
  BY <1>3, <1>4, <1>6 DEF q

(* insert_entity lists the entity, once.                                   *)
LEMMA InsertEntityOwned ==
  ASSUME NEW arch \in Archetype, OwnedWithin(arch), NEW e \in Entities
  PROVE  /\ OwnedWithin(insert_entity(arch, e))
         /\ insert_entity(arch, e).storages = arch.storages
         /\ Range(insert_entity(arch, e).entities) = Range(arch.entities) \cup {e}
<1>1. CASE e \in Range(arch.entities)
  BY <1>1 DEF insert_entity
<1>2. CASE e \notin Range(arch.entities)
  <2>1. /\ insert_entity(arch, e).entities = Append(arch.entities, e)
        /\ insert_entity(arch, e).storages = arch.storages
    BY <1>2 DEF insert_entity
  <2>2. arch.entities \in Seq(Entities) /\ IsInjective(arch.entities)
    BY DEF OwnedWithin
  <2>3. /\ IsInjective(Append(arch.entities, e))
        /\ Range(Append(arch.entities, e)) = Range(arch.entities) \cup {e}
    BY <1>2, <2>2, AppendListed
  <2> QED
    BY <2>1, <2>3 DEF OwnedWithin
<1> QED
  BY <1>1, <1>2

(* A storage that has just been registered has no entity.                  *)
LEMMA RegisterOwned ==
  ASSUME NEW arch \in Archetype, OwnedWithin(arch), NEW c \in ComponentTypes
  PROVE  OwnedWithin(register_component(arch, c))
<1>1. StoredEntities(NewStorage) = {}
  BY DEF StoredEntities, NewStorage
<1> QED
  BY <1>1 DEF register_component, StorageOf, OwnedWithin

(* remove_entity takes the entity off the list and out of every storage.   *)
LEMMA RemoveEntityOwned ==
  ASSUME NEW arch \in Archetype, DenseWithin(arch), OwnedWithin(arch), NEW e \in Entities
  PROVE  OwnedWithin(remove_entity(arch, e))
<1>1. CASE e \notin Range(arch.entities)
  BY <1>1 DEF remove_entity
<1>2. CASE e \in Range(arch.entities)
  <2> DEFINE k == CHOOSE n \in DOMAIN arch.entities : arch.entities[n] = e
             list == SwapRemove(arch.entities, k)
             r == remove_entity(arch, e)
  <2>1. /\ arch.entities \in Seq(Entities) /\ k \in 1 .. Len(arch.entities)
        /\ arch.entities[k] = e
    <3>1. \E n \in DOMAIN arch.entities : arch.entities[n] = e
      BY <1>2 DEF Range
    <3>2. k \in DOMAIN arch.entities /\ arch.entities[k] = e
      BY <3>1
    <3> QED
      BY <3>2
  <2>2. /\ r.entities = list
        /\ \A c \in ComponentTypes :
              r.storages[c] = IF arch.storages[c] = Absent THEN Absent
                              ELSE DenseRemove(arch.storages[c], e)
    BY <1>2 DEF remove_entity
  <2> HIDE DEF k, r
  <2>3. IsInjective(list) /\ Range(list) = Range(arch.entities) \ {e}
    BY <2>1, SwapRemoveListed DEF OwnedWithin
  <2> HIDE DEF list
  <2>4. ASSUME NEW c \in ComponentTypes, r.storages[c] # Absent
        PROVE  StoredEntities(r.storages[c]) \subseteq Range(list)
    <3>1. arch.storages[c] # Absent /\ r.storages[c] = DenseRemove(arch.storages[c], e)
      BY <2>2, <2>4
    <3>2. arch.storages[c] \in Storage /\ Dense(arch.storages[c])
      BY <3>1
    <3>3. StoredEntities(DenseRemove(arch.storages[c], e)) =
            StoredEntities(arch.storages[c]) \ {e}
      BY <3>2, RemoveIsForget, Zenon
    <3>4. StoredEntities(arch.storages[c]) \subseteq Range(arch.entities)
      BY <3>1 DEF OwnedWithin
    <3> QED
      BY <2>3, <3>1, <3>3, <3>4
  <2> QED
    BY <2>2, <2>3, <2>4 DEF OwnedWithin, r
<1> QED
  BY <1>1, <1>2

(* insert_component lists the entity before it stores its component.       *)
LEMMA InsertComponentOwned ==
  ASSUME NEW arch \in Archetype, DenseWithin(arch), OwnedWithin(arch),
         NEW c \in ComponentTypes, NEW e \in Entities, NEW v \in Components
  PROVE  OwnedWithin(insert_component(arch, c, e, v))
<1> DEFINE listed == insert_entity(arch, e)
           old == StorageOf(arch, c)
           new == DenseInsert(old, e, v)
           r == insert_component(arch, c, e, v)
<1>1. /\ listed \in Archetype /\ OwnedWithin(listed) /\ listed.storages = arch.storages
      /\ e \in Range(listed.entities) /\ Range(arch.entities) \subseteq Range(listed.entities)
  <2>1. listed \in Archetype
    BY InsertEntityKeeps
  <2>2. /\ OwnedWithin(listed) /\ listed.storages = arch.storages
        /\ Range(listed.entities) = Range(arch.entities) \cup {e}
    BY InsertEntityOwned
  <2> HIDE DEF listed
  <2> QED
    BY <2>1, <2>2
<1>2. /\ old \in Storage /\ Dense(old)
      /\ StoredEntities(old) \subseteq Range(arch.entities)
  <2>1. StoredEntities(NewStorage) = {}
    BY DEF StoredEntities, NewStorage
  <2> QED
    BY <2>1, NewIsDense DEF StorageOf, OwnedWithin
<1> HIDE DEF old
<1>3. StoredEntities(new) = StoredEntities(old) \cup {e}
  BY <1>2, InsertIsPut, Zenon
<1>4. r = [listed EXCEPT !.storages[c] = new]
  BY DEF insert_component, old
<1> HIDE DEF listed, new, r
<1>5. /\ r.entities = listed.entities
      /\ \A d \in ComponentTypes : r.storages[d] = IF d = c THEN new ELSE listed.storages[d]
  BY <1>1, <1>4
<1>6. OwnedWithin(r)
  BY <1>1, <1>2, <1>3, <1>5 DEF OwnedWithin
<1> QED
  BY <1>6 DEF r

(* A step that replaces one archetype by one that owns its components.     *)
LEMMA OwnedReplace ==
  ASSUME Kept, ComponentsOwned, NEW a \in ArchetypeIds, NEW arch, OwnedWithin(arch),
         Becomes(a, arch)
  PROVE  ComponentsOwned'
<1>1. \A b \in ArchetypeIds : archetypes'[b] = IF b = a THEN arch ELSE archetypes[b]
  BY DEF Kept, ArchetypeTypeOK, Becomes
<1> QED
  BY <1>1 DEF ComponentsOwned, Exists

(* No step leaves a component behind that belongs to nobody.               *)
LEMMA OwnedSteps ==
  ASSUME Kept, ComponentsOwned, [ArchetypeNext]_archetypeVars
  PROVE  ComponentsOwned'
<1>0. ASSUME NEW a \in ArchetypeIds, Exists(a)
      PROVE  /\ archetypes[a] \in Archetype /\ DenseWithin(archetypes[a])
             /\ OwnedWithin(archetypes[a])
  BY <1>0, ExistingIsDense DEF ComponentsOwned
<1>1. ASSUME NEW a \in ArchetypeIds, GetOrCreate(a) PROVE ComponentsOwned'
  <2>1. Becomes(a, Empty)
    BY <1>1 DEF GetOrCreate, Empty, Becomes, Update
  <2>2. OwnedWithin(Empty)
    BY DEF OwnedWithin, Empty, IsInjective
  <2> QED
    BY <2>1, <2>2, OwnedReplace, EmptyIsEmpty
<1>2. ASSUME NEW a \in ArchetypeIds, NEW c \in ComponentTypes, RegisterComponent(a, c)
      PROVE  ComponentsOwned'
  <2>1. Exists(a) /\ Becomes(a, register_component(archetypes[a], c))
    BY <1>2 DEF RegisterComponent, Becomes, Update
  <2> QED
    BY <1>0, <2>1, RegisterOwned, OwnedReplace
<1>3. ASSUME NEW a \in ArchetypeIds, NEW e \in Entities, Exists(a),
             Becomes(a, insert_entity(archetypes[a], e))
      PROVE  ComponentsOwned'
  BY <1>0, <1>3, InsertEntityOwned, OwnedReplace
<1>4. ASSUME NEW a \in ArchetypeIds, NEW e \in Entities, Exists(a),
             Becomes(a, remove_entity(archetypes[a], e))
      PROVE  ComponentsOwned'
  BY <1>0, <1>4, RemoveEntityOwned, OwnedReplace
<1>5. ASSUME NEW a \in ArchetypeIds, NEW c \in ComponentTypes, NEW e \in Entities,
             NEW v \in Components, Exists(a),
             Becomes(a, insert_component(archetypes[a], c, e, v))
      PROVE  ComponentsOwned'
  BY <1>0, <1>5, InsertComponentOwned, OwnedReplace
<1>6. ASSUME NEW a \in ArchetypeIds, NEW e \in Entities, InsertEntity(a, e) \/ RemoveEntity(a, e)
      PROVE  ComponentsOwned'
  BY <1>3, <1>4, <1>6 DEF InsertEntity, RemoveEntity, Update, Becomes
<1>7. ASSUME NEW a \in ArchetypeIds, NEW c \in ComponentTypes, NEW e \in Entities,
             NEW v \in Components, PutComponent(a, c, e, v)
      PROVE  ComponentsOwned'
  BY <1>5, <1>7 DEF PutComponent, Update, Becomes
<1>8. ASSUME NEW a \in ArchetypeIds, NEW e \in Entities, NEW v \in Components,
              InsertComponent(a, e, v)
       PROVE  ComponentsOwned'
  BY <1>5, <1>8, ArchetypeConstants DEF InsertComponent, Update, Becomes
<1>9. ASSUME UNCHANGED archetypes PROVE ComponentsOwned'
  BY <1>9 DEF ComponentsOwned, Exists
<1>10. ASSUME NEW t \in Movers, NEW e \in Entities, NEW from \in ArchetypeIds,
             NEW to \in ArchetypeIds, MoveOut(t, e, from, to)
      PROVE  ComponentsOwned'
  <2>1. CASE Exists(from)
    BY <1>4, <1>10, <2>1 DEF MoveOut, Becomes
  <2> QED
    BY <1>9, <1>10, <2>1 DEF MoveOut
<1>11. ASSUME NEW t \in Movers, MoveIn(t) PROVE ComponentsOwned'
  <2>1. move[t].entity \in Entities /\ move[t].to \in ArchetypeIds
    BY <1>11 DEF MoveIn, Kept, ArchetypeTypeOK, Moves
  <2>2. CASE Exists(move[t].to)
    BY <1>3, <1>11, <2>1, <2>2 DEF MoveIn, Becomes
  <2> QED
    BY <1>9, <1>11, <2>2 DEF MoveIn
<1>12. ASSUME NEW t \in Movers, MoveLocate(t) PROVE ComponentsOwned'
  BY <1>9, <1>12 DEF MoveLocate
<1>13. CASE UNCHANGED archetypeVars
  BY <1>9, <1>13 DEF archetypeVars
<1> QED
  BY <1>1, <1>2, <1>6, <1>7, <1>8, <1>10, <1>11, <1>12, <1>13 DEF ArchetypeNext

(* An archetype lists an entity once, and stores components of those it    *)
(* lists only: what is removed is gone from every storage.                 *)
THEOREM Ownership == ArchetypeSpec => []ComponentsOwned
<1>1. ArchetypeInit => ComponentsOwned
  BY DEF ArchetypeInit, ComponentsOwned, Exists
<1>2. Kept /\ ComponentsOwned /\ [ArchetypeNext]_archetypeVars => (Kept /\ ComponentsOwned)'
  BY Steps, OwnedSteps
<1> QED
  BY <1>1, <1>2, Starts, PTL DEF ArchetypeSpec
=============================================================================
