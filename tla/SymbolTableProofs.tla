------------------------- MODULE SymbolTableProofs -------------------------
(* Proofs about SymbolTable, for any threads, any keys and any bound.      *)
EXTENDS SymbolTable, FiniteSetTheorems, TLAPS

USE DEF INVALID, Ids

(* Every variable keeps its type.                                          *)
THEOREM Typing == SymbolSpec => []SymbolTypeOK
<1>1. SymbolInit => SymbolTypeOK
  BY SymbolConstants DEF SymbolInit, SymbolTypeOK
<1>2. SymbolTypeOK /\ [SymbolNext]_symbolVars => SymbolTypeOK'
  <2> SUFFICES ASSUME SymbolTypeOK, [SymbolNext]_symbolVars PROVE SymbolTypeOK'
    OBVIOUS
  <2> USE SymbolConstants DEF SymbolTypeOK
  <2>1. ASSUME NEW t \in Threads, NEW k \in Keys, Hit(t, k) PROVE SymbolTypeOK'
    BY <2>1 DEF Hit
  <2>2. ASSUME NEW t \in Threads, NEW k \in Keys, Miss(t, k) PROVE SymbolTypeOK'
    BY <2>2 DEF Miss
  <2>3. ASSUME NEW t \in Threads, Allocate(t) PROVE SymbolTypeOK'
    BY <2>3 DEF Allocate
  <2>4. ASSUME NEW t \in Threads, Store(t) PROVE SymbolTypeOK'
    BY <2>4 DEF Store
  <2>5. ASSUME NEW t \in Threads, Bind(t) PROVE SymbolTypeOK'
    BY <2>5 DEF Bind
  <2>6. CASE UNCHANGED symbolVars
    BY <2>6 DEF symbolVars
  <2> QED
    BY <2>1, <2>2, <2>3, <2>4, <2>5, <2>6 DEF SymbolNext
<1> QED
  BY <1>1, <1>2, PTL DEF SymbolSpec

-----------------------------------------------------------------------------
(* The inductive invariant: one lemma for each action.                     *)

(* A new table, in which only the empty name is interned, satisfies it.    *)
LEMMA InvInit == SymbolInit => Inv
  BY SymbolConstants DEF SymbolInit, Inv, IdsAhead, EmptyKeyFirst, OneCreator, Holding,
     UnboundIsPending, NotYetMade, OncePerThread

(* The fast path only records a result.                                    *)
LEMMA HitInv ==
  ASSUME SymbolTypeOK, Inv, NEW t \in Threads, NEW k \in Keys, Hit(t, k)
  PROVE  Inv'
  BY DEF Hit, Inv, IdsAhead, EmptyKeyFirst, OneCreator, Holding, UnboundIsPending,
     NotYetMade, OncePerThread

(* A thread whose lookup fails has made no id for that key before, or it   *)
(* would have bound it.                                                    *)
LEMMA MissInv ==
  ASSUME SymbolTypeOK, Inv, NEW t \in Threads, NEW k \in Keys, Miss(t, k)
  PROVE  Inv'
<1> USE SymbolConstants DEF SymbolTypeOK, Miss, Inv
<1>1. IdsAhead' /\ OneCreator' /\ OncePerThread'
  BY DEF IdsAhead, OneCreator, OncePerThread
<1>2. EmptyKeyFirst'
  BY DEF EmptyKeyFirst
<1>3. Holding'
  BY DEF Holding
<1>4. UnboundIsPending'
  BY DEF UnboundIsPending
<1>5. NotYetMade'
  <2> SUFFICES ASSUME NEW u \in Threads, pc'[u] \in {"allocate", "store"},
                      NEW i \in Ids, u \in creator[i]
               PROVE  symbols[i] # key'[u]
    BY DEF NotYetMade
  <2>1. CASE u = t
    BY <2>1, SMTT(30) DEF UnboundIsPending
  <2>2. CASE u # t
    BY <2>2 DEF NotYetMade
  <2> QED
    BY <2>1, <2>2
<1> QED
  BY <1>1, <1>2, <1>3, <1>4, <1>5

(* The id that fetch_add returns has never been used.                      *)
LEMMA AllocateInv ==
  ASSUME SymbolTypeOK, Inv, NEW t \in Threads, Allocate(t)
  PROVE  Inv'
<1> USE SymbolConstants DEF SymbolTypeOK, Allocate, Inv
<1>0. counter \in Ids /\ symbols[counter] = NoKey /\ creator[counter] = {}
  BY DEF IdsAhead
<1>1. IdsAhead'
  BY <1>0 DEF IdsAhead
<1>2. EmptyKeyFirst'
  BY <1>0 DEF EmptyKeyFirst
<1>3. OneCreator'
  BY <1>0 DEF OneCreator
<1>4. Holding'
  BY <1>0 DEF Holding
<1>5. UnboundIsPending'
  BY <1>0 DEF UnboundIsPending
<1>6. NotYetMade'
  BY <1>0 DEF NotYetMade
<1>7. OncePerThread'
  BY <1>0 DEF OncePerThread
<1> QED
  BY <1>1, <1>2, <1>3, <1>4, <1>5, <1>6, <1>7

(* The entry a thread stores is its own and still empty.                   *)
LEMMA StoreInv ==
  ASSUME SymbolTypeOK, Inv, NEW t \in Threads, Store(t)
  PROVE  Inv'
<1> USE SymbolConstants DEF SymbolTypeOK, Store, Inv
<1>0. /\ id[t] \in Ids /\ t \in creator[id[t]] /\ symbols[id[t]] = NoKey
      /\ id[t] # 1 /\ key[t] # EmptyKey /\ key[t] # NoKey /\ id[t] < counter
  BY DEF Holding, EmptyKeyFirst, IdsAhead
<1>1. IdsAhead'
  BY <1>0 DEF IdsAhead
<1>2. EmptyKeyFirst'
  BY <1>0 DEF EmptyKeyFirst
<1>3. OneCreator'
  BY <1>0 DEF OneCreator
<1>4. Holding'
  BY <1>0 DEF Holding, OneCreator
<1>5. UnboundIsPending'
  BY <1>0 DEF UnboundIsPending, OneCreator
<1>6. NotYetMade'
  BY <1>0 DEF NotYetMade, OneCreator
<1>7. OncePerThread'
  BY <1>0 DEF OncePerThread, OneCreator, NotYetMade
<1> QED
  BY <1>1, <1>2, <1>3, <1>4, <1>5, <1>6, <1>7

(* Binding a name takes no binding away.                                   *)
LEMMA BindInv ==
  ASSUME SymbolTypeOK, Inv, NEW t \in Threads, Bind(t)
  PROVE  Inv'
<1> USE SymbolConstants DEF SymbolTypeOK, Bind, Inv
<1>0. id[t] \in Ids /\ t \in creator[id[t]] /\ symbols[id[t]] = key[t]
  BY DEF Holding
<1>1. IdsAhead' /\ OneCreator' /\ OncePerThread'
  BY DEF IdsAhead, OneCreator, OncePerThread
<1>2. EmptyKeyFirst'
  BY DEF EmptyKeyFirst
<1>3. Holding'
  BY DEF Holding
<1>4. UnboundIsPending'
  BY <1>0 DEF UnboundIsPending
<1>5. NotYetMade'
  BY DEF NotYetMade
<1> QED
  BY <1>1, <1>2, <1>3, <1>4, <1>5

(* A stuttering step keeps the invariant.                                  *)
LEMMA InvStuttering ==
  ASSUME Inv, UNCHANGED symbolVars
  PROVE  Inv'
  BY DEF symbolVars, Inv, IdsAhead, EmptyKeyFirst, OneCreator, Holding, UnboundIsPending,
     NotYetMade, OncePerThread

(* The inductive invariant holds in every reachable state.                 *)
THEOREM Invariance == SymbolSpec => []Inv
<1>1. SymbolTypeOK /\ Inv /\ [SymbolNext]_symbolVars => Inv'
  BY HitInv, MissInv, AllocateInv, StoreInv, BindInv, InvStuttering DEF SymbolNext
<1> QED
  BY InvInit, Typing, <1>1, PTL DEF SymbolSpec
-----------------------------------------------------------------------------
(* A bound name and a returned id resolve to the key they were made for.   *)
THEOREM Resolution == SymbolSpec => []IdsResolve
<1>1. SymbolInit => IdsResolve
  BY SymbolConstants DEF SymbolInit, IdsResolve
<1>2. SymbolTypeOK /\ Inv /\ IdsResolve /\ [SymbolNext]_symbolVars => IdsResolve'
  <2> SUFFICES ASSUME SymbolTypeOK, Inv, IdsResolve, [SymbolNext]_symbolVars PROVE IdsResolve'
    OBVIOUS
  <2> USE SymbolConstants DEF SymbolTypeOK, IdsResolve
  <2>1. ASSUME NEW t \in Threads, NEW k \in Keys, Hit(t, k) PROVE IdsResolve'
    BY <2>1 DEF Hit
  <2>2. ASSUME NEW t \in Threads, NEW k \in Keys, Miss(t, k) PROVE IdsResolve'
    BY <2>2 DEF Miss
  <2>3. ASSUME NEW t \in Threads, Allocate(t) PROVE IdsResolve'
    BY <2>3 DEF Allocate
  <2>4. ASSUME NEW t \in Threads, Store(t) PROVE IdsResolve'
    <3>1. symbols[id[t]] = NoKey
      BY <2>4 DEF Store, Inv, Holding
    <3> QED
      BY <2>4, <3>1 DEF Store
  <2>5. ASSUME NEW t \in Threads, Bind(t) PROVE IdsResolve'
    <3>1. symbols[id[t]] = key[t]
      BY <2>5 DEF Bind, Inv, Holding
    <3> QED
      BY <2>5, <3>1 DEF Bind
  <2>6. CASE UNCHANGED symbolVars
    BY <2>6 DEF symbolVars
  <2> QED
    BY <2>1, <2>2, <2>3, <2>4, <2>5, <2>6 DEF SymbolNext
<1> QED
  BY <1>1, <1>2, Typing, Invariance, PTL DEF SymbolSpec

(* Below the counter every id is stored or about to be.                    *)
THEOREM Density == SymbolSpec => []NoLostId
<1>1. SymbolInit => NoLostId
  BY SymbolConstants DEF SymbolInit, NoLostId
<1>2. SymbolTypeOK /\ NoLostId /\ [SymbolNext]_symbolVars => NoLostId'
  <2> SUFFICES ASSUME SymbolTypeOK, NoLostId, [SymbolNext]_symbolVars PROVE NoLostId'
    OBVIOUS
  <2> USE SymbolConstants DEF SymbolTypeOK, NoLostId
  <2>1. ASSUME NEW t \in Threads, NEW k \in Keys, Hit(t, k) PROVE NoLostId'
    BY <2>1 DEF Hit
  <2>2. ASSUME NEW t \in Threads, NEW k \in Keys, Miss(t, k) PROVE NoLostId'
    BY <2>2 DEF Miss
  <2>3. ASSUME NEW t \in Threads, Allocate(t) PROVE NoLostId'
    <3> SUFFICES ASSUME NEW i \in Ids, i < counter'
                 PROVE  \/ symbols'[i] # NoKey
                        \/ \E u \in Threads : pc'[u] = "store" /\ id'[u] = i
      OBVIOUS
    <3>1. CASE i = counter
      BY <2>3, <3>1 DEF Allocate
    <3>2. CASE i < counter
      BY <2>3, <3>2 DEF Allocate
    <3> QED
      BY <2>3, <3>1, <3>2 DEF Allocate
  <2>4. ASSUME NEW t \in Threads, Store(t) PROVE NoLostId'
    BY <2>4 DEF Store
  <2>5. ASSUME NEW t \in Threads, Bind(t) PROVE NoLostId'
    BY <2>5 DEF Bind
  <2>6. CASE UNCHANGED symbolVars
    BY <2>6 DEF symbolVars
  <2> QED
    BY <2>1, <2>2, <2>3, <2>4, <2>5, <2>6 DEF SymbolNext
<1> QED
  BY <1>1, <1>2, Typing, PTL DEF SymbolSpec

(* No step overwrites a stored symbol.                                     *)
THEOREM Immutability == SymbolSpec => SymbolsImmutable
<1>1. SymbolTypeOK /\ Inv /\ [SymbolNext]_symbolVars =>
        [\A i \in Ids : symbols[i] # NoKey => symbols'[i] = symbols[i]]_symbolVars
  <2> SUFFICES ASSUME SymbolTypeOK, Inv, SymbolNext, NEW i \in Ids, symbols[i] # NoKey
               PROVE  symbols'[i] = symbols[i]
    BY DEF symbolVars
  <2>1. ASSUME NEW t \in Threads, Store(t) PROVE symbols'[i] = symbols[i]
    BY <2>1 DEF Store, SymbolTypeOK, Inv, Holding
  <2> QED
    BY <2>1 DEF SymbolNext, Hit, Miss, Allocate, Bind
<1> QED
  BY <1>1, Typing, Invariance, PTL DEF SymbolSpec, SymbolsImmutable

(* A key has at most one id for each thread, by the map from its ids to    *)
(* the threads that took them; the empty name has one id.                  *)
THEOREM BoundedDuplicates == SymbolSpec => []DuplicatesBounded
<1>1. SymbolTypeOK /\ Inv => DuplicatesBounded
  <2> SUFFICES ASSUME SymbolTypeOK, Inv PROVE DuplicatesBounded
    OBVIOUS
  <2>1. IdsOf(EmptyKey) = {1}
    BY SymbolConstants DEF Inv, EmptyKeyFirst, IdsOf
  <2>2. ASSUME NEW k \in Keys PROVE Cardinality(IdsOf(k)) <= Cardinality(Threads)
    <3>1. CASE k = EmptyKey
      <4>1. Cardinality(IdsOf(k)) = 1
        BY <2>1, <3>1, FS_Singleton
      <4>2. Cardinality(Threads) \in Nat /\ Cardinality(Threads) # 0
        BY SymbolConstants, FS_CardinalityType, FS_EmptySet
      <4> QED
        BY <4>1, <4>2
    <3>2. CASE k # EmptyKey
      <4> DEFINE maker == [i \in IdsOf(k) |-> CHOOSE t \in Threads : t \in creator[i]]
      <4>1. ASSUME NEW i \in IdsOf(k) PROVE maker[i] \in Threads /\ maker[i] \in creator[i]
        <5>1. \E t \in Threads : t \in creator[i]
          BY <3>2, SymbolConstants DEF IdsOf, SymbolTypeOK, Inv, OneCreator, EmptyKeyFirst
        <5> QED
          BY <5>1
      <4>2. maker \in [IdsOf(k) -> Threads]
        BY <4>1
      <4>3. ASSUME NEW i \in IdsOf(k), NEW j \in IdsOf(k), maker[i] = maker[j] PROVE i = j
        BY <4>1, <4>3, SymbolConstants DEF IdsOf, Inv, OncePerThread
      <4>4. maker \in Injection(IdsOf(k), Threads)
        BY <4>2, <4>3 DEF Injection, IsInjective
      <4> HIDE DEF maker
      <4> QED
        BY <4>4, FS_Injection, SymbolConstants
    <3> QED
      BY <3>1, <3>2
  <2> QED
    BY <2>1, <2>2 DEF DuplicatesBounded
<1> QED
  BY <1>1, Typing, Invariance, PTL
=============================================================================
