-------------------------- MODULE QueryCacheProofs --------------------------
(* Proofs about QueryCache, for any threads, any finite set of keys, any   *)
(* size, time to live and bounds.                                          *)
EXTENDS QueryCache, FiniteSetTheorems, TLAPS

USE DEF calls, history, Inserting

(* The sizes of sets of keys.                                              *)
LEMMA KeySets ==
  ASSUME NEW S \in SUBSET Keys
  PROVE  /\ IsFiniteSet(S) /\ Cardinality(S) \in 0 .. Cardinality(Keys)
         /\ Cardinality(Keys) \in Nat
         /\ S # {} => Cardinality(S) # 0
         /\ \A k \in Keys :
              /\ Cardinality(S \cup {k}) = IF k \in S THEN Cardinality(S) ELSE Cardinality(S) + 1
              /\ Cardinality(S \ {k}) = IF k \in S THEN Cardinality(S) - 1 ELSE Cardinality(S)
<1>1. IsFiniteSet(S) /\ Cardinality(S) \in Nat /\ Cardinality(Keys) \in Nat
      /\ Cardinality(S) <= Cardinality(Keys)
  BY CacheConstants, FS_Subset, FS_CardinalityType
<1>2. S # {} => Cardinality(S) # 0
  BY <1>1, FS_EmptySet
<1> QED
  BY <1>1, <1>2, FS_AddElement, FS_RemoveElement

-----------------------------------------------------------------------------
(* Every variable keeps its type.                                          *)
THEOREM Typing == Spec => []TypeOK
<1> USE DEF TypeOK, Labels, Goto, Return, Present
<1>0. Cardinality(Keys) \in Nat /\ Size \in 0 .. Cardinality(Keys)
  BY KeySets DEF Size
<1>1. Init => TypeOK
  BY <1>0, CacheConstants DEF Init, Versions
<1>2. TypeOK /\ [Next]_vars => TypeOK'
  <2> SUFFICES ASSUME TypeOK, [Next]_vars PROVE TypeOK'
    OBVIOUS
  <2>a. ASSUME NEW t \in Threads, Disturb(t)
        PROVE  allowed' \in [Threads -> 0 .. Cardinality(Keys)]
    BY <1>0, <2>a DEF Disturb
  <2>b. ASSUME NEW K \in SUBSET Keys, NEW t \in Threads, Remove(t, K),
               UNCHANGED <<now, source>>
        PROVE  /\ store' \in [Keys -> Entry \cup {NoEntry}]
               /\ \A k \in Present' : /\ store'[k].created_at <= store'[k].last_accessed
                                      /\ store'[k].last_accessed <= now'
                                      /\ store'[k].value <= source'[k]
               /\ late' \subseteq Keys /\ allowed' \in [Threads -> 0 .. Cardinality(Keys)]
    BY <2>a, <2>b DEF Remove
  <2>c. ASSUME NEW K \in SUBSET Keys, Settle(K)
        PROVE  settled' \in [Keys -> Versions] /\ overtaken' \subseteq Threads
    BY <2>c DEF Settle
  <2>1. CASE Tick
    BY <2>1, CacheConstants DEF Tick, Entry
  <2>2. ASSUME NEW t \in Threads, NEW k \in Keys, Hit(t, k) PROVE TypeOK'
    <3>1. store[k] \in Entry /\ [store[k] EXCEPT !.last_accessed = now] \in Entry
      BY <2>2 DEF Hit, Entry
    <3>2. store' \in [Keys -> Entry \cup {NoEntry}]
      BY <2>2, <3>1 DEF Hit
    <3>3. \A j \in Keys \ {k} : store'[j] = store[j]
      BY <2>2 DEF Hit
    <3>4. /\ store'[k].created_at = store[k].created_at /\ store'[k].last_accessed = now
          /\ store'[k].value = store[k].value
      BY <2>2, <3>1 DEF Hit, Entry
    <3>5. \A j \in Keys : store'[j] # NoEntry =>
             /\ store'[j].created_at <= store'[j].last_accessed
             /\ store'[j].last_accessed <= now' /\ store'[j].value <= source'[j]
      <4>1. store[k].created_at <= now
        BY <2>2, CacheConstants DEF Hit, Entry
      <4>2. now \in Nat /\ now' = now /\ source' = source
        BY <2>2 DEF Hit
      <4> QED
        BY <2>2, <3>3, <3>4, <4>1, <4>2 DEF Hit
    <3> QED
      BY <2>2, <3>2, <3>5 DEF Hit
  <2>3. ASSUME NEW t \in Threads, NEW k \in Keys, Miss(t, k) PROVE TypeOK'
    BY <2>3 DEF Miss
  <2>4. ASSUME NEW t \in Threads, NEW k \in Keys, NEW method \in {"get", "get_or_insert"},
               FindExpired(t, k, method)
        PROVE  TypeOK'
    BY <2>4 DEF FindExpired
  <2>5. ASSUME NEW t \in Threads, DropExpired(t) PROVE TypeOK'
    <3>1. key[t] \in Keys /\ 0 \in Versions
      BY <2>5, CacheConstants DEF DropExpired, Versions
    <3>2. /\ store' \in [Keys -> Entry \cup {NoEntry}]
          /\ \A k \in Present' : /\ store'[k].created_at <= store'[k].last_accessed
                                 /\ store'[k].last_accessed <= now'
                                 /\ store'[k].value <= source'[k]
          /\ late' \subseteq Keys /\ allowed' \in [Threads -> 0 .. Cardinality(Keys)]
      BY <2>5, <2>b, <3>1 DEF DropExpired
    <3>3. CASE call[t] = "get"
      <4>1. /\ Return(t) /\ UNCHANGED <<now, source, settled, overtaken>>
        BY <2>5, <3>3 DEF DropExpired
      <4>2. /\ pc' \in [Threads -> Labels] /\ key' \in [Threads -> Keys \cup {NoKey}]
            /\ call' \in [Threads -> {"get", "get_or_insert", "insert"}]
            /\ value' \in [Threads -> Versions]
            /\ lru_key' \in [Threads -> Keys \cup {NoKey}]
            /\ to_remove' \in [Threads -> SUBSET Keys]
        BY <3>1, <4>1
      <4>3. /\ pc'[t] = "idle"
            /\ \A u \in Threads \ {t} : /\ pc'[u] = pc[u] /\ key'[u] = key[u]
                                        /\ value'[u] = value[u] /\ lru_key'[u] = lru_key[u]
        BY <4>1
      <4> QED
        BY <3>2, <4>1, <4>2, <4>3
    <3>4. CASE call[t] # "get"
      BY <2>5, <3>1, <3>2, <3>4 DEF DropExpired
    <3> QED
      BY <3>3, <3>4
  <2>6. ASSUME NEW t \in Threads, Compute(t) PROVE TypeOK'
    BY <2>6, CacheConstants DEF Compute, Versions
  <2>7. ASSUME NEW t \in Threads, NEW k \in Keys, Insert(t, k) PROVE TypeOK'
    BY <2>7, CacheConstants DEF Insert, Versions
  <2>8. ASSUME NEW t \in Threads, Check(t) PROVE TypeOK'
    BY <1>0, <2>8 DEF Check
  <2>9. ASSUME NEW t \in Threads, Choose(t) PROVE TypeOK'
    BY <2>9 DEF Choose, LeastRecent
  <2>10. ASSUME NEW t \in Threads, Evict(t) PROVE TypeOK'
    BY <2>10, <2>b DEF Evict
  <2>11. ASSUME NEW t \in Threads, Store(t) PROVE TypeOK'
    <3> DEFINE e == [value |-> value[t], created_at |-> now, last_accessed |-> now]
    <3>1. e \in Entry /\ key[t] \in Keys /\ 0 \in Versions
      BY <2>11, CacheConstants DEF Store, Entry, Versions
    <3>2. /\ store' \in [Keys -> Entry \cup {NoEntry}]
          /\ \A j \in Keys : store'[j] = IF j = key[t] THEN e ELSE store[j]
      BY <2>11, <3>1 DEF Store
    <3> QED
      BY <2>11, <2>a, <3>1, <3>2 DEF Store
  <2>12. ASSUME NEW t \in Threads, NEW k \in Keys, Invalidate(t, k) PROVE TypeOK'
    <3>1. /\ source' \in [Keys -> Versions]
          /\ \A j \in Keys : source[j] \in Nat /\ source[j] <= source'[j]
      BY <2>12, CacheConstants DEF Invalidate, Change, Versions
    <3>2. /\ \A j \in Present' : store'[j].value <= source'[j]
          /\ \A u \in Threads : pc'[u] \in Inserting => value'[u] <= source'[key'[u]]
      BY <2>12, <3>1, CacheConstants DEF Invalidate, Versions, Entry
    <3> QED
      BY <2>12, <3>1, <3>2 DEF Invalidate
  <2>13. ASSUME NEW t \in Threads, NEW K \in SUBSET Keys, InvalidateWhere(t, K) PROVE TypeOK'
    <3>1. /\ source' \in [Keys -> Versions]
          /\ \A j \in Keys : source[j] \in Nat /\ source[j] <= source'[j]
      BY <2>13, CacheConstants DEF InvalidateWhere, Change, Versions
    <3>2. /\ \A j \in Present' : store'[j].value <= source'[j]
          /\ \A u \in Threads : pc'[u] \in Inserting => value'[u] <= source'[key'[u]]
      BY <2>13, <3>1, CacheConstants DEF InvalidateWhere, Versions, Entry
    <3> QED
      BY <2>13, <3>1, <3>2 DEF InvalidateWhere
  <2>14. ASSUME NEW t \in Threads, Collect(t) PROVE TypeOK'
    BY <2>14, <2>c DEF Collect
  <2>15. ASSUME NEW t \in Threads, RemoveKey(t) PROVE TypeOK'
    <3>1. PICK k \in to_remove[t] :
            /\ Remove(t, {k}) /\ Settle({k})
            /\ to_remove' = [to_remove EXCEPT ![t] = @ \ {k}]
            /\ Goto(t, IF to_remove[t] = {k} THEN "idle" ELSE "remove")
      BY <2>15 DEF RemoveKey
    <3>2. {k} \in SUBSET Keys
      OBVIOUS
    <3>3. /\ store' \in [Keys -> Entry \cup {NoEntry}]
          /\ \A j \in Present' : /\ store'[j].created_at <= store'[j].last_accessed
                                 /\ store'[j].last_accessed <= now'
                                 /\ store'[j].value <= source'[j]
          /\ late' \subseteq Keys /\ allowed' \in [Threads -> 0 .. Cardinality(Keys)]
          /\ settled' \in [Keys -> Versions] /\ overtaken' \subseteq Threads
      BY <2>15, <2>b, <2>c, <3>1, <3>2 DEF RemoveKey
    <3> QED
      BY <2>15, <3>1, <3>3 DEF RemoveKey
  <2>16. ASSUME NEW t \in Threads, Clear(t) PROVE TypeOK'
    BY <2>16, <2>b DEF Clear
  <2>17. CASE UNCHANGED vars
    BY <2>17 DEF vars
  <2> QED
    BY <2>1, <2>2, <2>3, <2>4, <2>5, <2>6, <2>7, <2>8, <2>9, <2>10, <2>11, <2>12,
       <2>13, <2>14, <2>15, <2>16, <2>17 DEF Next
<1> QED
  BY <1>1, <1>2, PTL DEF Spec

-----------------------------------------------------------------------------
(* A value older than an invalidation was stored by a call that the        *)
(* invalidation overtook.                                                  *)
THEOREM Staleness == Spec => []StaleOnlyByRace
<1> DEFINE Inv == OvertakenKnown /\ StaleOnlyByRace
<1> USE DEF OvertakenKnown, StaleOnlyByRace, TypeOK, Labels, Goto, Return, Present
<1>1. Init => Inv
  BY DEF Init
<1>2. TypeOK /\ Inv /\ [Next]_vars => Inv'
  <2> SUFFICES ASSUME TypeOK, Inv, [Next]_vars PROVE Inv'
    OBVIOUS
  <2>0. \A k \in Keys : source[k] \in Nat /\ settled[k] \in Nat
    BY CacheConstants DEF Versions
  <2>a. \A t \in Threads : value[t] \in Nat
    BY CacheConstants DEF Versions
  <2>1. CASE Tick
    BY <2>1 DEF Tick
  <2>2. ASSUME NEW t \in Threads, NEW k \in Keys, Hit(t, k) PROVE Inv'
    <3>1. \A j \in Keys : store'[j] = IF j = k THEN [store[k] EXCEPT !.last_accessed = now]
                                               ELSE store[j]
      BY <2>2 DEF Hit
    <3>2. store'[k].value = store[k].value
      BY <2>2, <3>1 DEF Hit, Entry
    <3> QED
      BY <2>2, <3>1, <3>2 DEF Hit
  <2>3. ASSUME NEW t \in Threads, NEW k \in Keys, Miss(t, k) PROVE Inv'
    BY <2>3 DEF Miss
  <2>4. ASSUME NEW t \in Threads, NEW k \in Keys, NEW method \in {"get", "get_or_insert"},
               FindExpired(t, k, method)
        PROVE  Inv'
    BY <2>4 DEF FindExpired
  <2>5. ASSUME NEW t \in Threads, DropExpired(t) PROVE Inv'
    <3>1. CASE call[t] = "get"
      BY <2>5, <3>1 DEF DropExpired, Remove
    <3>2. CASE call[t] # "get"
      BY <2>5, <3>2 DEF DropExpired, Remove
    <3> QED
      BY <3>1, <3>2
  <2>6. ASSUME NEW t \in Threads, Compute(t) PROVE Inv'
    BY <2>0, <2>6 DEF Compute
  <2>7. ASSUME NEW t \in Threads, NEW k \in Keys, Insert(t, k) PROVE Inv'
    BY <2>0, <2>7 DEF Insert
  <2>8. ASSUME NEW t \in Threads, Check(t) PROVE Inv'
    BY <2>8 DEF Check
  <2>9. ASSUME NEW t \in Threads, Choose(t) PROVE Inv'
    BY <2>9 DEF Choose
  <2>10. ASSUME NEW t \in Threads, Evict(t) PROVE Inv'
    BY <2>10 DEF Evict, Remove
  <2>11. ASSUME NEW t \in Threads, Store(t) PROVE Inv'
    <3> DEFINE e == [value |-> value[t], created_at |-> now, last_accessed |-> now]
    <3>1. \A j \in Keys : store'[j] = IF j = key[t] THEN e ELSE store[j]
      BY <2>11 DEF Store
    <3>2. e.value < settled[key[t]] => t \in overtaken
      BY <2>11 DEF Store
    <3> HIDE DEF e
    <3> QED
      BY <2>11, <3>1, <3>2 DEF Store
  <2>12. ASSUME NEW t \in Threads, NEW k \in Keys, Invalidate(t, k) PROVE Inv'
    BY <2>0, <2>12 DEF Invalidate, Change
  <2>13. ASSUME NEW t \in Threads, NEW K \in SUBSET Keys, InvalidateWhere(t, K) PROVE Inv'
    BY <2>0, <2>13 DEF InvalidateWhere, Change
  <2>14. ASSUME NEW t \in Threads, Collect(t) PROVE Inv'
    BY <2>0, <2>a, <2>14 DEF Collect, Settle
  <2>15. ASSUME NEW t \in Threads, RemoveKey(t) PROVE Inv'
    <3>1. PICK k \in to_remove[t] :
            /\ Remove(t, {k}) /\ Settle({k})
            /\ Goto(t, IF to_remove[t] = {k} THEN "idle" ELSE "remove")
      BY <2>15 DEF RemoveKey
    <3> QED
      BY <2>0, <2>a, <2>15, <3>1 DEF RemoveKey, Remove, Settle
  <2>16. ASSUME NEW t \in Threads, Clear(t) PROVE Inv'
    BY <2>16 DEF Clear, Remove
  <2>17. CASE UNCHANGED vars
    BY <2>17 DEF vars
  <2> QED
    BY <2>1, <2>2, <2>3, <2>4, <2>5, <2>6, <2>7, <2>8, <2>9, <2>10, <2>11, <2>12,
       <2>13, <2>14, <2>15, <2>16, <2>17 DEF Next
<1> QED
  BY <1>1, <1>2, Typing, PTL DEF Spec

-----------------------------------------------------------------------------
(* An insert that nobody disturbs adds nothing beyond max_size.            *)
THEOREM SoloInsert == Spec => SoloInsertBounded
<1> USE DEF TypeOK, Labels, Goto, Return
<1>1. Init => RoomMade
  BY DEF Init, RoomMade
<1>2. TypeOK /\ RoomMade /\ [Next]_vars => RoomMade'
  <2> SUFFICES ASSUME TypeOK, RoomMade, [Next]_vars PROVE RoomMade'
    OBVIOUS
  <2>0. /\ Size \in 0 .. Cardinality(Keys) /\ Cardinality(Keys) \in Nat
        /\ Present \in SUBSET Keys /\ MaxSize \in Nat
    BY KeySets, CacheConstants DEF Size, Present
  <2>a. ASSUME NEW t \in Threads, Disturb(t), pc'[t] \notin Inserting \ {"check"},
               \A u \in Threads \ {t} : pc'[u] = pc[u]
        PROVE  RoomMade'
    BY <2>0, <2>a DEF Disturb, RoomMade
  <2>b. ASSUME Present' = Present, NEW t \in Threads, pc'[t] \notin Inserting \ {"check"},
               UNCHANGED allowed,
               \A u \in Threads \ {t} : pc'[u] = pc[u] /\ lru_key'[u] = lru_key[u]
        PROVE  RoomMade'
    BY <2>b DEF RoomMade, Size
  <2>c. ASSUME Present' = Present, UNCHANGED <<pc, lru_key, allowed>> PROVE RoomMade'
    BY <2>c DEF RoomMade, Size
  <2>1. CASE Tick
    BY <2>1, <2>c DEF Tick, Present
  <2>2. ASSUME NEW t \in Threads, NEW k \in Keys, Hit(t, k) PROVE RoomMade'
    <3>1. store[k] \in Entry /\ [store[k] EXCEPT !.last_accessed = now] \in Entry
      BY <2>2 DEF Hit, Entry, Present
    <3>2. Present' = Present
      BY <2>2, <3>1, NoEntryIsNone DEF Hit, Present
    <3> QED
      BY <2>2, <2>c, <3>2 DEF Hit
  <2>3. ASSUME NEW t \in Threads, NEW k \in Keys, Miss(t, k) PROVE RoomMade'
    BY <2>3, <2>b DEF Miss, Present
  <2>4. ASSUME NEW t \in Threads, NEW k \in Keys, NEW method \in {"get", "get_or_insert"},
               FindExpired(t, k, method)
        PROVE  RoomMade'
    BY <2>4, <2>b DEF FindExpired, Present
  <2>5. ASSUME NEW t \in Threads, DropExpired(t) PROVE RoomMade'
    <3>1. Disturb(t) /\ pc' \in {[pc EXCEPT ![t] = "idle"], [pc EXCEPT ![t] = "compute"]}
      BY <2>5 DEF DropExpired, Remove
    <3> QED
      BY <2>a, <3>1
  <2>6. ASSUME NEW t \in Threads, Compute(t) PROVE RoomMade'
    BY <2>6, <2>b DEF Compute, Present
  <2>7. ASSUME NEW t \in Threads, NEW k \in Keys, Insert(t, k) PROVE RoomMade'
    BY <2>7, <2>b DEF Insert, Present
  <2>8. ASSUME NEW t \in Threads, Check(t) PROVE RoomMade'
    <3>1. Size' = Size /\ Present' = Present
      BY <2>8 DEF Check, Size, Present
    <3> QED
      BY <2>0, <2>8, <3>1 DEF Check, RoomMade
  <2>9. ASSUME NEW t \in Threads, Choose(t) PROVE RoomMade'
    <3>1. Size' = Size /\ Present' = Present /\ UNCHANGED allowed
      BY <2>9 DEF Choose, Size, Present
    <3>2. CASE Present = {} /\ Goto(t, "store") /\ UNCHANGED lru_key
      <4>1. Size = 0
        BY <3>2, FS_EmptySet DEF Size
      <4> QED
        BY <3>1, <3>2, <4>1 DEF RoomMade
    <3>3. CASE \E k \in LeastRecent : Goto(t, "evict") /\ lru_key' = [lru_key EXCEPT ![t] = k]
      BY <2>0, <2>9, <3>1, <3>3 DEF Choose, RoomMade, LeastRecent
    <3> QED
      BY <2>9, <3>2, <3>3 DEF Choose
  <2>10. ASSUME NEW t \in Threads, Evict(t) PROVE RoomMade'
    <3>1. /\ Disturb(t) /\ pc[t] = "evict" /\ pc' = [pc EXCEPT ![t] = "store"]
          /\ Present' = Present \ {lru_key[t]} /\ lru_key[t] \in Keys
      BY <2>10 DEF Evict, Remove, Present
    <3>2. allowed'[t] = allowed[t]
      BY <3>1 DEF Disturb
    <3>3. allowed[t] = Cardinality(Keys) \/ Size' < allowed[t]
      <4>1. lru_key[t] \in Present => Size' = Size - 1
        BY <2>0, <3>1, KeySets DEF Size
      <4> QED
        BY <2>0, <3>1, <4>1 DEF RoomMade
    <3>4. ASSUME NEW u \in Threads, u # t, pc'[u] \in Inserting \ {"check"}
          PROVE  allowed'[u] = Cardinality(Keys)
      BY <3>1, <3>4 DEF Disturb
    <3> QED
      BY <3>1, <3>2, <3>3, <3>4 DEF RoomMade
  <2>11. ASSUME NEW t \in Threads, Store(t) PROVE RoomMade'
    BY <2>11, <2>a DEF Store
  <2>12. ASSUME NEW t \in Threads, NEW k \in Keys, Invalidate(t, k) PROVE RoomMade'
    BY <2>12, <2>b DEF Invalidate, Present
  <2>13. ASSUME NEW t \in Threads, NEW K \in SUBSET Keys, InvalidateWhere(t, K) PROVE RoomMade'
    BY <2>13, <2>b DEF InvalidateWhere, Present
  <2>14. ASSUME NEW t \in Threads, Collect(t) PROVE RoomMade'
    BY <2>14, <2>b DEF Collect, Present
  <2>15. ASSUME NEW t \in Threads, RemoveKey(t) PROVE RoomMade'
    BY <2>15, <2>a DEF RemoveKey, Remove
  <2>16. ASSUME NEW t \in Threads, Clear(t) PROVE RoomMade'
    BY <2>16, <2>a DEF Clear, Remove
  <2>17. CASE UNCHANGED vars
    BY <2>17, <2>c DEF vars, Present
  <2> QED
    BY <2>1, <2>2, <2>3, <2>4, <2>5, <2>6, <2>7, <2>8, <2>9, <2>10, <2>11, <2>12,
       <2>13, <2>14, <2>15, <2>16, <2>17 DEF Next
<1>3. TypeOK /\ RoomMade /\ [Next]_vars =>
        [\A t \in Threads : pc[t] = "store" /\ pc'[t] = "idle" =>
            \/ Cardinality(Present') <= MaxSize
            \/ Cardinality(Present') <= allowed[t]
            \/ Cardinality(Present') = 1]_vars
  <2> SUFFICES ASSUME TypeOK, RoomMade, Next, NEW t \in Threads,
                      pc[t] = "store", pc'[t] = "idle"
               PROVE  \/ Cardinality(Present') <= MaxSize
                      \/ Cardinality(Present') <= allowed[t]
                      \/ Cardinality(Present') = 1
    OBVIOUS
  <2>1. Store(t)
    <3>1. ~ Tick
      BY DEF Tick
    <3>2. ASSUME NEW u \in Threads, NEW k \in Keys
          PROVE  /\ ~ Hit(u, k) /\ ~ Miss(u, k) /\ ~ Insert(u, k) /\ ~ Invalidate(u, k)
                 /\ \A method : ~ FindExpired(u, k, method)
      BY DEF Hit, Miss, Insert, Invalidate, FindExpired
    <3>3. ASSUME NEW u \in Threads
          PROVE  /\ \A K : ~ InvalidateWhere(u, K)
                 /\ ~ Compute(u) /\ ~ Check(u) /\ ~ Choose(u) /\ ~ Evict(u) /\ ~ Clear(u)
      BY DEF InvalidateWhere, Compute, Check, Choose, Evict, Clear
    <3>4. ASSUME NEW u \in Threads
          PROVE  ~ DropExpired(u) /\ ~ Collect(u) /\ ~ RemoveKey(u)
      BY DEF DropExpired, Collect, RemoveKey
    <3>5. ASSUME NEW u \in Threads, u # t PROVE ~ Store(u)
      BY <3>5 DEF Store
    <3> QED
      BY <3>1, <3>2, <3>3, <3>4, <3>5, Zenon DEF Next
  <2>2. Present' = Present \cup {key[t]} /\ key[t] \in Keys
    <3> DEFINE e == [value |-> value[t], created_at |-> now, last_accessed |-> now]
    <3>1. e \in Entry /\ key[t] \in Keys
      BY DEF Entry
    <3>2. \A j \in Keys : store'[j] = IF j = key[t] THEN e ELSE store[j]
      BY <2>1, <3>1 DEF Store
    <3> HIDE DEF e
    <3> QED
      BY <3>1, <3>2, NoEntryIsNone DEF Present
  <2>3. /\ Present \in SUBSET Keys /\ Present' \in SUBSET Keys
        /\ Size \in 0 .. Cardinality(Keys) /\ Cardinality(Keys) \in Nat /\ MaxSize \in Nat
    BY KeySets, CacheConstants DEF Present, Size
  <2>4. /\ Cardinality(Present') <= Size + 1 /\ Cardinality(Present') \in 0 .. Cardinality(Keys)
    <3>1. Cardinality(Present \cup {key[t]}) \in {Cardinality(Present), Cardinality(Present) + 1}
      BY <2>2, <2>3, KeySets
    <3>2. Cardinality(Present') \in 0 .. Cardinality(Keys)
      BY <2>3, KeySets
    <3> QED
      BY <2>2, <2>3, <3>1, <3>2 DEF Size
  <2>5. allowed[t] \in 0 .. Cardinality(Keys)
    OBVIOUS
  <2>6. allowed[t] = Cardinality(Keys) \/ Size < MaxSize \/ Size < allowed[t] \/ Size = 0
    BY DEF RoomMade
  <2>7. Present' # {} /\ Cardinality(Present') # 0
    BY <2>2, <2>3, KeySets
  <2> QED
    BY <2>3, <2>4, <2>5, <2>6, <2>7
<1> QED
  BY <1>1, <1>2, <1>3, Typing, PTL DEF Spec, SoloInsertBounded
=============================================================================
