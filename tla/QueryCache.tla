----------------------------- MODULE QueryCache -----------------------------
(***************************************************************************)
(* QueryCache of query/cache.rs: a sharded map of entries with the time    *)
(* they were made and last used, bounded by evicting the least recently    *)
(* used one.  Each operation on the map is a step, and so are the length   *)
(* and each pass of an iterator, which the code takes shard by shard.  A   *)
(* value is the version of what it was computed from: a caller changes the *)
(* source and then invalidates.  The hit and miss counters are left out.   *)
(***************************************************************************)
EXTENDS Naturals, FiniteSets

CONSTANTS
    Threads, Keys,
    MaxSize,        \* max_size
    TTL,            \* default_ttl
    NoEntry, NoKey,
    MaxNow,         \* bound: how far the clock goes
    MaxVersion      \* bound: the versions of each source

ASSUME CacheConstants ==
    /\ MaxSize \in Nat /\ TTL \in Nat /\ MaxNow \in Nat /\ MaxVersion \in Nat
    /\ NoKey \notin Keys
    /\ IsFiniteSet(Keys)

Versions == 0 .. MaxVersion
Entry == [value : Versions, created_at : 0 .. MaxNow, last_accessed : 0 .. MaxNow]

ASSUME NoEntryIsNone == NoEntry \notin Entry

VARIABLES
    store,          \* key |-> its entry, or NoEntry
    now,            \* Instant::now()
    source,         \* key |-> the version of what its value is computed from
    pc,
    call,           \* which method: "get", "get_or_insert" or "insert"
    key, value,     \* what is looked up and inserted
    lru_key,        \* the entry chosen for eviction
    to_remove,      \* the keys invalidate and invalidate_where have to remove
    \* History:
    settled,        \* key |-> the version invalidated up to
    overtaken,      \* threads whose value was invalidated before they stored it
    late,           \* keys whose entry such a thread stored
    allowed         \* thread |-> the size its insert saw, until the map changes under it

calls == <<pc, call, key, value, lru_key, to_remove>>
history == <<settled, overtaken, late, allowed>>
vars == <<store, now, source, calls, history>>

Inserting == {"check", "choose", "evict", "store"}
Labels == {"idle", "drop_expired", "compute", "collect", "remove"} \cup Inserting

Present == {k \in Keys : store[k] # NoEntry}
Size == Cardinality(Present)
is_expired(e) == now - e.created_at > TTL

TypeOK ==
    /\ store \in [Keys -> Entry \cup {NoEntry}]
    /\ \A k \in Present : /\ store[k].created_at <= store[k].last_accessed
                          /\ store[k].last_accessed <= now
                          /\ store[k].value <= source[k]
    /\ now \in 0 .. MaxNow
    /\ source \in [Keys -> Versions]
    /\ pc \in [Threads -> Labels]
    /\ call \in [Threads -> {"get", "get_or_insert", "insert"}]
    /\ key \in [Threads -> Keys \cup {NoKey}]
    /\ value \in [Threads -> Versions]
    /\ lru_key \in [Threads -> Keys \cup {NoKey}]
    /\ to_remove \in [Threads -> SUBSET Keys]
    /\ settled \in [Keys -> Versions]
    /\ overtaken \subseteq Threads /\ late \subseteq Keys
    /\ allowed \in [Threads -> 0 .. Cardinality(Keys)]
    /\ \A t \in Threads :
          /\ pc[t] \in Inserting \cup {"drop_expired", "compute"} => key[t] \in Keys
          /\ pc[t] = "evict" => lru_key[t] \in Keys
          /\ pc[t] \in Inserting => value[t] <= source[key[t]]

Init ==
    /\ store = [k \in Keys |-> NoEntry]
    /\ now = 0
    /\ source = [k \in Keys |-> 0]
    /\ pc = [t \in Threads |-> "idle"]
    /\ call = [t \in Threads |-> "get"]
    /\ key = [t \in Threads |-> NoKey]
    /\ value = [t \in Threads |-> 0]
    /\ lru_key = [t \in Threads |-> NoKey]
    /\ to_remove = [t \in Threads |-> {}]
    /\ settled = [k \in Keys |-> 0]
    /\ overtaken = {} /\ late = {}
    /\ allowed = [t \in Threads |-> 0]

-----------------------------------------------------------------------------
Goto(t, label) == pc' = [pc EXCEPT ![t] = label]

\* The call is over and its locals are gone.
Return(t) ==
    /\ Goto(t, "idle")
    /\ call' = [call EXCEPT ![t] = "get"]
    /\ key' = [key EXCEPT ![t] = NoKey]
    /\ value' = [value EXCEPT ![t] = 0]
    /\ lru_key' = [lru_key EXCEPT ![t] = NoKey]
    /\ UNCHANGED to_remove

\* A step of t changes the map: of the inserts others have in progress
\* nothing is claimed then.
Disturb(t) ==
    allowed' = [u \in Threads |->
                  IF u # t /\ pc[u] \in Inserting \ {"check"} THEN Cardinality(Keys)
                  ELSE IF pc[u] = "store" THEN 0 ELSE allowed[u]]

Remove(t, K) ==
    /\ store' = [k \in Keys |-> IF k \in K THEN NoEntry ELSE store[k]]
    /\ late' = late \ K
    /\ Disturb(t)

\* The keys K are invalidated, and calls that have computed a value for one
\* of them are overtaken.
Settle(K) ==
    /\ settled' = [k \in Keys |-> IF k \in K THEN source[k] ELSE settled[k]]
    /\ overtaken' = overtaken \cup
         {u \in Threads : pc[u] \in Inserting /\ key[u] \in K /\ value[u] < source[key[u]]}

-----------------------------------------------------------------------------
(* get, and the look-up of get_or_insert.                                  *)

\* The entry's guard is held while it is touched.
Hit(t, k) ==
    /\ pc[t] = "idle"
    /\ k \in Present
    /\ ~ is_expired(store[k])
    /\ store' = [store EXCEPT ![k].last_accessed = now]
    /\ UNCHANGED <<now, source, calls, history>>

\* A miss of get_or_insert; one of get returns and changes nothing.
Miss(t, k) ==
    /\ pc[t] = "idle"
    /\ k \notin Present
    /\ Goto(t, "compute")
    /\ call' = [call EXCEPT ![t] = "get_or_insert"]
    /\ key' = [key EXCEPT ![t] = k]
    /\ UNCHANGED <<store, now, source, value, lru_key, to_remove, history>>

\* The guard of an expired entry is dropped...
FindExpired(t, k, method) ==
    /\ pc[t] = "idle"
    /\ k \in Present
    /\ is_expired(store[k])
    /\ Goto(t, "drop_expired")
    /\ call' = [call EXCEPT ![t] = method]
    /\ key' = [key EXCEPT ![t] = k]
    /\ UNCHANGED <<store, now, source, value, lru_key, to_remove, history>>

\* ... and then whatever is stored under the key is removed.
DropExpired(t) ==
    /\ pc[t] = "drop_expired"
    /\ Remove(t, {key[t]})
    /\ IF call[t] = "get" THEN Return(t)
       ELSE Goto(t, "compute") /\ UNCHANGED <<call, key, value, lru_key, to_remove>>
    /\ UNCHANGED <<now, source, settled, overtaken>>

\* get_or_insert calls f with no lock in hand.
Compute(t) ==
    /\ pc[t] = "compute"
    /\ value' = [value EXCEPT ![t] = source[key[t]]]
    /\ Goto(t, "check")
    /\ UNCHANGED <<store, now, source, call, key, lru_key, to_remove, history>>

-----------------------------------------------------------------------------
(* insert, by itself or from get_or_insert.                                *)

Insert(t, k) ==
    /\ pc[t] = "idle"
    /\ Goto(t, "check")
    /\ call' = [call EXCEPT ![t] = "insert"]
    /\ key' = [key EXCEPT ![t] = k]
    /\ value' = [value EXCEPT ![t] = source[k]]
    /\ UNCHANGED <<store, now, source, lru_key, to_remove, history>>

CheckAbove(t) ==
    /\ pc[t] = "check"
    /\ Goto(t, IF Size > MaxSize THEN "choose" ELSE "store")
    /\ allowed' = [allowed EXCEPT ![t] = Size]
    /\ UNCHANGED <<store, now, source, call, key, value, lru_key, to_remove,
                   settled, overtaken, late>>

Check(t) ==
    /\ pc[t] = "check"
    /\ Goto(t, IF Size >= MaxSize THEN "choose" ELSE "store")
    /\ allowed' = [allowed EXCEPT ![t] = Size]
    /\ UNCHANGED <<store, now, source, call, key, value, lru_key, to_remove,
                   settled, overtaken, late>>

\* Of several entries used at the same instant the iterator's first is taken.
LeastRecent ==
    {k \in Present : \A j \in Present : store[k].last_accessed <= store[j].last_accessed}

ChooseUnchecked(t) ==
    /\ pc[t] = "choose"
    /\ \/ Present = {} /\ Goto(t, "evict") /\ UNCHANGED lru_key
       \/ \E k \in LeastRecent :
             /\ Goto(t, "evict")
             /\ lru_key' = [lru_key EXCEPT ![t] = k]
    /\ UNCHANGED <<store, now, source, call, key, value, to_remove, history>>

Choose(t) ==
    /\ pc[t] = "choose"
    /\ \/ Present = {} /\ Goto(t, "store") /\ UNCHANGED lru_key
       \/ \E k \in LeastRecent :
             /\ Goto(t, "evict")
             /\ lru_key' = [lru_key EXCEPT ![t] = k]
    /\ UNCHANGED <<store, now, source, call, key, value, to_remove, history>>

Evict(t) ==
    /\ pc[t] = "evict"
    /\ Remove(t, {lru_key[t]})
    /\ Goto(t, "store")
    /\ UNCHANGED <<now, source, call, key, value, lru_key, to_remove, settled, overtaken>>

Store(t) ==
    LET k == key[t]
    IN  /\ pc[t] = "store"
        /\ store' = [store EXCEPT ![k] = [value |-> value[t], created_at |-> now,
                                          last_accessed |-> now]]
        /\ late' = IF t \in overtaken THEN late \cup {k} ELSE late \ {k}
        /\ overtaken' = overtaken \ {t}
        /\ Disturb(t)
        /\ Return(t)
        /\ UNCHANGED <<now, source, settled>>

-----------------------------------------------------------------------------
(* invalidate, invalidate_where, clear.                                    *)

\* The sources of K have changed, and their caller invalidates: the one key,
\* or all keys a predicate holds for.
Change(K) ==
    /\ \A k \in K : source[k] < MaxVersion
    /\ source' = [k \in Keys |-> IF k \in K THEN source[k] + 1 ELSE source[k]]

Invalidate(t, k) ==
    /\ pc[t] = "idle"
    /\ Change({k})
    /\ Goto(t, "remove")
    /\ to_remove' = [to_remove EXCEPT ![t] = {k}]
    /\ UNCHANGED <<store, now, call, key, value, lru_key, history>>

InvalidateWhere(t, K) ==
    /\ pc[t] = "idle"
    /\ Change(K)
    /\ Goto(t, "collect")
    /\ to_remove' = [to_remove EXCEPT ![t] = K]
    /\ UNCHANGED <<store, now, call, key, value, lru_key, history>>

\* The iterator finds the keys that are there; the others are done with.
Collect(t) ==
    /\ pc[t] = "collect"
    /\ to_remove' = [to_remove EXCEPT ![t] = @ \cap Present]
    /\ Goto(t, IF to_remove[t] \cap Present = {} THEN "idle" ELSE "remove")
    /\ Settle(to_remove[t] \ Present)
    /\ UNCHANGED <<store, now, source, call, key, value, lru_key, late, allowed>>

RemoveFirstOnly(t) ==
    /\ pc[t] = "remove"
    /\ \E k \in to_remove[t] : Remove(t, {k})
    /\ Settle(to_remove[t])
    /\ to_remove' = [to_remove EXCEPT ![t] = {}]
    /\ Goto(t, "idle")
    /\ UNCHANGED <<now, source, call, key, value, lru_key>>

RemoveKey(t) ==
    /\ pc[t] = "remove"
    /\ \E k \in to_remove[t] :
          /\ Remove(t, {k})
          /\ Settle({k})
          /\ to_remove' = [to_remove EXCEPT ![t] = @ \ {k}]
          /\ Goto(t, IF to_remove[t] = {k} THEN "idle" ELSE "remove")
    /\ UNCHANGED <<now, source, call, key, value, lru_key>>

Clear(t) ==
    /\ pc[t] = "idle"
    /\ Remove(t, Keys)
    /\ UNCHANGED <<now, source, calls, settled, overtaken>>

Tick ==
    /\ now < MaxNow
    /\ now' = now + 1
    /\ UNCHANGED <<store, source, calls, history>>

Next ==
    \/ Tick
    \/ \E t \in Threads :
          \/ \E k \in Keys :
                \/ Hit(t, k) \/ Miss(t, k) \/ Insert(t, k) \/ Invalidate(t, k)
                \/ \E method \in {"get", "get_or_insert"} : FindExpired(t, k, method)
          \/ \E K \in SUBSET Keys : InvalidateWhere(t, K)
          \/ DropExpired(t) \/ Compute(t) \/ Check(t) \/ Choose(t) \/ Evict(t) \/ Store(t)
          \/ Collect(t) \/ RemoveKey(t) \/ Clear(t)

Spec == Init /\ [][Next]_vars

-----------------------------------------------------------------------------
(* An insert during which no other call changes the map leaves it no       *)
(* larger than max_size, or than it was already.  (Several inserts at once *)
(* may all find room, or all evict the same entry, and what they add       *)
(* beyond max_size is never taken back by later inserts.)                  *)
SoloInsertBounded ==
    [][\A t \in Threads : pc[t] = "store" /\ pc'[t] = "idle" =>
          \/ Cardinality(Present') <= MaxSize
          \/ Cardinality(Present') <= allowed[t]
          \/ Cardinality(Present') = 1]_vars

(* A value older than an invalidation that has returned is in the cache    *)
(* only if its call had computed it before the key was invalidated and     *)
(* stored it after.                                                        *)
StaleOnlyByRace ==
    \A k \in Present : store[k].value < settled[k] => k \in late

(* What holds of calls in progress, for the two properties to hold: what   *)
(* is settled is no newer than the source, a computed value that has been  *)
(* invalidated is in the hands of a call that was overtaken...             *)
OvertakenKnown ==
    /\ \A k \in Keys : settled[k] <= source[k]
    /\ \A t \in Threads :
          pc[t] \in Inserting /\ value[t] < settled[key[t]] => t \in overtaken

(* ... and an insert whose map has not changed has, after its eviction,    *)
(* room for one more, or has found the cache empty.                        *)
RoomMade ==
    \A t \in Threads :
        \/ pc[t] \notin Inserting \ {"check"}
        \/ allowed[t] = Cardinality(Keys)
        \/ pc[t] = "choose" /\ Size <= allowed[t]
        \/ pc[t] = "evict" /\ Size <= allowed[t] /\ lru_key[t] \in Present
        \/ pc[t] = "store" /\ (Size < MaxSize \/ Size < allowed[t] \/ Size = 0)
=============================================================================
