------------------------ MODULE IncrementalDbProofs ------------------------
(* Proofs about IncrementalDb, for any threads, files, functions, contents *)
(* and bodies, and any bound on the versions.                              *)
EXTENDS IncrementalDb, FiniteSetTheorems, TLAPS

-----------------------------------------------------------------------------
(* The inductive invariant: which call stands at which label, and which    *)
(* locks a label holds.                                                    *)

SetFileCalls(F) == [op : {"set_file"}, path : F, content : Contents]
SetFunctionCalls(N) == [op : {"set_function"}, name : N, body : Bodies]
QueryCalls == [op : {"query"}, key : QueryKey]

ToApply == {"inputs_w", "versions_w", "apply"}
Applied == {"deps_r", "cache_w", "clear"}
Querying == {"lookup", "compute", "store_w", "store", "deps_w", "track"}
Counting == {"stats_cache", "stats_files", "stats_functions"}

CallAtLabel(t) ==
    /\ pc[t] \in ToApply => call[t] \in SetFileCalls(Files) \cup SetFunctionCalls(Functions)
    /\ pc[t] = "deps_r" => call[t] \in SetFileCalls(Files)
    /\ pc[t] \in Querying => call[t] \in QueryCalls
    /\ pc[t] \in Counting => call[t].op = "stats"

\* The setters whose update of input i is still to come.
Pending(i) ==
    {u \in Threads : /\ pc[u] \in ToApply
                     /\ call[u] \in SetFileCalls({i}) \cup SetFunctionCalls({i})}

VersionsBounded == \A i \in Inputs : versions[i] + Cardinality(Pending(i)) <= MaxVersion

\* The labels at which a thread has claimed a lock, and those at which it reads under it.
Writing == [inputs |-> {"versions_w", "apply"} \cup Applied,
            versions |-> {"apply"} \cup Applied,
            cache |-> {"clear", "store", "deps_w", "track"},
            dependencies |-> {"track"}]
Reading == [inputs |-> {"stats_functions"}, versions |-> {},
            cache |-> {"stats_files", "stats_functions"}, dependencies |-> {}]

LocksAtLabel ==
    \A l \in Locks :
        /\ writer[l] # NoThread => pc[writer[l]] \in Writing[l]
        /\ \A t \in Threads : pc[t] \in Writing[l] => writer[l] = t
        /\ \A t \in readers[l] : pc[t] \in Reading[l]

Inv == TypeOK /\ (\A t \in Threads : CallAtLabel(t)) /\ VersionsBounded /\ LocksAtLabel

-----------------------------------------------------------------------------
(* Sets of threads are finite, and one thread changes their size by one.   *)
LEMMA ThreadSets ==
  ASSUME NEW S \in SUBSET Threads
  PROVE  /\ IsFiniteSet(S) /\ Cardinality(S) \in Nat
         /\ \A T \in SUBSET S : Cardinality(T) \in Nat /\ Cardinality(T) <= Cardinality(S)
         /\ \A t \in S : Cardinality(S \ {t}) = Cardinality(S) - 1
         /\ \A t \in Threads \ S : Cardinality(S \cup {t}) = Cardinality(S) + 1
<1>1. IsFiniteSet(S)
  BY IncrementalDbConstants, FS_Subset
<1>2. \A T \in SUBSET S : Cardinality(T) \in Nat /\ Cardinality(T) <= Cardinality(S)
  BY <1>1, FS_Subset, FS_CardinalityType
<1>3. \A t \in S : Cardinality(S \ {t}) = Cardinality(S) - 1
  BY <1>1, FS_RemoveElement
<1>4. \A t \in Threads \ S : Cardinality(S \cup {t}) = Cardinality(S) + 1
  BY <1>1, FS_AddElement
<1> QED
  BY <1>1, <1>2, <1>3, <1>4

\* The calls of a client, by their operation.
LEMMA CallKinds ==
  ASSUME NEW c \in Calls
  PROVE  /\ c.op = "set_file" => c \in SetFileCalls(Files) /\ c.path \in Files /\ c.content \in Contents
         /\ c.op = "set_function" =>
               c \in SetFunctionCalls(Functions) /\ c.name \in Functions /\ c.body \in Bodies
         /\ c.op = "query" => c \in QueryCalls /\ c.key \in QueryKey
         /\ c.op \in {"set_file", "set_function", "query", "stats"}
  BY DEF Calls, SetFileCalls, SetFunctionCalls, QueryCalls

\* What a query computes is a result.
LEMMA ComputedIsResult ==
  ASSUME TypeOK, NEW k \in QueryKey, ~ Undefined(k)
  PROVE  computed(k) \in Results
<1>1. CASE k \in {ParseFile(f) : f \in Files}
  <2>1. k.query = "ParseFile" /\ k.name \in Files
    BY <1>1 DEF ParseFile
  <2>2. computed(k) = parse_go(IF files[k.name] = Absent THEN EmptyContent ELSE files[k.name])
    BY <2>1 DEF computed
  <2> QED
    BY <2>1, <2>2, IncrementalDbConstants DEF TypeOK, Results
<1>2. CASE k \in {InferFunction(n) : n \in Functions}
  <2>1. k.query = "InferFunction" /\ k.name \in Functions
    BY <1>2 DEF InferFunction
  <2>2. functions[k.name].body \in Bodies
    BY <2>1 DEF Undefined, TypeOK
  <2> QED
    BY <2>1, <2>2 DEF computed, Results
<1> QED
  BY <1>1, <1>2 DEF QueryKey

-----------------------------------------------------------------------------
\* Every guard a thread holds is dropped as its call returns.
LEMMA Returning ==
  ASSUME TypeOK, NEW t \in Threads, Return(t)
  PROVE  /\ pc' \in [Threads -> {"idle"} \cup ToApply \cup Applied \cup Querying \cup Counting]
         /\ call' \in [Threads -> Calls \cup {Absent}]
         /\ victims' \in [Threads -> SUBSET QueryKey]
         /\ value' \in [Threads -> Results \cup {Absent}]
         /\ writer' \in [Locks -> Threads \cup {NoThread}]
         /\ readers' \in [Locks -> SUBSET Threads]
  BY DEF TypeOK, Return, Goto, ToApply, Applied, Querying, Counting

\* A setter about to apply its change has room for one more version.
LEMMA RoomLeft ==
  ASSUME Inv, NEW t \in Threads, pc[t] = "apply", NEW i \in Inputs,
         call[t] \in SetFileCalls({i}) \cup SetFunctionCalls({i})
  PROVE  versions[i] + 1 \in 1 .. MaxVersion
<1>1. t \in Pending(i)
  BY DEF Pending, ToApply
<1>2. /\ Cardinality(Pending(i)) \in Nat
      /\ Cardinality(Pending(i) \ {t}) \in Nat
      /\ Cardinality(Pending(i) \ {t}) = Cardinality(Pending(i)) - 1
  BY <1>1, ThreadSets DEF Pending
<1>3. versions[i] \in Nat /\ MaxVersion \in Nat
  BY IncrementalDbConstants DEF Inv, TypeOK
<1> QED
  BY <1>2, <1>3 DEF Inv, VersionsBounded

\* Every step keeps the types.
LEMMA TypingStep ==
  ASSUME Inv, [Next]_vars
  PROVE  TypeOK'
<1> USE DEF Inv, data, locks, Goto
<1>1. ASSUME NEW t \in Threads, NEW c \in Calls, Start(t, c) PROVE TypeOK'
  BY <1>1 DEF Start, TypeOK
<1>2. ASSUME NEW t \in Threads, LockInputs(t) PROVE TypeOK'
  BY <1>2 DEF LockInputs, Claim, TypeOK, Locks
<1>3. ASSUME NEW t \in Threads, LockVersions(t) PROVE TypeOK'
  BY <1>3 DEF LockVersions, Claim, TypeOK, Locks
<1>4. ASSUME NEW t \in Threads, SetFileUnchanged(t) PROVE TypeOK'
  BY <1>4, Returning DEF SetFileUnchanged, TypeOK, ToApply, Applied, Querying, Counting
<1>5. ASSUME NEW t \in Threads, SetFile(t) PROVE TypeOK'
  <2>1. call[t] \in SetFileCalls({call[t].path}) /\ call[t].path \in Files /\ call[t].content \in Contents
    BY <1>5 DEF SetFile, Applying, CallAtLabel, ToApply, SetFileCalls, SetFunctionCalls
  <2>2. versions[call[t].path] + 1 \in 1 .. MaxVersion
    BY <1>5, <2>1, RoomLeft DEF SetFile, Applying, Inputs
  <2> QED
    <3>1. files' \in [Files -> Contents \cup {Absent}]
      BY <1>5, <2>1 DEF SetFile, TypeOK
    <3>2. versions' \in [Inputs -> 0 .. MaxVersion]
      BY <1>5, <2>1, <2>2 DEF SetFile, TypeOK, Inputs
    <3> QED
      BY <1>5, <3>1, <3>2 DEF SetFile, TypeOK
<1>6. ASSUME NEW t \in Threads, SetFunction(t) PROVE TypeOK'
  <2>1. /\ call[t] \in SetFunctionCalls({call[t].name})
        /\ call[t].name \in Functions /\ call[t].body \in Bodies
    BY <1>6 DEF SetFunction, Applying, CallAtLabel, ToApply, SetFileCalls, SetFunctionCalls
  <2>2. versions[call[t].name] + 1 \in 1 .. MaxVersion
    BY <1>6, <2>1, RoomLeft DEF SetFunction, Applying, Inputs
  <2>3. InferFunction(call[t].name) \in QueryKey
    BY <2>1 DEF QueryKey
  <2> QED
    <3>1. functions' \in [Functions -> [body : Bodies, version : 1 .. MaxVersion] \cup {Absent}]
      BY <1>6, <2>1, <2>2 DEF SetFunction, TypeOK
    <3>2. versions' \in [Inputs -> 0 .. MaxVersion]
      BY <1>6, <2>1, <2>2 DEF SetFunction, TypeOK, Inputs
    <3> QED
      BY <1>6, <2>3, <3>1, <3>2 DEF SetFunction, TypeOK
<1>7. ASSUME NEW t \in Threads, FindDependents(t) PROVE TypeOK'
  BY <1>7 DEF FindDependents, TypeOK
<1>8. ASSUME NEW t \in Threads, LockCache(t) PROVE TypeOK'
  BY <1>8 DEF LockCache, Claim, TypeOK, Locks
<1>9. ASSUME NEW t \in Threads, Invalidate(t) PROVE TypeOK'
  BY <1>9, Returning DEF Invalidate, TypeOK, ToApply, Applied, Querying, Counting
<1>10. ASSUME NEW t \in Threads, Hit(t) \/ Panic(t) \/ StatsFunctions(t) PROVE TypeOK'
  BY <1>10, Returning DEF Hit, Panic, StatsFunctions, TypeOK, ToApply, Applied, Querying, Counting
<1>11. ASSUME NEW t \in Threads, Miss(t) PROVE TypeOK'
  BY <1>11 DEF Miss, TypeOK
<1>12. ASSUME NEW t \in Threads, Compute(t) PROVE TypeOK'
  <2>1. call[t].key \in QueryKey
    BY <1>12 DEF Compute, CallAtLabel, Querying, QueryCalls
  <2>2. computed(call[t].key) \in Results
    BY <1>12, <2>1, ComputedIsResult DEF Compute
  <2> QED
    BY <1>12, <2>2 DEF Compute, TypeOK
<1>13. ASSUME NEW t \in Threads, LockStore(t) PROVE TypeOK'
  BY <1>13 DEF LockStore, Claim, TypeOK, Locks
<1>14. ASSUME NEW t \in Threads, Store(t) PROVE TypeOK'
  <2>1. call[t].key \in QueryKey
    BY <1>14 DEF Store, CallAtLabel, Querying, QueryCalls
  <2> QED
    BY <1>14, <2>1 DEF Store, TypeOK
<1>15. ASSUME NEW t \in Threads, LockDependencies(t) PROVE TypeOK'
  BY <1>15 DEF LockDependencies, Claim, TypeOK, Locks
<1>16. ASSUME NEW t \in Threads, Track(t) PROVE TypeOK'
  BY <1>16, Returning DEF Track, TypeOK, ToApply, Applied, Querying, Counting
<1>17. ASSUME NEW t \in Threads, StatsCache(t) \/ StatsFiles(t) PROVE TypeOK'
  BY <1>17 DEF StatsCache, StatsFiles, Read, TypeOK, Locks
<1>18. CASE UNCHANGED vars
  BY <1>18 DEF vars, TypeOK
<1> QED
  BY <1>1, <1>2, <1>3, <1>4, <1>5, <1>6, <1>7, <1>8, <1>9, <1>10, <1>11, <1>12, <1>13, <1>14,
     <1>15, <1>16, <1>17, <1>18 DEF Next, Step

-----------------------------------------------------------------------------
(* The label a step leads to suits the call.                               *)
LEMMA LabelStep ==
  ASSUME Inv, [Next]_vars
  PROVE  \A t \in Threads : CallAtLabel(t)'
<1> USE DEF Inv, TypeOK, CallAtLabel, ToApply, Querying, Counting, data, locks, Goto
<1>1. ASSUME NEW t \in Threads, NEW c \in Calls, Start(t, c)
      PROVE  \A u \in Threads : CallAtLabel(u)'
  <2>1. \A u \in Threads \ {t} : CallAtLabel(u)'
    BY <1>1 DEF Start
  <2>2. call'[t] = c /\ pc'[t] = CASE c.op = "query" -> "lookup"
                                  [] c.op = "stats" -> "stats_cache"
                                  [] OTHER -> "inputs_w"
    BY <1>1 DEF Start
  <2>3. CallAtLabel(t)'
    <3>1. CASE c.op = "query"
      BY <2>2, <3>1, CallKinds
    <3>2. CASE c.op = "stats"
      BY <2>2, <3>2, CallKinds
    <3>3. CASE c.op \in {"set_file", "set_function"}
      BY <2>2, <3>3, CallKinds
    <3> QED
      BY <3>1, <3>2, <3>3, CallKinds
  <2> QED
    BY <2>1, <2>3
<1>2. ASSUME NEW t \in Threads, Return(t)
      PROVE  \A u \in Threads : CallAtLabel(u)'
  BY <1>2 DEF Return
<1>3. ASSUME NEW t \in Threads, Step(t)
      PROVE  \A u \in Threads : CallAtLabel(u)'
  <2>1. CASE LockInputs(t) \/ LockVersions(t) \/ SetFile(t)
    BY <2>1 DEF LockInputs, LockVersions, SetFile, Applying, SetFileCalls, SetFunctionCalls
  <2>2. CASE SetFunction(t) \/ FindDependents(t) \/ LockCache(t)
    BY <2>2 DEF SetFunction, Applying, FindDependents, LockCache
  <2>3. CASE Miss(t) \/ Compute(t) \/ LockStore(t) \/ Store(t) \/ LockDependencies(t)
    BY <2>3 DEF Miss, Compute, LockStore, Store, LockDependencies
  <2>4. CASE StatsCache(t) \/ StatsFiles(t)
    BY <2>4 DEF StatsCache, StatsFiles
  <2>5. CASE Return(t)
    BY <1>2, <2>5
  <2> QED
    BY <1>3, <2>1, <2>2, <2>3, <2>4, <2>5
       DEF Step, SetFileUnchanged, Invalidate, Hit, Panic, Track, StatsFunctions
<1>4. CASE UNCHANGED vars
  BY <1>4 DEF vars
<1> QED
  BY <1>1, <1>3, <1>4 DEF Next

(* Versions and the changes still to come stay within the bound: a change  *)
(* is admitted only where there is room, and uses its place up.            *)
LEMMA VersionStep ==
  ASSUME Inv, [Next]_vars
  PROVE  VersionsBounded'
<1> USE DEF Inv, TypeOK, data, locks, Goto
<1>0. MaxVersion \in Nat /\ \A i \in Inputs : versions[i] \in Nat /\ Pending(i) \in SUBSET Threads
  BY IncrementalDbConstants DEF Pending
\* Nothing applied, and nobody new.
<1>1. ASSUME versions' = versions, \A i \in Inputs : Pending(i)' \subseteq Pending(i)
      PROVE  VersionsBounded'
  <2> SUFFICES ASSUME NEW i \in Inputs
               PROVE  versions[i] + Cardinality(Pending(i)') <= MaxVersion
    BY <1>1 DEF VersionsBounded
  <2>1. /\ Cardinality(Pending(i)) \in Nat /\ Cardinality(Pending(i)') \in Nat
        /\ Cardinality(Pending(i)') <= Cardinality(Pending(i))
    BY <1>0, <1>1, ThreadSets
  <2> QED
    BY <1>0, <2>1 DEF VersionsBounded
\* t applies its change to i.
<1>2. ASSUME NEW t \in Threads, NEW i \in Inputs, pc[t] = "apply",
             call[t] \in SetFileCalls({i}) \cup SetFunctionCalls({i}),
             versions' = [versions EXCEPT ![i] = @ + 1],
             \A j \in Inputs : Pending(j)' \subseteq Pending(j) \ {t}
      PROVE  VersionsBounded'
  <2> SUFFICES ASSUME NEW j \in Inputs
               PROVE  versions'[j] + Cardinality(Pending(j)') <= MaxVersion
    BY DEF VersionsBounded
  <2>1. t \in Pending(i)
    BY <1>2 DEF Pending, ToApply
  <2>2. /\ Cardinality(Pending(j)) \in Nat
        /\ Cardinality(Pending(j)') \in Nat
        /\ Cardinality(Pending(j)') <= Cardinality(Pending(j) \ {t})
        /\ Cardinality(Pending(j) \ {t}) \in Nat
        /\ Cardinality(Pending(j) \ {t}) <= Cardinality(Pending(j))
        /\ j = i => Cardinality(Pending(j) \ {t}) = Cardinality(Pending(j)) - 1
    <3>1. Pending(j) \ {t} \in SUBSET Threads /\ Pending(j) \ {t} \in SUBSET Pending(j)
      BY <1>0
    <3>2. Pending(j)' \in SUBSET (Pending(j) \ {t})
      BY <1>2
    <3> QED
      BY <1>0, <2>1, <3>1, <3>2, ThreadSets
  <2>3. versions'[j] = IF j = i THEN versions[j] + 1 ELSE versions[j]
    BY <1>2
  <2> QED
    BY <1>0, <2>2, <2>3 DEF VersionsBounded
<1>3. ASSUME NEW t \in Threads, NEW c \in Calls, Start(t, c) PROVE VersionsBounded'
  <2> SUFFICES ASSUME NEW i \in Inputs
               PROVE  versions[i] + Cardinality(Pending(i)') <= MaxVersion
    BY <1>3 DEF VersionsBounded, Start
  <2>1. Pending(i)' \subseteq Pending(i) \cup {t}
    BY <1>3 DEF Start, Pending, ToApply
  <2>2. t \notin Pending(i) /\ Pending(i) \in SUBSET Threads
    BY <1>3 DEF Start, Pending, ToApply
  <2>3. CASE c \notin SetFileCalls({i}) \cup SetFunctionCalls({i})
    <3>1. Pending(i)' \in SUBSET Pending(i)
      BY <1>3, <2>3 DEF Start, Pending, ToApply
    <3>2. /\ Cardinality(Pending(i)) \in Nat /\ Cardinality(Pending(i)') \in Nat
          /\ Cardinality(Pending(i)') <= Cardinality(Pending(i))
      BY <2>2, <3>1, ThreadSets
    <3> QED
      BY <1>0, <3>2 DEF VersionsBounded
  <2>4. CASE c \in SetFileCalls({i}) \cup SetFunctionCalls({i})
    <3> DEFINE setting == {u \in Threads : \/ call[u] \in SetFileCalls({i})
                                           \/ call[u] \in SetFunctionCalls({i})}
    <3>1. versions[i] + Cardinality(setting) < MaxVersion
      BY <1>3, <2>4 DEF Start, Room, SetFileCalls, SetFunctionCalls
    <3>2. Pending(i) \in SUBSET setting /\ setting \in SUBSET Threads
      BY DEF Pending
    <3>3. /\ Cardinality(setting) \in Nat /\ Cardinality(Pending(i)) \in Nat
          /\ Cardinality(Pending(i)) <= Cardinality(setting)
      BY <3>2, ThreadSets
    <3>4. Cardinality(Pending(i) \cup {t}) = Cardinality(Pending(i)) + 1
      BY <2>2, ThreadSets
    <3>5. Pending(i) \cup {t} \in SUBSET Threads /\ Pending(i)' \in SUBSET (Pending(i) \cup {t})
      BY <2>1, <2>2
    <3>6. /\ Cardinality(Pending(i)') \in Nat
          /\ Cardinality(Pending(i)') <= Cardinality(Pending(i) \cup {t})
      BY <3>5, ThreadSets
    <3> QED
      BY <1>0, <3>1, <3>3, <3>4, <3>6
  <2> QED
    BY <2>3, <2>4
<1>4. ASSUME NEW t \in Threads, Return(t), versions' = versions PROVE VersionsBounded'
  <2>1. \A i \in Inputs : Pending(i)' \subseteq Pending(i)
    BY <1>4 DEF Return, Pending, ToApply
  <2> QED
    BY <1>1, <1>4, <2>1
<1>5. ASSUME NEW t \in Threads, Step(t) PROVE VersionsBounded'
  <2>1. CASE LockInputs(t) \/ LockVersions(t)
    <3>1. \A i \in Inputs : Pending(i)' \subseteq Pending(i)
      BY <2>1 DEF LockInputs, LockVersions, Pending, ToApply
    <3> QED
      BY <1>1, <2>1, <3>1 DEF LockInputs, LockVersions
  <2>2. CASE SetFile(t)
    <3>1. /\ pc[t] = "apply" /\ call[t].path \in Inputs
          /\ call[t] \in SetFileCalls({call[t].path}) \cup SetFunctionCalls({call[t].path})
      BY <2>2 DEF SetFile, Applying, CallAtLabel, ToApply, SetFileCalls, SetFunctionCalls, Inputs
    <3>2. \A j \in Inputs : Pending(j)' \subseteq Pending(j) \ {t}
      BY <2>2 DEF SetFile, Pending, ToApply
    <3> QED
      BY <1>2, <2>2, <3>1, <3>2 DEF SetFile
  <2>3. CASE SetFunction(t)
    <3>1. /\ pc[t] = "apply" /\ call[t].name \in Inputs
          /\ call[t] \in SetFileCalls({call[t].name}) \cup SetFunctionCalls({call[t].name})
      BY <2>3 DEF SetFunction, Applying, CallAtLabel, ToApply, SetFileCalls, SetFunctionCalls,
         Inputs
    <3>2. \A j \in Inputs : Pending(j)' \subseteq Pending(j) \ {t}
      BY <2>3 DEF SetFunction, Pending, ToApply
    <3> QED
      BY <1>2, <2>3, <3>1, <3>2 DEF SetFunction
  <2>4. CASE \/ FindDependents(t) \/ LockCache(t) \/ Miss(t) \/ Compute(t) \/ LockStore(t)
             \/ Store(t) \/ LockDependencies(t) \/ StatsCache(t) \/ StatsFiles(t)
    <3>1. versions' = versions /\ call' = call
      BY <2>4 DEF FindDependents, LockCache, Miss, Compute, LockStore, Store, LockDependencies,
         StatsCache, StatsFiles
    <3>2. \A u \in Threads : pc'[u] \in ToApply => pc[u] \in ToApply
      BY <2>4 DEF FindDependents, LockCache, Miss, Compute, LockStore, Store, LockDependencies,
         StatsCache, StatsFiles, ToApply
    <3>3. \A i \in Inputs : Pending(i)' \subseteq Pending(i)
      BY <3>1, <3>2 DEF Pending
    <3> QED
      BY <1>1, <3>1, <3>3
  <2>5. CASE Return(t) /\ versions' = versions
    BY <1>4, <2>5
  <2> QED
    BY <1>5, <2>1, <2>2, <2>3, <2>4, <2>5
       DEF Step, SetFileUnchanged, Invalidate, Hit, Panic, Track, StatsFunctions
<1>6. CASE UNCHANGED vars
  <2>1. \A i \in Inputs : Pending(i)' \subseteq Pending(i)
    BY <1>6 DEF vars, Pending
  <2> QED
    BY <1>1, <1>6, <2>1 DEF vars
<1> QED
  BY <1>3, <1>5, <1>6 DEF Next

(* Who holds a lock stands where its label says, and no one else does.     *)
LEMMA LockStep ==
  ASSUME Inv, [Next]_vars
  PROVE  LocksAtLabel'
<1> USE IncrementalDbConstants
    DEF Inv, TypeOK, LocksAtLabel, Locks, Writing, Reading, Applied, data, locks, Goto
<1>1. ASSUME NEW t \in Threads, NEW c \in Calls, Start(t, c) PROVE LocksAtLabel'
  BY <1>1 DEF Start
<1>2. ASSUME NEW t \in Threads, Return(t) PROVE LocksAtLabel'
  BY <1>2 DEF Return
<1>3. ASSUME NEW t \in Threads, LockInputs(t) PROVE LocksAtLabel'
  BY <1>3 DEF LockInputs, Claim
<1>4. ASSUME NEW t \in Threads, LockVersions(t) PROVE LocksAtLabel'
  BY <1>4 DEF LockVersions, Claim
<1>5. ASSUME NEW t \in Threads, SetFile(t) \/ SetFunction(t) PROVE LocksAtLabel'
  BY <1>5 DEF SetFile, SetFunction, Applying
<1>6. ASSUME NEW t \in Threads, FindDependents(t) PROVE LocksAtLabel'
  BY <1>6 DEF FindDependents
<1>7. ASSUME NEW t \in Threads, LockCache(t) \/ LockStore(t) PROVE LocksAtLabel'
  BY <1>7 DEF LockCache, LockStore, Claim
<1>8. ASSUME NEW t \in Threads, Miss(t) \/ Compute(t) \/ Store(t) PROVE LocksAtLabel'
  BY <1>8 DEF Miss, Compute, Store
<1>9. ASSUME NEW t \in Threads, LockDependencies(t) PROVE LocksAtLabel'
  BY <1>9 DEF LockDependencies, Claim
<1>10. ASSUME NEW t \in Threads, StatsCache(t) \/ StatsFiles(t) PROVE LocksAtLabel'
  BY <1>10 DEF StatsCache, StatsFiles, Read
<1>11. CASE UNCHANGED vars
  BY <1>11 DEF vars
<1> QED
  BY <1>1, <1>2, <1>3, <1>4, <1>5, <1>6, <1>7, <1>8, <1>9, <1>10, <1>11
     DEF Next, Step, SetFileUnchanged, Invalidate, Hit, Panic, Track, StatsFunctions

(* The inductive invariant holds in every reachable state.                 *)
THEOREM Invariance == Spec => []Inv
<1>1. Init => Inv
  <2> SUFFICES ASSUME Init PROVE Inv
    OBVIOUS
  <2>1. TypeOK
    BY IncrementalDbConstants DEF Init, TypeOK
  <2>2. \A t \in Threads : CallAtLabel(t)
    BY DEF Init, CallAtLabel, ToApply, Querying, Counting
  <2>3. VersionsBounded
    <3>1. \A i \in Inputs : Pending(i) = {}
      BY DEF Init, Pending, ToApply
    <3>2. \A i \in Inputs : Cardinality(Pending(i)) = 0 /\ versions[i] = 0
      BY <3>1, FS_EmptySet DEF Init
    <3> QED
      BY <3>2, IncrementalDbConstants DEF VersionsBounded
  <2>4. LocksAtLabel
    BY DEF Init, LocksAtLabel, Locks, Writing, Reading, Applied
  <2> QED
    BY <2>1, <2>2, <2>3, <2>4 DEF Inv
<1>2. Inv /\ [Next]_vars => Inv'
  BY TypingStep, LabelStep, VersionStep, LockStep DEF Inv
<1> QED
  BY <1>1, <1>2, PTL DEF Spec

(* Every variable keeps its type; in particular no version passes the      *)
(* bound.                                                                  *)
THEOREM Typing == Spec => []TypeOK
  BY Invariance, PTL DEF Inv

-----------------------------------------------------------------------------
(* No circle of waiting calls closes without stats: a thread that waits    *)
(* for a writer waits for one that stands further along the order inputs,  *)
(* versions, cache, dependencies, and only stats reads while it waits.     *)
THEOREM DeadlockFreedom == Spec => []DeadlockOnlyByStats
<1>1. Inv => DeadlockOnlyByStats
  <2> SUFFICES ASSUME Inv, NEW D \in SUBSET Threads, Circular(D),
                      \A t \in D : call[t].op # "stats"
               PROVE  FALSE
    BY DEF DeadlockOnlyByStats
  <2> USE DEF Inv, Locks
  \* Whoever reads under a lock is in stats.
  <2>1. \A l \in Locks : readers[l] \cap D = {}
    BY DEF LocksAtLabel, Reading, CallAtLabel, Counting
  \* So each call of D waits for the writer of a lock, and the writer is in D too.
  <2>2. \A t \in D : /\ pc[t] \in DOMAIN Wanting
                     /\ writer[Wanting[pc[t]]] \in D
                     /\ pc[writer[Wanting[pc[t]]]] \in Writing[Wanting[pc[t]]]
    <3> SUFFICES ASSUME NEW t \in D
                 PROVE  /\ pc[t] \in DOMAIN Wanting
                        /\ writer[Wanting[pc[t]]] \in D
                        /\ pc[writer[Wanting[pc[t]]]] \in Writing[Wanting[pc[t]]]
      OBVIOUS
    <3>1. Blockers(t) \cap D # {}
      BY DEF Circular
    <3>2. pc[t] \in DOMAIN Entering => readers[Entering[pc[t]]] \cap D = {}
      BY <2>1 DEF Entering
    <3>3. pc[t] \in DOMAIN Wanting /\ writer[Wanting[pc[t]]] \in D
      BY <3>1, <3>2 DEF Blockers
    <3>4. Wanting[pc[t]] \in Locks
      BY <3>3 DEF Wanting
    <3> QED
      BY <3>3, <3>4, IncrementalDbConstants DEF LocksAtLabel
  <2>3. \A t \in D : pc[t] \notin {"apply", "clear", "store", "track"}
    BY <2>2 DEF Wanting
  <2>4. \A t \in D : pc[t] \notin {"deps_w", "deps_r"}
    BY <2>2, <2>3 DEF Wanting, Writing
  <2>5. \A t \in D : pc[t] \notin {"cache_w", "store_w", "lookup"}
    BY <2>2, <2>3, <2>4 DEF Wanting, Writing
  <2>6. \A t \in D : pc[t] # "versions_w"
    BY <2>2, <2>3, <2>4, <2>5 DEF Wanting, Writing, Applied
  <2>7. \A t \in D : pc[t] \notin {"inputs_w", "compute"}
    BY <2>2, <2>3, <2>4, <2>5, <2>6 DEF Wanting, Writing, Applied
  <2>8. \A t \in D : pc[t] \notin Counting
    BY DEF CallAtLabel
  <2> QED
    BY <2>2, <2>3, <2>4, <2>5, <2>6, <2>7, <2>8 DEF Circular, Wanting, Counting
<1> QED
  BY <1>1, Invariance, PTL

-----------------------------------------------------------------------------
(* A stale type in the memo table has a removal before it or was stored by *)
(* a query that lost a race: a change of the body and the claim to remove  *)
(* its type are one step, and a removal takes away what it claimed.        *)
THEOREM Freshness == Spec => []StaleOnlyByRace
<1>1. Init => StaleOnlyByRace
  BY DEF Init, StaleOnlyByRace, QueryKey
<1>2. Inv /\ StaleOnlyByRace /\ [Next]_vars => StaleOnlyByRace'
  <2> SUFFICES ASSUME Inv, StaleOnlyByRace, [Next]_vars, NEW n \in Functions
               PROVE  LET k == InferFunction(n)
                      IN  \/ cache'[k] = Absent
                          \/ cache'[k] = computed(k)'
                          \/ Invalidating(k)' # {}
                          \/ k \in raced'
    BY DEF StaleOnlyByRace
  <2> DEFINE k == InferFunction(n)
             Fresh == \/ cache[k] = Absent
                      \/ cache[k] = computed(k)
                      \/ Invalidating(k) # {}
                      \/ k \in raced
  <2>1. Fresh /\ k \in QueryKey
    BY DEF StaleOnlyByRace, QueryKey
  <2>2. computed(k) = infer_function_body(functions[n].body)
    BY DEF computed, InferFunction
  <2> USE DEF data, locks, Goto
  \* Nothing stored, and no removal done or given up.
  <2>3. ASSUME cache' = cache, functions' = functions, raced' = raced,
               Invalidating(k) \subseteq Invalidating(k)'
        PROVE  Fresh'
    BY <2>1, <2>2, <2>3 DEF computed, InferFunction
  <2>4. ASSUME NEW t \in Threads, pc[t] \notin {"cache_w", "clear"},
               \A u \in Threads \ {t} : pc'[u] = pc[u] /\ victims'[u] = victims[u]
        PROVE  Invalidating(k) \subseteq Invalidating(k)'
    BY <2>4 DEF Invalidating
  <2>5. ASSUME NEW t \in Threads, NEW c \in Calls, Start(t, c) PROVE Fresh'
    BY <2>3, <2>4, <2>5 DEF Start, Inv, TypeOK
  <2>6. ASSUME NEW t \in Threads, Return(t), pc[t] \notin {"cache_w", "clear"},
               cache' = cache, functions' = functions, raced' = raced
        PROVE  Fresh'
    BY <2>3, <2>4, <2>6 DEF Return, Inv, TypeOK
  <2>7. ASSUME NEW t \in Threads,
               \/ LockInputs(t) \/ LockVersions(t) \/ SetFile(t) \/ FindDependents(t)
               \/ Miss(t) \/ Compute(t) \/ LockStore(t) \/ LockDependencies(t)
               \/ StatsCache(t) \/ StatsFiles(t)
        PROVE  Fresh'
    BY <2>3, <2>4, <2>7 DEF Inv, TypeOK, LockInputs, LockVersions, SetFile, Applying,
       FindDependents, Miss, Compute, LockStore, LockDependencies, StatsCache, StatsFiles
  <2>8. ASSUME NEW t \in Threads, SetFunction(t) PROVE Fresh'
    <3>1. pc[t] = "apply" /\ pc'[t] = "cache_w" /\ victims'[t] = {InferFunction(call[t].name)}
      BY <2>8 DEF SetFunction, Applying, Inv, TypeOK
    <3>2. CASE call[t].name = n
      BY <3>1, <3>2 DEF Invalidating
    <3>3. CASE call[t].name # n
      <4>1. functions'[n] = functions[n] /\ cache' = cache /\ raced' = raced
        BY <2>8, <3>3 DEF SetFunction, Inv, TypeOK
      <4>2. computed(k)' = computed(k)
        BY <2>2, <4>1 DEF computed, InferFunction
      <4>3. Invalidating(k) \subseteq Invalidating(k)'
        BY <2>4, <2>8, <3>1 DEF SetFunction, Inv, TypeOK
      <4> QED
        BY <2>1, <4>1, <4>2, <4>3
    <3> QED
      BY <3>2, <3>3
  <2>9. ASSUME NEW t \in Threads, LockCache(t) PROVE Fresh'
    <3>1. Invalidating(k) \subseteq Invalidating(k)'
      BY <2>9 DEF LockCache, Invalidating, Inv, TypeOK
    <3> QED
      BY <2>3, <2>9, <3>1 DEF LockCache
  <2>10. ASSUME NEW t \in Threads, Invalidate(t) PROVE Fresh'
    <3>1. CASE k \in victims[t]
      BY <2>1, <2>10, <3>1 DEF Invalidate
    <3>2. CASE k \notin victims[t]
      <4>1. Invalidating(k) \subseteq Invalidating(k)'
        BY <2>10, <3>2 DEF Invalidate, Return, Invalidating, Inv, TypeOK
      <4>2. cache'[k] = cache[k] /\ functions' = functions /\ (k \in raced <=> k \in raced')
        BY <2>1, <2>10, <3>2 DEF Invalidate
      <4>3. computed(k)' = computed(k)
        BY <2>2, <4>2 DEF computed, InferFunction
      <4> QED
        BY <2>1, <4>1, <4>2, <4>3
    <3> QED
      BY <3>1, <3>2
  <2>11. ASSUME NEW t \in Threads, Store(t) PROVE Fresh'
    <3>1. Invalidating(k) \subseteq Invalidating(k)'
      BY <2>4, <2>11 DEF Store, Inv, TypeOK
    <3>2. computed(k)' = computed(k)
      BY <2>2, <2>11 DEF Store, computed, InferFunction
    <3>3. CASE call[t].key = k
      BY <2>1, <2>11, <3>1, <3>2, <3>3 DEF Store, Inv, TypeOK
    <3>4. CASE call[t].key # k
      BY <2>1, <2>11, <3>1, <3>2, <3>4 DEF Store, Inv, TypeOK
    <3> QED
      BY <3>3, <3>4
  <2>12. CASE UNCHANGED vars
    <3>1. Invalidating(k) \subseteq Invalidating(k)'
      BY <2>12 DEF vars, Invalidating
    <3> QED
      BY <2>3, <2>12, <3>1 DEF vars
  <2>13. ASSUME NEW t \in Threads,
                SetFileUnchanged(t) \/ Hit(t) \/ Panic(t) \/ Track(t) \/ StatsFunctions(t)
         PROVE  Fresh'
    BY <2>6, <2>13 DEF SetFileUnchanged, Applying, Hit, Panic, Track, StatsFunctions
  <2> QED
    BY <2>5, <2>7, <2>8, <2>9, <2>10, <2>11, <2>12, <2>13 DEF Next, Step
<1> QED
  BY <1>1, <1>2, Invariance, PTL DEF Spec
=============================================================================
