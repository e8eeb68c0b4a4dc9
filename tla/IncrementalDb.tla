--------------------------- MODULE IncrementalDb ---------------------------
(***************************************************************************)
(* The query database of salsa/mod.rs: inputs (files and functions), a     *)
(* memo table, the dependencies of its entries and the versions of the     *)
(* inputs, each behind a parking_lot RwLock of its own.  A step of this    *)
(* module runs from one lock operation to the next.  write() first claims  *)
(* the lock (from then on new readers wait, a thread that already reads    *)
(* among them) and then waits for the readers inside to leave.             *)
(***************************************************************************)
EXTENDS Naturals, FiniteSets

CONSTANTS
    Threads,     \* the callers of the &self methods
    NoThread,
    Files,       \* paths set_file is called with
    Functions,   \* names set_function is called with
    Contents,    \* file contents, as [imports, rest]: parse_go sees the imports
    EmptyContent,\* String::default()
    Bodies,      \* function bodies, as [type, rest]: inference gives the type
    Absent,      \* what a map does not hold
    MaxVersion   \* bound: versions an input may reach

ASSUME IncrementalDbConstants ==
    /\ IsFiniteSet(Threads)
    /\ NoThread \notin Threads
    /\ EmptyContent \in Contents
    /\ Absent \notin Contents \cup Bodies
    /\ MaxVersion \in Nat

Locks == {"inputs", "cache", "dependencies", "versions"}
Inputs == Files \cup Functions

ParseFile(f) == [query |-> "ParseFile", name |-> f]
InferFunction(n) == [query |-> "InferFunction", name |-> n]
QueryKey == {ParseFile(f) : f \in Files} \cup {InferFunction(n) : n \in Functions}

\* The calls a client may make.
Calls ==
    [op : {"set_file"}, path : Files, content : Contents]
      \cup [op : {"set_function"}, name : Functions, body : Bodies]
      \cup [op : {"query"}, key : QueryKey]
      \cup {[op |-> "stats"]}

VARIABLES
    files, functions,      \* InputStorage
    cache, dependencies, versions,
    writer,                \* lock |-> the thread that has claimed it for writing
    readers,               \* lock |-> the threads that read under it
    pc, call,              \* where each thread stands, in which call
    victims,               \* the cache keys an invalidation is about to remove
    value,                 \* the value a query has computed and not stored yet
    raced                  \* history: queries whose entry was out of date as it was
                           \* stored, with no invalidation of it left to come

data == <<files, functions, cache, dependencies, versions>>
locks == <<writer, readers>>
vars == <<data, locks, pc, call, victims, value, raced>>

parse_go(content) == [imports |-> content.imports]
infer_function_body(body) == [return_type |-> body.type]

Results == {parse_go(c) : c \in Contents} \cup {infer_function_body(b) : b \in Bodies}

\* What a miss computes from the inputs as they are.
computed(k) ==
    IF k.query = "ParseFile"
    THEN parse_go(IF files[k.name] = Absent THEN EmptyContent ELSE files[k.name])
    ELSE infer_function_body(functions[k.name].body)

TypeOK ==
    /\ files \in [Files -> Contents \cup {Absent}]
    /\ functions \in [Functions -> [body : Bodies, version : 1 .. MaxVersion] \cup {Absent}]
    /\ cache \in [QueryKey -> Results \cup {Absent}]
    /\ dependencies \in [QueryKey -> SUBSET Files]
    /\ versions \in [Inputs -> 0 .. MaxVersion]
    /\ writer \in [Locks -> Threads \cup {NoThread}]
    /\ readers \in [Locks -> SUBSET Threads]
    /\ pc \in [Threads -> {"idle", "inputs_w", "versions_w", "apply", "deps_r", "cache_w",
                           "clear", "lookup", "compute", "store_w", "store", "deps_w",
                           "track", "stats_cache", "stats_files", "stats_functions"}]
    /\ call \in [Threads -> Calls \cup {Absent}]
    /\ victims \in [Threads -> SUBSET QueryKey]
    /\ value \in [Threads -> Results \cup {Absent}]
    /\ raced \in SUBSET QueryKey

Init ==
    /\ files = [f \in Files |-> Absent]
    /\ functions = [n \in Functions |-> Absent]
    /\ cache = [k \in QueryKey |-> Absent]
    /\ dependencies = [k \in QueryKey |-> {}]
    /\ versions = [i \in Inputs |-> 0]
    /\ writer = [l \in Locks |-> NoThread]
    /\ readers = [l \in Locks |-> {}]
    /\ pc = [t \in Threads |-> "idle"]
    /\ call = [t \in Threads |-> Absent]
    /\ victims = [t \in Threads |-> {}]
    /\ value = [t \in Threads |-> Absent]
    /\ raced = {}

-----------------------------------------------------------------------------
(* The locks of parking_lot.                                               *)

Goto(t, label) == pc' = [pc EXCEPT ![t] = label]

\* write() claims the lock; Entered says its readers have left.
Claim(t, l) ==
    /\ writer[l] = NoThread
    /\ writer' = [writer EXCEPT ![l] = t]
    /\ UNCHANGED readers

Entered(t, l) == writer[l] = t /\ readers[l] = {}

Readable(l) == writer[l] = NoThread

Read(t, l) ==
    /\ Readable(l)
    /\ readers' = [readers EXCEPT ![l] = @ \cup {t}]
    /\ UNCHANGED writer

\* A call ends: every guard it holds is dropped.
Return(t) ==
    /\ Goto(t, "idle")
    /\ call' = [call EXCEPT ![t] = Absent]
    /\ victims' = [victims EXCEPT ![t] = {}]
    /\ value' = [value EXCEPT ![t] = Absent]
    /\ writer' = [l \in Locks |-> IF writer[l] = t THEN NoThread ELSE writer[l]]
    /\ readers' = [l \in Locks |-> readers[l] \ {t}]

\* The bound MaxVersion, counting the calls under way.
Room(i) ==
    LET setting == {u \in Threads : \/ call[u] \in [op : {"set_file"}, path : {i}, content : Contents]
                                    \/ call[u] \in [op : {"set_function"}, name : {i}, body : Bodies]}
    IN  versions[i] + Cardinality(setting) < MaxVersion

Start(t, c) ==
    /\ pc[t] = "idle"
    /\ c.op = "set_file" => Room(c.path)
    /\ c.op = "set_function" => Room(c.name)
    /\ call' = [call EXCEPT ![t] = c]
    /\ Goto(t, CASE c.op = "query" -> "lookup"
                 [] c.op = "stats" -> "stats_cache"
                 [] OTHER -> "inputs_w")
    /\ UNCHANGED <<data, locks, victims, value, raced>>

-----------------------------------------------------------------------------
(* set_file and set_function                                               *)

LockInputs(t) ==
    /\ pc[t] = "inputs_w"
    /\ Claim(t, "inputs")
    /\ Goto(t, "versions_w")
    /\ UNCHANGED <<data, call, victims, value, raced>>

LockVersions(t) ==
    /\ pc[t] = "versions_w"
    /\ Entered(t, "inputs")
    /\ Claim(t, "versions")
    /\ Goto(t, "apply")
    /\ UNCHANGED <<data, call, victims, value, raced>>

Applying(t, op) ==
    /\ pc[t] = "apply"
    /\ call[t].op = op
    /\ Entered(t, "versions")

SetFileUnchanged(t) ==
    /\ Applying(t, "set_file")
    /\ files[call[t].path] = call[t].content
    /\ Return(t)
    /\ UNCHANGED <<data, raced>>

SetFile(t) ==
    LET f == call[t].path
    IN  /\ Applying(t, "set_file")
        /\ files[f] # call[t].content
        /\ files' = [files EXCEPT ![f] = call[t].content]
        /\ versions' = [versions EXCEPT ![f] = @ + 1]
        /\ Goto(t, "deps_r")
        /\ UNCHANGED <<functions, cache, dependencies, locks, call, victims, value, raced>>

SetFunctionOnly(t) ==
    LET n == call[t].name
    IN  /\ Applying(t, "set_function")
        /\ versions' = [versions EXCEPT ![n] = @ + 1]
        /\ functions' = [functions EXCEPT ![n] =
                           [body |-> call[t].body, version |-> versions[n] + 1]]
        /\ Return(t)
        /\ UNCHANGED <<files, cache, dependencies, raced>>

SetFunctionOldVersion(t) ==
    LET n == call[t].name
    IN  /\ Applying(t, "set_function")
        /\ versions' = [versions EXCEPT ![n] = @ + 1]
        /\ functions' = [functions EXCEPT ![n] =
                           [body |-> call[t].body, version |-> versions[n]]]
        /\ victims' = [victims EXCEPT ![t] = {InferFunction(n)}]
        /\ Goto(t, "cache_w")
        /\ UNCHANGED <<files, cache, dependencies, locks, call, value, raced>>

\* The new definition, and the one query invalidate_query is to remove.
SetFunction(t) ==
    LET n == call[t].name
    IN  /\ Applying(t, "set_function")
        /\ versions' = [versions EXCEPT ![n] = @ + 1]
        /\ functions' = [functions EXCEPT ![n] =
                           [body |-> call[t].body, version |-> versions[n] + 1]]
        /\ victims' = [victims EXCEPT ![t] = {InferFunction(n)}]
        /\ Goto(t, "cache_w")
        /\ UNCHANGED <<files, cache, dependencies, locks, call, value, raced>>

FindDependentsHeld(t) ==
    /\ pc[t] = "deps_r"
    /\ Read(t, "dependencies")
    /\ victims' = [victims EXCEPT ![t] = {k \in QueryKey : call[t].path \in dependencies[k]}]
    /\ Goto(t, "cache_w")
    /\ UNCHANGED <<data, call, value, raced>>

\* invalidate_dependent_queries, up to drop(deps).
FindDependents(t) ==
    /\ pc[t] = "deps_r"
    /\ Readable("dependencies")
    /\ victims' = [victims EXCEPT ![t] = {k \in QueryKey : call[t].path \in dependencies[k]}]
    /\ Goto(t, "cache_w")
    /\ UNCHANGED <<data, locks, call, value, raced>>

LockCache(t) ==
    /\ pc[t] = "cache_w"
    /\ Claim(t, "cache")
    /\ Goto(t, "clear")
    /\ UNCHANGED <<data, call, victims, value, raced>>

\* The victims are removed, and the call returns.
Invalidate(t) ==
    /\ pc[t] = "clear"
    /\ Entered(t, "cache")
    /\ cache' = [k \in QueryKey |-> IF k \in victims[t] THEN Absent ELSE cache[k]]
    /\ raced' = raced \ victims[t]
    /\ Return(t)
    /\ UNCHANGED <<files, functions, dependencies, versions>>

-----------------------------------------------------------------------------
(* query, under parse_file and infer_function                              *)

Hit(t) ==
    /\ pc[t] = "lookup"
    /\ Readable("cache")
    /\ cache[call[t].key] # Absent
    /\ Return(t)
    /\ UNCHANGED <<data, raced>>

Miss(t) ==
    /\ pc[t] = "lookup"
    /\ Readable("cache")
    /\ cache[call[t].key] = Absent
    /\ Goto(t, "compute")
    /\ UNCHANGED <<data, locks, call, victims, value, raced>>

\* infer_function's .expect("Function not found")
Undefined(k) == k.query = "InferFunction" /\ functions[k.name] = Absent

Compute(t) ==
    /\ pc[t] = "compute"
    /\ Readable("inputs")
    /\ ~ Undefined(call[t].key)
    /\ value' = [value EXCEPT ![t] = computed(call[t].key)]
    /\ Goto(t, "store_w")
    /\ UNCHANGED <<data, locks, call, victims, raced>>

PanicLeaks(t) ==
    /\ pc[t] = "compute"
    /\ Undefined(call[t].key)
    /\ Read(t, "inputs")
    /\ Goto(t, "idle")
    /\ call' = [call EXCEPT ![t] = Absent]
    /\ UNCHANGED <<data, victims, value, raced>>

\* The panic unwinds, and drops the read guard on its way.
Panic(t) ==
    /\ pc[t] = "compute"
    /\ Readable("inputs")
    /\ Undefined(call[t].key)
    /\ Return(t)
    /\ UNCHANGED <<data, raced>>

LockStore(t) ==
    /\ pc[t] = "store_w"
    /\ Claim(t, "cache")
    /\ Goto(t, "store")
    /\ UNCHANGED <<data, call, victims, value, raced>>

\* Threads whose invalidation of k is still to come.
Invalidating(k) == {u \in Threads : pc[u] \in {"cache_w", "clear"} /\ k \in victims[u]}

Store(t) ==
    LET k == call[t].key
    IN  /\ pc[t] = "store"
        /\ Entered(t, "cache")
        /\ cache' = [cache EXCEPT ![k] = value[t]]
        /\ raced' = IF value[t] # computed(k) /\ Invalidating(k) = {}
                    THEN raced \cup {k} ELSE raced \ {k}
        /\ Goto(t, "deps_w")
        /\ UNCHANGED <<files, functions, dependencies, versions, locks, call, victims, value>>

LockDependencies(t) ==
    /\ pc[t] = "deps_w"
    /\ Claim(t, "dependencies")
    /\ Goto(t, "track")
    /\ UNCHANGED <<data, call, victims, value, raced>>

\* deps.insert(key, vec![]), under the cache's write guard.
Track(t) ==
    /\ pc[t] = "track"
    /\ Entered(t, "dependencies")
    /\ dependencies' = [dependencies EXCEPT ![call[t].key] = {}]
    /\ Return(t)
    /\ UNCHANGED <<files, functions, cache, versions, raced>>

-----------------------------------------------------------------------------
(* stats: the guards of its three reads are temporaries of one expression  *)
(* and live to the end of it.                                              *)

StatsCache(t) ==
    /\ pc[t] = "stats_cache"
    /\ Read(t, "cache")
    /\ Goto(t, "stats_files")
    /\ UNCHANGED <<data, call, victims, value, raced>>

StatsFiles(t) ==
    /\ pc[t] = "stats_files"
    /\ Read(t, "inputs")
    /\ Goto(t, "stats_functions")
    /\ UNCHANGED <<data, call, victims, value, raced>>

StatsFunctions(t) ==
    /\ pc[t] = "stats_functions"
    /\ Readable("inputs")
    /\ Return(t)
    /\ UNCHANGED <<data, raced>>

Step(t) ==
    \/ LockInputs(t) \/ LockVersions(t)
    \/ SetFileUnchanged(t) \/ SetFile(t) \/ SetFunction(t)
    \/ FindDependents(t) \/ LockCache(t) \/ Invalidate(t)
    \/ Hit(t) \/ Miss(t) \/ Compute(t) \/ Panic(t)
    \/ LockStore(t) \/ Store(t) \/ LockDependencies(t) \/ Track(t)
    \/ StatsCache(t) \/ StatsFiles(t) \/ StatsFunctions(t)

Next == \E t \in Threads : Step(t) \/ \E c \in Calls : Start(t, c)

(* A thread that can go on for ever again does: parking_lot queues the     *)
(* threads that wait for a lock and hands it over fairly from time to time *)
(* (its eventual fairness), so no waiter is passed over for ever.          *)
Fairness == \A t \in Threads : SF_vars(Step(t))

Spec == Init /\ [][Next]_vars /\ Fairness

-----------------------------------------------------------------------------
(* What each label waits for: the lock whose readers must leave, the lock  *)
(* to claim, the lock to read.                                             *)
Entering == [versions_w |-> "inputs", apply |-> "versions", clear |-> "cache",
             store |-> "cache", track |-> "dependencies"]
Wanting  == [inputs_w |-> "inputs", versions_w |-> "versions", cache_w |-> "cache",
             store_w |-> "cache", deps_w |-> "dependencies", lookup |-> "cache",
             compute |-> "inputs", deps_r |-> "dependencies", stats_cache |-> "cache",
             stats_files |-> "inputs", stats_functions |-> "inputs"]

Blockers(t) ==
    (IF pc[t] \in DOMAIN Entering THEN readers[Entering[pc[t]]] ELSE {})
      \cup (IF pc[t] \in DOMAIN Wanting THEN {writer[Wanting[pc[t]]]} \ {NoThread} ELSE {})

\* Calls that wait for one another: none of them can go on.
Circular(D) == D # {} /\ \A t \in D : Blockers(t) \cap D # {}

(* The setters take inputs, versions, cache, a query takes cache and then  *)
(* dependencies: no circle of waiting calls can close without stats in it. *)
DeadlockOnlyByStats ==
    \A D \in SUBSET Threads : Circular(D) => \E t \in D : call[t].op = "stats"

(* No call waits, through any chain of lock holders, for itself.           *)
NoDeadlock == \A D \in SUBSET Threads : ~ Circular(D)

(* A function's memoized type is the type of its current body, unless a    *)
(* set_function has yet to remove it or a query that computed it before    *)
(* the body changed stored it after the removal: nothing else leaves a     *)
(* stale type behind.                                                      *)
StaleOnlyByRace ==
    \A n \in Functions :
        LET k == InferFunction(n)
        IN  \/ cache[k] = Absent
            \/ cache[k] = computed(k)
            \/ Invalidating(k) # {}
            \/ k \in raced

(* With every call returned, what parse_file answers from the memo table   *)
(* is the parse of the file's present content.                             *)
ParsesFresh ==
    (\A t \in Threads : pc[t] = "idle") =>
        \A f \in Files : cache[ParseFile(f)] \in {Absent, computed(ParseFile(f))}

(* Every call returns, as long as no stats call is about: waiting for      *)
(* readers to drain, for a writer or for a turn always ends.               *)
CallsReturn ==
    \A t \in Threads :
        pc[t] # "idle" ~> \/ pc[t] = "idle"
                         \/ \E u \in Threads : call[u] # Absent /\ call[u].op = "stats"
=============================================================================
