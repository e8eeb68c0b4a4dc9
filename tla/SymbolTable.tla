---------------------------- MODULE SymbolTable ----------------------------
(***************************************************************************)
(* The concurrent string interner of core/symbol.rs.  A `SymbolTable` is   *)
(* two sharded maps and an atomic counter; `intern_in_package` looks a     *)
(* name up, and on a miss takes a fresh id, stores the symbol and binds    *)
(* the name, each of the four under a lock of its own.  No lock covers     *)
(* two of them, so calls interleave between any two.                       *)
(***************************************************************************)
EXTENDS Naturals, FiniteSets

CONSTANTS
    Threads,    \* the threads that share the table
    Keys,       \* the (package, name) pairs they intern
    EmptyKey,   \* (None, ""), which `new` interns
    NoKey,      \* an entry `symbols` does not hold
    MaxId       \* bound: the last id handed out (the code's counter is a u32)

ASSUME SymbolConstants ==
    /\ EmptyKey \in Keys
    /\ NoKey \notin Keys
    /\ MaxId \in Nat \ {0}
    /\ IsFiniteSet(Threads) /\ Threads # {}

\* SymbolId::INVALID: what a name that is not bound yet stands for.
INVALID == 0

Ids == 1 .. MaxId

VARIABLES
    counter,      \* the next id
    symbols,      \* id |-> the symbol stored there, by its key
    name_to_id,   \* key |-> the id bound to it
    pc,           \* where each thread stands in intern_in_package
    key,          \* the key it was called with
    id,           \* the id it has taken
    returned,     \* history: the <<key, id>> pairs calls have returned
    creator       \* history: the thread that took each id

symbolVars == <<counter, symbols, name_to_id, pc, key, id, returned, creator>>

SymbolTypeOK ==
    /\ counter \in 2 .. (MaxId + 1)
    /\ symbols \in [Ids -> Keys \cup {NoKey}]
    /\ name_to_id \in [Keys -> Ids \cup {INVALID}]
    /\ pc \in [Threads -> {"idle", "allocate", "store", "bind"}]
    /\ key \in [Threads -> Keys]
    /\ id \in [Threads -> Ids]
    /\ returned \in SUBSET (Keys \X Ids)
    /\ creator \in [Ids -> SUBSET Threads]

InitFromZero ==
    /\ counter = 1
    /\ symbols = [i \in Ids |-> NoKey]
    /\ name_to_id = [k \in Keys |-> INVALID]
    /\ pc = [t \in Threads |-> "idle"]
    /\ key = [t \in Threads |-> EmptyKey]
    /\ id = [t \in Threads |-> 1]
    /\ returned = {}
    /\ creator = [i \in Ids |-> {}]

\* new(): an empty table in which intern("") has run to its end.
SymbolInit ==
    /\ counter = 2
    /\ symbols = [i \in Ids |-> IF i = 1 THEN EmptyKey ELSE NoKey]
    /\ name_to_id = [k \in Keys |-> IF k = EmptyKey THEN 1 ELSE INVALID]
    /\ pc = [t \in Threads |-> "idle"]
    /\ key = [t \in Threads |-> EmptyKey]
    /\ id = [t \in Threads |-> 1]
    /\ returned = {}
    /\ creator = [i \in Ids |-> {}]

-----------------------------------------------------------------------------
\* The fast path: the name is bound, and the call returns its id.
Hit(t, k) ==
    /\ pc[t] = "idle"
    /\ name_to_id[k] # INVALID
    /\ returned' = returned \cup {<<k, name_to_id[k]>>}
    /\ UNCHANGED <<counter, symbols, name_to_id, pc, key, id, creator>>

MissUnchecked(t, k) ==
    /\ pc[t] = "idle"
    /\ pc' = [pc EXCEPT ![t] = "allocate"]
    /\ key' = [key EXCEPT ![t] = k]
    /\ UNCHANGED <<counter, symbols, name_to_id, id, returned, creator>>

\* The lookup finds nothing.  Its guard is dropped before the next step.
Miss(t, k) ==
    /\ pc[t] = "idle"
    /\ name_to_id[k] = INVALID
    /\ pc' = [pc EXCEPT ![t] = "allocate"]
    /\ key' = [key EXCEPT ![t] = k]
    /\ UNCHANGED <<counter, symbols, name_to_id, id, returned, creator>>

AllocateFromLen(t) ==
    LET next == Cardinality({i \in Ids : symbols[i] # NoKey}) + 1
    IN  /\ pc[t] = "allocate"
        /\ next <= MaxId
        /\ counter' = next + 1
        /\ id' = [id EXCEPT ![t] = next]
        /\ creator' = [creator EXCEPT ![next] = @ \cup {t}]
        /\ pc' = [pc EXCEPT ![t] = "store"]
        /\ UNCHANGED <<symbols, name_to_id, key, returned>>

\* counter.fetch_add(1), up to the bound MaxId.
Allocate(t) ==
    /\ pc[t] = "allocate"
    /\ counter <= MaxId
    /\ counter' = counter + 1
    /\ id' = [id EXCEPT ![t] = counter]
    /\ creator' = [creator EXCEPT ![counter] = @ \cup {t}]
    /\ pc' = [pc EXCEPT ![t] = "store"]
    /\ UNCHANGED <<symbols, name_to_id, key, returned>>

StoreUnlessBound(t) ==
    /\ pc[t] = "store"
    /\ symbols' = IF name_to_id[key[t]] = INVALID
                  THEN [symbols EXCEPT ![id[t]] = key[t]] ELSE symbols
    /\ pc' = [pc EXCEPT ![t] = "bind"]
    /\ UNCHANGED <<counter, name_to_id, key, id, returned, creator>>

StoreLate(t) ==
    /\ pc[t] = "store"
    /\ name_to_id' = [name_to_id EXCEPT ![key[t]] = id[t]]
    /\ pc' = [pc EXCEPT ![t] = "bind"]
    /\ UNCHANGED <<counter, symbols, key, id, returned, creator>>

\* symbols.insert(id, symbol)
Store(t) ==
    /\ pc[t] = "store"
    /\ symbols' = [symbols EXCEPT ![id[t]] = key[t]]
    /\ pc' = [pc EXCEPT ![t] = "bind"]
    /\ UNCHANGED <<counter, name_to_id, key, id, returned, creator>>

\* name_to_id.insert(key, id), whatever is bound by now, and the return.
Bind(t) ==
    /\ pc[t] = "bind"
    /\ name_to_id' = [name_to_id EXCEPT ![key[t]] = id[t]]
    /\ returned' = returned \cup {<<key[t], id[t]>>}
    /\ pc' = [pc EXCEPT ![t] = "idle"]
    /\ UNCHANGED <<counter, symbols, key, id, creator>>

SymbolNext ==
    \E t \in Threads :
        \/ \E k \in Keys : Hit(t, k) \/ Miss(t, k)
        \/ Allocate(t)
        \/ Store(t)
        \/ Bind(t)

SymbolSpec == SymbolInit /\ [][SymbolNext]_symbolVars

-----------------------------------------------------------------------------
IdsOf(k) == {i \in Ids : symbols[i] = k}

(* The invariant behind the properties below.  Ids from the counter on are *)
(* untouched; the empty name keeps id 1 to itself; an id has one creator,  *)
(* who holds it until it is bound; and a thread that is about to make an   *)
(* id for a key has made none for it before, since whatever it stored it   *)
(* also bound before it looked the key up again.                           *)
IdsAhead == \A i \in Ids : i >= counter => symbols[i] = NoKey /\ creator[i] = {}

EmptyKeyFirst ==
    /\ \A i \in Ids : symbols[i] = EmptyKey <=> i = 1
    /\ creator[1] = {}
    /\ name_to_id[EmptyKey] # INVALID
    /\ \A t \in Threads : pc[t] # "idle" => key[t] # EmptyKey

OneCreator ==
    \A i \in Ids :
        /\ \A t, u \in creator[i] : t = u
        /\ symbols[i] # NoKey => i = 1 \/ creator[i] # {}

Holding ==
    \A t \in Threads :
        /\ pc[t] \in {"store", "bind"} => t \in creator[id[t]]
        /\ pc[t] = "store" => symbols[id[t]] = NoKey
        /\ pc[t] = "bind" => symbols[id[t]] = key[t]

UnboundIsPending ==
    \A i \in Ids : \A t \in creator[i] :
        symbols[i] # NoKey /\ name_to_id[symbols[i]] = INVALID => pc[t] = "bind" /\ id[t] = i

NotYetMade ==
    \A t \in Threads : pc[t] \in {"allocate", "store"} =>
        \A i \in Ids : t \in creator[i] => symbols[i] # key[t]

OncePerThread ==
    \A i, j \in Ids :
        symbols[i] = symbols[j] /\ symbols[i] # NoKey /\ creator[i] \cap creator[j] # {} => i = j

Inv ==
    /\ IdsAhead /\ EmptyKeyFirst /\ OneCreator /\ Holding
    /\ UnboundIsPending /\ NotYetMade /\ OncePerThread

(* An id never outruns its symbol: a bound name, and an id some call has   *)
(* returned, resolve through `get` to the very key they were made for,     *)
(* because the symbol is stored before the name is bound.                  *)
IdsResolve ==
    /\ \A k \in Keys : name_to_id[k] # INVALID => symbols[name_to_id[k]] = k
    /\ \A r \in returned : symbols[r[2]] = r[1]

(* Racing calls may intern one name several times (the lookup and the      *)
(* binding are separate steps), but every thread that lost the race does   *)
(* so once: a key never has more ids than there are threads, and the       *)
(* empty name, interned before the table is shared, has exactly one.       *)
DuplicatesBounded ==
    /\ \A k \in Keys : Cardinality(IdsOf(k)) <= Cardinality(Threads)
    /\ IdsOf(EmptyKey) = {1}

(* No id is lost: below the counter every id is stored or is about to be   *)
(* stored by the thread that holds it, so that with no call in progress    *)
(* len() is counter - 1 and the ids are dense.                             *)
NoLostId ==
    \A i \in Ids :
        i < counter => \/ symbols[i] # NoKey
                       \/ \E t \in Threads : pc[t] = "store" /\ id[t] = i

(* A stored symbol is never overwritten, whatever calls race: an id a      *)
(* reader resolved once means the same symbol for ever.                    *)
SymbolsImmutable ==
    [][\A i \in Ids : symbols[i] # NoKey => symbols'[i] = symbols[i]]_symbolVars
=============================================================================
