------------------------------- MODULE Metrics -------------------------------
(***************************************************************************)
(* The collector of salsa_full/metrics.rs, cloned into any number of       *)
(* threads.  Its five fields are locked or atomic one by one: snapshot     *)
(* reads and reset clears them in turn, while record_query counts a call   *)
(* in two of them under the lock of the first.  The durations, by which    *)
(* the collector decides nothing, are left out.                            *)
(***************************************************************************)
EXTENDS Naturals, Sequences, FiniteSets, FiniteSetsExt

CONSTANTS Metered,      \* the threads
          QueryNames,
          Sizes,        \* what update_memory_usage, add and subtract are given
          MaxMetered,   \* a bound on the calls recorded, the spans and the memory
          MaxSnapshots  \* a bound: how many snapshots are taken at a time

ASSUME MetricsConstants ==
    IsFiniteSet(QueryNames) /\ Sizes \subseteq Nat /\ MaxMetered \in Nat

VARIABLES metrics,      \* the five fields
          meter,        \* what each thread is doing
          spans,        \* the operations started, whose guards are alive
          direct,       \* history: what record_cache_hit and _miss counted since a reset
          torn          \* history: the last reset overlapped another call

metricVars == <<metrics, meter, spans, direct, torn>>

-----------------------------------------------------------------------------
\* The fields, in the order in which snapshot reads and reset clears them.
Fields == <<"query_stats", "cache_hits", "cache_misses", "memory_usage", "active_operations">>
Uncalled == [total_calls |-> 0, cached_calls |-> 0]
NoMetrics == [query_stats |-> [n \in QueryNames |-> Uncalled],
              cache_hits |-> 0, cache_misses |-> 0, memory_usage |-> 0, active_operations |-> {}]
Unmetered == [call |-> "none"]
NoneDirect == [hits |-> 0, misses |-> 0]
Spans == 1..MaxMetered

MetricsTypeOK ==
    /\ \A n \in QueryNames : metrics.query_stats[n].cached_calls <= metrics.query_stats[n].total_calls
    /\ {metrics.cache_hits, metrics.cache_misses, metrics.memory_usage} \subseteq Nat
    /\ metrics.active_operations \subseteq spans /\ spans \subseteq Spans
    /\ \A t \in Metered : meter[t].call \in {"none", "record", "snapshot", "reset"}
    /\ torn \in BOOLEAN

MetricsInit ==
    /\ metrics = NoMetrics /\ meter = [t \in Metered |-> Unmetered]
    /\ spans = {} /\ direct = NoneDirect /\ torn = FALSE

-----------------------------------------------------------------------------
Calls(stats) == MapThenSumSet(LAMBDA n : stats[n].total_calls, QueryNames)
Cached(stats) == MapThenSumSet(LAMBDA n : stats[n].cached_calls, QueryNames)
Counter(cached) == IF cached THEN "cache_hits" ELSE "cache_misses"

InCall(call) == {t \in Metered : meter[t].call = call}
\* No lock around record_query.
StatsUnlocked == TRUE
StatsFree == InCall("record") = {}
Room == /\ metrics.cache_hits + metrics.cache_misses < MaxMetered
        /\ Calls(metrics.query_stats) < MaxMetered
Torn == torn' = (torn \/ InCall("reset") # {})

\* record_query: the entry of the name, made when it is not there, under the lock;
\* Timer::stop records a call that was not cached.
Record(t) ==
    /\ meter[t] = Unmetered /\ StatsFree
    /\ Room
    /\ \E n \in QueryNames, cached \in BOOLEAN :
          /\ metrics' = [metrics EXCEPT !.query_stats[n] =
                            [total_calls |-> @.total_calls + 1,
                             cached_calls |-> @.cached_calls + IF cached THEN 1 ELSE 0]]
          /\ meter' = [meter EXCEPT ![t] = [call |-> "record", cached |-> cached]]
    /\ Torn /\ UNCHANGED <<spans, direct>>

\* The counter, before the lock is dropped.
Count(t) ==
    /\ meter[t].call = "record"
    /\ metrics' = [metrics EXCEPT ![Counter(meter[t].cached)] = @ + 1]
    /\ meter' = [meter EXCEPT ![t] = Unmetered]
    /\ Torn /\ UNCHANGED <<spans, direct>>

CountDirect ==
    /\ Room
    /\ \E cached \in BOOLEAN :
          /\ metrics' = [metrics EXCEPT ![Counter(cached)] = @ + 1]
          /\ direct' = [direct EXCEPT ![IF cached THEN "hits" ELSE "misses"] = @ + 1]
    /\ Torn /\ UNCHANGED <<meter, spans>>

\* A subtraction that goes below 0.
MeterBelow ==
    /\ \E size \in Sizes : metrics' = [metrics EXCEPT !.memory_usage = @ - size]
    /\ UNCHANGED <<meter, spans, direct, torn>>

\* update_memory_usage, add_memory, and subtract_memory, which stops at 0.
Meter ==
    /\ \E size \in Sizes : metrics' \in
          {[metrics EXCEPT !.memory_usage = size],
           [metrics EXCEPT !.memory_usage = IF @ + size <= MaxMetered THEN @ + size ELSE @],
           [metrics EXCEPT !.memory_usage = IF @ > size THEN @ - size ELSE 0]}
    /\ UNCHANGED <<meter, spans, direct, torn>>

StartOperation ==
    /\ spans # Spans
    /\ LET span == CHOOSE s \in Spans \ spans : TRUE
       IN  /\ spans' = spans \cup {span}
           /\ metrics' = [metrics EXCEPT !.active_operations = @ \cup {span}]
    /\ UNCHANGED <<meter, direct, torn>>

\* The drop of the guard: a reset may have removed the operation before.
DropGuard ==
    /\ \E span \in spans :
          /\ spans' = spans \ {span}
          /\ metrics' = [metrics EXCEPT !.active_operations = @ \ {span}]
    /\ UNCHANGED <<meter, direct, torn>>

-----------------------------------------------------------------------------
BeginSnapshot(t) ==
    /\ meter[t] = Unmetered /\ Cardinality(InCall("snapshot")) < MaxSnapshots
    /\ meter' = [meter EXCEPT ![t] = [call |-> "snapshot", at |-> 1, read |-> NoMetrics]]
    /\ Torn /\ UNCHANGED <<metrics, spans, direct>>

BeginReset(t) ==
    /\ meter[t] = Unmetered
    /\ meter' = [meter EXCEPT ![t] = [call |-> "reset", at |-> 1]]
    /\ torn' = \E u \in Metered : meter[u] # Unmetered
    /\ UNCHANGED <<metrics, spans, direct>>

\* The next field; the first one has to be locked, and is free between calls.
NextField(t) ==
    LET w == meter[t]
        f == Fields[w.at]
    IN  /\ w.call \in {"snapshot", "reset"} /\ w.at <= Len(Fields)
        /\ f = "query_stats" => StatsFree
        /\ IF w.call = "reset"
           THEN /\ metrics' = [metrics EXCEPT ![f] = NoMetrics[f]]
                /\ meter' = [meter EXCEPT ![t].at = @ + 1]
           ELSE /\ meter' = [meter EXCEPT ![t].read[f] = metrics[f], ![t].at = @ + 1]
                /\ UNCHANGED metrics
        /\ UNCHANGED <<spans, direct, torn>>

EndFields(t) ==
    /\ meter[t].call \in {"snapshot", "reset"} /\ meter[t].at > Len(Fields)
    /\ meter' = [meter EXCEPT ![t] = Unmetered]
    /\ direct' = IF meter[t].call = "reset" THEN NoneDirect ELSE direct
    /\ UNCHANGED <<metrics, spans, torn>>

CountersNext == CountDirect \/ \E t \in Metered : Record(t) \/ Count(t)
GaugesNext == Meter \/ StartOperation \/ DropGuard
WholeNext == \E t \in Metered : BeginSnapshot(t) \/ BeginReset(t) \/ NextField(t) \/ EndFields(t)

MetricsNext == CountersNext \/ GaugesNext \/ WholeNext

MetricsSpec == MetricsInit /\ [][MetricsNext]_metricVars

-----------------------------------------------------------------------------
\* Unless the last reset overlapped another call, the counters count every recorded
\* call once the threads are out of record_query and reset, and in a snapshot no query
\* is counted that the hits and misses it read after it leave out.
MetricsAddUp ==
    ~torn =>
        /\ InCall("record") \cup InCall("reset") = {} =>
               /\ metrics.cache_hits = Cached(metrics.query_stats) + direct.hits
               /\ metrics.cache_hits + metrics.cache_misses =
                      Calls(metrics.query_stats) + direct.hits + direct.misses
        /\ \A t \in InCall("snapshot") :
               LET shot == meter[t].read
               IN  meter[t].at > Len(Fields) =>
                       /\ Cached(shot.query_stats) <= shot.cache_hits
                       /\ Calls(shot.query_stats) <= shot.cache_hits + shot.cache_misses
=============================================================================
