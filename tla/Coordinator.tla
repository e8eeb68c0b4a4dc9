---------------------------- MODULE Coordinator ----------------------------
(***************************************************************************)
(* The agent coordinator of agent/coordinator.rs.  connect and disconnect  *)
(* update two concurrent maps, `agents` and `sessions`, and a metrics      *)
(* record behind a tokio RwLock, one after the other; other calls run      *)
(* between any two of these steps.  API handlers clone a session's Arc and *)
(* keep it while they work (get_session); commit_session instead keeps the *)
(* map's entry, and with it a read lock on the entry's shard.  The len()   *)
(* of a map, which sums its shards one at a time, is one step here.        *)
(***************************************************************************)
EXTENDS Integers, FiniteSets

CONSTANTS
    Requests,          \* the requests being served
    Agents,         \* agent ids
    NoAgent,
    MaxAgents,      \* config.max_agents
    MaxSessions,    \* bound: sessions ever created
    Shard(_)        \* the shard of `sessions` a session id hashes to

NoSession == 0
SessionIds == Nat \ {0}

ASSUME CoordinatorConstants ==
    /\ MaxAgents \in Nat \ {0}
    /\ MaxSessions \in Nat
    /\ IsFiniteSet(Requests) /\ Requests # {}
    /\ IsFiniteSet(Agents) /\ NoAgent \notin Agents

VARIABLES
    sessions,       \* ids of the sessions in the map
    agents,         \* agent |-> the session its AgentInfo names
    created, closed, active,    \* the metrics kept here
    issued,         \* session ids issued so far (the code draws UUIDs)
    doing, agent, session,         \* what each task is doing, for whom, with which session
    unlinked,       \* history: sessions whose agent's entry another connect replaced,
                    \* or a disconnect removed before they were in the map
    dropped,        \* history: how many sessions ended with no summary
    recount         \* history: whether the last call to change the agents has
                    \* counted them for the metrics

maps == <<sessions, agents>>
metrics == <<created, closed, active>>
coordinatorVars == <<maps, metrics, issued, doing, agent, session, unlinked, dropped, recount>>

Labels == {"idle", "check_agent", "add_agent", "add_session", "count_created",
           "remove_session", "unwrap", "count_closed", "using", "committing"}

\* A connect that has drawn its session, and a disconnect that has one to remove.
Starting == {"add_agent", "add_session"}
Ending == {"remove_session", "unwrap", "count_closed"}

CoordinatorTypeOK ==
    /\ sessions \in SUBSET SessionIds
    /\ agents \in [Agents -> SessionIds \cup {NoSession}]
    /\ created \in Nat /\ closed \in Nat /\ active \in Nat
    /\ issued \in Nat
    /\ doing \in [Requests -> Labels]
    /\ agent \in [Requests -> Agents \cup {NoAgent}]
    /\ session \in [Requests -> SessionIds \cup {NoSession}]
    /\ unlinked \in SUBSET SessionIds
    /\ dropped \in Nat
    /\ recount \in {"done", "skipped"}
    /\ \A t \in Requests : doing[t] \in {"check_agent", "add_agent"} => agent[t] \in Agents
    /\ \A t \in Requests : doing[t] \in Starting \cup Ending => session[t] # NoSession

CoordinatorInit ==
    /\ sessions = {}
    /\ agents = [a \in Agents |-> NoSession]
    /\ created = 0 /\ closed = 0 /\ active = 0 /\ issued = 0
    /\ doing = [t \in Requests |-> "idle"]
    /\ agent = [t \in Requests |-> NoAgent]
    /\ session = [t \in Requests |-> NoSession]
    /\ unlinked = {} /\ dropped = 0 /\ recount = "done"

Registered == {a \in Agents : agents[a] # NoSession}

\* Tasks whose clone of the session's Arc is alive, or that keep its entry.
Holders(s) == {t \in Requests : doing[t] = "using" /\ session[t] = s}

\* insert and remove take the shard for writing: no entry of it is kept.
ShardFree(s) ==
    \A t \in Requests : doing[t] = "committing" => Shard(session[t]) # Shard(s)

Goto(t, label) == doing' = [doing EXCEPT ![t] = label]

EndRequest(t) ==
    /\ Goto(t, "idle")
    /\ session' = [session EXCEPT ![t] = NoSession]

\* The bound MaxSessions, counting the sessions about to be created.
Room == issued + Cardinality({t \in Requests : doing[t] = "check_agent"}) < MaxSessions

-----------------------------------------------------------------------------
(* connect                                                                 *)

ConnectUnchecked(t, a) ==
    /\ doing[t] = "idle"
    /\ Room
    /\ agent' = [agent EXCEPT ![t] = a]
    /\ Goto(t, "check_agent")
    /\ UNCHANGED <<maps, metrics, issued, session, unlinked, dropped, recount>>

\* MaxAgentsReached: nothing changes.
MaxAgentsReached(t) ==
    /\ doing[t] = "idle"
    /\ Cardinality(sessions) >= MaxAgents
    /\ UNCHANGED coordinatorVars

\* The request passes the limit.
Connect(t, a) ==
    /\ doing[t] = "idle"
    /\ Cardinality(sessions) < MaxAgents
    /\ Room
    /\ agent' = [agent EXCEPT ![t] = a]
    /\ Goto(t, "check_agent")
    /\ UNCHANGED <<maps, metrics, issued, session, unlinked, dropped, recount>>

AlreadyConnected(t) ==
    /\ doing[t] = "check_agent"
    /\ agents[agent[t]] # NoSession
    /\ agent' = [agent EXCEPT ![t] = NoAgent]
    /\ EndRequest(t)
    /\ UNCHANGED <<maps, metrics, issued, unlinked, dropped, recount>>

\* The agent is not registered: AgentSession::new draws a fresh id.
CreateSession(t) ==
    /\ doing[t] = "check_agent"
    /\ agents[agent[t]] = NoSession
    /\ issued' = issued + 1
    /\ session' = [session EXCEPT ![t] = issued + 1]
    /\ Goto(t, "add_agent")
    /\ UNCHANGED <<maps, metrics, agent, unlinked, dropped, recount>>

AddAgentUnlessThere(t) ==
    LET a == agent[t]
    IN  /\ doing[t] = "add_agent"
        /\ agents' = [agents EXCEPT ![a] = IF @ = NoSession THEN session[t] ELSE @]
        /\ unlinked' = unlinked
        /\ agent' = [agent EXCEPT ![t] = NoAgent]
        /\ Goto(t, "add_session")
        /\ UNCHANGED <<sessions, metrics, issued, session, dropped, recount>>

\* agents.insert replaces whatever is registered by now.
AddAgent(t) ==
    LET a == agent[t]
    IN  /\ doing[t] = "add_agent"
        /\ agents' = [agents EXCEPT ![a] = session[t]]
        /\ unlinked' = unlinked \cup ({agents[a]} \ {NoSession})
        /\ agent' = [agent EXCEPT ![t] = NoAgent]
        /\ Goto(t, "add_session")
        /\ UNCHANGED <<sessions, metrics, issued, session, dropped, recount>>

AddSession(t) ==
    /\ doing[t] = "add_session"
    /\ ShardFree(session[t])
    /\ sessions' = sessions \cup {session[t]}
    /\ Goto(t, "count_created")
    /\ UNCHANGED <<agents, metrics, issued, agent, session, unlinked, dropped, recount>>

CountCreatedOnce(t) ==
    /\ doing[t] = "count_created"
    /\ created' = created + 1
    /\ active' = active + 1
    /\ recount' = "done"
    /\ EndRequest(t)
    /\ UNCHANGED <<maps, closed, issued, agent, unlinked, dropped>>

\* The metrics, under their lock, and the return.
CountCreated(t) ==
    /\ doing[t] = "count_created"
    /\ created' = created + 1
    /\ active' = Cardinality(Registered)
    /\ recount' = "done"
    /\ EndRequest(t)
    /\ UNCHANGED <<maps, closed, issued, agent, unlinked, dropped>>

-----------------------------------------------------------------------------
(* disconnect                                                              *)

DisconnectByGet(t, a) ==
    /\ doing[t] = "idle"
    /\ agents[a] # NoSession
    /\ session' = [session EXCEPT ![t] = agents[a]]
    /\ Goto(t, "remove_session")
    /\ UNCHANGED <<maps, metrics, issued, agent, unlinked, dropped, recount>>

\* agents.remove finds nothing: None.
NotConnected(t, a) ==
    /\ doing[t] = "idle"
    /\ agents[a] = NoSession
    /\ UNCHANGED coordinatorVars

\* agents.remove
Disconnect(t, a) ==
    /\ doing[t] = "idle"
    /\ agents[a] # NoSession
    /\ agents' = [agents EXCEPT ![a] = NoSession]
    /\ session' = [session EXCEPT ![t] = agents[a]]
    /\ Goto(t, "remove_session")
    /\ UNCHANGED <<sessions, metrics, issued, agent, unlinked, dropped, recount>>

LookUpSession(t) ==
    /\ doing[t] = "remove_session"
    /\ session[t] \in sessions
    /\ Goto(t, "unwrap")
    /\ UNCHANGED <<maps, metrics, issued, agent, session, unlinked, dropped, recount>>

RemoveSession(t) ==
    /\ doing[t] = "remove_session"
    /\ ShardFree(session[t])
    /\ session[t] \in sessions
    /\ sessions' = sessions \ {session[t]}
    /\ Goto(t, "unwrap")
    /\ UNCHANGED <<agents, metrics, issued, agent, session, unlinked, dropped, recount>>

\* The session is not in the map (not yet, in fact): None.
NoSuchSession(t) ==
    /\ doing[t] = "remove_session"
    /\ ShardFree(session[t])
    /\ session[t] \notin sessions
    /\ recount' = "skipped"
    /\ unlinked' = unlinked \cup {session[t]}
    /\ EndRequest(t)
    /\ UNCHANGED <<maps, metrics, issued, agent, dropped>>

\* Arc::try_unwrap fails while a handler keeps a clone: None, and the
\* session ends when that clone is dropped.
StillHeld(t) ==
    /\ doing[t] = "unwrap"
    /\ Holders(session[t]) # {}
    /\ dropped' = dropped + 1
    /\ recount' = "skipped"
    /\ EndRequest(t)
    /\ UNCHANGED <<maps, metrics, issued, agent, unlinked>>

UnwrapAnyway(t) ==
    /\ doing[t] = "unwrap"
    /\ Goto(t, "count_closed")
    /\ UNCHANGED <<maps, metrics, issued, agent, session, unlinked, dropped, recount>>

\* The last reference: the session is closed.
Unwrap(t) ==
    /\ doing[t] = "unwrap"
    /\ Holders(session[t]) = {}
    /\ Goto(t, "count_closed")
    /\ UNCHANGED <<maps, metrics, issued, agent, session, unlinked, dropped, recount>>

CountClosedDown(t) ==
    /\ doing[t] = "count_closed"
    /\ closed' = closed + 1
    /\ active' = active - 1
    /\ recount' = "done"
    /\ EndRequest(t)
    /\ UNCHANGED <<maps, created, issued, agent, unlinked, dropped>>

\* The metrics, under their lock, and the return of the summary.
CountClosed(t) ==
    /\ doing[t] = "count_closed"
    /\ closed' = closed + 1
    /\ active' = Cardinality(Registered)
    /\ recount' = "done"
    /\ EndRequest(t)
    /\ UNCHANGED <<maps, created, issued, agent, unlinked, dropped>>

-----------------------------------------------------------------------------
(* get_session in an API handler, and commit_session                       *)

GetSession(t, s) ==
    /\ doing[t] = "idle"
    /\ session' = [session EXCEPT ![t] = s]
    /\ Goto(t, "using")
    /\ UNCHANGED <<maps, metrics, issued, agent, unlinked, dropped, recount>>

BeginSessionCommit(t, s) ==
    /\ doing[t] = "idle"
    /\ session' = [session EXCEPT ![t] = s]
    /\ Goto(t, "committing")
    /\ UNCHANGED <<maps, metrics, issued, agent, unlinked, dropped, recount>>

\* The handler drops its clone, or commit_session its entry.
Release(t) ==
    /\ doing[t] \in {"using", "committing"}
    /\ EndRequest(t)
    /\ UNCHANGED <<maps, metrics, issued, agent, unlinked, dropped, recount>>

Step(t) ==
    \/ AlreadyConnected(t) \/ CreateSession(t) \/ AddAgent(t) \/ AddSession(t)
    \/ CountCreated(t)
    \/ RemoveSession(t) \/ NoSuchSession(t) \/ StillHeld(t) \/ Unwrap(t) \/ CountClosed(t)
    \/ Release(t)

CoordinatorNext ==
    \E t \in Requests :
        \/ Step(t)
        \/ MaxAgentsReached(t)
        \/ \E a \in Agents : Connect(t, a) \/ Disconnect(t, a) \/ NotConnected(t, a)
        \/ \E s \in sessions : GetSession(t, s) \/ BeginSessionCommit(t, s)

CoordinatorSpec == CoordinatorInit /\ [][CoordinatorNext]_coordinatorVars

-----------------------------------------------------------------------------
\* Tasks that have passed the limit and not added their session yet.
Connecting == {t \in Requests : doing[t] \in {"check_agent", "add_agent", "add_session"}}
\* Tasks that have added a session and not counted it, or removed one and not
\* said what became of it.
Counting == {t \in Requests : doing[t] = "count_created"}
Closers == {t \in Requests : doing[t] \in {"unwrap", "count_closed"}}

(* The limit is tested once and acted on later, so it can be exceeded, but *)
(* only by the requests that were under way together: there are never more *)
(* sessions than MaxAgents - 1 and one for each concurrent request.        *)
SessionsBounded == Cardinality(sessions) <= MaxAgents - 1 + Cardinality(Requests)

(* An agent's entry names a session that is in the map, or that the        *)
(* connect which registered it is about to add.                            *)
AgentsResolve ==
    \A a \in Registered :
        \/ agents[a] \in sessions
        \/ \E t \in Requests : doing[t] = "add_session" /\ session[t] = agents[a]

(* A session is closed by one task, when the map has let go of it and no   *)
(* handler works with it any more.                                         *)
ClosedAlone ==
    \A t \in Requests : doing[t] = "count_closed" =>
        /\ session[t] \notin sessions
        /\ Holders(session[t]) = {}
        /\ \A u \in Requests : doing[u] \in {"unwrap", "count_closed"} /\ session[u] = session[t]
                              => u = t

(* Every session created is in the map, was closed and counted, or ended   *)
(* without a summary in the hands of a handler: with no call in progress   *)
(* the two counters account for all the others.                            *)
SessionsAccounted ==
    created + Cardinality(Counting)
      = Cardinality(sessions) + Cardinality(Closers) + closed + dropped

(* active_agents is the number of registered agents whenever no call is in *)
(* progress, unless since the last count a disconnect that had removed its *)
(* agent returned None and did not count: its session was in the hands of  *)
(* a handler, or not in the map.                                           *)
ActiveConverges ==
    (\A t \in Requests : doing[t] \in {"idle", "using", "committing"}) =>
        active = Cardinality(Registered) \/ recount = "skipped"

(* A session no agent entry names is one whose entry was replaced by a     *)
(* second connect of its agent, or removed before the session was added:   *)
(* nothing else strands a session in the map.                              *)
StrandedOnlyByRace ==
    (\A t \in Requests : doing[t] \in {"idle", "using", "committing"}) =>
        \A s \in sessions : s \in unlinked \/ \E a \in Agents : agents[a] = s

(* With no call in progress each session in the map belongs to an agent    *)
(* that disconnect can find it by.                                         *)
NoStrandedSession ==
    (\A t \in Requests : doing[t] = "idle") => \A s \in sessions : \E a \in Agents : agents[a] = s
-----------------------------------------------------------------------------
(* The invariant behind the properties.  A session that is not in the map  *)
(* yet is in the hands of the one connect that drew its id, and one that   *)
(* has left it in those of one disconnect; no agent is registered with     *)
(* either the first before add_agent or with one that is being             *)
(* disconnected, and no two agents with the same.                          *)
IdsIssued ==
    /\ \A s \in sessions : s <= issued
    /\ \A a \in Agents : agents[a] <= issued
    /\ \A t \in Requests : session[t] <= issued

NotAddedYet ==
    \A t \in Requests : doing[t] \in Starting =>
        /\ session[t] \notin sessions
        /\ \A u \in Requests : doing[u] \in Starting /\ session[u] = session[t] => u = t
        /\ doing[t] = "add_agent" => \A a \in Agents : agents[a] # session[t]
        /\ \A u \in Requests : /\ session[u] = session[t]
                            /\ doing[u] \in Ending \cup {"using", "committing"}
                            => doing[t] = "add_session" /\ doing[u] = "remove_session"

AgentsDistinct ==
    \A a, b \in Registered : agents[a] = agents[b] => a = b

Unregistered ==
    \A t \in Requests : doing[t] \in Ending =>
        /\ \A a \in Agents : agents[a] # session[t]
        /\ \A u \in Requests : doing[u] \in Ending /\ session[u] = session[t] => u = t

TakenOut == \A t \in Requests : doing[t] \in {"unwrap", "count_closed"} => session[t] \notin sessions

Closing == \A t \in Requests : doing[t] = "count_closed" => Holders(session[t]) = {}

Linked(s) ==
    \/ s \in unlinked
    \/ \E a \in Agents : agents[a] = s
    \/ \E t \in Requests : doing[t] = "remove_session" /\ session[t] = s

SessionsLinked ==
    /\ \A s \in sessions : Linked(s)
    /\ \A t \in Requests : doing[t] = "add_session" => Linked(session[t])

Inv ==
    /\ IdsIssued /\ NotAddedYet /\ AgentsDistinct /\ Unregistered
    /\ TakenOut /\ Closing /\ SessionsLinked /\ AgentsResolve

\* With the limit: how many sessions there are and how many are on their way.
WithinLimit ==
    Cardinality(sessions) + Cardinality(Connecting) <= MaxAgents - 1 + Cardinality(Requests)
=============================================================================
