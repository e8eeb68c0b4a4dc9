------------------------- MODULE CoordinatorProofs -------------------------
(* Proofs about Coordinator, for any tasks, agents, limit and bound, and   *)
(* for any assignment of sessions to shards.                               *)
EXTENDS Coordinator, FiniteSetTheorems, TLAPS

USE DEF SessionIds, NoSession

(* Every variable keeps its type.                                          *)
THEOREM Typing == CoordinatorSpec => []CoordinatorTypeOK
<1>1. CoordinatorInit => CoordinatorTypeOK
  BY CoordinatorConstants DEF CoordinatorInit, CoordinatorTypeOK, Labels, Starting, Ending
<1>2. CoordinatorTypeOK /\ [CoordinatorNext]_coordinatorVars => CoordinatorTypeOK'
  <2> SUFFICES ASSUME CoordinatorTypeOK, [CoordinatorNext]_coordinatorVars PROVE CoordinatorTypeOK'
    OBVIOUS
  <2> USE DEF CoordinatorTypeOK, Labels, Starting, Ending, Goto, EndRequest, maps, metrics
  <2>0. Cardinality(Registered) \in Nat
    BY CoordinatorConstants, FS_CardinalityType, FS_Subset DEF Registered
  <2>1. ASSUME NEW t \in Requests, AlreadyConnected(t) PROVE CoordinatorTypeOK'
    BY <2>1 DEF AlreadyConnected
  <2>2. ASSUME NEW t \in Requests, CreateSession(t) PROVE CoordinatorTypeOK'
    BY <2>2 DEF CreateSession
  <2>3. ASSUME NEW t \in Requests, AddAgent(t) PROVE CoordinatorTypeOK'
    BY <2>3 DEF AddAgent
  <2>4. ASSUME NEW t \in Requests, AddSession(t) PROVE CoordinatorTypeOK'
    BY <2>4 DEF AddSession
  <2>5. ASSUME NEW t \in Requests, CountCreated(t) PROVE CoordinatorTypeOK'
    BY <2>0, <2>5 DEF CountCreated
  <2>6. ASSUME NEW t \in Requests, RemoveSession(t) PROVE CoordinatorTypeOK'
    BY <2>6 DEF RemoveSession
  <2>7. ASSUME NEW t \in Requests, NoSuchSession(t) PROVE CoordinatorTypeOK'
    BY <2>7 DEF NoSuchSession
  <2>8. ASSUME NEW t \in Requests, StillHeld(t) PROVE CoordinatorTypeOK'
    BY <2>8 DEF StillHeld
  <2>9. ASSUME NEW t \in Requests, Unwrap(t) PROVE CoordinatorTypeOK'
    BY <2>9 DEF Unwrap
  <2>10. ASSUME NEW t \in Requests, CountClosed(t) PROVE CoordinatorTypeOK'
    BY <2>0, <2>10 DEF CountClosed
  <2>11. ASSUME NEW t \in Requests, Release(t) PROVE CoordinatorTypeOK'
    BY <2>11 DEF Release
  <2>12. ASSUME NEW t \in Requests, NEW a \in Agents, Connect(t, a) PROVE CoordinatorTypeOK'
    BY <2>12 DEF Connect
  <2>13. ASSUME NEW t \in Requests, NEW a \in Agents, Disconnect(t, a) PROVE CoordinatorTypeOK'
    BY <2>13 DEF Disconnect
  <2>14. ASSUME NEW t \in Requests, NEW s \in sessions, GetSession(t, s) PROVE CoordinatorTypeOK'
    BY <2>14 DEF GetSession
  <2>15. ASSUME NEW t \in Requests, NEW s \in sessions, BeginSessionCommit(t, s) PROVE CoordinatorTypeOK'
    BY <2>15 DEF BeginSessionCommit
  <2>16. CASE UNCHANGED coordinatorVars
    BY <2>16 DEF coordinatorVars
  <2> QED
    BY <2>1, <2>2, <2>3, <2>4, <2>5, <2>6, <2>7, <2>8,
       <2>9, <2>10, <2>11, <2>12, <2>13, <2>14, <2>15, <2>16
       DEF CoordinatorNext, Step, MaxAgentsReached, NotConnected
<1> QED
  BY <1>1, <1>2, PTL DEF CoordinatorSpec

-----------------------------------------------------------------------------
(* The inductive invariant holds in every reachable state.                 *)
THEOREM Invariance == CoordinatorSpec => []Inv
<1> USE DEF Inv, IdsIssued, NotAddedYet, AgentsDistinct, Unregistered, TakenOut, Closing,
            SessionsLinked, Linked, AgentsResolve, Registered, Holders, Starting, Ending
<1>1. CoordinatorInit => Inv
  BY DEF CoordinatorInit
<1>2. CoordinatorTypeOK /\ Inv /\ [CoordinatorNext]_coordinatorVars => Inv'
  <2> SUFFICES ASSUME CoordinatorTypeOK, Inv, [CoordinatorNext]_coordinatorVars PROVE Inv'
    OBVIOUS
  <2> USE DEF CoordinatorTypeOK, Labels, Goto, EndRequest, maps, metrics
  <2>1. ASSUME NEW t \in Requests, AlreadyConnected(t) PROVE Inv'
    BY <2>1 DEF AlreadyConnected
  \* The id drawn is new to everybody.
  <2>2. ASSUME NEW t \in Requests, CreateSession(t) PROVE Inv'
    BY <2>2 DEF CreateSession
  \* The session was in nobody else's hands, so the agent it is registered with
  \* is its only one; the session it replaces becomes unlinked.
  <2>3. ASSUME NEW t \in Requests, AddAgent(t) PROVE Inv'
    BY <2>3 DEF AddAgent
  \* Its agent's entry, or the unlinking of the session, stands as before.
  <2>4. ASSUME NEW t \in Requests, AddSession(t) PROVE Inv'
    BY <2>4 DEF AddSession
  <2>5. ASSUME NEW t \in Requests, CountCreated(t) PROVE Inv'
    BY <2>5 DEF CountCreated
  \* No other task is about to add it, or to remove it, and no agent names it.
  <2>6. ASSUME NEW t \in Requests, RemoveSession(t) PROVE Inv'
    BY <2>6 DEF RemoveSession
  \* The session the agent was registered with has not been added yet.
  <2>7. ASSUME NEW t \in Requests, NoSuchSession(t) PROVE Inv'
    BY <2>7 DEF NoSuchSession
  <2>8. ASSUME NEW t \in Requests, StillHeld(t) PROVE Inv'
    BY <2>8 DEF StillHeld
  \* Nobody can take a clone of a session that has left the map.
  <2>9. ASSUME NEW t \in Requests, Unwrap(t) PROVE Inv'
    BY <2>9 DEF Unwrap
  <2>10. ASSUME NEW t \in Requests, CountClosed(t) PROVE Inv'
    BY <2>10 DEF CountClosed
  <2>11. ASSUME NEW t \in Requests, Release(t) PROVE Inv'
    BY <2>11 DEF Release
  <2>12. ASSUME NEW t \in Requests, NEW a \in Agents, Connect(t, a) PROVE Inv'
    BY <2>12 DEF Connect
  \* The entry removed named this session alone: no other task is ending it.
  <2>13. ASSUME NEW t \in Requests, NEW a \in Agents, Disconnect(t, a) PROVE Inv'
    BY <2>13 DEF Disconnect
  <2>14. ASSUME NEW t \in Requests, NEW s \in sessions, GetSession(t, s) PROVE Inv'
    BY <2>14 DEF GetSession
  <2>15. ASSUME NEW t \in Requests, NEW s \in sessions, BeginSessionCommit(t, s) PROVE Inv'
    BY <2>15 DEF BeginSessionCommit
  <2>16. CASE UNCHANGED coordinatorVars
    BY <2>16 DEF coordinatorVars
  <2> QED
    BY <2>1, <2>2, <2>3, <2>4, <2>5, <2>6, <2>7, <2>8,
       <2>9, <2>10, <2>11, <2>12, <2>13, <2>14, <2>15, <2>16
       DEF CoordinatorNext, Step, MaxAgentsReached, NotConnected
<1> QED
  BY <1>1, <1>2, Typing, PTL DEF CoordinatorSpec

(* An agent's entry names a session in the map or about to be added.       *)
THEOREM Resolution == CoordinatorSpec => []AgentsResolve
  BY Invariance, PTL DEF Inv

(* A session is closed by one task, out of the map, with no handler in it. *)
THEOREM Exclusion == CoordinatorSpec => []ClosedAlone
<1>1. Inv => ClosedAlone
  BY DEF Inv, TakenOut, Closing, Unregistered, Ending, ClosedAlone
<1> QED
  BY <1>1, Invariance, PTL

(* With no call in progress, a session no agent names was unlinked by a    *)
(* second connect or by a disconnect that came too early.                  *)
THEOREM Stranding == CoordinatorSpec => []StrandedOnlyByRace
<1>1. Inv => StrandedOnlyByRace
  BY DEF Inv, SessionsLinked, Linked, StrandedOnlyByRace
<1> QED
  BY <1>1, Invariance, PTL

-----------------------------------------------------------------------------
(* The theorems that count.  A step moves at most one task from one of the *)
(* three sets to the next, and one session into the map or out of it.      *)

Counts == IsFiniteSet(sessions) /\ WithinLimit /\ SessionsAccounted

USE DEF Counts, WithinLimit, SessionsAccounted

(* Sets of tasks are finite, and one task changes their size by one.       *)
LEMMA TaskSets ==
  /\ IsFiniteSet(Connecting) /\ IsFiniteSet(Counting) /\ IsFiniteSet(Closers)
  /\ \A S \in SUBSET Requests : \A t \in Requests :
        /\ Cardinality(S) \in Nat /\ Cardinality(S) <= Cardinality(Requests)
        /\ Cardinality(S \cup {t}) = IF t \in S THEN Cardinality(S) ELSE Cardinality(S) + 1
        /\ Cardinality(S \ {t}) = IF t \in S THEN Cardinality(S) - 1 ELSE Cardinality(S)
<1>1. ASSUME NEW S \in SUBSET Requests
      PROVE  IsFiniteSet(S) /\ Cardinality(S) \in Nat /\ Cardinality(S) <= Cardinality(Requests)
  BY CoordinatorConstants, FS_Subset, FS_CardinalityType
<1>2. ASSUME NEW S \in SUBSET Requests, NEW t \in Requests
      PROVE  /\ Cardinality(S \cup {t}) = IF t \in S THEN Cardinality(S) ELSE Cardinality(S) + 1
             /\ Cardinality(S \ {t}) = IF t \in S THEN Cardinality(S) - 1 ELSE Cardinality(S)
  BY <1>1, FS_AddElement, FS_RemoveElement
<1> QED
  BY <1>1, <1>2 DEF Connecting, Counting, Closers

(* A step that leaves the sessions, the sums and the three sets alone.     *)
LEMMA NothingCounted ==
  ASSUME Counts, UNCHANGED <<sessions, created, closed, dropped, Connecting, Counting, Closers>>
  PROVE  Counts'
  OBVIOUS

(* The counts hold in every reachable state.                               *)
THEOREM SessionsCounted == CoordinatorSpec => []Counts
<1> USE TaskSets DEF CoordinatorTypeOK, Labels, Goto, EndRequest, maps, metrics
<1>1. CoordinatorInit => Counts
  <2> SUFFICES ASSUME CoordinatorInit PROVE Counts
    OBVIOUS
  <2>1. sessions = {} /\ Connecting = {} /\ Counting = {} /\ Closers = {}
    BY DEF CoordinatorInit, Connecting, Counting, Closers
  <2>2. Cardinality(Requests) \in Nat /\ Cardinality({}) = 0 /\ IsFiniteSet({})
    BY FS_EmptySet, FS_CardinalityType, CoordinatorConstants
  <2> QED
    BY <2>1, <2>2, CoordinatorConstants DEF CoordinatorInit
<1>2. CoordinatorTypeOK /\ Inv /\ Counts /\ [CoordinatorNext]_coordinatorVars => Counts'
  <2> SUFFICES ASSUME CoordinatorTypeOK, Inv, Counts, [CoordinatorNext]_coordinatorVars PROVE Counts'
    OBVIOUS
  <2>0. /\ Cardinality(sessions) \in Nat /\ Cardinality(Requests) \in Nat
        /\ Cardinality(Connecting) \in Nat /\ Cardinality(Counting) \in Nat
        /\ Cardinality(Closers) \in Nat
    BY FS_CardinalityType, CoordinatorConstants
  \* Connect: there is room for one more, and t is not connecting yet.
  <2>1. ASSUME NEW t \in Requests, NEW a \in Agents, Connect(t, a) PROVE Counts'
    <3>1. Connecting' \in SUBSET Requests /\ Counting' = Counting /\ Closers' = Closers
      BY <2>1 DEF Connect, Connecting, Counting, Closers
    <3>2. Cardinality(Connecting') \in Nat /\ Cardinality(Connecting') <= Cardinality(Requests)
      BY <2>1, <3>1
    <3>3. Cardinality(sessions) <= MaxAgents - 1 /\ sessions' = sessions
      BY <2>0, <2>1, CoordinatorConstants DEF Connect
    <3>4. WithinLimit'
      BY <2>0, <3>2, <3>3, CoordinatorConstants
    <3> QED
      BY <2>1, <3>1, <3>3, <3>4 DEF Connect
  <2>2. ASSUME NEW t \in Requests, AlreadyConnected(t) PROVE Counts'
    <3>1. /\ Connecting \in SUBSET Requests /\ t \in Connecting /\ Connecting' = Connecting \ {t}
          /\ Counting' = Counting /\ Closers' = Closers
      BY <2>2 DEF AlreadyConnected, Connecting, Counting, Closers
    <3> QED
      BY <2>0, <2>2, <3>1, CoordinatorConstants DEF AlreadyConnected
  \* AddSession: one task fewer is connecting, and one session more is there.
  <2>3. ASSUME NEW t \in Requests, AddSession(t) PROVE Counts'
    <3>1. /\ Connecting \in SUBSET Requests /\ t \in Connecting /\ Connecting' = Connecting \ {t}
          /\ Counting \in SUBSET Requests /\ t \notin Counting /\ Counting' = Counting \cup {t}
          /\ Closers' = Closers
      BY <2>3 DEF AddSession, Connecting, Counting, Closers
    <3>2. session[t] \notin sessions
      BY <2>3 DEF AddSession, Inv, NotAddedYet, Starting
    <3>3. IsFiniteSet(sessions') /\ Cardinality(sessions') = Cardinality(sessions) + 1
      BY <2>3, <3>2, FS_AddElement DEF AddSession
    <3>4. /\ Cardinality(Connecting') = Cardinality(Connecting) - 1
          /\ Cardinality(Counting') = Cardinality(Counting) + 1
      BY <3>1
    <3> QED
      BY <2>0, <2>3, <3>1, <3>3, <3>4, CoordinatorConstants DEF AddSession
  <2>4. ASSUME NEW t \in Requests, CountCreated(t) PROVE Counts'
    <3>1. /\ Counting \in SUBSET Requests /\ t \in Counting /\ Counting' = Counting \ {t}
          /\ Connecting' = Connecting /\ Closers' = Closers
      BY <2>4 DEF CountCreated, Connecting, Counting, Closers
    <3>2. Cardinality(Counting') = Cardinality(Counting) - 1
      BY <3>1
    <3> QED
      BY <2>0, <2>4, <3>1, <3>2 DEF CountCreated
  <2>5. ASSUME NEW t \in Requests, RemoveSession(t) PROVE Counts'
    <3>1. /\ Closers \in SUBSET Requests /\ t \notin Closers /\ Closers' = Closers \cup {t}
          /\ Connecting' = Connecting /\ Counting' = Counting
      BY <2>5 DEF RemoveSession, Connecting, Counting, Closers
    <3>2. IsFiniteSet(sessions') /\ Cardinality(sessions') = Cardinality(sessions) - 1
      BY <2>5, FS_RemoveElement DEF RemoveSession
    <3>3. Cardinality(Closers') = Cardinality(Closers) + 1
      BY <3>1
    <3> QED
      BY <2>0, <2>5, <3>1, <3>2, <3>3, CoordinatorConstants DEF RemoveSession
  \* StillHeld, CountClosed: one task fewer, one session dropped or closed more.
  <2>6. ASSUME NEW t \in Requests, StillHeld(t) \/ CountClosed(t) PROVE Counts'
    <3>1. /\ Closers \in SUBSET Requests /\ t \in Closers /\ Closers' = Closers \ {t}
          /\ Connecting' = Connecting /\ Counting' = Counting
      BY <2>6 DEF StillHeld, CountClosed, Connecting, Counting, Closers
    <3> QED
      BY <2>0, <2>6, <3>1 DEF StillHeld, CountClosed
  <2>7. ASSUME NEW t \in Requests,
               CreateSession(t) \/ AddAgent(t) \/ NoSuchSession(t) \/ Unwrap(t) \/ Release(t)
        PROVE  Counts'
    <3>1. UNCHANGED <<Connecting, Counting, Closers>>
      BY <2>7 DEF CreateSession, AddAgent, NoSuchSession, Unwrap, Release,
                  Connecting, Counting, Closers
    <3> QED
      BY <2>7, <3>1, NothingCounted DEF CreateSession, AddAgent, NoSuchSession, Unwrap, Release
  <2>8. ASSUME NEW t \in Requests, NEW a \in Agents, Disconnect(t, a) PROVE Counts'
    <3>1. UNCHANGED <<Connecting, Counting, Closers>>
      BY <2>8 DEF Disconnect, Connecting, Counting, Closers
    <3> QED
      BY <2>8, <3>1, NothingCounted DEF Disconnect
  <2>9. ASSUME NEW t \in Requests, NEW s \in sessions, GetSession(t, s) \/ BeginSessionCommit(t, s)
        PROVE  Counts'
    <3>1. UNCHANGED <<Connecting, Counting, Closers>>
      BY <2>9 DEF GetSession, BeginSessionCommit, Connecting, Counting, Closers
    <3> QED
      BY <2>9, <3>1, NothingCounted DEF GetSession, BeginSessionCommit
  <2>10. CASE UNCHANGED coordinatorVars
    BY <2>10, NothingCounted DEF coordinatorVars, Connecting, Counting, Closers
  <2> QED
    BY <2>1, <2>2, <2>3, <2>4, <2>5, <2>6, <2>7, <2>8, <2>9, <2>10
       DEF CoordinatorNext, Step, MaxAgentsReached, NotConnected
<1> QED
  BY <1>1, <1>2, Typing, Invariance, PTL DEF CoordinatorSpec

(* The limit is exceeded by the requests under way together, and no more.  *)
THEOREM Limit == CoordinatorSpec => []SessionsBounded
<1>1. Counts => SessionsBounded
  BY TaskSets, FS_CardinalityType, CoordinatorConstants DEF SessionsBounded, Connecting
<1> QED
  BY <1>1, SessionsCounted, PTL

(* The counters account for every session.                                 *)
THEOREM Accounting == CoordinatorSpec => []SessionsAccounted
  BY SessionsCounted, PTL DEF Counts

-----------------------------------------------------------------------------
\* A call that has changed the agents and has still to count them, or to skip it.
Recounting == {t \in Requests : doing[t] \in {"add_session", "count_created"} \cup Ending}

(* With no call in progress active_agents is the number of registered      *)
(* agents, or a disconnect has skipped the count since the last one, as it *)
(* does for a session that a handler holds and for one not in the map:     *)
(* until then a call that will settle it is under way.                     *)
THEOREM Convergence == CoordinatorSpec => []ActiveConverges
<1> DEFINE Settled == active = Cardinality(Registered) \/ recount = "skipped" \/ Recounting # {}
<1> USE DEF CoordinatorTypeOK, Labels, Ending, Recounting, Goto, EndRequest, maps, metrics
<1>1. CoordinatorInit => Settled
  <2>1. CoordinatorInit => Registered = {}
    BY DEF CoordinatorInit, Registered
  <2> QED
    BY <2>1, FS_EmptySet DEF CoordinatorInit
<1>2. CoordinatorTypeOK /\ Settled /\ [CoordinatorNext]_coordinatorVars => Settled'
  <2> SUFFICES ASSUME CoordinatorTypeOK, Settled, [CoordinatorNext]_coordinatorVars PROVE Settled'
    OBVIOUS
  <2>1. ASSUME NEW t \in Requests, CountCreated(t) \/ CountClosed(t) PROVE Settled'
    <3>1. Registered' = Registered
      BY <2>1 DEF CountCreated, CountClosed, Registered
    <3> QED
      BY <2>1, <3>1 DEF CountCreated, CountClosed
  <2>2. ASSUME NEW t \in Requests, NoSuchSession(t) \/ StillHeld(t) PROVE Settled'
    BY <2>2 DEF NoSuchSession, StillHeld
  <2>3. ASSUME NEW t \in Requests, AddAgent(t) \/ AddSession(t) \/ RemoveSession(t) \/ Unwrap(t)
        PROVE  Settled'
    BY <2>3 DEF AddAgent, AddSession, RemoveSession, Unwrap
  <2>4. ASSUME NEW t \in Requests, NEW a \in Agents, Disconnect(t, a) PROVE Settled'
    BY <2>4 DEF Disconnect
  <2>5. ASSUME NEW t \in Requests, AlreadyConnected(t) \/ CreateSession(t) \/ Release(t)
        PROVE  Settled'
    <3>1. Registered' = Registered /\ Recounting \subseteq Recounting'
      BY <2>5 DEF AlreadyConnected, CreateSession, Release, Registered
    <3> QED
      BY <2>5, <3>1 DEF AlreadyConnected, CreateSession, Release
  <2>6. ASSUME NEW t \in Requests, NEW a \in Agents, Connect(t, a) PROVE Settled'
    <3>1. Registered' = Registered /\ Recounting \subseteq Recounting'
      BY <2>6 DEF Connect, Registered
    <3> QED
      BY <2>6, <3>1 DEF Connect
  <2>7. ASSUME NEW t \in Requests, NEW s \in sessions, GetSession(t, s) \/ BeginSessionCommit(t, s)
        PROVE  Settled'
    <3>1. Registered' = Registered /\ Recounting \subseteq Recounting'
      BY <2>7 DEF GetSession, BeginSessionCommit, Registered
    <3> QED
      BY <2>7, <3>1 DEF GetSession, BeginSessionCommit
  <2>8. CASE UNCHANGED coordinatorVars
    BY <2>8 DEF coordinatorVars, Registered
  <2> QED
    BY <2>1, <2>2, <2>3, <2>4, <2>5, <2>6, <2>7, <2>8
       DEF CoordinatorNext, Step, MaxAgentsReached, NotConnected
<1>3. Settled => ActiveConverges
  BY DEF ActiveConverges
<1> QED
  BY <1>1, <1>2, <1>3, Typing, PTL DEF CoordinatorSpec
=============================================================================
