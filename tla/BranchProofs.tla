---------------------------- MODULE BranchProofs ----------------------------
(* Proofs about Branch, for any branches, tasks and edits, any types over   *)
(* finitely many ids, and any sequences of entries inserted beside the      *)
(* commits.                                                                *)
EXTENDS Branch, FiniteSetTheorems, TLAPS

-----------------------------------------------------------------------------
(* The inductive invariant.  A task visits its batch from front to back,   *)
(* once to validate it and once to publish it; what is known of an entry   *)
(* visited stays true, because the universe only gains types.              *)

\* How many entries of its batch the task's loop has left behind.
Visited(t) == Len(batch[t]) - Len(work[t])

\* The loop has the rest of its batch before it.
WorkIsRest(t) ==
    /\ Len(work[t]) <= Len(batch[t])
    /\ \A n \in 1 .. Len(work[t]) : work[t][n] = batch[t][Visited(t) + n]

\* A task outside the loops has nothing in hand, and one that has conflicts or
\* validates has published nothing.
InHand(t) ==
    /\ pc[t] \in {"idle", "clone"} =>
          batch[t] = <<>> /\ work[t] = <<>> /\ conflicts[t] = {} /\ unseen[t] = {}
    /\ pc[t] = "idle" => branch[t] = NoBranch
    /\ pc[t] \in {"insert", "list"} => conflicts[t] = {}
    /\ pc[t] \notin {"insert", "list"} => applied[t] = {}

\* A commit's batch comes from a map: one entry for an id.
IdsDistinct(t) ==
    branch[t] # NoBranch =>
        \A m, n \in DOMAIN batch[t] : batch[t][m].id = batch[t][n].id => m = n

Compatible(e) == types[e.id] # Absent /\ types_compatible(e.typ, types[e.id])

\* An entry validated is compatible, was not there, or is in conflict.
Validated(t) ==
    branch[t] # NoBranch /\ pc[t] \in {"validate", "insert", "list"} =>
        \A n \in DOMAIN batch[t] :
            n <= Visited(t) \/ pc[t] # "validate" =>
                \/ Compatible(batch[t][n])
                \/ batch[t][n].id \in unseen[t] \cup conflicts[t]

\* The entries insert_type has looked up: those visited, and the one it lists.
Tried(t) ==
    {n \in DOMAIN batch[t] : n <= Visited(t) \/ (pc[t] = "list" /\ n = Visited(t) + 1)}

\* An entry published is in the table, compatible or after an insert that came first.
Published(t) ==
    branch[t] # NoBranch /\ pc[t] \in {"insert", "list"} =>
        /\ \A n \in Tried(t) :
              /\ types[batch[t][n].id] # Absent
              /\ \/ types_compatible(batch[t][n].typ, types[batch[t][n].id])
                 \/ batch[t][n].id \in unseen[t] \ applied[t]
        /\ applied[t] \subseteq {batch[t][n].id : n \in Tried(t)}

\* The entry being listed has its id in the table.
ListsKnown(t) == pc[t] = "list" => work[t] # <<>> /\ types[Head(work[t]).id] # Absent

TaskInv(t) ==
    /\ WorkIsRest(t) /\ InHand(t) /\ IdsDistinct(t)
    /\ Validated(t) /\ Published(t) /\ ListsKnown(t)

Inv == IndexCovers /\ \A t \in Tasks : TaskInv(t)

-----------------------------------------------------------------------------
(* What a commit clones is a sequence of the entries its branch holds, no  *)
(* two of them with one id.                                                *)
LEMMA Clones ==
  ASSUME BranchTypeOK, NEW b, NEW order \in SetToSeqs(LocalEntries(b))
  PROVE  /\ order \in Seq(Entries)
         /\ \A m, n \in DOMAIN order : order[m].id = order[n].id => m = n
<1> DEFINE E == LocalEntries(b)
           id == [e \in E |-> e.id]
<1>1. id \in Injection(E, TypeIds)
  <2>1. id \in [E -> TypeIds]
    BY DEF LocalEntries, Entries
  <2>2. ASSUME NEW d \in E, NEW e \in E, id[d] = id[e] PROVE d = e
    <3>1. d.id = e.id
      BY <2>2
    <3> QED
      BY <3>1 DEF LocalEntries, Entries
  <2> QED
    BY <2>1, <2>2 DEF Injection, IsInjective
<1>2. IsFiniteSet(E)
  BY <1>1, BranchConstants, FS_Injection
<1>3. Cardinality(E) \in Nat
  BY <1>2, FS_CardinalityType
<1>4. /\ order \in [1 .. Cardinality(E) -> E]
      /\ \A i, j \in 1 .. Cardinality(E) : i # j => order[i] # order[j]
  BY DEF SetToSeqs
<1>5. order \in Seq(Entries)
  BY <1>3, <1>4 DEF LocalEntries
<1>6. ASSUME NEW m \in DOMAIN order, NEW n \in DOMAIN order, order[m].id = order[n].id
      PROVE  m = n
  <2>1. order[m] \in E /\ order[n] \in E
    BY <1>4, <1>6
  <2>2. order[m] = order[n]
    BY <1>6, <2>1 DEF LocalEntries, Entries
  <2> QED
    BY <1>4, <1>6, <2>2
<1> QED
  BY <1>5, <1>6

\* insert_type lists an entry it has.
ListsSomething == \A t \in Tasks : pc[t] = "list" => work[t] # <<>>

(* Every variable keeps its type.                                          *)
THEOREM Typing == BranchSpec => []BranchTypeOK
<1> DEFINE Typed == BranchTypeOK /\ ListsSomething
<1>1. BranchInit => Typed
  BY DEF BranchInit, BranchTypeOK, UniverseInit, UniverseTypeOK, ListsSomething
<1>2. Typed /\ [BranchNext]_commitVars => Typed'
  <2> SUFFICES ASSUME Typed, [BranchNext]_commitVars PROVE Typed'
    OBVIOUS
  <2> USE TypeUniverseConstants
      DEF BranchTypeOK, UniverseTypeOK, ListsSomething, Return, universe, branchVars, callVars
  <2>1. ASSUME NEW b \in Branches, NEW e \in Edits, InsertLocal(b, e) PROVE Typed'
    BY <2>1, BranchConstants DEF InsertLocal, Entries
  <2>2. ASSUME NEW b \in Branches, Checkpoint(b) PROVE Typed'
    BY <2>2 DEF Checkpoint
  <2>3. ASSUME NEW b \in Branches, Rollback(b) PROVE Typed'
    BY <2>3 DEF Rollback
  <2>4. ASSUME NEW t \in Tasks, NEW b \in Branches, BeginCommit(t, b) PROVE Typed'
    BY <2>4 DEF BeginCommit
  <2>5. ASSUME NEW t \in Tasks, NEW ops \in Transactions, BeginTransaction(t, ops)
        PROVE  Typed'
    BY <2>5, BranchConstants DEF BeginTransaction
  <2>6. ASSUME NEW t \in Tasks, Clone(t) PROVE Typed'
    <3>1. PICK order \in SetToSeqs(LocalEntries(branch[t])) :
             /\ batch' = [batch EXCEPT ![t] = order]
             /\ work' = [work EXCEPT ![t] = order]
      BY <2>6 DEF Clone
    <3>2. order \in Seq(Entries)
      BY Clones
    <3> QED
      BY <2>6, <3>1, <3>2 DEF Clone
  <2>7. ASSUME NEW t \in Tasks, Validate(t) PROVE Typed'
    <3>1. Head(work[t]) \in Entries /\ Tail(work[t]) \in Seq(Entries)
      BY <2>7 DEF Validate
    <3> QED
      BY <2>7, <3>1, ZenonT(30) DEF Validate, Entries
  <2>8. ASSUME NEW t \in Tasks, Refuse(t) PROVE Typed'
    BY <2>8 DEF Refuse
  <2>9. ASSUME NEW t \in Tasks, Accept(t) PROVE Typed'
    BY <2>9 DEF Accept
  <2>10. ASSUME NEW t \in Tasks, Insert(t) PROVE Typed'
    <3>1. Head(work[t]) \in Entries
      BY <2>10 DEF Insert
    <3> QED
      BY <2>10, <3>1 DEF Insert, InsertIfAbsent, Entries
  <2>11. ASSUME NEW t \in Tasks, ListInserted(t) PROVE Typed'
    <3>1. Head(work[t]) \in Entries /\ Tail(work[t]) \in Seq(Entries)
      BY <2>11 DEF ListInserted
    <3>2. List(Head(work[t])) /\ UniverseTypeOK => fingerprint_index' \in [Fingerprints -> SUBSET TypeIds]
      BY <3>1 DEF List, UniverseTypeOK, Entries
    <3> QED
      BY <2>11, <3>1, <3>2 DEF ListInserted
  <2>12. ASSUME NEW t \in Tasks, Finish(t) PROVE Typed'
    BY <2>12 DEF Finish
  <2>13. CASE UNCHANGED commitVars
    BY <2>13 DEF commitVars
  <2> QED
    BY <2>1, <2>2, <2>3, <2>4, <2>5, <2>6, <2>7, <2>8, <2>9, <2>10, <2>11, <2>12, <2>13
       DEF BranchNext
<1> QED
  BY <1>1, <1>2, PTL DEF BranchSpec

-----------------------------------------------------------------------------
\* The universe never replaces a type, and never loses one.
Grows == \A i \in TypeIds : types[i] # Absent => types'[i] = types[i]

(* Every step lets the universe grow: insert_type is the only writer, and  *)
(* a key the table has is refused.                                         *)
LEMMA Growth == BranchTypeOK /\ [BranchNext]_commitVars => Grows
<1> SUFFICES ASSUME BranchTypeOK, [BranchNext]_commitVars PROVE Grows
  OBVIOUS
<1> USE DEF BranchTypeOK, UniverseTypeOK, Return, universe, branchVars, callVars, Grows
<1>1. ASSUME NEW t \in Tasks, Insert(t) PROVE Grows
  BY <1>1 DEF Insert, InsertIfAbsent
<1>2. CASE UNCHANGED types
  BY <1>2
<1> QED
  BY <1>1, <1>2 DEF BranchNext, commitVars, InsertLocal, Checkpoint, Rollback, BeginCommit,
     BeginTransaction, Clone, Validate, Refuse, Accept, ListInserted, Finish

(* What a branch reads stays as it is until the branch itself changes it.  *)
THEOREM Reading == BranchSpec => ReadsStable
<1>1. BranchTypeOK /\ [BranchNext]_commitVars =>
        [\A b \in Branches, i \in TypeIds :
            /\ get_type(b, i) # Absent
            /\ local_types'[b] = local_types[b]
            => get_type(b, i)' = get_type(b, i)]_commitVars
  BY Growth DEF Grows, get_type
<1> QED
  BY <1>1, Typing, PTL DEF BranchSpec, ReadsStable

-----------------------------------------------------------------------------
(* What the invariant says of a task that does not move outlives the steps *)
(* of the others.                                                          *)
LEMMA Undisturbed ==
  ASSUME BranchTypeOK, Grows, NEW u \in Tasks, TaskInv(u),
         pc'[u] = pc[u], branch'[u] = branch[u], batch'[u] = batch[u], work'[u] = work[u],
         conflicts'[u] = conflicts[u], unseen'[u] = unseen[u], applied'[u] = applied[u]
  PROVE  TaskInv(u)'
<1> USE DEF BranchTypeOK, UniverseTypeOK, TaskInv, Grows, Visited, Tried
<1>1. (WorkIsRest(u) /\ InHand(u) /\ IdsDistinct(u))'
  BY DEF WorkIsRest, InHand, IdsDistinct
<1>2. \A n \in DOMAIN batch[u] : batch[u][n].id \in TypeIds
  <2>1. batch[u] \in Seq(Entries)
    OBVIOUS
  <2>2. \A n \in DOMAIN batch[u] : batch[u][n] \in Entries
    BY <2>1
  <2> QED
    BY <2>2 DEF Entries
<1>3. Validated(u)'
  BY <1>2 DEF Validated, Compatible, types_compatible
<1>4. Published(u)'
  <2>1. Tried(u)' = Tried(u)
    OBVIOUS
  <2> HIDE DEF Tried
  <2>2. Tried(u) \subseteq DOMAIN batch[u]
    BY DEF Tried
  <2> SUFFICES ASSUME branch[u] # NoBranch, pc[u] \in {"insert", "list"}
               PROVE  /\ \A n \in Tried(u) :
                            /\ types'[batch[u][n].id] # Absent
                            /\ \/ types_compatible(batch[u][n].typ, types'[batch[u][n].id])
                               \/ batch[u][n].id \in unseen[u] \ applied[u]
                      /\ applied[u] \subseteq {batch[u][n].id : n \in Tried(u)}
    BY <2>1 DEF Published, types_compatible
  <2>3. \A n \in Tried(u) : types'[batch[u][n].id] = types[batch[u][n].id]
    BY <1>2, <2>2 DEF Published
  <2> QED
    BY <2>3 DEF Published
<1>5. ListsKnown(u)'
  <2>1. pc[u] = "list" => Head(work[u]) \in Entries
    BY DEF ListsKnown
  <2> QED
    BY <2>1 DEF ListsKnown, Entries
<1> QED
  BY <1>1, <1>3, <1>4, <1>5

(* A step of a task that is in neither half of insert_type leaves the      *)
(* agreement of index and table alone.                                     *)
LEMMA IndexKept ==
  ASSUME IndexCovers, UNCHANGED universe, NEW t, pc[t] # "list",
         \A u \in Tasks \ {t} : pc'[u] = pc[u] /\ work'[u] = work[u]
  PROVE  IndexCovers'
  BY DEF IndexCovers, Listing, universe

(* The loop over the batch: what is visited, and what comes next.          *)
LEMMA Loop ==
  ASSUME BranchTypeOK, NEW t \in Tasks, WorkIsRest(t), work[t] # <<>>
  PROVE  /\ Visited(t) \in Nat
         /\ Visited(t) + 1 \in DOMAIN batch[t]
         /\ Head(work[t]) = batch[t][Visited(t) + 1]
         /\ Head(work[t]) \in Entries
         /\ Head(work[t]).id \in TypeIds
         /\ Len(batch[t]) - Len(Tail(work[t])) = Visited(t) + 1
         /\ Len(Tail(work[t])) <= Len(batch[t])
         /\ \A n \in 1 .. Len(Tail(work[t])) :
               Tail(work[t])[n] = batch[t][Visited(t) + 1 + n]
<1>1. work[t] \in Seq(Entries) /\ batch[t] \in Seq(Entries)
  BY DEF BranchTypeOK
<1>2. Len(work[t]) \in Nat \ {0} /\ Len(batch[t]) \in Nat
  BY <1>1
<1>3. Len(Tail(work[t])) = Len(work[t]) - 1
  BY <1>1
<1>4. Head(work[t]) = work[t][1] /\ Head(work[t]) \in Entries
  BY <1>1
<1>5. \A n \in 1 .. Len(Tail(work[t])) : Tail(work[t])[n] = work[t][n + 1]
  BY <1>1, <1>2, <1>3
<1> USE DEF WorkIsRest, Visited
<1>6. /\ Visited(t) \in Nat
      /\ Visited(t) + 1 \in DOMAIN batch[t]
      /\ Len(batch[t]) - Len(Tail(work[t])) = Visited(t) + 1
      /\ Len(Tail(work[t])) <= Len(batch[t])
  <2> DEFINE w == Len(work[t])
             k == Len(batch[t])
  <2>1. w <= k /\ DOMAIN batch[t] = 1 .. k
    BY <1>1
  <2>2. w \in Nat /\ w >= 1 /\ k \in Nat /\ Visited(t) = k - w /\ Len(Tail(work[t])) = w - 1
    BY <1>2, <1>3
  <2> HIDE DEF w, k, Visited, WorkIsRest
  <2>3. k - w \in Nat /\ k - w + 1 \in 1 .. k /\ k - (w - 1) = k - w + 1 /\ w - 1 <= k
    BY <2>1, <2>2
  <2> QED
    BY <2>1, <2>2, <2>3 DEF k
<1> DEFINE v == Visited(t)
<1> HIDE DEF Visited, v
<1>7. \A n \in 1 .. Len(work[t]) : work[t][n] = batch[t][v + n]
  BY DEF v
<1>8. work[t][1] = batch[t][v + 1]
  BY <1>2, <1>7
<1>9. ASSUME NEW n \in 1 .. Len(Tail(work[t]))
      PROVE  Tail(work[t])[n] = batch[t][v + 1 + n]
  <2>1. n + 1 \in 1 .. Len(work[t]) /\ n \in Nat
    BY <1>2, <1>3
  <2>2. work[t][n + 1] = batch[t][v + (n + 1)]
    BY <1>7, <2>1
  <2>3. v + (n + 1) = v + 1 + n
    BY <1>6, <2>1 DEF v
  <2> QED
    BY <1>5, <2>2, <2>3
<1>10. Head(work[t]) = batch[t][Visited(t) + 1]
  BY <1>4, <1>8 DEF v
<1>11. \A n \in 1 .. Len(Tail(work[t])) : Tail(work[t])[n] = batch[t][Visited(t) + 1 + n]
  BY <1>9 DEF v
<1> QED
  BY <1>4, <1>6, <1>10, <1>11 DEF Entries

(* The inductive invariant holds in every reachable state.                 *)
THEOREM Invariance == BranchSpec => []Inv
<1>1. BranchInit => Inv
  <2> SUFFICES ASSUME BranchInit PROVE Inv
    OBVIOUS
  <2>1. IndexCovers
    BY DEF BranchInit, UniverseInit, IndexCovers
  <2>2. ASSUME NEW t \in Tasks PROVE TaskInv(t)
    BY <2>2 DEF BranchInit, UniverseInit, TaskInv, WorkIsRest, InHand, IdsDistinct, Validated,
       Published, ListsKnown, Visited, Tried
  <2> QED
    BY <2>1, <2>2 DEF Inv
<1>2. BranchTypeOK /\ Inv /\ [BranchNext]_commitVars => Inv'
  <2> SUFFICES ASSUME BranchTypeOK, Inv, [BranchNext]_commitVars PROVE Inv'
    OBVIOUS
  <2> USE DEF Inv
  <2>0. Grows
    BY Growth
  \* A step of one task is followed by what it means for the task itself.
  <2>1. ASSUME NEW t \in Tasks, TaskInv(t)', IndexCovers',
               \A u \in Tasks \ {t} :
                  /\ pc'[u] = pc[u] /\ branch'[u] = branch[u] /\ batch'[u] = batch[u]
                  /\ work'[u] = work[u] /\ conflicts'[u] = conflicts[u]
                  /\ unseen'[u] = unseen[u] /\ applied'[u] = applied[u]
        PROVE  Inv'
    <3>1. \A u \in Tasks \ {t} : TaskInv(u)'
      BY <2>0, <2>1, Undisturbed
    <3> QED
      BY <2>1, <3>1
  <2>2. ASSUME UNCHANGED <<universe, callVars>> PROVE Inv'
    <3>1. \A u \in Tasks : TaskInv(u)'
      BY <2>0, <2>2, Undisturbed DEF callVars
    <3>2. IndexCovers'
      BY <2>2 DEF IndexCovers, Listing, universe, callVars
    <3> QED
      BY <3>1, <3>2
  <2>3. ASSUME NEW t \in Tasks, NEW b \in Branches, BeginCommit(t, b) PROVE Inv'
    <3>1. TaskInv(t)'
      <4>1. batch'[t] = <<>> /\ work'[t] = <<>> /\ pc'[t] = "clone" /\ applied'[t] = {}
        BY <2>3 DEF BeginCommit, BranchTypeOK, TaskInv, InHand
      <4>2. WorkIsRest(t)'
        BY <4>1 DEF WorkIsRest, Visited
      <4> QED
        BY <2>3, <4>1, <4>2 DEF BeginCommit, TaskInv, InHand, IdsDistinct, Validated,
           Published, ListsKnown
    <3>2. IndexCovers'
      BY <2>3, IndexKept DEF BeginCommit, BranchTypeOK
    <3> QED
      BY <2>1, <2>3, <3>1, <3>2 DEF BeginCommit, BranchTypeOK
  <2>4. ASSUME NEW t \in Tasks, NEW ops \in Transactions, BeginTransaction(t, ops) PROVE Inv'
    <3>1. TaskInv(t)'
      <4>1. branch'[t] = NoBranch
        BY <2>4 DEF BeginTransaction, TaskInv, InHand
      <4>2. ops \in Seq(Entries)
        BY BranchConstants
      <4>3. batch'[t] = ops /\ work'[t] = ops /\ pc'[t] = "insert"
        BY <2>4 DEF BeginTransaction, BranchTypeOK
      <4>4. WorkIsRest(t)'
        BY <4>2, <4>3 DEF WorkIsRest, Visited
      <4> QED
        BY <2>4, <4>1, <4>3, <4>4 DEF BeginTransaction, BranchTypeOK, TaskInv, InHand, IdsDistinct,
           Validated, Published, ListsKnown
    <3>2. IndexCovers'
      BY <2>4, IndexKept DEF BeginTransaction, BranchTypeOK
    <3> QED
      BY <2>1, <2>4, <3>1, <3>2 DEF BeginTransaction, BranchTypeOK
  <2>5. ASSUME NEW t \in Tasks, Clone(t) PROVE Inv'
    <3>1. PICK order \in SetToSeqs(LocalEntries(branch[t])) :
             /\ batch' = [batch EXCEPT ![t] = order]
             /\ work' = [work EXCEPT ![t] = order]
      BY <2>5 DEF Clone
    <3>2. /\ order \in Seq(Entries)
          /\ \A m, n \in DOMAIN order : order[m].id = order[n].id => m = n
      BY Clones
    <3>3. batch'[t] = order /\ work'[t] = order /\ pc'[t] = "validate" /\ conflicts'[t] = {}
      BY <2>5, <3>1 DEF Clone, BranchTypeOK, TaskInv, InHand
    <3>4. Visited(t)' = 0 /\ DOMAIN order = 1 .. Len(order)
      BY <3>2, <3>3 DEF Visited
    <3>5. WorkIsRest(t)' /\ Validated(t)'
      BY <3>2, <3>3, <3>4 DEF WorkIsRest, Validated
    <3>6. TaskInv(t)'
      BY <2>5, <3>2, <3>3, <3>5 DEF Clone, BranchTypeOK, TaskInv, InHand, IdsDistinct, Published,
         ListsKnown
    <3>7. IndexCovers'
      BY <2>5, <3>1, IndexKept DEF Clone, BranchTypeOK
    <3> QED
      BY <2>1, <2>5, <3>1, <3>6, <3>7 DEF Clone, BranchTypeOK
  <2>6. ASSUME NEW t \in Tasks, Validate(t) PROVE Inv'
    <3> DEFINE e == Head(work[t])
    <3>1. TaskInv(t) /\ pc[t] = "validate" /\ work[t] # <<>>
      BY <2>6 DEF Validate
    <3>2. /\ pc' = pc /\ branch' = branch /\ batch' = batch /\ applied' = applied
          /\ types' = types
          /\ work'[t] = Tail(work[t])
          /\ conflicts'[t] = IF Conflicting(e) THEN conflicts[t] \cup {e.id} ELSE conflicts[t]
          /\ unseen'[t] = IF types[e.id] = Absent THEN unseen[t] \cup {e.id} ELSE unseen[t]
      BY <2>6 DEF Validate, BranchTypeOK, universe
    <3>3. Visited(t)' = Visited(t) + 1 /\ WorkIsRest(t)'
      <4>1. Visited(t)' = Len(batch[t]) - Len(Tail(work[t]))
        BY <3>2 DEF Visited
      <4>2. Visited(t)' = Visited(t) + 1
        BY <3>1, <4>1, Loop DEF TaskInv
      <4>3. /\ Len(Tail(work[t])) <= Len(batch[t])
            /\ \A n \in 1 .. Len(Tail(work[t])) :
                  Tail(work[t])[n] = batch[t][Visited(t) + 1 + n]
        BY <3>1, Loop DEF TaskInv
      <4> QED
        BY <3>2, <4>2, <4>3 DEF WorkIsRest
    <3>4. Validated(t)'
      <4>1. Compatible(e) \/ e.id \in unseen'[t] \cup conflicts'[t]
        BY <3>2 DEF Conflicting, Compatible
      <4>2. /\ e = batch[t][Visited(t) + 1] /\ Visited(t) \in Nat
            /\ DOMAIN batch[t] \subseteq Nat
        BY <3>1, Loop DEF TaskInv, BranchTypeOK
      <4>3. ASSUME branch[t] # NoBranch, NEW n \in DOMAIN batch[t], n <= Visited(t) + 1
            PROVE  \/ Compatible(batch[t][n])
                   \/ batch[t][n].id \in unseen'[t] \cup conflicts'[t]
        <5>1. CASE n = Visited(t) + 1
          BY <4>1, <4>2, <5>1
        <5>2. CASE n <= Visited(t)
          BY <3>1, <3>2, <4>3, <5>2 DEF TaskInv, Validated
        <5> QED
          BY <4>2, <4>3, <5>1, <5>2
      <4> QED
        BY <3>1, <3>2, <3>3, <4>3 DEF Validated, Compatible, types_compatible
    <3>5. TaskInv(t)'
      BY <3>1, <3>2, <3>3, <3>4 DEF TaskInv, InHand, IdsDistinct, Published, ListsKnown
    <3>6. IndexCovers'
      BY <2>6, IndexKept DEF Validate, BranchTypeOK
    <3> QED
      BY <2>1, <2>6, <3>5, <3>6 DEF Validate, BranchTypeOK
  \* Refuse and Finish leave the task with nothing in hand.
  <2>7. ASSUME NEW t \in Tasks, Return(t), UNCHANGED universe, pc[t] # "list" PROVE Inv'
    <3>1. TaskInv(t)'
      BY <2>7 DEF Return, BranchTypeOK, TaskInv, WorkIsRest, InHand, IdsDistinct, Validated,
         Published, ListsKnown, Visited, Tried
    <3>2. IndexCovers'
      BY <2>7, IndexKept DEF Return, BranchTypeOK
    <3> QED
      BY <2>1, <2>7, <3>1, <3>2 DEF Return, BranchTypeOK
  <2>8. ASSUME NEW t \in Tasks, Accept(t) PROVE Inv'
    <3>1. /\ TaskInv(t) /\ pc[t] = "validate" /\ work[t] = <<>> /\ conflicts[t] = {}
          /\ pc'[t] = "insert" /\ branch' = branch /\ batch' = batch /\ work'[t] = batch[t]
          /\ types' = types /\ conflicts' = conflicts /\ unseen' = unseen /\ applied' = applied
      BY <2>8 DEF Accept, BranchTypeOK, universe
    <3>2. batch[t] \in Seq(Entries)
      BY DEF BranchTypeOK
    <3>3. Visited(t)' = 0 /\ WorkIsRest(t)' /\ Visited(t) = Len(batch[t])
      BY <3>1, <3>2 DEF Visited, WorkIsRest
    <3>4. Validated(t)'
      BY <3>1, <3>2, <3>3 DEF TaskInv, Validated, Compatible, types_compatible
    <3>5. Published(t)'
      <4>1. Tried(t)' = {} /\ applied'[t] = {}
        BY <3>1, <3>2, <3>3 DEF Tried, TaskInv, InHand
      <4> QED
        BY <3>1, <4>1 DEF Published
    <3>6. TaskInv(t)'
      BY <3>1, <3>3, <3>4, <3>5 DEF TaskInv, InHand, IdsDistinct, ListsKnown
    <3>7. IndexCovers'
      BY <2>8, IndexKept DEF Accept, BranchTypeOK
    <3> QED
      BY <2>1, <2>8, <3>6, <3>7 DEF Accept, BranchTypeOK
  <2>9. ASSUME NEW t \in Tasks, Insert(t) PROVE Inv'
    <3> DEFINE e == Head(work[t])
               v == Visited(t)
    <3>1. TaskInv(t) /\ pc[t] = "insert" /\ work[t] # <<>> /\ conflicts[t] = {}
      BY <2>9 DEF Insert, TaskInv, InHand
    <3>2. /\ pc' = [pc EXCEPT ![t] = "list"]
          /\ branch' = branch /\ batch' = batch /\ work' = work
          /\ conflicts' = conflicts /\ unseen' = unseen
          /\ fingerprint_index' = fingerprint_index
          /\ applied'[t] = IF types[e.id] = Absent THEN applied[t] \cup {e.id} ELSE applied[t]
      BY <2>9 DEF Insert, BranchTypeOK
    <3>3. /\ e \in Entries /\ e.id \in TypeIds /\ e.typ # Absent
          /\ v \in Nat /\ v + 1 \in DOMAIN batch[t] /\ e = batch[t][v + 1]
      <4>1. e \in Entries
        BY <3>1, Loop DEF TaskInv
      <4> QED
        BY <3>1, <4>1, Loop, TypeUniverseConstants DEF TaskInv, Entries
    <3>4. types' = IF types[e.id] = Absent THEN [types EXCEPT ![e.id] = e.typ] ELSE types
      BY <2>9 DEF Insert, InsertIfAbsent
    <3>5. /\ types'[e.id] = IF types[e.id] = Absent THEN e.typ ELSE types[e.id]
          /\ types'[e.id] # Absent
          /\ \A i \in TypeIds \ {e.id} : types'[i] = types[i]
      BY <3>3, <3>4 DEF BranchTypeOK, UniverseTypeOK
    <3>6. \A n \in DOMAIN batch[t] : batch[t][n].id \in TypeIds
      <4>1. \A n \in DOMAIN batch[t] : batch[t][n] \in Entries
        BY DEF BranchTypeOK
      <4> QED
        BY <4>1 DEF Entries
    <3>7. WorkIsRest(t)' /\ InHand(t)' /\ IdsDistinct(t)' /\ ListsKnown(t)'
      BY <3>1, <3>2, <3>5 DEF BranchTypeOK, TaskInv, WorkIsRest, InHand, IdsDistinct, ListsKnown, Visited
    <3>8. Validated(t)'
      BY <2>0, <3>1, <3>2, <3>6
         DEF BranchTypeOK, TaskInv, Validated, Grows, Visited, Compatible, types_compatible
    <3>9. Published(t)'
      <4>1. Tried(t)' = Tried(t) \cup {v + 1} /\ \A n \in Tried(t) : n \in DOMAIN batch[t] /\ n <= v
        BY <3>1, <3>2, <3>3 DEF Tried, Visited, BranchTypeOK
      <4> SUFFICES ASSUME branch[t] # NoBranch
                   PROVE  /\ \A n \in Tried(t)' :
                                /\ types'[batch[t][n].id] # Absent
                                /\ \/ types_compatible(batch[t][n].typ, types'[batch[t][n].id])
                                   \/ batch[t][n].id \in unseen[t] \ applied'[t]
                          /\ applied'[t] \subseteq {batch[t][n].id : n \in Tried(t)'}
        BY <3>2 DEF Published, types_compatible
      <4>2. Published(t) /\ IdsDistinct(t) /\ Validated(t)
        BY <3>1 DEF TaskInv
      <4>3. \A n \in Tried(t) : batch[t][n].id # e.id /\ types[batch[t][n].id] = types'[batch[t][n].id]
        BY <3>3, <3>5, <3>6, <4>1, <4>2 DEF IdsDistinct
      <4>4. e.id \notin applied[t]
        BY <3>1, <4>2, <4>3 DEF Published
      <4>5. types_compatible(e.typ, types'[e.id]) \/ e.id \in unseen[t] \ applied'[t]
        <5>1. CASE types[e.id] = Absent
          BY <3>5, <5>1 DEF types_compatible
        <5>2. CASE types[e.id] # Absent
          BY <3>1, <3>2, <3>3, <3>5, <4>2, <4>4, <5>2 DEF Validated, Compatible
        <5> QED
          BY <5>1, <5>2
      <4>6. \A n \in Tried(t) :
               /\ types'[batch[t][n].id] # Absent
               /\ \/ types_compatible(batch[t][n].typ, types'[batch[t][n].id])
                  \/ batch[t][n].id \in unseen[t] \ applied'[t]
        BY <3>1, <3>2, <4>2, <4>3 DEF Published
      <4>7. applied'[t] \subseteq {batch[t][n].id : n \in Tried(t)} \cup {e.id}
        BY <3>1, <3>2, <4>2 DEF Published
      <4>8. applied'[t] \subseteq {batch[t][n].id : n \in Tried(t)'}
        BY <3>3, <4>1, <4>7
      <4> QED
        BY <3>3, <3>5, <4>1, <4>5, <4>6, <4>8
    <3>10. IndexCovers'
      <4>1. Listing(t, e.id)' /\ (Head(work[t]).typ)' = e.typ
        BY <3>2 DEF Listing, BranchTypeOK
      <4>2. \A u \in Tasks, i \in TypeIds : Listing(u, i) => Listing(u, i)'
        BY <3>1, <3>2 DEF Listing, BranchTypeOK
      <4>3. ASSUME NEW i \in TypeIds, types'[i] # Absent
            PROVE  \/ i \in fingerprint_index[types'[i].fingerprint]
                   \/ \E u \in Tasks : Listing(u, i)' /\ Head(work[u]).typ = types'[i]
        <5>1. CASE i = e.id /\ types[i] = Absent
          BY <3>2, <3>5, <4>1, <5>1
        <5>2. CASE types[i] # Absent
          <6>1. types'[i] = types[i]
            BY <3>5, <5>2
          <6> QED
            BY <4>2, <5>2, <6>1 DEF IndexCovers
        <5> QED
          BY <3>5, <4>3, <5>1, <5>2
      <4>4. \A f \in Fingerprints : \A i \in fingerprint_index[f] : types'[i] # Absent
        BY <3>5 DEF IndexCovers, BranchTypeOK, UniverseTypeOK
      <4> QED
        BY <3>2, <4>3, <4>4 DEF IndexCovers
    <3> QED
      BY <2>1, <2>9, <3>7, <3>8, <3>9, <3>10 DEF Insert, BranchTypeOK, TaskInv
  <2>10. ASSUME NEW t \in Tasks, ListInserted(t) PROVE Inv'
    <3> DEFINE e == Head(work[t])
               v == Visited(t)
    <3>1. TaskInv(t) /\ pc[t] = "list" /\ work[t] # <<>> /\ types[e.id] # Absent
      BY <2>10 DEF ListInserted, TaskInv, ListsKnown
    <3>2. /\ pc' = [pc EXCEPT ![t] = "insert"]
          /\ branch' = branch /\ batch' = batch /\ types' = types
          /\ conflicts' = conflicts /\ unseen' = unseen /\ applied' = applied
          /\ work' = [work EXCEPT ![t] = Tail(@)]
          /\ work'[t] = Tail(work[t])
      BY <2>10 DEF ListInserted, BranchTypeOK
    <3>3. e \in Entries /\ e.id \in TypeIds /\ e.typ.fingerprint \in Fingerprints
      <4>1. e \in Entries
        BY <3>1, Loop DEF TaskInv
      <4> QED
        BY <4>1, TypeUniverseConstants DEF Entries
    <3>4. Visited(t)' = v + 1 /\ WorkIsRest(t)'
      <4>1. Visited(t)' = Len(batch[t]) - Len(Tail(work[t]))
        BY <3>2 DEF Visited
      <4>2. Visited(t)' = Visited(t) + 1
        BY <3>1, <4>1, Loop DEF TaskInv
      <4>3. /\ Len(Tail(work[t])) <= Len(batch[t])
            /\ \A n \in 1 .. Len(Tail(work[t])) :
                  Tail(work[t])[n] = batch[t][Visited(t) + 1 + n]
        BY <3>1, Loop DEF TaskInv
      <4> QED
        BY <3>2, <4>2, <4>3 DEF WorkIsRest
    <3>5. Published(t)'
      <4>1. Tried(t)' = Tried(t)
        <5>1. v \in Nat /\ DOMAIN batch[t] \subseteq Nat
          BY <3>1, Loop DEF TaskInv, BranchTypeOK
        <5>2. \A n \in Nat : n <= v + 1 <=> n <= v \/ n = v + 1
          BY <5>1
        <5> QED
          BY <3>1, <3>2, <3>4, <5>1, <5>2 DEF Tried, BranchTypeOK
      <4> QED
        BY <3>1, <3>2, <4>1 DEF TaskInv, Published, BranchTypeOK, types_compatible
    <3>6. InHand(t)' /\ IdsDistinct(t)' /\ ListsKnown(t)'
      BY <3>1, <3>2 DEF BranchTypeOK, TaskInv, InHand, IdsDistinct, ListsKnown
    <3>7. Validated(t)'
      BY <3>1, <3>2 DEF BranchTypeOK, TaskInv, Validated, Compatible, types_compatible
    <3>8. IndexCovers'
      <4>1. \A f \in Fingerprints :
               fingerprint_index'[f] = IF f = e.typ.fingerprint
                                       THEN fingerprint_index[f] \cup {e.id}
                                       ELSE fingerprint_index[f]
        BY <2>10, <3>3 DEF ListInserted, List, BranchTypeOK, UniverseTypeOK
      <4>2. \A u \in Tasks \ {t}, i \in TypeIds :
               Listing(u, i) => Listing(u, i)' /\ work'[u] = work[u]
        BY <3>2 DEF Listing, BranchTypeOK
      <4>3. ASSUME NEW i \in TypeIds, types[i] # Absent
            PROVE  \/ i \in fingerprint_index'[types[i].fingerprint]
                   \/ \E u \in Tasks : Listing(u, i)' /\ Head(work'[u]).typ = types[i]
        <5>1. types[i].fingerprint \in Fingerprints
          BY <4>3, TypeUniverseConstants DEF BranchTypeOK, UniverseTypeOK
        <5>2. CASE i \in fingerprint_index[types[i].fingerprint]
          BY <4>1, <5>1, <5>2
        <5>3. CASE Listing(t, i) /\ e.typ = types[i]
          BY <4>1, <5>1, <5>3 DEF Listing
        <5>4. CASE \E u \in Tasks \ {t} : Listing(u, i) /\ Head(work[u]).typ = types[i]
          BY <4>2, <5>4
        <5> QED
          BY <4>3, <5>2, <5>3, <5>4 DEF IndexCovers
      <4>4. \A f \in Fingerprints : \A i \in fingerprint_index'[f] : types[i] # Absent
        <5>1. \A f \in Fingerprints : \A i \in fingerprint_index'[f] :
                 i \in fingerprint_index[f] \/ i = e.id
          BY <4>1
        <5>2. \A f \in Fingerprints : \A i \in fingerprint_index[f] : types[i] # Absent
          BY DEF IndexCovers
        <5> QED
          BY <3>1, <5>1, <5>2
      <4> QED
        BY <3>2, <4>3, <4>4 DEF IndexCovers
    <3> QED
      BY <2>1, <2>10, <3>4, <3>5, <3>6, <3>7, <3>8 DEF ListInserted, BranchTypeOK, TaskInv
  <2>11. CASE UNCHANGED commitVars
    BY <2>2, <2>11 DEF commitVars, callVars
  <2> QED
    BY <2>2, <2>3, <2>4, <2>5, <2>6, <2>7, <2>8, <2>9, <2>10, <2>11
       DEF BranchNext, InsertLocal, Checkpoint, Rollback, Refuse, Finish
<1> QED
  BY <1>1, <1>2, Typing, PTL DEF BranchSpec

(* The index lists only ids that have a type, and every type is listed or  *)
(* about to be by the task that inserted it.                               *)
THEOREM IndexAgreement == BranchSpec => []IndexCovers
  BY Invariance, PTL DEF Inv

(* A commit that returns Ok has each of its ids in the universe, under a   *)
(* type compatible with its own unless another insert came first, after    *)
(* the commit's validation; a refused one has published nothing.           *)
THEOREM Accountability == BranchSpec => []OkIsAccountable
<1>1. BranchTypeOK /\ Inv => OkIsAccountable
  <2> SUFFICES ASSUME BranchTypeOK, Inv PROVE OkIsAccountable
    OBVIOUS
  <2>1. ASSUME NEW t \in Tasks, Succeeding(t), NEW n \in DOMAIN batch[t]
        PROVE  n \in Tried(t)
    BY <2>1 DEF Succeeding, Tried, Visited, BranchTypeOK
  <2>2. ASSUME NEW t \in Tasks, Succeeding(t), NEW n \in DOMAIN batch[t]
        PROVE  /\ types[batch[t][n].id] # Absent
               /\ \/ types_compatible(batch[t][n].typ, types[batch[t][n].id])
                  \/ batch[t][n].id \in unseen[t] \ applied[t]
    BY <2>1, <2>2 DEF Inv, TaskInv, Published, Succeeding
  <2>3. ASSUME NEW t \in Tasks, conflicts[t] # {} PROVE applied[t] = {}
    BY <2>3 DEF Inv, TaskInv, InHand
  <2> QED
    BY <2>2, <2>3 DEF OkIsAccountable
<1> QED
  BY <1>1, Typing, Invariance, PTL
=============================================================================
