------------------------------- MODULE Branch -------------------------------
(***************************************************************************)
(* The branches of agent/branch.rs over one shared TypeUniverse, as the    *)
(* sessions of agent/session.rs use them.  A branch keeps the types its    *)
(* agent has changed and publishes them with `commit`.  A session holds    *)
(* its branch's tokio RwLock for reading while it commits (so several      *)
(* tasks may commit one branch at a time) and for writing while it rolls   *)
(* back.  Beside the commits, importers insert into the universe directly  *)
(* and speculative transactions are committed to it.                       *)
(*                                                                         *)
(* Branch::new gives every branch a Universe as parent and an empty base   *)
(* snapshot, so the ConcurrentModification conflict, which needs an entry  *)
(* in the snapshot, cannot arise and is not an outcome here.               *)
(***************************************************************************)
EXTENDS TypeUniverse, Sequences, SequencesExt

CONSTANTS
    Branches,
    Tasks,          \* tasks that commit, and threads that insert directly
    Edits,          \* the entries agents put into their branches
    Transactions    \* the sequences of entries transactions and importers insert

ASSUME BranchConstants ==
    /\ IsFiniteSet(TypeIds)
    /\ Edits \subseteq Entries
    /\ Transactions \subseteq Seq(Entries)

VARIABLES
    local_types,    \* branch |-> id |-> its own version of the type
    checkpoint,     \* branch |-> whether a checkpoint was made (the snapshot is empty)
    committed,      \* branch |-> the Committed flag
    pc, branch,     \* where each task stands, and the branch it commits
    batch,          \* the entries a task clones, validates and publishes
    work,           \* those its current loop has still to visit
    conflicts,      \* ids found in conflict
    unseen,         \* history: ids the universe did not have when validated
    applied         \* history: ids this call has put into the universe

branchVars == <<local_types, checkpoint, committed>>
callVars == <<pc, branch, batch, work, conflicts, unseen, applied>>
commitVars == <<universe, branchVars, callVars>>

NoBranch == "none"

BranchTypeOK ==
    /\ UniverseTypeOK
    /\ local_types \in [Branches -> [TypeIds -> Types \cup {Absent}]]
    /\ checkpoint \in [Branches -> BOOLEAN]
    /\ committed \in [Branches -> BOOLEAN]
    /\ pc \in [Tasks -> {"idle", "clone", "validate", "insert", "list"}]
    /\ branch \in [Tasks -> Branches \cup {NoBranch}]
    /\ batch \in [Tasks -> Seq(Entries)]
    /\ work \in [Tasks -> Seq(Entries)]
    /\ conflicts \in [Tasks -> SUBSET TypeIds]
    /\ unseen \in [Tasks -> SUBSET TypeIds]
    /\ applied \in [Tasks -> SUBSET TypeIds]

BranchInit ==
    /\ UniverseInit
    /\ local_types = [b \in Branches |-> [i \in TypeIds |-> Absent]]
    /\ checkpoint = [b \in Branches |-> FALSE]
    /\ committed = [b \in Branches |-> FALSE]
    /\ pc = [t \in Tasks |-> "idle"]
    /\ branch = [t \in Tasks |-> NoBranch]
    /\ batch = [t \in Tasks |-> <<>>]
    /\ work = [t \in Tasks |-> <<>>]
    /\ conflicts = [t \in Tasks |-> {}]
    /\ unseen = [t \in Tasks |-> {}]
    /\ applied = [t \in Tasks |-> {}]

-----------------------------------------------------------------------------
\* get_type: the branch's own version first, then the universe's.
get_type(b, i) == IF local_types[b][i] # Absent THEN local_types[b][i] ELSE types[i]

types_compatible(a, b) == a.id = b.id \/ a.fingerprint = b.fingerprint

InsertLocal(b, e) ==
    /\ local_types' = [local_types EXCEPT ![b][e.id] = e.typ]
    /\ UNCHANGED <<universe, checkpoint, committed, callVars>>

Checkpoint(b) ==
    /\ checkpoint' = [checkpoint EXCEPT ![b] = TRUE]
    /\ UNCHANGED <<universe, local_types, committed, callVars>>

\* session.rollback has the branch to itself.  With a checkpoint the local
\* types are emptied; without one it is an error that changes nothing.
Rollback(b) ==
    /\ \A t \in Tasks : branch[t] # b
    /\ checkpoint[b]
    /\ local_types' = [local_types EXCEPT ![b] = [i \in TypeIds |-> Absent]]
    /\ UNCHANGED <<universe, checkpoint, committed, callVars>>

-----------------------------------------------------------------------------
Return(t) ==
    /\ pc' = [pc EXCEPT ![t] = "idle"]
    /\ branch' = [branch EXCEPT ![t] = NoBranch]
    /\ batch' = [batch EXCEPT ![t] = <<>>]
    /\ work' = [work EXCEPT ![t] = <<>>]
    /\ conflicts' = [conflicts EXCEPT ![t] = {}]
    /\ unseen' = [unseen EXCEPT ![t] = {}]
    /\ applied' = [applied EXCEPT ![t] = {}]

\* The AlreadyCommitted test; when it fails commit returns, and nothing changes.
BeginCommit(t, b) ==
    /\ pc[t] = "idle"
    /\ ~ committed[b]
    /\ pc' = [pc EXCEPT ![t] = "clone"]
    /\ branch' = [branch EXCEPT ![t] = b]
    /\ UNCHANGED <<universe, branchVars, batch, work, conflicts, unseen, applied>>

LocalEntriesAll(b) == {[id |-> i, typ |-> local_types[b][i]] : i \in TypeIds}

LocalEntries(b) ==
    {e \in Entries : local_types[b][e.id] = e.typ}

\* The local types are cloned; the clone iterates in an order of its own.
Clone(t) ==
    /\ pc[t] = "clone"
    /\ \E order \in SetToSeqs(LocalEntries(branch[t])) :
          /\ batch' = [batch EXCEPT ![t] = order]
          /\ work' = [work EXCEPT ![t] = order]
    /\ pc' = [pc EXCEPT ![t] = "validate"]
    /\ UNCHANGED <<universe, branchVars, branch, conflicts, unseen, applied>>

Conflicting(e) == types[e.id] # Absent /\ ~ types_compatible(e.typ, types[e.id])

ValidateNothing(t) ==
    LET e == Head(work[t])
    IN  /\ pc[t] = "validate"
        /\ work[t] # <<>>
        /\ work' = [work EXCEPT ![t] = Tail(@)]
        /\ unseen' = [unseen EXCEPT ![t] = IF types[e.id] = Absent THEN @ \cup {e.id} ELSE @]
        /\ UNCHANGED <<universe, branchVars, pc, branch, batch, conflicts, applied>>

\* One entry against its parent type.
Validate(t) ==
    LET e == Head(work[t])
    IN  /\ pc[t] = "validate"
        /\ work[t] # <<>>
        /\ work' = [work EXCEPT ![t] = Tail(@)]
        /\ conflicts' = [conflicts EXCEPT ![t] = IF Conflicting(e) THEN @ \cup {e.id} ELSE @]
        /\ unseen' = [unseen EXCEPT ![t] = IF types[e.id] = Absent THEN @ \cup {e.id} ELSE @]
        /\ UNCHANGED <<universe, branchVars, pc, branch, batch, applied>>

\* ValidationFailed
Refuse(t) ==
    /\ pc[t] = "validate"
    /\ work[t] = <<>>
    /\ conflicts[t] # {}
    /\ Return(t)
    /\ UNCHANGED <<universe, branchVars>>

Accept(t) ==
    /\ pc[t] = "validate"
    /\ work[t] = <<>>
    /\ conflicts[t] = {}
    /\ pc' = [pc EXCEPT ![t] = "insert"]
    /\ work' = [work EXCEPT ![t] = batch[t]]
    /\ UNCHANGED <<universe, branchVars, branch, batch, conflicts, unseen, applied>>

\* commit_transaction, or an importer's insert_type: no validation.
BeginTransaction(t, ops) ==
    /\ pc[t] = "idle"
    /\ pc' = [pc EXCEPT ![t] = "insert"]
    /\ batch' = [batch EXCEPT ![t] = ops]
    /\ work' = [work EXCEPT ![t] = ops]
    /\ UNCHANGED <<universe, branchVars, branch, conflicts, unseen, applied>>

\* The first half of insert_type.
Insert(t) ==
    LET e == Head(work[t])
    IN  /\ pc[t] = "insert"
        /\ work[t] # <<>>
        /\ InsertIfAbsent(e)
        /\ applied' = [applied EXCEPT ![t] = IF types[e.id] = Absent THEN @ \cup {e.id} ELSE @]
        /\ pc' = [pc EXCEPT ![t] = "list"]
        /\ UNCHANGED <<fingerprint_index, branchVars, branch, batch, work, conflicts, unseen>>

\* The second half.
ListInserted(t) ==
    /\ pc[t] = "list"
    /\ List(Head(work[t]))
    /\ work' = [work EXCEPT ![t] = Tail(@)]
    /\ pc' = [pc EXCEPT ![t] = "insert"]
    /\ UNCHANGED <<types, branchVars, branch, batch, conflicts, unseen, applied>>

\* Everything is published: a commit sets its flag and returns Ok.
Finish(t) ==
    /\ pc[t] = "insert"
    /\ work[t] = <<>>
    /\ committed' = [b \in Branches |-> committed[b] \/ branch[t] = b]
    /\ Return(t)
    /\ UNCHANGED <<universe, local_types, checkpoint>>

BranchNext ==
    \/ \E b \in Branches :
          \/ \E e \in Edits : InsertLocal(b, e)
          \/ Checkpoint(b)
          \/ Rollback(b)
    \/ \E t \in Tasks :
          \/ \E b \in Branches : BeginCommit(t, b)
          \/ \E ops \in Transactions : BeginTransaction(t, ops)
          \/ Clone(t) \/ Validate(t) \/ Refuse(t) \/ Accept(t)
          \/ Insert(t) \/ ListInserted(t) \/ Finish(t)

BranchSpec == BranchInit /\ [][BranchNext]_commitVars

-----------------------------------------------------------------------------
(* What a branch reads under an id stays what it was until the branch      *)
(* itself changes it: neither a commit of another branch nor an importer   *)
(* nor its own commit replaces a type the branch has seen.                 *)
ReadsStable ==
    [][\A b \in Branches, i \in TypeIds :
          /\ get_type(b, i) # Absent
          /\ local_types'[b] = local_types[b]
          => get_type(b, i)' = get_type(b, i)]_commitVars

\* A task between the two halves of insert_type for an entry under id i.
Listing(t, i) == pc[t] = "list" /\ Head(work[t]).id = i

(* The similarity index agrees with the table across the two halves of     *)
(* every insert: it lists no id that has no type, and a type is listed     *)
(* under its own fingerprint, or will be by the task that put it there.    *)
IndexCovers ==
    /\ \A f \in Fingerprints : \A i \in fingerprint_index[f] : types[i] # Absent
    /\ \A i \in TypeIds :
          types[i] # Absent =>
             \/ i \in fingerprint_index[types[i].fingerprint]
             \/ \E t \in Tasks : /\ Listing(t, i)
                                 /\ Head(work[t]).typ = types[i]

\* A commit that has published its batch and is about to return Ok.
Succeeding(t) == pc[t] = "insert" /\ work[t] = <<>> /\ branch[t] # NoBranch

(* When a commit returns Ok, each of its ids holds a type compatible with  *)
(* the one committed, unless the id was free as the commit validated it    *)
(* and another insert took it before the commit came to publish; and one   *)
(* that is refused has published none of its types.                        *)
OkIsAccountable ==
    /\ \A t \in Tasks : Succeeding(t) =>
          \A n \in DOMAIN batch[t] :
              LET e == batch[t][n]
              IN  /\ types[e.id] # Absent
                  /\ \/ types_compatible(e.typ, types[e.id])
                     \/ e.id \in unseen[t] \ applied[t]
    /\ \A t \in Tasks : conflicts[t] # {} => applied[t] = {}

(* A commit that returns Ok has published what the branch held: the        *)
(* universe now has, under each id, the very type committed.               *)
OkIsPublished ==
    \A t \in Tasks : Succeeding(t) =>
        \A n \in DOMAIN batch[t] : types[batch[t][n].id] = batch[t][n].typ
=============================================================================
