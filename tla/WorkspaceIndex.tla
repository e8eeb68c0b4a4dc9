--------------------------- MODULE WorkspaceIndex ---------------------------
(***************************************************************************)
(* The workspace index of salsa_full/on_demand.rs, with its lazy package   *)
(* loader, used by several threads.  A content is the set of names it      *)
(* declares; a package is known by its one file, and exports the names in  *)
(* Exported.  The pushes of one file's symbols commute and are one step.   *)
(***************************************************************************)
EXTENDS Naturals, FiniteSets, Maps

CONSTANTS Indexers,     \* the threads
          Sources,      \* the files, and the packages made of one each
          SourceTexts,  \* the contents: sets of names
          Exported,     \* the names that begin with a capital
          MaxIndexings, \* a bound: how often a file is indexed
          MaxChanges    \* a bound: how often a file on the disk changes

ASSUME IndexConstants ==
    /\ IsFiniteSet(Indexers)
    /\ SourceTexts # {} /\ MaxIndexings \in Nat

VARIABLES disk,         \* the files outside: a content, or Unreadable
          index,        \* files: the names and the parse state of the files indexed
          symbol_table, \* how many locations each name has in each file
          dirty_files,
          package_exports, loaded,
          work,         \* what each thread is doing
          indexings, changes, \* how many there were
          unmarked,     \* history: changed, and not yet marked dirty
          forgotten     \* history: files marked whose index may be of an older content

indexVars == <<disk, index, symbol_table, dirty_files, package_exports, loaded, work,
               indexings, changes, unmarked, forgotten>>

-----------------------------------------------------------------------------
Unreadable == {"unreadable"}
Names == UNION SourceTexts
ParseStates == {"Indexed", "Partial", "Full"}
LoadStates == {"ExportsLoaded", "FullyLoaded"}
NoWork == [step |-> "Idle"]

IndexTypeOK ==
    /\ disk \in [Sources -> SourceTexts \cup {Unreadable}]
    /\ \A p \in DOMAIN index :
           p \in Sources /\ index[p].symbols \in SourceTexts /\ index[p].parse \in ParseStates
    /\ symbol_table \in [Names \X Sources -> 0..(2 * MaxIndexings)]
    /\ dirty_files \subseteq Sources
    /\ \A p \in DOMAIN package_exports : package_exports[p] \subseteq Exported
    /\ \A p \in DOMAIN loaded : loaded[p].exports \subseteq Exported /\ loaded[p].state \in LoadStates
    /\ DOMAIN work = Indexers

IndexInit ==
    /\ disk = [p \in Sources |-> CHOOSE c \in SourceTexts : TRUE]
    /\ index = NoMap /\ package_exports = NoMap /\ loaded = NoMap
    /\ symbol_table = [at \in Names \X Sources |-> 0]
    /\ dirty_files = {} /\ work = [t \in Indexers |-> NoWork]
    /\ indexings = 0 /\ changes = 0 /\ unmarked = Sources /\ forgotten = {}

Loader == <<package_exports, loaded>>
Tables == <<index, symbol_table>>
Outside == <<disk, changes, unmarked>>

-----------------------------------------------------------------------------
(* The files change outside, and whoever changes one marks it.             *)

Change ==
    /\ changes < MaxChanges /\ changes' = changes + 1
    /\ \E p \in Sources, c \in SourceTexts \cup {Unreadable} :
          c # disk[p] /\ disk' = [disk EXCEPT ![p] = c] /\ unmarked' = unmarked \cup {p}
    /\ UNCHANGED <<Tables, dirty_files, Loader, work, indexings, forgotten>>

MarkDirty(p) ==
    /\ p \in unmarked /\ unmarked' = unmarked \ {p}
    /\ dirty_files' = dirty_files \cup {p}
    /\ UNCHANGED <<disk, changes, Tables, Loader, work, indexings, forgotten>>

-----------------------------------------------------------------------------
(* index_file_shallow: the symbols are pushed one by one and nothing is    *)
(* taken away; then the file's index is inserted.  then is what follows:   *)
(* the package's exports, the second insert of index_files_parallel, or    *)
(* the other dirty files.                                                  *)

Indexing(p) == {t \in Indexers : work[t].step \in {"Push", "Insert"} /\ work[t].path = p}

StartIndexing(t, p, content, then, rest) ==
    work' = [work EXCEPT ![t] = [step |-> "Push", path |-> p, content |-> content,
                                 then |-> then, rest |-> rest]]

\* index_package_shallow, index_files_parallel, with the content the caller has read.
IndexCall(t) ==
    /\ work[t] = NoWork /\ indexings < MaxIndexings
    /\ \E p \in Sources, then \in {"Export", "Reinsert"} :
          /\ disk[p] # Unreadable
          /\ StartIndexing(t, p, disk[p], then, {})
          /\ forgotten' = IF Indexing(p) = {} THEN forgotten ELSE forgotten \cup {p}
    /\ indexings' = indexings + 1
    /\ UNCHANGED <<Outside, Tables, dirty_files, Loader>>

Push(t) ==
    LET w == work[t]
    IN  /\ w.step = "Push"
        /\ symbol_table' = [at \in Names \X Sources |->
               symbol_table[at] + IF at[1] \in w.content /\ at[2] = w.path THEN 1 ELSE 0]
        /\ work' = [work EXCEPT ![t].step = "Insert"]
        /\ UNCHANGED <<Outside, index, dirty_files, Loader, indexings, forgotten>>

Insert(t) ==
    LET w == work[t]
    IN  /\ w.step = "Insert"
        /\ index' = Put(index, w.path, [symbols |-> w.content, parse |-> "Indexed"])
        /\ work' = [work EXCEPT ![t] =
                       CASE w.then = "Export" -> [step |-> "Export", path |-> w.path,
                                                  exports |-> w.content \cap Exported]
                         [] w.then = "Reinsert" -> [w EXCEPT !.then = "Done"]
                         [] w.then = "Dirty" -> [step |-> "Dirty", rest |-> w.rest]
                         [] OTHER -> NoWork]
        /\ UNCHANGED <<Outside, symbol_table, dirty_files, Loader, indexings, forgotten>>

\* The end of index_package_shallow: the exports of the file it has indexed.
StoreExports(t) ==
    /\ work[t].step = "Export"
    /\ package_exports' = Put(package_exports, work[t].path, work[t].exports)
    /\ work' = [work EXCEPT ![t] = NoWork]
    /\ UNCHANGED <<Outside, Tables, dirty_files, loaded, indexings, forgotten>>

-----------------------------------------------------------------------------
(* process_dirty_files: drains the marks, then reads and indexes each.     *)

Drain(t) ==
    /\ work[t] = NoWork /\ dirty_files # {}
    /\ work' = [work EXCEPT ![t] = [step |-> "Dirty", rest |-> dirty_files]]
    /\ dirty_files' = {}
    /\ UNCHANGED <<Outside, Tables, Loader, indexings, forgotten>>

ReadDirty(t) ==
    /\ work[t].step = "Dirty" /\ indexings < MaxIndexings
    /\ \E p \in work[t].rest :
          LET rest == work[t].rest \ {p}
          IN  IF disk[p] = Unreadable
              THEN /\ work' = [work EXCEPT ![t].rest = rest]
                   /\ forgotten' = forgotten \cup {p}
                   /\ UNCHANGED indexings
              ELSE /\ StartIndexing(t, p, disk[p], "Dirty", rest)
                   /\ forgotten' = IF Indexing(p) = {} THEN forgotten ELSE forgotten \cup {p}
                   /\ indexings' = indexings + 1
    /\ UNCHANGED <<Outside, Tables, dirty_files, Loader>>

\* The marks are cleared once their files are done.
DrainedClearing(t) ==
    /\ work[t].step = "Dirty" /\ work[t].rest = {}
    /\ work' = [work EXCEPT ![t] = NoWork]
    /\ dirty_files' = {}
    /\ UNCHANGED <<Outside, Tables, Loader, indexings, forgotten>>

Drained(t) ==
    /\ work[t].step = "Dirty" /\ work[t].rest = {}
    /\ work' = [work EXCEPT ![t] = NoWork]
    /\ UNCHANGED <<Outside, Tables, dirty_files, Loader, indexings, forgotten>>

-----------------------------------------------------------------------------
(* partial_parse_file and fully_parse_file move the state of an index on.  *)

Parse(p) ==
    /\ Has(index, p)
    /\ \E s \in {"Partial", "Full"} :
          /\ index[p].parse \in (IF s = "Full" THEN {"Indexed", "Partial"} ELSE {"Indexed"})
          /\ index' = [index EXCEPT ![p].parse = s]
    /\ UNCHANGED <<Outside, symbol_table, dirty_files, Loader, work, indexings, forgotten>>

\* load_package: a package loaded once is answered from there; otherwise its exports
\* are copied, and stored in a second step.
CopyExports(t) ==
    /\ work[t] = NoWork
    /\ \E p \in DOMAIN package_exports \ DOMAIN loaded :
          work' = [work EXCEPT ![t] = [step |-> "Load", path |-> p, exports |-> package_exports[p]]]
    /\ UNCHANGED <<Outside, Tables, dirty_files, Loader, indexings, forgotten>>

StoreLoaded(t) ==
    /\ work[t].step = "Load"
    /\ loaded' = Put(loaded, work[t].path, [exports |-> work[t].exports, state |-> "ExportsLoaded"])
    /\ work' = [work EXCEPT ![t] = NoWork]
    /\ UNCHANGED <<Outside, Tables, dirty_files, package_exports, indexings, forgotten>>

FullyLoad(p) ==
    /\ Has(loaded, p) /\ loaded[p].state # "FullyLoaded"
    /\ loaded' = [loaded EXCEPT ![p].state = "FullyLoaded"]
    /\ UNCHANGED <<Outside, Tables, dirty_files, package_exports, work, indexings, forgotten>>

IndexNext ==
    \/ Change
    \/ \E p \in Sources : MarkDirty(p) \/ Parse(p) \/ FullyLoad(p)
    \/ \E t \in Indexers : IndexCall(t) \/ Push(t) \/ Insert(t) \/ StoreExports(t) \/ Drain(t)
                           \/ ReadDirty(t) \/ Drained(t) \/ CopyExports(t) \/ StoreLoaded(t)

IndexSpec == IndexInit /\ [][IndexNext]_indexVars

-----------------------------------------------------------------------------
\* The mark of a change leads to an index of the changed content: a file is indexed as
\* it is, or marked, or on its way, unless it could not be read when its mark was taken,
\* or two indexings of it overlapped and the older inserted last.  And every name of an
\* index is found in the symbol table, where names that are gone stay as well.
ChangesReachTheIndex ==
    \A p \in Sources :
        /\ p \notin unmarked \cup forgotten \cup dirty_files =>
               \/ Has(index, p) /\ index[p].symbols = disk[p]
               \/ \E t \in Indexers : \/ work[t].step \in {"Push", "Insert"} /\ work[t].path = p
                                      \/ work[t].step \in {"Push", "Insert", "Dirty"} /\ p \in work[t].rest
        /\ Has(index, p) => \A n \in index[p].symbols : symbol_table[n, p] > 0
=============================================================================
