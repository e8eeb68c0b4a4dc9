--------------------------- MODULE SharedUniverse ---------------------------
(***************************************************************************)
(* What the users of one universe do to it and to the caches over it:      *)
(* speculative transactions and the scope stack (core/universe.rs), the    *)
(* packages an importer registers (parser/importer.rs), and the answers a  *)
(* query engine keeps (query/engine.rs).  Any number of tasks use them at  *)
(* a time; each step is one call on a concurrent map, or one guard.        *)
(***************************************************************************)
EXTENDS TypeUniverse, Sequences, SequencesExt, FiniteSets, Maps

CONSTANTS Users,        \* the tasks
          Packages, Found, \* the package paths, and those with a Go file to read
          Asked,        \* the pairs of a type and an interface that are asked about
          MaxTx,        \* a bound: how many types a transaction inserts
          MaxScopes     \* a bound: how deep the scopes nest

ASSUME SharedConstants == Asked \subseteq TypeIds \X TypeIds

VARIABLES tx,           \* the types each task's transaction still has to insert
          scope_stack,  \* the scopes, each the numbers of the scopes it was nested in
          packages, import_cache, \* the paths registered, and those with a cached import
          impl_cache,   \* <<type, interface>> |-> the answer kept
          busy,         \* the call each task is in
          scopesRaced,  \* history: a push or pop came between the two steps of a push
          early         \* history: the pairs answered while one of the two was absent

sharedVars == <<types, fingerprint_index, tx, scope_stack, packages, import_cache,
                impl_cache, busy, scopesRaced, early>>

-----------------------------------------------------------------------------
NotBusy == [call |-> "none"]
NoTx == [open |-> FALSE, mods |-> <<>>]

SharedTypeOK ==
    /\ UniverseTypeOK
    /\ tx \in [Users -> [open : BOOLEAN, mods : Seq(Entries)]]
    /\ scope_stack \in Seq(Seq(Nat)) /\ scope_stack # <<>>
    /\ packages \subseteq Packages /\ import_cache \subseteq Packages
    /\ DOMAIN impl_cache \subseteq Asked
    /\ DOMAIN busy = Users
    /\ scopesRaced \in BOOLEAN /\ early \subseteq Asked

SharedInit ==
    /\ UniverseInit
    /\ tx = [u \in Users |-> NoTx]
    /\ scope_stack = <<<<0>>>>
    /\ packages = {} /\ import_cache = {} /\ impl_cache = NoMap
    /\ busy = [u \in Users |-> NotBusy]
    /\ scopesRaced = FALSE /\ early = {}

Call(u, c) == busy[u] = NotBusy /\ busy' = [busy EXCEPT ![u] = c]
In(u, call) == busy[u].call = call
Done(u) == busy' = [busy EXCEPT ![u] = NotBusy]

Imports == <<packages, import_cache>>
Scopes == <<scope_stack, scopesRaced>>
ImplAnswers == <<impl_cache, early>>

-----------------------------------------------------------------------------
(* Transactions: what one inserts is its own until commit_transaction, and *)
(* the snapshot it falls back to is empty.                                 *)

BeginTx(u) ==
    /\ busy[u] = NotBusy /\ ~tx[u].open
    /\ tx' = [tx EXCEPT ![u].open = TRUE]
    /\ UNCHANGED <<universe, Scopes, Imports, ImplAnswers, busy>>

TxInsert(u) ==
    /\ busy[u] = NotBusy /\ tx[u].open /\ Len(tx[u].mods) < MaxTx
    /\ \E e \in Entries : e.id = e.typ.id /\ tx' = [tx EXCEPT ![u].mods = Append(@, e)]
    /\ UNCHANGED <<universe, Scopes, Imports, ImplAnswers, busy>>

\* SpeculativeTransaction::rollback.
AbandonTx(u) ==
    /\ busy[u] = NotBusy /\ tx[u].open
    /\ tx' = [tx EXCEPT ![u] = NoTx]
    /\ UNCHANGED <<universe, Scopes, Imports, ImplAnswers, busy>>

CommitTx(u) ==
    /\ tx[u].open /\ Call(u, [call |-> "commit", listing |-> FALSE])
    /\ UNCHANGED <<universe, tx, Scopes, Imports, ImplAnswers>>

\* insert_type of the next modification: the type, then its line in the index.
InsertNext(u) ==
    /\ In(u, "commit") /\ ~busy[u].listing /\ tx[u].mods # <<>>
    /\ InsertIfAbsent(Head(tx[u].mods))
    /\ busy' = [busy EXCEPT ![u].listing = TRUE]
    /\ UNCHANGED <<fingerprint_index, tx, Scopes, Imports, ImplAnswers>>

ListNext(u) ==
    /\ In(u, "commit") /\ busy[u].listing
    /\ List(Head(tx[u].mods))
    /\ tx' = [tx EXCEPT ![u].mods = Tail(@)]
    /\ busy' = [busy EXCEPT ![u].listing = FALSE]
    /\ UNCHANGED <<types, Scopes, Imports, ImplAnswers>>

Committed(u) ==
    /\ In(u, "commit") /\ ~busy[u].listing /\ tx[u].mods = <<>>
    /\ tx' = [tx EXCEPT ![u] = NoTx] /\ Done(u)
    /\ UNCHANGED <<universe, Scopes, Imports, ImplAnswers>>

-----------------------------------------------------------------------------
(* The scope stack: push_scope copies the current scope under one guard    *)
(* and pushes its child under another.                                     *)

Pushing == {u \in Users : In(u, "push")}

\* The child of the first scope.
ReadScopeFirst(u) ==
    /\ Len(scope_stack) + Cardinality(Pushing) < MaxScopes
    /\ Call(u, [call |-> "push", parent |-> Head(scope_stack)])
    /\ UNCHANGED <<universe, tx, Scopes, Imports, ImplAnswers>>

ReadScope(u) ==
    /\ Len(scope_stack) + Cardinality(Pushing) < MaxScopes
    /\ Len(Last(scope_stack)) < MaxScopes
    /\ Call(u, [call |-> "push", parent |-> Last(scope_stack)])
    /\ UNCHANGED <<universe, tx, Scopes, Imports, ImplAnswers>>

PushScope(u) ==
    /\ In(u, "push") /\ Done(u)
    /\ scope_stack' = Append(scope_stack, Append(busy[u].parent, Len(scope_stack)))
    /\ scopesRaced' = (scopesRaced \/ Pushing # {u})
    /\ UNCHANGED <<universe, tx, Imports, ImplAnswers>>

\* pop_scope keeps the last one.
PopScope(u) ==
    /\ busy[u] = NotBusy /\ Len(scope_stack) > 1
    /\ scope_stack' = Front(scope_stack)
    /\ scopesRaced' = (scopesRaced \/ Pushing # {})
    /\ UNCHANGED <<universe, tx, Imports, ImplAnswers, busy>>

-----------------------------------------------------------------------------
(* The importer.  parse_source is a placeholder that finds no declaration, *)
(* so an import converts nothing: it registers the package, and keeps it.  *)

\* A cached import is answered at once; a package without files is an error.
Import(u) ==
    /\ \E p \in (Packages \ import_cache) \cap Found : Call(u, [call |-> "import", path |-> p])
    /\ UNCHANGED <<universe, tx, Scopes, Imports, ImplAnswers>>

RegisterPackage(u) ==
    /\ In(u, "import")
    /\ packages' = packages \cup {busy[u].path}
    /\ busy' = [busy EXCEPT ![u].call = "keep"]
    /\ UNCHANGED <<universe, tx, Scopes, import_cache, ImplAnswers>>

KeepImport(u) ==
    /\ In(u, "keep") /\ Done(u)
    /\ import_cache' = import_cache \cup {busy[u].path}
    /\ UNCHANGED <<universe, tx, Scopes, packages, ImplAnswers>>

ClearImports ==
    /\ import_cache' = {}
    /\ UNCHANGED <<universe, tx, Scopes, packages, ImplAnswers, busy>>

-----------------------------------------------------------------------------
(* The query engine.                                                       *)

\* check_interface_impl: of two types that are there, whether the second is an
\* interface; the method comparisons are placeholders that say yes.
CheckImpl(typ, iface) ==
    /\ types[typ] # Absent /\ types[iface] # Absent
    /\ types[iface].interface

\* implements_interface, when nothing is kept for the pair.
AskImpl(u) ==
    /\ \E pair \in Asked \ DOMAIN impl_cache :
          /\ Call(u, [call |-> "ask", pair |-> pair, answer |-> CheckImpl(pair[1], pair[2])])
          /\ early' = IF Absent \in {types[pair[1]], types[pair[2]]} THEN early \cup {pair}
                                                                     ELSE early
    /\ UNCHANGED <<universe, tx, Scopes, Imports, impl_cache>>

KeepImpl(u) ==
    /\ In(u, "ask") /\ Done(u)
    /\ impl_cache' = Put(impl_cache, busy[u].pair, busy[u].answer)
    /\ UNCHANGED <<universe, tx, Scopes, Imports, early>>

\* clear_cache; an answer on its way is kept after it.
ClearAnswers ==
    /\ impl_cache' = NoMap
    /\ early' = {busy[u].pair : u \in {v \in Users : In(v, "ask")}} \cap early
    /\ UNCHANGED <<universe, tx, Scopes, Imports, busy>>

TransactionNext == \E u \in Users : BeginTx(u) \/ TxInsert(u) \/ AbandonTx(u) \/ CommitTx(u)
                                    \/ InsertNext(u) \/ ListNext(u) \/ Committed(u)
ScopeNext == \E u \in Users : ReadScope(u) \/ PushScope(u) \/ PopScope(u)
ImportNext == ClearImports \/ \E u \in Users : Import(u) \/ RegisterPackage(u) \/ KeepImport(u)
AnswerNext == ClearAnswers \/ \E u \in Users : AskImpl(u) \/ KeepImpl(u)

SharedNext == TransactionNext \/ ScopeNext \/ ImportNext \/ AnswerNext

SharedSpec == SharedInit /\ [][SharedNext]_sharedVars

-----------------------------------------------------------------------------
\* The caches and stacks over the universe follow it.  A kept answer is what asking
\* again would say, but for a pair one of which was absent when it was asked, for which
\* the no stays; a kept import is registered; and the parent of each scope is the
\* scope below it, but for a push with another push or a pop between its two steps.
SharedStateFollows ==
    /\ \A pair \in DOMAIN impl_cache :
           \/ impl_cache[pair] = CheckImpl(pair[1], pair[2])
           \/ ~impl_cache[pair] /\ pair \in early
    /\ import_cache \subseteq packages
    /\ scopesRaced \/ \A i \in 2..Len(scope_stack) : Front(scope_stack[i]) = scope_stack[i - 1]
=============================================================================
