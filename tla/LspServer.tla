----------------------------- MODULE LspServer -----------------------------
(***************************************************************************)
(* The language server of salsa/lsp.rs.  The handlers of the editor's      *)
(* notifications are futures the library runs side by side in one task: a  *)
(* handler runs to its next await undisturbed, starts in the order of the  *)
(* notifications, and goes on in any order.  run_diagnostics awaits the    *)
(* lock of the database between reading the content and publishing what it *)
(* found; a publication is queued when it is first polled.                 *)
(*                                                                         *)
(* The content of a document is the number of the notification that made   *)
(* it, and its diagnostics are known by the same number.  The editor is    *)
(* the library's client and speaks the protocol: it changes, saves and     *)
(* closes what it opened.                                                  *)
(***************************************************************************)
EXTENDS Naturals, Sequences, FiniteSets

CONSTANTS Urls,
          MaxHandlers,  \* how many handlers the library runs at a time (4)
          MaxVersion    \* a bound: how many notifications bring text

ASSUME LspConstants == MaxHandlers \in Nat /\ MaxVersion \in Nat

VARIABLES contents,     \* InputManager: the content of every path, 0 without a file
          open_documents, \* the version of the open documents, 0 when not open
          version,      \* the number of the last text the editor sent
          handlers,     \* the handlers that await the database's lock, in start order
          shown,        \* the content whose diagnostics the editor shows, 0 for none
          crossed       \* history: the documents two handlers of which overlapped

lspVars == <<contents, open_documents, version, handlers, shown, crossed>>

-----------------------------------------------------------------------------
Versions == 0..MaxVersion

LspTypeOK ==
    /\ contents \in [Urls -> Versions] /\ open_documents \in [Urls -> Versions]
    /\ version \in Versions
    /\ handlers \in Seq([url : Urls, content : Versions \ {0}])
    /\ Len(handlers) <= MaxHandlers
    /\ shown \in [Urls -> Versions]
    /\ crossed \subseteq Urls

LspInit ==
    /\ contents = [u \in Urls |-> 0] /\ open_documents = contents /\ shown = contents
    /\ version = 0
    /\ handlers = <<>> /\ crossed = {}

-----------------------------------------------------------------------------
Awaiting(u) == {i \in DOMAIN handlers : handlers[i].url = u}

\* The documents with overlapping handlers, once another handler of u starts.
Crossed(u) == IF Awaiting(u) = {} THEN crossed \ {u} ELSE crossed \cup {u}

\* run_diagnostics up to its await: the content there is now.
StartDiagnostics(u) ==
    /\ Len(handlers) < MaxHandlers
    /\ handlers' = Append(handlers, [url |-> u, content |-> contents'[u]])
    /\ crossed' = Crossed(u)
    /\ UNCHANGED shown

\* did_open: the whole text.
DidOpen(u) ==
    /\ open_documents[u] = 0 /\ version < MaxVersion
    /\ version' = version + 1
    /\ contents' = [contents EXCEPT ![u] = version']
    /\ open_documents' = [open_documents EXCEPT ![u] = version']
    /\ StartDiagnostics(u)

\* did_change: every change of the notification goes through apply_change or set_file,
\* one after the other, with no await between them.
DidChange(u) ==
    /\ open_documents[u] # 0 /\ version < MaxVersion
    /\ version' = version + 1
    /\ contents' = [contents EXCEPT ![u] = version']
    /\ open_documents' = [open_documents EXCEPT ![u] = version']
    /\ StartDiagnostics(u)

DidSave(u) ==
    /\ open_documents[u] # 0
    /\ UNCHANGED <<contents, open_documents, version>>
    /\ StartDiagnostics(u)

\* did_close removes the document, not its content, and publishes no diagnostics.
\* A close that leaves the diagnostics.
DidCloseSilently(u) ==
    /\ open_documents[u] # 0
    /\ Len(handlers) < MaxHandlers
    /\ open_documents' = [open_documents EXCEPT ![u] = 0]
    /\ crossed' = Crossed(u)
    /\ UNCHANGED <<contents, version, handlers, shown>>

DidClose(u) ==
    /\ open_documents[u] # 0
    /\ Len(handlers) < MaxHandlers
    /\ open_documents' = [open_documents EXCEPT ![u] = 0]
    /\ shown' = [shown EXCEPT ![u] = 0]
    /\ crossed' = Crossed(u)
    /\ UNCHANGED <<contents, version, handlers>>

\* The rest of run_diagnostics: the lock is free, no handler writes the database.
Publish(i) ==
    /\ shown' = [shown EXCEPT ![handlers[i].url] = handlers[i].content]
    /\ handlers' = SubSeq(handlers, 1, i - 1) \o SubSeq(handlers, i + 1, Len(handlers))
    /\ UNCHANGED <<contents, open_documents, version, crossed>>

LspNext ==
    \/ \E u \in Urls : DidOpen(u) \/ DidChange(u) \/ DidSave(u) \/ DidClose(u)
    \/ \E i \in DOMAIN handlers : Publish(i)

LspSpec == LspInit /\ [][LspNext]_lspVars

-----------------------------------------------------------------------------
\* Once the handlers of a document are done, the editor shows the diagnostics of its
\* content, and none when it is closed, unless two of its handlers overlapped: then an
\* earlier one may publish last, even after the close.
ShownOutdatedOnlyByOverlap ==
    \A u \in Urls : Awaiting(u) = {} /\ u \notin crossed =>
        shown[u] = IF open_documents[u] = 0 THEN 0 ELSE contents[u]
=============================================================================
