---------------------------- MODULE InputManager ----------------------------
(***************************************************************************)
(* The files of salsa/inputs.rs, shared by reference: set_file draws a     *)
(* revision before it locks the file's entry, and apply_change copies the  *)
(* content out, edits the copy and sets it, with no lock across.           *)
(*                                                                         *)
(* A content is the sequence of the changes that made it; where a change   *)
(* applies in the text is the subject of SourceText.                       *)
(***************************************************************************)
EXTENDS Naturals, Sequences, Maps

CONSTANTS Threads, Paths,
          Texts,        \* what set_file is given, and what a change inserts
          MaxRevision   \* a bound on the calls

ASSUME InputConstants == MaxRevision \in Nat

VARIABLES files,        \* the content and the revision of some of the paths
          current_revision,
          edits,        \* what each thread is doing
          ideal,        \* history: the files as the calls, one at a time, would leave them
          raced         \* history: the paths two calls on which overlapped

inputVars == <<files, current_revision, edits, ideal, raced>>

-----------------------------------------------------------------------------
Contents == Seq(Texts)
FileStates == [content : Contents, revision : 0..MaxRevision]
NoEdit == [step |-> "Idle"]
Steps == {"Idle", "Read", "Number", "Store"}

InputTypeOK ==
    /\ DOMAIN files \subseteq Paths /\ \A p \in DOMAIN files : files[p] \in FileStates
    /\ current_revision \in 0..MaxRevision
    /\ DOMAIN edits = Threads /\ \A t \in Threads : edits[t].step \in Steps
    /\ DOMAIN ideal \subseteq Paths /\ raced \subseteq Paths

InputInit ==
    /\ files = NoMap /\ ideal = files
    /\ current_revision = 0
    /\ edits = [t \in Threads |-> NoEdit]
    /\ raced = {}

-----------------------------------------------------------------------------
\* set_file under the entry's lock: a content that is the same keeps its revision.
SetFile(fs, path, content, revision) ==
    IF Has(fs, path) /\ fs[path].content = content THEN fs
    ELSE Put(fs, path, [content |-> content, revision |-> revision])

Changed(content, text) == Append(content, text)

Busy(path) == {t \in Threads : edits[t].step # "Idle" /\ edits[t].path = path}

Begin(t, step, path, text) ==
    /\ edits[t] = NoEdit
    /\ edits' = [edits EXCEPT ![t] = [step |-> step, path |-> path, text |-> text,
                     whole |-> step = "Number", content |-> <<text>>, revision |-> 0]]
    /\ raced' = IF Busy(path) = {} THEN raced ELSE raced \cup {path}
    /\ UNCHANGED <<files, current_revision, ideal>>

BeginSet(t) == \E p \in Paths, x \in Texts : Begin(t, "Number", p, x)
BeginChange(t) == \E p \in Paths, x \in Texts : Begin(t, "Read", p, x)

\* apply_change: get_file, then the change to the copy; without the file, an error.
ReadContent(t) ==
    LET e == edits[t]
    IN  /\ e.step = "Read"
        /\ edits' = [edits EXCEPT ![t] =
                        IF Has(files, e.path)
                        THEN [e EXCEPT !.step = "Number",
                                       !.content = Changed(files[e.path].content, e.text)]
                        ELSE NoEdit]
        /\ UNCHANGED <<files, current_revision, ideal, raced>>

\* What the call would set if it were alone.
Alone(e) == IF e.whole THEN e.content ELSE Changed(ideal[e.path].content, e.text)

\* The fetch_add of set_file.
DrawRevision(t) ==
    /\ edits[t].step = "Number" /\ current_revision < MaxRevision
    /\ edits' = [edits EXCEPT ![t].step = "Store", ![t].revision = current_revision]
    /\ current_revision' = current_revision + 1
    /\ ideal' = SetFile(ideal, edits[t].path, Alone(edits[t]), current_revision)
    /\ UNCHANGED <<files, raced>>

\* A store that keeps the file that is there.
StoreContentIfNew(t) ==
    LET e == edits[t]
    IN  /\ e.step = "Store"
        /\ files' = IF Has(files, e.path) THEN files ELSE SetFile(files, e.path, e.content, e.revision)
        /\ edits' = [edits EXCEPT ![t] = NoEdit]
        /\ UNCHANGED <<current_revision, ideal, raced>>

StoreContent(t) ==
    LET e == edits[t]
    IN  /\ e.step = "Store"
        /\ files' = SetFile(files, e.path, e.content, e.revision)
        /\ edits' = [edits EXCEPT ![t] = NoEdit]
        /\ UNCHANGED <<current_revision, ideal, raced>>

InputNext == \E t \in Threads : BeginSet(t) \/ BeginChange(t) \/ ReadContent(t)
                                \/ DrawRevision(t) \/ StoreContent(t)

InputSpec == InputInit /\ [][InputNext]_inputVars

-----------------------------------------------------------------------------
\* Every path has the content and the revision the calls made one at a time would have
\* left it, no edit lost and no revision going back, unless two calls on it overlapped.
EditsLostOnlyByRace ==
    \A p \in Paths \ raced :
        Busy(p) = {} =>
            /\ p \in DOMAIN files <=> p \in DOMAIN ideal
            /\ p \in DOMAIN files => files[p] = ideal[p]

=============================================================================
