-------------------------- MODULE ValidationStream --------------------------
(***************************************************************************)
(* The validation pipeline of validate/stream.rs: callers submit events to *)
(* a bounded channel, one task processes them on a copy of the stream's    *)
(* state that `new` makes with clone_ref, and broadcasts each event to the *)
(* subscribers.  The two tokio channels are modelled from how the code     *)
(* uses them.                                                              *)
(*                                                                         *)
(* An event is its kind and its number, the order in which submit was      *)
(* called; what an expression is, and so its verdict, is left out.         *)
(***************************************************************************)
EXTENDS Naturals, Sequences, SequencesExt, FiniteSets, Maps

CONSTANTS Subscribers,  \* who may call subscribe, once each
          InputCap,     \* the room of the mpsc channel (1024)
          OutputCap,    \* what the broadcast channel retains (1024)
          MaxEvents     \* a bound: how many events are submitted

ASSUME StreamConstants == InputCap \in Nat /\ OutputCap \in Nat /\ MaxEvents \in Nat

VARIABLES queue,        \* submitted and not received: the first InputCap are in the
                        \* channel, the others wait for room in their calls of submit
          numbered,     \* how many events there were
          dropped,      \* the events whose caller gave up while waiting
          working,      \* the event the task processes, or Idle
          copy,         \* the task's state: its expressions and its checkpoints
          own,          \* the stream's state: expressions and checkpoints
          answers,      \* the answers of rollback, and whether the checkpoint was made
          sent,         \* every output that was broadcast
          subs          \* each subscriber's first position, next one, and what it got

streamVars == <<queue, numbered, dropped, working, copy, own, answers, sent, subs>>

-----------------------------------------------------------------------------
\* A token, like the kinds that answers have, makes process_event do nothing.
Kinds == {"Token", "Expression", "Checkpoint"}
Events == [kind : Kinds, n : 1..MaxEvents]
Idle == [kind |-> "Idle", n |-> 0]
Numbers == 1..MaxEvents
Unsubscribed == [first |-> 0, next |-> 0, got |-> <<>>]

\* A checkpoint holds the expressions of its time, under its number: that of the event
\* that asked for it stands for that of the counter, no less unique.
StreamTypeOK ==
    /\ queue \in Seq(Events) /\ numbered \in 0..MaxEvents /\ dropped \subseteq Numbers
    /\ working \in Events \cup {Idle}
    /\ copy.expressions \subseteq Numbers
    /\ DOMAIN copy.checkpoints \subseteq Numbers
    /\ own.expressions \subseteq Numbers /\ DOMAIN own.checkpoints \subseteq Numbers
    /\ answers \subseteq [ok : BOOLEAN, made : BOOLEAN]
    /\ sent \in Seq(Numbers)
    /\ DOMAIN subs = Subscribers
    /\ \A r \in Subscribers : subs[r].first \in Nat /\ subs[r].got \in Seq(Numbers)

StreamInit ==
    /\ queue = <<>> /\ numbered = 0 /\ dropped = {} /\ working = Idle
    /\ copy = [expressions |-> {}, checkpoints |-> <<>>]
    /\ own = [expressions |-> {}, checkpoints |-> <<>>]
    /\ answers = {} /\ sent = <<>>
    /\ subs = [r \in Subscribers |-> Unsubscribed]

-----------------------------------------------------------------------------
(* The callers.                                                            *)

\* A submit that drops an event for which the channel has no room.
SubmitIfRoom ==
    /\ numbered < MaxEvents
    /\ numbered' = numbered + 1
    /\ \E kind \in Kinds :
          queue' = IF Len(queue) < InputCap THEN Append(queue, [kind |-> kind, n |-> numbered'])
                   ELSE queue
    /\ UNCHANGED <<dropped, working, copy, own, answers, sent, subs>>

\* submit, and checkpoint, which submits one of its kind.  The senders wait in the
\* order of their calls for room in the channel.
Submit ==
    /\ numbered < MaxEvents
    /\ numbered' = numbered + 1
    /\ \E kind \in Kinds : queue' = Append(queue, [kind |-> kind, n |-> numbered'])
    /\ UNCHANGED <<dropped, working, copy, own, answers, sent, subs>>

\* A caller that waits for room is cancelled.
GiveUp ==
    \E i \in (InputCap + 1)..Len(queue) :
        /\ dropped' = dropped \cup {queue[i].n}
        /\ queue' = RemoveAt(queue, i)
        /\ UNCHANGED <<numbered, working, copy, own, answers, sent, subs>>

\* rollback looks for the checkpoint in the stream's own state.
Rollback ==
    \E c \in 1..numbered :
        LET ok == c \in DOMAIN own.checkpoints
        IN  /\ own' = IF ok THEN [own EXCEPT !.expressions = own.checkpoints[c]] ELSE own
            /\ answers' = answers \cup {[ok |-> ok, made |-> c \in DOMAIN copy.checkpoints]}
            /\ UNCHANGED <<queue, numbered, dropped, working, copy, sent, subs>>

-----------------------------------------------------------------------------
(* The task of new.                                                        *)

\* The state after process_event: an expression gets the next number of the copy,
\* a checkpoint is a copy of its expressions, and the other events do nothing.
Processed(e) ==
    CASE e.kind = "Expression" -> [copy EXCEPT !.expressions = @ \cup {Cardinality(@) + 1}]
      [] e.kind = "Checkpoint" -> [copy EXCEPT !.checkpoints = Put(@, e.n, copy.expressions)]
      [] OTHER -> copy

Receive ==
    /\ working = Idle /\ queue # <<>>
    /\ working' = Head(queue)
    /\ queue' = Tail(queue)
    /\ copy' = Processed(Head(queue))
    /\ UNCHANGED <<numbered, dropped, own, answers, sent, subs>>

\* A broadcast that waits for its slowest subscriber.
BroadcastWhenRead ==
    /\ working # Idle
    /\ \A r \in Subscribers : subs[r].first > 0 => Len(sent) < subs[r].next - 1 + OutputCap
    /\ sent' = Append(sent, working.n)
    /\ working' = Idle
    /\ UNCHANGED <<queue, numbered, dropped, copy, own, answers, subs>>

\* send never waits: it overwrites the oldest of OutputCap outputs.
Broadcast ==
    /\ working # Idle
    /\ sent' = Append(sent, working.n)
    /\ working' = Idle
    /\ UNCHANGED <<queue, numbered, dropped, copy, own, answers, subs>>

-----------------------------------------------------------------------------
(* The subscribers.                                                        *)

\* resubscribe: from the next output on, whatever the channel retains.
Subscribe(r) ==
    /\ subs[r].first = 0
    /\ subs' = [subs EXCEPT ![r] = [first |-> Len(sent) + 1, next |-> Len(sent) + 1, got |-> <<>>]]
    /\ UNCHANGED <<queue, numbered, dropped, working, copy, own, answers, sent>>

Oldest == IF Len(sent) > OutputCap THEN Len(sent) - OutputCap + 1 ELSE 1

\* A subscriber that lagged is told so, and goes on with the oldest that is left.
Lag(r) ==
    /\ subs[r].first > 0 /\ subs[r].next < Oldest
    /\ subs' = [subs EXCEPT ![r].next = Oldest]
    /\ UNCHANGED <<queue, numbered, dropped, working, copy, own, answers, sent>>

Recv(r) ==
    /\ subs[r].first > 0 /\ subs[r].next \in Oldest..Len(sent)
    /\ subs' = [subs EXCEPT ![r].next = @ + 1, ![r].got = Append(@, sent[subs[r].next])]
    /\ UNCHANGED <<queue, numbered, dropped, working, copy, own, answers, sent>>

StreamWork == Receive \/ Broadcast

StreamNext ==
    \/ Submit \/ GiveUp \/ Rollback
    \/ StreamWork
    \/ \E r \in Subscribers : Subscribe(r) \/ Lag(r) \/ Recv(r)

\* The runtime polls a task that can go on; it promises nothing of the callers.
StreamFairness == WF_streamVars(StreamWork)

StreamSpec == StreamInit /\ [][StreamNext]_streamVars /\ StreamFairness

-----------------------------------------------------------------------------
Increasing(s) == \A i, j \in DOMAIN s : i < j => s[i] < s[j]
InQueue == {queue[i].n : i \in DOMAIN queue}

\* What a subscriber gets comes in the order of the submissions, and what it misses
\* of the events of its time was either given up by its caller, is still under way,
\* or was overwritten: OutputCap later events were broadcast before it looked.
DeliveryOrdered ==
    \A r \in Subscribers :
        LET s == subs[r]
            passed == {sent[i] : i \in s.first..(s.next - 1)}
        IN  s.first > 0 =>
            /\ Increasing(s.got)
            /\ \A n \in passed \ ToSet(s.got) :
                   Cardinality({m \in ToSet(sent) : m > n}) >= OutputCap
            /\ 1..numbered = ToSet(sent) \cup dropped \cup InQueue
                             \cup ({working.n} \ {0})

\* A rollback finds every checkpoint that was made.  It looks for it in the stream's
\* own state, and the task of `new` makes checkpoints in its copy.
RollbackFindsCheckpoint == \A a \in answers : a.made => a.ok

\* An event whose caller did not give up is processed and broadcast in the end.
SubmittedIsBroadcast ==
    \A n \in Numbers : (numbered >= n) ~> (n \in dropped \cup ToSet(sent))
=============================================================================
