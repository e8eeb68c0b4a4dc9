------------------------------ MODULE IpcBridge ------------------------------
(***************************************************************************)
(* One connection of the bridge to the Go compiler (bridge/ipc.rs): a loop *)
(* that takes whatever one read of the socket gives for one message.  The  *)
(* socket is a stream of parts, the pieces in which a message can arrive,  *)
(* and keeps their order, not the boundaries of the messages.              *)
(***************************************************************************)
EXTENDS Naturals, Sequences, FiniteSets

CONSTANTS Parts,        \* how many parts a message may have: a set of numbers
          BufferParts,  \* what one read can take (4096 bytes)
          MaxMessages   \* a bound: how many messages the client writes

ASSUME BridgeConstants ==
    Parts \subseteq Nat \ {0} /\ BufferParts \in Nat /\ MaxMessages \in Nat

VARIABLES bridge,       \* the listener: Down, Listening
          peer,         \* the connection: Closed, Open, Shut (by the client), Ended, or
                        \* Failed (a read or a write of its task met an error)
          written,      \* the messages the client has written: their kind and parts
          stream,       \* the parts written and not read: <<message, part>>
          replies,      \* to which message each reply is, 0 for an error
          cut, merged   \* history: the messages a read cut, or took with an earlier one

bridgeVars == <<bridge, peer, written, stream, replies, cut, merged>>

-----------------------------------------------------------------------------
\* Sync and a heartbeat are answered in kind, all the rest with an error.
MessageKinds == {"Sync", "Other"}
Messages == [kind : MessageKinds, parts : Parts]
Ids == 1..MaxMessages

BridgeTypeOK ==
    /\ bridge \in {"Down", "Listening"} /\ peer \in {"Closed", "Open", "Shut", "Ended", "Failed"}
    /\ written \in Seq(Messages)
    /\ stream \in Seq(Ids \X Nat)
    /\ replies \in Seq(0..MaxMessages)
    /\ cut \subseteq Ids /\ merged \subseteq Ids

BridgeInit ==
    /\ bridge = "Down" /\ peer = "Closed"
    /\ written = <<>> /\ stream = <<>> /\ replies = <<>>
    /\ cut = {} /\ merged = {}

-----------------------------------------------------------------------------
\* start: a socket left by an earlier bridge is removed first.
StartBridge ==
    /\ bridge = "Down" /\ bridge' = "Listening"
    /\ UNCHANGED <<peer, written, stream, replies, cut, merged>>

\* stop removes the socket; the connections go on.
StopBridge ==
    /\ bridge = "Listening" /\ bridge' = "Down"
    /\ UNCHANGED <<peer, written, stream, replies, cut, merged>>

\* Every accepted connection gets a task of its own, however many there are.
Accept ==
    /\ bridge = "Listening" /\ peer = "Closed" /\ peer' = "Open"
    /\ UNCHANGED <<bridge, written, stream, replies, cut, merged>>

Write ==
    /\ peer = "Open" /\ Len(written) < MaxMessages
    /\ \E m \in Messages :
          /\ written' = Append(written, m)
          /\ stream' = stream \o [i \in 1..m.parts |-> <<Len(written'), i>>]
    /\ UNCHANGED <<bridge, peer, replies, cut, merged>>

Shut ==
    /\ peer = "Open" /\ peer' = "Shut"
    /\ UNCHANGED <<bridge, written, stream, replies, cut, merged>>

\* The messages that have all their parts in the bytes read.
Whole(chunk) ==
    {m \in 1..Len(written) : \A i \in 1..written[m].parts : \E j \in DOMAIN chunk : chunk[j] = <<m, i>>}

\* The last of the messages read.
DeserializedLast(chunk) ==
    LET whole == Whole(chunk)
    IN  IF whole = {} THEN {0} ELSE {CHOOSE m \in whole : \A n \in whole : n <= m}

\* deserialize_message reads one message from the start of the bytes and does not mind
\* what follows.  Bytes that start inside a message may be taken for another one.
Deserialized(chunk) ==
    CASE chunk[1][2] = 1 -> IF chunk[1][1] \in Whole(chunk) THEN {chunk[1][1]} ELSE {0}
      [] OTHER -> {0, chunk[1][1]}

\* process_message and handle_request.
ReplyTo(m) == IF m # 0 /\ written[m].kind = "Sync" THEN m ELSE 0

\* A read takes some of what has arrived, as much as the buffer holds.
ReadSizes == 1..(IF Len(stream) < BufferParts THEN Len(stream) ELSE BufferParts)
Chunk(n) == SubSeq(stream, 1, n)

Read(n) ==
    LET whole == Whole(Chunk(n))
        touched == {Chunk(n)[j][1] : j \in DOMAIN Chunk(n)}
    IN  /\ stream' = SubSeq(stream, n + 1, Len(stream))
        /\ cut' = cut \cup (touched \ whole)
        /\ merged' = merged \cup (whole \ {Chunk(n)[1][1]})

\* One turn of the loop: a read, and its reply.
Turn ==
    /\ peer \in {"Open", "Shut"} /\ stream # <<>>
    /\ \E n \in ReadSizes :
          /\ Read(n)
          /\ \E m \in Deserialized(Chunk(n)) : replies' = Append(replies, ReplyTo(m))
    /\ UNCHANGED <<bridge, peer, written>>

\* The error of a write ends the loop: what was read has no reply, and what was not read
\* is left behind.
WriteFails ==
    /\ peer \in {"Open", "Shut"} /\ stream # <<>>
    /\ \E n \in ReadSizes : Read(n)
    /\ peer' = "Failed"
    /\ UNCHANGED <<bridge, written, replies>>

\* The error of a read ends the loop, too.
ReadFails ==
    /\ peer \in {"Open", "Shut"} /\ peer' = "Failed"
    /\ UNCHANGED <<bridge, written, stream, replies, cut, merged>>

\* A read of nothing ends the loop.
EndLoop ==
    /\ peer = "Shut" /\ stream = <<>> /\ peer' = "Ended"
    /\ UNCHANGED <<bridge, written, stream, replies, cut, merged>>

BridgeNext == \/ StartBridge \/ StopBridge \/ Accept \/ Write \/ Shut
              \/ Turn \/ WriteFails \/ ReadFails \/ EndLoop

BridgeSpec == BridgeInit /\ [][BridgeNext]_bridgeVars

-----------------------------------------------------------------------------
\* The messages read to the end, that no read cut or took with an earlier one.
Intact == {m \in 1..Len(written) : /\ m \notin cut \cup merged
                                  /\ \A j \in DOMAIN stream : stream[j][1] # m}

\* The requests read intact that have no acknowledgement.
Unanswered ==
    {m \in Intact : written[m].kind = "Sync" /\ \A i \in DOMAIN replies : replies[i] # m}

\* Every Sync that was read alone, or first in its read, has its acknowledgement, but for
\* the last one of a connection that failed; and while no read has cut or merged
\* messages, the replies are those of the messages, one each and in their order, and a
\* failure loses one at most.
RepliesAccounted ==
    /\ \A m \in Unanswered : peer = "Failed" /\ \A k \in Intact : k <= m
    /\ cut \cup merged = {} =>
           /\ \/ Len(replies) = Cardinality(Intact)
              \/ peer = "Failed" /\ Len(replies) + 1 = Cardinality(Intact)
           /\ \A i \in DOMAIN replies : replies[i] = ReplyTo(i)
=============================================================================
