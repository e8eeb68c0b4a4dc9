------------------------------ MODULE Servers ------------------------------
(***************************************************************************)
(* The daemon (daemon/mod.rs) and what it serves (api/): a gRPC server and *)
(* a WebSocket server, whose connections and streams answer their requests *)
(* through one TypeService, and so one coordinator.  The IPC bridge is a   *)
(* module of its own; the daemon never starts it.                          *)
(*                                                                         *)
(* Of a request the model keeps what its handling depends on: Fixed stands *)
(* for health, stream_validate, import and the calls of the gRPC service   *)
(* that answer with constants; Query for those that need a session.  Every *)
(* connect draws a fresh agent id, so the coordinator refuses it only when *)
(* it is full; Coordinator has the steps in between.                       *)
(***************************************************************************)
EXTENDS Naturals, Sequences, SequencesExt, FiniteSets

CONSTANTS Sockets, Streams, \* WebSocket connections, and gRPC streams
          MaxAgents,        \* the coordinator's max_agents
          ReplyCap,         \* the room of a gRPC stream's channel (100)
          MaxRequests       \* a bound: how many requests each client sends

VARIABLES daemon,       \* New, Grpc (its task is spawned), Running, Ended
          listening,    \* the services whose task serves
          live_sessions,\* the sessions of the coordinator
          clients,      \* each connection: its state, the requests sent and not
                        \* received, the replies, those not read yet, what was handled
          acknowledged  \* the sessions whose disconnect was acknowledged

serverVars == <<daemon, listening, live_sessions, clients, acknowledged>>

-----------------------------------------------------------------------------
Services == {"grpc", "ws"}
Clients == Sockets \cup Streams
Service(c) == IF c \in Sockets THEN "ws" ELSE "grpc"
Sessions == 1..MaxAgents
NoSession == 0
ClientRequests == [kind : {"Fixed", "Bad", "Connect"}, session : {NoSession}]
            \cup [kind : {"Query"}, session : Sessions \cup {NoSession}]
Replies == [status : {"ok", "invalid", "failed", "refused"}, session : Sessions \cup {NoSession}]
NoClient == [state |-> "absent", inbox |-> <<>>, outbox |-> <<>>, replies |-> <<>>, handled |-> <<>>]

ServerTypeOK ==
    /\ daemon \in {"New", "Grpc", "Running", "Ended"} /\ listening \subseteq Services
    /\ live_sessions \subseteq Sessions /\ acknowledged \subseteq Sessions
    /\ DOMAIN clients = Clients
    /\ \A c \in Clients :
           /\ clients[c].state \in {"absent", "open", "left", "gone"}
           /\ clients[c].inbox \in Seq(ClientRequests) /\ clients[c].handled \in Seq(ClientRequests)
           /\ clients[c].outbox \in Seq(Replies) /\ clients[c].replies \in Seq(Replies)

ServerInit ==
    /\ daemon = "New" /\ listening = {}
    /\ live_sessions = {} /\ acknowledged = {}
    /\ clients = [c \in Clients |-> NoClient]

-----------------------------------------------------------------------------
(* run: the gRPC task, then the WebSocket task, then a wait for each in    *)
(* turn.  A task that cannot bind its address ends.                        *)

StartService(from, service, to) ==
    /\ daemon = from /\ daemon' = to
    /\ listening' = listening \cup {service}
    /\ UNCHANGED <<live_sessions, clients, acknowledged>>

StartGrpc == StartService("New", "grpc", "Grpc")
StartWebSocket == StartService("Grpc", "ws", "Running")

BindFails(s) ==
    /\ s \in listening /\ \A c \in Clients : Service(c) = s => clients[c] = NoClient
    /\ listening' = listening \ {s}
    /\ UNCHANGED <<daemon, live_sessions, clients, acknowledged>>

RunReturns ==
    /\ daemon = "Running" /\ listening = {}
    /\ daemon' = "Ended"
    /\ UNCHANGED <<listening, live_sessions, clients, acknowledged>>

-----------------------------------------------------------------------------
(* The clients.                                                            *)

Keep == UNCHANGED <<daemon, listening>>

Open(c) ==
    /\ clients[c] = NoClient /\ Service(c) \in listening
    /\ clients' = [clients EXCEPT ![c].state = "open"]
    /\ Keep /\ UNCHANGED <<live_sessions, acknowledged>>

\* Streams carry requests with fixed answers; a broken one is an error of the stream.
Send(c) ==
    /\ clients[c].state = "open"
    /\ Len(clients[c].inbox) + Len(clients[c].handled) < MaxRequests
    /\ \E r \in ClientRequests : 
          /\ c \in Streams => r.kind \in {"Fixed", "Bad"}
          /\ clients' = [clients EXCEPT ![c].inbox = Append(@, r)]
    /\ Keep /\ UNCHANGED <<live_sessions, acknowledged>>

ReadReply(c) ==
    /\ clients[c].state = "open" /\ clients[c].outbox # <<>>
    /\ clients' = [clients EXCEPT ![c].replies = Append(@, Head(clients[c].outbox)),
                                  ![c].outbox = Tail(@)]
    /\ Keep /\ UNCHANGED <<live_sessions, acknowledged>>

\* The client goes away, with requests and replies under way.
Leave(c) ==
    /\ clients[c].state = "open"
    /\ clients' = [clients EXCEPT ![c].state = "left"]
    /\ Keep /\ UNCHANGED <<live_sessions, acknowledged>>

\* disconnect_agent, over gRPC: the session is acknowledged and stays.
Disconnect ==
    /\ "grpc" \in listening
    /\ \E s \in live_sessions \ acknowledged : acknowledged' = acknowledged \cup {s}
    /\ Keep /\ UNCHANGED <<live_sessions, clients>>

-----------------------------------------------------------------------------
(* The servers: one request at a time for each connection.                 *)

Fresh == Cardinality(live_sessions) + 1

\* handle_request, and the replies of the streams.
Reply(r) ==
    CASE r.kind = "Fixed" -> [status |-> "ok", session |-> NoSession]
      [] r.kind = "Bad" -> [status |-> "invalid", session |-> NoSession]
      [] r.kind = "Query" -> [status |-> IF r.session \in live_sessions THEN "ok" ELSE "failed",
                              session |-> r.session]
      [] r.kind = "Connect" -> IF Fresh \in Sessions THEN [status |-> "ok", session |-> Fresh]
                               ELSE [status |-> "refused", session |-> NoSession]

\* A loop that skips a bad request of a socket and says nothing.
HandleSilently(c) ==
    LET r == Head(clients[c].inbox)
        ends == \/ clients[c].state = "left" /\ (c \in Streams \/ r.kind # "Bad")
                \/ c \in Streams /\ r.kind = "Bad"
    IN  /\ clients[c].state \in {"open", "left"} /\ clients[c].inbox # <<>>
        /\ c \in Streams => Len(clients[c].outbox) < ReplyCap
        /\ clients' = [clients EXCEPT
              ![c].state = IF ends THEN "gone" ELSE @,
              ![c].inbox = Tail(@), ![c].handled = Append(@, r),
              ![c].outbox = IF ends \/ r.kind = "Bad" THEN @ ELSE Append(@, Reply(r))]
        /\ live_sessions' = IF r.kind = "Connect" /\ Fresh \in Sessions
                            THEN live_sessions \cup {Fresh} ELSE live_sessions
        /\ Keep /\ UNCHANGED acknowledged

\* The loops of handle_socket and of stream_query and stream_validate.  A socket answers
\* a bad request with 400 and goes on; a stream ends at one.  A reply nobody can receive
\* ends either, but a 400, whose failure is ignored.
Handle(c) ==
    LET r == Head(clients[c].inbox)
        ends == \/ clients[c].state = "left" /\ (c \in Streams \/ r.kind # "Bad")
                \/ c \in Streams /\ r.kind = "Bad"
    IN  /\ clients[c].state \in {"open", "left"} /\ clients[c].inbox # <<>>
        /\ c \in Streams => Len(clients[c].outbox) < ReplyCap
        /\ clients' = [clients EXCEPT
              ![c].state = IF ends THEN "gone" ELSE @,
              ![c].inbox = Tail(@), ![c].handled = Append(@, r),
              ![c].outbox = IF ends THEN @ ELSE Append(@, Reply(r))]
        /\ live_sessions' = IF r.kind = "Connect" /\ Fresh \in Sessions
                            THEN live_sessions \cup {Fresh} ELSE live_sessions
        /\ Keep /\ UNCHANGED acknowledged

\* The connection has nothing more to give.
EndOfStream(c) ==
    /\ clients[c].state = "left" /\ clients[c].inbox = <<>>
    /\ clients' = [clients EXCEPT ![c].state = "gone"]
    /\ Keep /\ UNCHANGED <<live_sessions, acknowledged>>

ServerNext ==
    \/ StartGrpc \/ StartWebSocket \/ RunReturns \/ Disconnect
    \/ \E s \in Services : BindFails(s)
    \/ \E c \in Clients : Open(c) \/ Send(c) \/ ReadReply(c) \/ Leave(c)
                          \/ Handle(c) \/ EndOfStream(c)

ServerSpec == ServerInit /\ [][ServerNext]_serverVars

-----------------------------------------------------------------------------
\* What tells the requests apart in their replies.
Answered(r, reply) ==
    /\ reply.status = "invalid" <=> r.kind = "Bad"
    /\ reply.status = "refused" => r.kind = "Connect"
    /\ reply.status = "failed" => r.kind = "Query"
    /\ r.kind = "Query" => reply.session = r.session

\* Each connection that is open gets one reply for each request, in their order.  The
\* session a reply gave out serves the later requests that name it, until a disconnect
\* of it is acknowledged, and no other session serves any.
ClientsServed ==
    \A c \in Clients :
        LET got == clients[c].replies \o clients[c].outbox
            handled == clients[c].handled
        IN  /\ \A i \in DOMAIN got :
                   /\ i <= Len(handled) /\ Answered(handled[i], got[i])
                   /\ handled[i].kind = "Query" /\ got[i].status = "ok" =>
                          handled[i].session \in live_sessions \cup acknowledged
            /\ clients[c].state = "open" => Len(got) = Len(handled)
            /\ \A i, j \in DOMAIN got :
                   /\ i < j /\ handled[i].kind = "Connect" /\ got[i].session # NoSession
                   /\ handled[j] = [kind |-> "Query", session |-> got[i].session]
                   /\ got[i].session \notin acknowledged
                   => got[j].status = "ok"

\* A session whose disconnect was acknowledged is over.
DisconnectedEnd == acknowledged \cap live_sessions = {}
=============================================================================
