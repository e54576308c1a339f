----------------------------- MODULE QkdService -----------------------------
(***************************************************************************)
(* Client processes that call the library, the single-threaded TLS server  *)
(* that answers them, and the connections between them.                    *)
(*                                                                         *)
(* Every library call opens a connection of its own, sends one request and *)
(* reads one response (client_perform_request).  The server accepts one    *)
(* connection at a time, reads a header and a payload, runs the handler of *)
(* KeyStreams, sends the response and closes (socket_server_init and       *)
(* qkd_servlet).  Requests and responses that fit one TLS record are read  *)
(* as they were written: that is what SslSocket is about.                  *)
(*                                                                         *)
(* Processes end: exit() in the library, a signal (SIGPIPE, or SIGSEGV     *)
(* after a failed SSL_read), or a kill from outside.                       *)
(***************************************************************************)
EXTENDS KeyStreams, TlsContext

CONSTANTS
  NoClient,
  OtherService,      \* services besides the three: "CLOSE_SERVER", "ERROR"
  SslAcceptFailure,  \* what a failed SSL_accept returns, a subset of {0, -1}
  AcceptQueue,       \* length of the kernel's accept queue
  MaxFd,             \* sockets a client process can hold open
  MaxCalls,          \* bound: library calls per client
  MaxKilled,         \* bound: client processes killed from outside
  MaxStalled         \* bound: client processes that hang

ASSUME ServiceAssumption ==
  /\ NoClient \notin Client
  /\ ~ContextExits("server", ServerTls)   \* otherwise there is no server
  /\ OtherService \subseteq {"CLOSE_SERVER", "ERROR"}
  /\ SslAcceptFailure \subseteq {0, -1}
  /\ AcceptQueue \in Nat
  /\ {MaxFd, MaxCalls, MaxKilled, MaxStalled} \subseteq Nat

\* A request for another service; its header may be all there is of it.
OtherRequest == [service : OtherService, has_payload : BOOLEAN]

AnyRequest == Request \cup OtherRequest
NoRequest == [service |-> "NONE"]
Result == [client : Client, request : Request, response : Response]

VARIABLES
  pc,             \* where each client is inside a library call
  call,           \* the request of the call it is in
  calls,          \* calls made so far
  fds,            \* sockets it holds; client_perform_request closes none
  results,        \* history: the calls that returned, with what they returned
  conn,           \* the connection of each client's current call
  c2s, s2c,       \* data written and not yet read, in each direction
  backlog,        \* connections waiting for accept()
  server_pc,      \* where the server is in its accept loop
  server_status,  \* server_status_t
  peer            \* the client the server is connected to

clientVars == <<pc, call, calls, fds, results>>
serverVars == <<server_pc, server_status, peer>>
vars == <<clientVars, conn, c2s, s2c, backlog, serverVars, kmsVars>>

Gone == {"exited", "crashed", "killed"}
Busy == {"connect", "handshake", "send", "recv"}
Down == {"finished", "exited", "crashed"}
Listening == server_pc \notin Down

TypeOK ==
  /\ KmsTypeOK
  /\ pc \in [Client -> {"idle", "stalled"} \cup Busy \cup Gone]
  /\ call \in [Client -> AnyRequest \cup {NoRequest}]
  /\ calls \in [Client -> 0..MaxCalls]
  /\ fds \in [Client -> 0..MaxFd]
  /\ results \subseteq Result
  /\ conn \in [Client -> {"none", "queued", "accepted", "open", "shut"}]
  /\ c2s \in [Client -> Seq(AnyRequest)]
  /\ s2c \in [Client -> Seq(Response)]
  /\ backlog \in Seq(Client)
  /\ server_pc \in {"accept", "handshake", "header", "payload", "respond", "shutdown"} \cup Down
  /\ server_status \in {"LISTENING", "FINISHED"}
  /\ peer \in Client \cup {NoClient}

Init ==
  /\ KmsInit
  /\ pc = [c \in Client |-> "idle"]
  /\ call = [c \in Client |-> NoRequest]
  /\ calls = [c \in Client |-> 0]
  /\ fds = [c \in Client |-> 0]
  /\ results = {}
  /\ conn = [c \in Client |-> "none"]
  /\ c2s = [c \in Client |-> <<>>]
  /\ s2c = [c \in Client |-> <<>>]
  /\ backlog = <<>>
  /\ server_pc = "accept"
  /\ server_status = "LISTENING"
  /\ peer = NoClient

-----------------------------------------------------------------------------
(* The client library. *)

Goto(c, label) == pc' = [pc EXCEPT ![c] = label]

\* An application calls the library, which serialises the request.
Call(c, req) ==
  /\ pc[c] = "idle"
  /\ calls[c] < MaxCalls
  /\ Goto(c, "connect")
  /\ call' = [call EXCEPT ![c] = req]
  /\ calls' = [calls EXCEPT ![c] = @ + 1]
  /\ UNCHANGED <<fds, results, conn, c2s, s2c, backlog, serverVars, kmsVars>>

\* The ids that some OPEN_CONNECT returned; applications tell each other.
LearnedKsid == {r.response.key_stream_id :
                  r \in {x \in results : x.request.service = "OPEN_CONNECT"}} \ {NilUuid}

OpenConnectCall(c) ==
  \E pair \in Pair, qos \in Qos, ksid \in LearnedKsid \cup AppUuid \cup {NilUuid} :
    Call(c, [service |-> "OPEN_CONNECT", pair |-> pair, qos |-> qos, key_stream_id |-> ksid])

GetKeyCall(c) ==
  \E ksid \in LearnedKsid \cup AppUuid, index \in Index, metadata \in KeyInfo :
    Call(c, [service |-> "GET_KEY", key_stream_id |-> ksid, index |-> index,
             metadata |-> metadata])

CloseCall(c) ==
  \E ksid \in LearnedKsid \cup AppUuid : Call(c, [service |-> "CLOSE", key_stream_id |-> ksid])

\* A peer that uses the wire format for one of the other services.
OtherCall(c) == \E req \in OtherRequest : Call(c, req)

\* The process can open another socket.
SocketLeft(c) == fds[c] < MaxFd

\* Mutant: the accept queue is one shorter than asked for.
QueueFullEarly == Len(backlog) >= AcceptQueue - 1

\* listen() has set the length of the accept queue.
QueueFull == Len(backlog) >= AcceptQueue

\* socket_create_connection: the kernel completes the TCP connection while
\* there is room in the accept queue, whatever the server is doing.
Connect(c) ==
  /\ pc[c] = "connect"
  /\ SocketLeft(c)
  /\ Listening
  /\ ~QueueFull
  /\ Goto(c, "handshake")
  /\ fds' = [fds EXCEPT ![c] = @ + 1]
  /\ conn' = [conn EXCEPT ![c] = "queued"]
  /\ backlog' = Append(backlog, c)
  /\ UNCHANGED <<call, calls, results, c2s, s2c, serverVars, kmsVars>>

\* socket() or connect() fails: no descriptor left, connection refused, or
\* timed out because the accept queue stays full.
ConnectFails(c) ==
  /\ pc[c] = "connect"
  /\ ~SocketLeft(c) \/ ~Listening \/ QueueFull
  /\ Goto(c, "exited")
  /\ UNCHANGED <<call, calls, fds, results, conn, c2s, s2c, backlog, serverVars, kmsVars>>

\* socket_client_init creates the context after the connection, so that a client
\* with a wrong file ends while the server expects its handshake.
ContextFails(c) ==
  /\ pc[c] = "handshake"
  /\ c \in Misconfigured
  /\ Goto(c, "exited")
  /\ UNCHANGED <<call, calls, fds, results, conn, c2s, s2c, backlog, serverVars, kmsVars>>

\* With TLS 1.3 SSL_connect returns before the server has seen the client's
\* certificate (the message at ssl_socket.c:44).
SslConnectEarly(c) ==
  /\ pc[c] = "handshake"
  /\ conn[c] = "accepted"
  /\ c \in (Rejected \cap SpeaksTls13) \ (Misconfigured \cup Distrusting)
  /\ Goto(c, "send")
  /\ UNCHANGED <<call, calls, fds, results, conn, c2s, s2c, backlog, serverVars, kmsVars>>

\* SSL_connect fails: the server is gone or has refused, or the client does not
\* accept its certificate.
SslConnectFails(c) ==
  /\ pc[c] = "handshake"
  /\ c \notin Misconfigured
  /\ conn[c] = "shut" \/ (conn[c] = "accepted" /\ c \in Distrusting)
  /\ Goto(c, "exited")
  /\ UNCHANGED <<call, calls, fds, results, conn, c2s, s2c, backlog, serverVars, kmsVars>>

\* socket_ssl_send ignores a failed SSL_write, apart from printing it; writing
\* to a connection the server has closed may raise SIGPIPE.
Send(c) ==
  /\ pc[c] = "send"
  /\ \/ /\ conn[c] # "shut"
        /\ c2s' = [c2s EXCEPT ![c] = <<call[c]>>]
        /\ Goto(c, "recv")
     \/ /\ conn[c] = "shut"
        /\ \E label \in {"recv", "crashed"} : Goto(c, label)
        /\ UNCHANGED c2s
  /\ UNCHANGED <<call, calls, fds, results, conn, s2c, backlog, serverVars, kmsVars>>

\* Header and payload of the response are read, the out-parameters filled in
\* and the call returns.  The socket stays open on the client's side.
Recv(c) ==
  /\ pc[c] = "recv"
  /\ s2c[c] # <<>>
  /\ results' = results \cup
       {[client |-> c, request |-> call[c], response |-> Head(s2c[c])]}
  /\ s2c' = [s2c EXCEPT ![c] = Tail(@)]
  /\ Goto(c, "idle")
  /\ call' = [call EXCEPT ![c] = NoRequest]
  /\ conn' = [conn EXCEPT ![c] = "none"]
  /\ UNCHANGED <<calls, fds, c2s, backlog, serverVars, kmsVars>>

\* SSL_read returns 0, which ends in exit(), or -1, which is added to buf_len
\* and ends in a memcpy to NULL.
RecvFails(c) ==
  /\ pc[c] = "recv"
  /\ s2c[c] = <<>>
  /\ conn[c] = "shut"
  /\ \E label \in {"exited", "crashed"} : Goto(c, label)
  /\ UNCHANGED <<call, calls, fds, results, conn, c2s, s2c, backlog, serverVars, kmsVars>>

\* From outside: the process is killed, or hangs with its connection open.  A
\* killed process resets its connection if it has not read everything (TLS 1.3
\* session tickets), and then what it sent may never be read.
Kill(c) ==
  /\ pc[c] \notin Gone
  /\ Cardinality({d \in Client : pc[d] = "killed"}) < MaxKilled
  /\ Goto(c, "killed")
  /\ \/ UNCHANGED c2s
     \/ /\ ~(server_pc = "payload" /\ peer = c)
        /\ c2s' = [c2s EXCEPT ![c] = <<>>]
  /\ UNCHANGED <<call, calls, fds, results, conn, s2c, backlog, serverVars, kmsVars>>

\* A process that hangs before the server has all it needs from it.
Stall(c) ==
  /\ pc[c] = "handshake" \/ (pc[c] = "send" /\ conn[c] = "open")
  /\ Cardinality({d \in Client : pc[d] = "stalled"}) < MaxStalled
  /\ Goto(c, "stalled")
  /\ UNCHANGED <<call, calls, fds, results, conn, c2s, s2c, backlog, serverVars, kmsVars>>

-----------------------------------------------------------------------------
(* The server. *)

\* Mutant: the clients are not told.
ConnectionsKept == conn

\* The kernel resets what is connected or queued.
ConnectionsReset ==
  [c \in Client |-> IF conn[c] \in {"queued", "accepted", "open"} THEN "shut" ELSE conn[c]]

\* The process ends: the kernel closes the listening socket and the connections,
\* and the list of streams is lost.
ServerEnds(why) ==
  /\ server_pc' = why
  /\ peer' = NoClient
  /\ backlog' = <<>>
  /\ conn' = ConnectionsReset
  /\ c2s' = [c \in Client |-> <<>>]
  /\ LoseMemory
  /\ UNCHANGED <<clientVars, s2c, server_status>>

Accept ==
  /\ server_pc = "accept"
  /\ backlog # <<>>
  /\ peer' = Head(backlog)
  /\ backlog' = Tail(backlog)
  /\ conn' = [conn EXCEPT ![Head(backlog)] = "accepted"]
  /\ server_pc' = "handshake"
  /\ UNCHANGED <<clientVars, c2s, s2c, server_status, kmsVars>>

\* Mutant: the handshake succeeds whatever the certificates are.
HandshakeSucceedsAnyway(c) == c \notin Misconfigured

HandshakeSucceeds(c) == c \in Trusted

\* SSL_accept and the client's SSL_connect complete together.
SslAccept ==
  /\ server_pc = "handshake"
  /\ pc[peer] = "handshake"
  /\ HandshakeSucceeds(peer)
  /\ conn' = [conn EXCEPT ![peer] = "open"]
  /\ Goto(peer, "send")
  /\ server_pc' = "header"
  /\ UNCHANGED <<call, calls, fds, results, c2s, s2c, backlog, server_status, peer, kmsVars>>

\* Only -1 is taken for a failure: after 0 the servlet runs on a session that
\* was never established.
SslAcceptFails ==
  /\ server_pc = "handshake"
  /\ pc[peer] \in Gone \/ (peer \in Rejected \ Misconfigured /\ pc[peer] # "stalled")
  /\ \E ret \in SslAcceptFailure : server_pc' = IF ret = -1 THEN "shutdown" ELSE "header"
  /\ UNCHANGED <<clientVars, conn, c2s, s2c, backlog, server_status, peer, kmsVars>>

RecvHeader ==
  /\ server_pc = "header"
  /\ conn[peer] = "open"
  /\ c2s[peer] # <<>>
  /\ Head(c2s[peer]).service # "CLOSE_SERVER"
  /\ server_pc' = "payload"
  /\ UNCHANGED <<clientVars, conn, c2s, s2c, backlog, server_status, peer, kmsVars>>

RecvCloseServer ==
  /\ server_pc = "header"
  /\ conn[peer] = "open"
  /\ c2s[peer] # <<>>
  /\ Head(c2s[peer]).service = "CLOSE_SERVER"
  /\ server_status' = "FINISHED"
  /\ c2s' = [c2s EXCEPT ![peer] = Tail(@)]
  /\ server_pc' = "shutdown"
  /\ UNCHANGED <<clientVars, conn, s2c, backlog, peer, kmsVars>>

\* Mutant: no data yet is taken for a closed connection.
PeerSentNothing == conn[peer] = "open" /\ c2s[peer] = <<>>

PeerWentAway == conn[peer] = "open" /\ c2s[peer] = <<>> /\ pc[peer] \in Gone

\* The peer went away before it sent a request: socket_ssl_recv ends the whole
\* server, by exit() after 0 and by a memcpy to NULL after -1.
RecvHeaderFails ==
  /\ server_pc = "header"
  /\ PeerWentAway \/ conn[peer] = "accepted"
  /\ \E why \in {"exited", "crashed"} : ServerEnds(why)

\* The payload came in the record of the header; the handler runs.
Handle ==
  /\ server_pc = "payload"
  /\ HandleRequest(Head(c2s[peer]))
  /\ c2s' = [c2s EXCEPT ![peer] = Tail(@)]
  /\ server_pc' = "respond"
  /\ UNCHANGED <<clientVars, conn, s2c, backlog, server_status, peer>>

\* Mutant: the answer to an unknown service has a header and nothing else.
HandleUnknownAnswered ==
  /\ server_pc = "payload"
  /\ Head(c2s[peer]).service \in OtherService
  /\ c2s' = [c2s EXCEPT ![peer] = Tail(@)]
  /\ server_pc' = "respond"
  /\ UNCHANGED <<clientVars, conn, s2c, backlog, server_status, peer, kmsVars>>

\* "Error: qkd service unknown": the NULL response_buf is still written.
HandleUnknown ==
  /\ server_pc = "payload"
  /\ Head(c2s[peer]).service \in OtherService
  /\ Head(c2s[peer]).has_payload
  /\ ServerEnds("crashed")

\* A payload is read before the service is looked at, and size 0 stands for the
\* largest record.
AwaitsPayload ==
  /\ server_pc = "payload"
  /\ Head(c2s[peer]).service \in OtherService
  /\ ~Head(c2s[peer]).has_payload

\* It never comes; when the peer goes away the server ends as in RecvHeaderFails.
RecvPayloadFails ==
  /\ AwaitsPayload
  /\ pc[peer] \in Gone
  /\ \E why \in {"exited", "crashed"} : ServerEnds(why)

Respond ==
  /\ server_pc = "respond"
  /\ pc[peer] \notin Gone
  /\ s2c' = [s2c EXCEPT ![peer] = Append(@, response)]
  /\ response' = NoResponse
  /\ server_pc' = "shutdown"
  /\ UNCHANGED <<clientVars, conn, c2s, backlog, server_status, peer,
                 ksid_info_linked_list, minted, restarts>>

\* The response of a client that is gone is lost; writing it may raise SIGPIPE.
RespondToNobody ==
  /\ server_pc = "respond"
  /\ pc[peer] \in Gone
  /\ \/ /\ server_pc' = "shutdown"
        /\ response' = NoResponse
        /\ UNCHANGED <<clientVars, conn, c2s, s2c, backlog, server_status, peer,
                       ksid_info_linked_list, minted, restarts>>
     \/ ServerEnds("crashed")

\* Mutant: the loop goes on without closing the connection.
HeldNever(c) == FALSE

\* The client still uses the connection that the server has with it; it may
\* already be in its next call, on another one.
Held(c) == conn[c] \in {"accepted", "open"}

\* SSL_shutdown, SSL_free, close, and back to the loop condition.
Shutdown ==
  /\ server_pc = "shutdown"
  /\ server_status = "LISTENING"
  /\ server_pc' = "accept"
  /\ peer' = NoClient
  /\ conn' = IF Held(peer) THEN [conn EXCEPT ![peer] = "shut"] ELSE conn
  /\ c2s' = IF Held(peer) THEN [c2s EXCEPT ![peer] = <<>>] ELSE c2s
  /\ UNCHANGED <<clientVars, s2c, backlog, server_status, kmsVars>>

ShutdownLast ==
  /\ server_pc = "shutdown"
  /\ server_status = "FINISHED"
  /\ ServerEnds("finished")

\* close_notify to a client that is gone may raise SIGPIPE.
ShutdownBroken ==
  /\ server_pc = "shutdown"
  /\ pc[peer] \in Gone
  /\ conn[peer] = "open"
  /\ ServerEnds("crashed")

\* Somebody starts server_example again.
RestartServer ==
  /\ ~Listening
  /\ Restart
  /\ server_pc' = "accept"
  /\ server_status' = "LISTENING"
  /\ UNCHANGED <<clientVars, conn, c2s, s2c, backlog, peer>>

-----------------------------------------------------------------------------
AppStep(c) == OpenConnectCall(c) \/ GetKeyCall(c) \/ CloseCall(c) \/ OtherCall(c)

ClientStep(c) ==
  Connect(c) \/ ConnectFails(c) \/ ContextFails(c) \/ SslConnectEarly(c) \/ SslConnectFails(c)
    \/ Send(c) \/ Recv(c) \/ RecvFails(c)

ServerStep ==
  Accept \/ SslAccept \/ SslAcceptFails \/ RecvHeader \/ RecvCloseServer \/ RecvHeaderFails
    \/ Handle \/ HandleUnknown \/ RecvPayloadFails \/ Respond \/ RespondToNobody
    \/ Shutdown \/ ShutdownLast \/ ShutdownBroken

\* Nobody waits for an answer, or somebody hangs, or the server waits for a
\* payload that is not to come: the system may stand still.
Quiescent ==
  /\ \/ \A c \in Client : pc[c] \notin Busy
     \/ \E c \in Client : pc[c] = "stalled"
     \/ AwaitsPayload
  /\ UNCHANGED vars

Next ==
  \/ \E c \in Client : AppStep(c) \/ ClientStep(c) \/ Kill(c) \/ Stall(c)
  \/ ServerStep
  \/ RestartServer
  \/ Quiescent

Spec == Init /\ [][Next]_vars

\* A process that is neither killed nor hung runs on; nobody has to call the
\* library or to restart the server.
FairSpec == Spec /\ WF_vars(ServerStep) /\ \A c \in Client : WF_vars(ClientStep(c))
-----------------------------------------------------------------------------
(* Properties. *)

ReturnedKeys == {r \in results : /\ r.request.service = "GET_KEY"
                                 /\ r.response.status = Successful
                                 /\ r.response.key_buffer # EmptyKey}

\* The two ends of a stream get the same key: whatever calls, restarts and
\* crashes come in between, two GET_KEY calls on one key stream id and one
\* index return keys of one length cut from one pseudorandom sequence, as a
\* whole to senders and symmetric callers and as a half to receivers.
KeyAgreement ==
  \A r, s \in ReturnedKeys :
    /\ r.request.key_stream_id = s.request.key_stream_id
    /\ r.request.index = s.request.index
    => /\ r.response.key_buffer.size = s.response.key_buffer.size
       /\ r.response.key_buffer.seed = s.response.key_buffer.seed
       /\ r.request.metadata = s.request.metadata
            => r.response.key_buffer = s.response.key_buffer

\* A call returns the answer to its own request: the response has the service
\* and the index of the request, and a key is that of the stream the request
\* names, which some OPEN_CONNECT created.
OwnAnswer ==
  \A r \in results :
    /\ r.response.service = r.request.service
    /\ r.request.service = "GET_KEY" => r.response.index = r.request.index
    /\ r \in ReturnedKeys =>
         \E m \in minted :
           /\ m.key_stream_id = r.request.key_stream_id
           /\ r.response.key_buffer.size = m.qos.key_chunk_size
           /\ r.response.key_buffer.seed = Seed(m.pair, r.request.index)

\* Applications that open the same pair without naming an id are given the
\* same id as long as the server is not restarted.
Rendezvous ==
  restarts = 0 =>
    \A r, s \in {x \in results : /\ x.request.service = "OPEN_CONNECT"
                                 /\ x.request.key_stream_id = NilUuid} :
      r.request.pair = s.request.pair
        <=> r.response.key_stream_id = s.response.key_stream_id

\* The server talks to one client at a time, to nobody while it waits in
\* accept(), and no connection is left half open: a connection it has taken off
\* the queue is the one it is serving, and a client is queued exactly while it
\* is in the accept queue, once.
OneConnection ==
  /\ \A c \in Client : conn[c] \in {"accepted", "open"} => peer = c
  /\ peer = NoClient <=> server_pc \in Down \cup {"accept"}
  /\ \A c \in Client : conn[c] = "queued" <=> \E i \in DOMAIN backlog : backlog[i] = c
  /\ \A i, j \in DOMAIN backlog : backlog[i] = backlog[j] => i = j

\* Whoever is served has shown what the other side insists on: with a CA on the
\* server's side a certificate of that CA and its key, not only one of the two
\* files (ssl_socket.c:137) and not none; with a CA on the client's side the
\* server has one of that.  With TLS 1.3 a client that has not may send its
\* request all the same, and it reaches no handler.
ServedAreTrusted ==
  \A c \in Client :
    (\E r \in results : r.client = c) \/ conn[c] = "open" \/ s2c[c] # <<>> =>
      /\ ServerTls.ca # "NULL" => ClientTls[c].cert = ServerTls.ca /\ ClientTls[c].key = "match"
      /\ ClientTls[c].ca # "NULL" => ServerTls.cert = ClientTls[c].ca

\* The server process ends abnormally only because of the client it is connected
\* to: one whose process died, one whose refused handshake SSL_accept reports as
\* 0, or one that asks for a service it does not know; and normally only because
\* that client told it to.  No sequence of the three calls ends it, and no client
\* that is queued or done does.
ServerEndsForCause ==
  [][/\ Listening /\ server_pc' \in {"exited", "crashed"} =>
          \/ pc[peer] \in Gone
          \/ peer \in Rejected /\ 0 \in SslAcceptFailure
          \/ call[peer].service = "ERROR"
     /\ Listening /\ server_pc' = "finished" => call[peer].service = "CLOSE_SERVER"]_vars

\* A client that can only wait for the server: in SSL_connect, or in SSL_read for
\* its answer.
ClientBlocked(c) ==
  \/ /\ pc[c] = "handshake"
     /\ c \notin Misconfigured
     /\ conn[c] = "queued" \/ (conn[c] = "accepted" /\ c \notin Distrusting)
  \/ pc[c] = "recv" /\ s2c[c] = <<>> /\ conn[c] # "shut"

\* A server that can only wait for a client: in accept(), SSL_accept or SSL_read.
ServerBlocked ==
  \/ server_pc = "accept" /\ backlog = <<>>
  \/ /\ server_pc = "handshake"
     /\ pc[peer] \notin Gone
     /\ peer \notin Rejected \ Misconfigured \/ pc[peer] = "stalled"
     /\ ~(pc[peer] = "handshake" /\ peer \in Trusted)
  \/ /\ server_pc = "header"
     /\ conn[peer] = "open"
     /\ c2s[peer] = <<>>
     /\ pc[peer] \notin Gone
  \/ AwaitsPayload /\ pc[peer] \notin Gone

\* Client and server never wait for each other (ssl_socket.c:263), with one
\* exception: while a client waits the server is up, and if it waits too, it is for
\* its peer, which is in a call and does not wait for anybody; at worst it hangs.
\* The exception is the peer that asked for an unknown service with nothing but a
\* header: the server reads on for a payload (ssl_socket_server.c:53) while the
\* peer reads for its answer.
NeverBothBlocked ==
  \A c \in Client : ClientBlocked(c) =>
    /\ Listening
    /\ ServerBlocked => /\ peer \in Client
                        /\ pc[peer] \in Busy \cup {"stalled"}
                        /\ ClientBlocked(peer) <=> AwaitsPayload

\* Every library call ends: it returns, or it ends its process, unless the server
\* waits for ever for the payload of a request that has none
\* (ssl_socket_server.c:53).
CallsEnd ==
  \A c \in Client : pc[c] \in Busy ~> pc[c] \in {"idle"} \cup Gone \/ []AwaitsPayload

\* Somebody was killed, or the server has ended at least once.
Disturbed == (\E c \in Client : pc[c] = "killed") \/ ~Listening \/ restarts > 0

\* As long as nobody is killed and the server is up, and does not wait for a
\* payload that is not to come, every call returns: no
\* client waits for ever behind the others, and no call ends the process that
\* made it, provided the accept queue has room for all clients and a client has
\* descriptors for all its calls.
CallsReturn ==
  Cardinality(Client) <= AcceptQueue /\ MaxCalls <= MaxFd =>
    \A c \in Trusted : pc[c] \in Busy ~> pc[c] = "idle" \/ Disturbed \/ []AwaitsPayload
=============================================================================
