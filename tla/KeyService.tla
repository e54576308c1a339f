----------------------------- MODULE KeyService -----------------------------
(***************************************************************************)
(* What the key service promises to the applications that use it, without  *)
(* sockets, accept loop or linked list.  A call is a request that is       *)
(* pending, is served at one instant and at most once, and returns the     *)
(* answer of that instant.  Streams are a function of pairs.  The server   *)
(* may lose all streams at any time, and a client may be gone at any time; *)
(* the request a client leaves behind may still be served, or dropped.     *)
(***************************************************************************)
EXTENDS Models

CONSTANTS
  Client,
  Trusted,       \* clients that the server can come to serve
  OtherService   \* services that have no answer

VARIABLES
  streams,    \* the live streams: a function from some pairs to [key_stream_id, qos]
  given,      \* every key stream id ever given to a stream
  status,     \* of each client
  request,    \* of each client's call
  answer,     \* to each client's call
  returned    \* the calls that returned

serviceVars == <<streams, given, status, request, answer, returned>>

NoRequest == [service |-> "NONE"]
OtherRequest == [service : OtherService, has_payload : BOOLEAN]

Init ==
  /\ streams = <<>>
  /\ given = {}
  /\ status = [c \in Client |-> "idle"]
  /\ request = [c \in Client |-> NoRequest]
  /\ answer = [c \in Client |-> NoResponse]
  /\ returned = {}

Ask(c) ==
  /\ status[c] = "idle"
  /\ \E req \in Request \cup OtherRequest :
       request' = [request EXCEPT ![c] = req]
  /\ status' = [status EXCEPT ![c] = "pending"]
  /\ UNCHANGED <<streams, given, answer, returned>>

\* The answer goes to a client that still waits for it.
Answer(c, resp) ==
  IF status[c] = "pending"
  THEN /\ answer' = [answer EXCEPT ![c] = resp]
       /\ status' = [status EXCEPT ![c] = "answered"]
  ELSE /\ status' = [status EXCEPT ![c] = "gone"]
       /\ UNCHANGED answer

Extend(pair, stream) ==
  [p \in DOMAIN streams \cup {pair} |-> IF p = pair THEN stream ELSE streams[p]]

ServeOpenConnect(c, req) ==
  /\ req.service = "OPEN_CONNECT"
  /\ \/ /\ req.key_stream_id # NilUuid
        /\ Answer(c, OpenConnectAnswer(req, req.key_stream_id))
        /\ UNCHANGED <<streams, given>>
     \/ /\ req.key_stream_id = NilUuid
        /\ req.pair \in DOMAIN streams
        /\ Answer(c, OpenConnectAnswer(req, streams[req.pair].key_stream_id))
        /\ UNCHANGED <<streams, given>>
     \/ /\ req.key_stream_id = NilUuid
        /\ req.pair \notin DOMAIN streams
        /\ \E ksid \in Uuid \ given :
             /\ streams' = Extend(req.pair, [key_stream_id |-> ksid, qos |-> req.qos])
             /\ given' = given \cup {ksid}
             /\ Answer(c, OpenConnectAnswer(req, ksid))

\* A stream named by its id gives the key of its pair, its QoS and the index of
\* the request, whatever was asked before.
ServeGetKey(c, req) ==
  /\ req.service = "GET_KEY"
  /\ \/ \E pair \in DOMAIN streams :
          /\ streams[pair].key_stream_id = req.key_stream_id
          /\ \E allocated \in IF MallocMayFail THEN BOOLEAN ELSE {TRUE} :
               Answer(c, GetKeyAnswer(req, Successful,
                 GeneratedKey([pair |-> pair, qos |-> streams[pair].qos], req, allocated),
                 DeviceInfo))
     \/ /\ \A pair \in DOMAIN streams : streams[pair].key_stream_id # req.key_stream_id
        /\ Answer(c, GetKeyAnswer(req, GkPeerNotConnected, EmptyKey, req.metadata))
  /\ UNCHANGED <<streams, given>>

ServeClose(c, req) ==
  /\ req.service = "CLOSE"
  /\ Answer(c, [service |-> "CLOSE", status |-> Successful])
  /\ UNCHANGED <<streams, given>>

Serve(c) ==
  /\ c \in Trusted
  /\ status[c] \in {"pending", "orphaned"}
  /\ \/ ServeOpenConnect(c, request[c])
     \/ ServeGetKey(c, request[c])
     \/ ServeClose(c, request[c])
  /\ UNCHANGED <<request, returned>>

Return(c) ==
  /\ status[c] = "answered"
  /\ returned' = returned \cup
       {[client |-> c, request |-> request[c], response |-> answer[c]]}
  /\ status' = [status EXCEPT ![c] = "idle"]
  /\ request' = [request EXCEPT ![c] = NoRequest]
  /\ answer' = [answer EXCEPT ![c] = NoResponse]
  /\ UNCHANGED <<streams, given>>

\* A client ends; a request it was waiting for may stay behind for a while.
Leave(c) ==
  /\ \/ /\ status[c] # "gone"
        /\ status' = [status EXCEPT ![c] = "gone"]
     \/ /\ status[c] = "pending"
        /\ status' = [status EXCEPT ![c] = "orphaned"]
  /\ answer' = [answer EXCEPT ![c] = NoResponse]
  /\ UNCHANGED <<streams, given, request, returned>>

LoseStreams ==
  /\ streams' = <<>>
  /\ status' = [c \in Client |-> IF status[c] = "orphaned" THEN "gone" ELSE status[c]]
  /\ UNCHANGED <<given, request, answer, returned>>

Next ==
  \/ \E c \in Client : Ask(c) \/ Serve(c) \/ Return(c) \/ Leave(c)
  \/ LoseStreams

Spec == Init /\ [][Next]_serviceVars
=============================================================================
