----------------------------- MODULE QkdClaims -----------------------------
(***************************************************************************)
(* What the headers of the library say of the calls and the example server *)
(* does not do.  Each of these is refuted by a run.                        *)
(***************************************************************************)
EXTENDS QkdService

\* models.h:27: OPEN_CONNECT fails when the "requested QoS settings could not be
\* met".  So an application that was told Successful gets keys of the chunk size
\* it was told.  Not so for one that joins a stream opened with another QoS.
QosIsMet ==
  \A r \in results, s \in ReturnedKeys :
    /\ r.request.service = "OPEN_CONNECT"
    /\ r.client = s.client
    /\ r.response.key_stream_id = s.request.key_stream_id
    => s.response.key_buffer.size = r.response.qos.key_chunk_size

\* The servlet has just run the handler of a GET_KEY.
GetKeyHandled == server_pc = "payload" /\ server_pc' = "respond" /\ response'.service = "GET_KEY"

\* interfaces.h:43: CLOSE takes "the key stream to close".  So an application
\* that closed a stream gets no more keys of it.  qkd_close is empty.
ClosedStaysClosed ==
  [][GetKeyHandled /\ response'.status = Successful =>
       \A r \in results : ~ /\ r.client = peer
                            /\ r.request.service = "CLOSE"
                            /\ r.request.key_stream_id = call[peer].key_stream_id]_vars

\* interfaces.h:30: the id given to GET_KEY "must be retrieved by a previous
\* qkd_open".  So while the server runs an id that OPEN_CONNECT returned is good
\* for GET_KEY.  An id that the application brought itself is not.
OpenedIsServed ==
  [][GetKeyHandled /\ restarts = 0 /\ call[peer].key_stream_id \in LearnedKsid =>
       response'.status = Successful]_vars

\* models.h:26: a call fails with TIMEOUT_ERROR when the timeout of the QoS has
\* occurred.  So a call of a healthy client ends, whatever the other clients do.
\* Nothing reads qos.timeout, and a client that hangs in its handshake or before
\* its request holds the only thread of the server for ever.
TimeoutEndsCalls ==
  \A c \in Client : pc[c] \in Busy ~> pc[c] \in {"idle", "stalled"} \cup Gone
=============================================================================
