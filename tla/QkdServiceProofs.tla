-------------------------- MODULE QkdServiceProofs --------------------------
(***************************************************************************)
(* Proofs about the clients, the TLS server and their connections, for any *)
(* set of clients and set-ups, any number of calls, restarts, crashes and  *)
(* kills, and any length of the accept queue.                              *)
(***************************************************************************)
EXTENDS QkdService, KeyStreamsProofs

-----------------------------------------------------------------------------
(* The inductive invariant.  It follows one call from the application to     *)
(* the handler and back: where the data of a call can be while its client,   *)
(* its connection and the server are where they are.                         *)

\* A response that answers this request, by a stream that was created at some
\* time: what the handlers return and every result is.
Honest(history, req, resp) ==
  /\ req \in Request
  /\ resp \in Response
  /\ resp.service = req.service
  /\ req.service = "GET_KEY" =>
       /\ resp.index = req.index
       /\ resp.key_buffer # EmptyKey =>
            \E m \in history : /\ m.key_stream_id = req.key_stream_id
                               /\ resp.key_buffer = GeneratedKey(m, req, TRUE)
  /\ req.service = "OPEN_CONNECT" /\ req.key_stream_id = NilUuid =>
       \E m \in history : m.key_stream_id = resp.key_stream_id /\ m.pair = req.pair

\* The history of streams is sound at all times, the list while there is one.
StreamsInv ==
  /\ MintedOnce
  /\ RunsSoFar
  /\ Listening => KmsInv

\* A call has a request, and from connect() to its return a connection.
CallInv(c) ==
  /\ pc[c] = "idle" => call[c] = NoRequest
  /\ pc[c] \in Busy \cup {"stalled"} => call[c] \in AnyRequest
  /\ pc[c] \in Busy => calls[c] > 0
  /\ pc[c] \in {"idle", "connect"} => conn[c] = "none"
  /\ conn[c] = "none" => pc[c] \in {"idle", "connect"} \cup Gone
  /\ pc[c] \in {"send", "recv"} => conn[c] \in {"accepted", "open", "shut"}
  /\ conn[c] # "none" => calls[c] > 0

\* What is under way to the server is the request of the client's own call, and
\* what is under way to the client is one answer to it, never both.
DataInv(c) ==
  /\ c2s[c] # <<>> =>
       /\ c2s[c] = <<call[c]>>
       /\ pc[c] \in {"recv"} \cup Gone
       /\ conn[c] \in {"accepted", "open"}
  /\ s2c[c] # <<>> =>
       /\ Len(s2c[c]) = 1
       /\ Honest(minted, call[c], s2c[c][1])
       /\ pc[c] \in {"recv"} \cup Gone
       /\ conn[c] \in {"open", "shut"}
       /\ c2s[c] = <<>>

\* The server is where the connection of its peer is.
ServerInv ==
  /\ server_pc = "handshake" => conn[peer] = "accepted"
  /\ server_pc = "header" => conn[peer] \in {"accepted", "open"} /\ s2c[peer] = <<>>
  /\ server_pc = "payload" =>
       /\ conn[peer] = "open" /\ s2c[peer] = <<>> /\ c2s[peer] # <<>>
       /\ call[peer].service # "CLOSE_SERVER"
  /\ server_pc = "respond" =>
       /\ conn[peer] = "open" /\ s2c[peer] = <<>> /\ c2s[peer] = <<>>
       /\ pc[peer] \in {"recv"} \cup Gone
       /\ Honest(minted, call[peer], response)

\* Only trusted clients get through the handshake.
TrustInv(c) ==
  (\E r \in results : r.client = c) \/ conn[c] = "open" \/ s2c[c] # <<>> => c \in Trusted

\* A peer because of which the server process may end abnormally.
Culprit(c) ==
  \/ pc[c] \in Gone
  \/ c \in Rejected /\ 0 \in SslAcceptFailure
  \/ call[c].service = "ERROR"

\* The servlet runs on a session that was never established, and the accept loop
\* ends, for a cause.
CauseInv ==
  /\ server_pc = "header" /\ conn[peer] = "accepted" => Culprit(peer)
  /\ server_status = "FINISHED" /\ Listening =>
       server_pc = "shutdown" /\ call[peer].service = "CLOSE_SERVER"

AllCalls == \A c \in Client : CallInv(c)
AllData == \A c \in Client : DataInv(c)
AllTrusted == \A c \in Client : TrustInv(c)
AllHonest == \A r \in results : Honest(minted, r.request, r.response)

Inv ==
  /\ TypeOK /\ StreamsInv /\ OneConnection
  /\ AllCalls /\ AllData /\ ServerInv
  /\ AllTrusted /\ CauseInv /\ AllHonest

-----------------------------------------------------------------------------
\* An answer stays honest while streams are created.
LEMMA HonestForEver ==
  ASSUME NEW old, NEW new, old \subseteq new, NEW req, NEW resp, Honest(old, req, resp)
  PROVE  Honest(new, req, resp)
  BY DEF Honest

\* OPEN_CONNECT answers honestly: without an id in the request, by the id of a
\* stream of the pair.
LEMMA OpenConnectHonest ==
  ASSUME KmsInv, NEW req \in Request, qkd_open_connect(req)
  PROVE  Honest(minted', req, response')
<1>1. KmsTypeOK /\ KmsTypeOK' /\ req.service = "OPEN_CONNECT"
  BY OpenConnectType DEF KmsInv, qkd_open_connect
<1>2. PICK ksid : response' = OpenConnectAnswer(req, ksid)
  BY DEF qkd_open_connect, OpenNamed, OpenJoined, OpenCreated, NewStream
<1>3. response'.service = "OPEN_CONNECT" /\ response'.key_stream_id = ksid
  BY <1>2 DEF OpenConnectAnswer
<1>4. response' \in Response
  BY <1>1, <1>3 DEF KmsTypeOK, NoResponse
<1>5. ASSUME req.key_stream_id = NilUuid
      PROVE  \E m \in minted' : m.key_stream_id = ksid /\ m.pair = req.pair
  <2>1. CASE OpenJoined(req)
    <3> DEFINE i == Min(NodesOfPair(req.pair))
    <3>1. /\ i \in DOMAIN ksid_info_linked_list
          /\ ksid_info_linked_list[i].pair = req.pair
      BY <1>1, <2>1, SearchFindsMatch DEF OpenJoined
    <3>2. ksid = ksid_info_linked_list[i].key_stream_id
      BY <1>3, <2>1 DEF OpenJoined, OpenConnectAnswer
    <3> HIDE DEF i
    <3>3. [key_stream_id |-> ksid_info_linked_list[i].key_stream_id,
           pair |-> ksid_info_linked_list[i].pair,
           qos |-> ksid_info_linked_list[i].qos, run |-> restarts] \in minted
      BY <3>1, ListIsThisRunSplit DEF KmsInv
    <3> QED
      BY <2>1, <3>1, <3>2, <3>3 DEF OpenJoined
  <2>2. CASE OpenCreated(req)
    <3>1. PICK k \in Uuid : NewStream(req, k)
      BY <2>2 DEF OpenCreated
    <3>2. k = ksid
      BY <1>3, <3>1 DEF NewStream, OpenConnectAnswer
    <3> DEFINE m == [key_stream_id |-> ksid, pair |-> req.pair, qos |-> req.qos,
                     run |-> restarts]
    <3>3. m \in minted' /\ m.key_stream_id = ksid /\ m.pair = req.pair
      BY <3>1, <3>2 DEF NewStream
    <3> HIDE DEF m
    <3> QED
      BY <3>3
  <2> QED
    BY <1>5, <2>1, <2>2 DEF qkd_open_connect, OpenNamed
<1> QED
  BY <1>1, <1>3, <1>4, <1>5 DEF Honest

\* GET_KEY answers honestly: with the index asked for and the key of the stream
\* that the id names.
LEMMA GetKeyHonest ==
  ASSUME KmsInv, NEW req \in Request, qkd_get_key(req)
  PROVE  Honest(minted', req, response')
<1>1. KmsTypeOK /\ KmsTypeOK' /\ req.service = "GET_KEY" /\ minted' = minted
  BY GetKeyType DEF KmsInv, qkd_get_key
<1>2. PICK status, key, metadata : response' = GetKeyAnswer(req, status, key, metadata)
  BY DEF qkd_get_key, GetKeyUnknown, GetKeyServed
<1>3. /\ response'.service = "GET_KEY" /\ response'.index = req.index
      /\ response'.key_buffer = key
  BY <1>2 DEF GetKeyAnswer
<1>4. response' \in Response
  BY <1>1, <1>3 DEF KmsTypeOK, NoResponse
<1>5. ASSUME key # EmptyKey
      PROVE  \E m \in minted : /\ m.key_stream_id = req.key_stream_id
                               /\ key = GeneratedKey(m, req, TRUE)
  <2>1. GetKeyServed(req)
    BY <1>3, <1>5 DEF qkd_get_key, GetKeyUnknown, GetKeyAnswer
  <2> DEFINE i == Min(NodesOfKsid(req.key_stream_id))
             node == ksid_info_linked_list[i]
             m == [key_stream_id |-> node.key_stream_id, pair |-> node.pair,
                   qos |-> node.qos, run |-> restarts]
  <2>2. i \in DOMAIN ksid_info_linked_list /\ node.key_stream_id = req.key_stream_id
    BY <1>1, <2>1, SearchFindsMatch DEF GetKeyServed
  <2>3. PICK allocated \in BOOLEAN :
          response' = GetKeyAnswer(req, Successful, GeneratedKey(node, req, allocated), DeviceInfo)
    BY <2>1 DEF GetKeyServed, IndexedRequest
  <2>4. m \in minted
    BY <2>2, ListIsThisRunSplit DEF KmsInv
  <2> HIDE DEF node
  <2>5. key = GeneratedKey(node, req, allocated)
    BY <1>3, <2>3 DEF GetKeyAnswer
  <2>6. key = GeneratedKey(m, req, TRUE)
    BY <1>5, <2>5 DEF GeneratedKey, gen_pseudorandom_key, gen_oblivious_pseudorandom_key
  <2> QED
    BY <2>2, <2>4, <2>6
<1> QED
  BY <1>1, <1>3, <1>4, <1>5 DEF Honest

\* What a handler returns is an honest answer to the request it was given.
LEMMA HandleHonest ==
  ASSUME KmsInv, NEW req \in Request, HandleRequest(req)
  PROVE  Honest(minted', req, response')
<1>1. CASE qkd_close(req)
  BY <1>1 DEF qkd_close, Honest, Response, CloseResponse
<1> QED
  BY <1>1, OpenConnectHonest, GetKeyHonest DEF HandleRequest

\* Handlers forget no stream.
LEMMA HandleKeepsHistory ==
  ASSUME NEW req, HandleRequest(req)
  PROVE  minted \subseteq minted'
  BY DEF HandleRequest, qkd_open_connect, qkd_get_key, qkd_close, OpenNamed, OpenJoined,
         OpenCreated, NewStream

-----------------------------------------------------------------------------
(* The steps of the clients. *)

\* The ids that applications learn are key stream ids.
LEMMA LearnedKsidType ==
  ASSUME AllHonest
  PROVE  LearnedKsid \subseteq Ksid
<1> SUFFICES ASSUME NEW r \in results, r.request.service = "OPEN_CONNECT"
             PROVE  r.response.key_stream_id \in Ksid
  BY DEF LearnedKsid
<1>1. r.response \in Response /\ r.response.service = "OPEN_CONNECT"
  BY DEF AllHonest, Honest
<1> QED
  BY <1>1 DEF Response, OpenConnectResponse, GetKeyResponse, CloseResponse

\* Applications make requests.
LEMMA AppStepCalls ==
  ASSUME Inv, NEW c \in Client, AppStep(c)
  PROVE  \E req \in AnyRequest : Call(c, req)
<1>1. LearnedKsid \cup AppUuid \cup {NilUuid} \subseteq Ksid
  BY LearnedKsidType DEF Inv, Ksid
<1>2. CASE OpenConnectCall(c)
  BY <1>1, <1>2 DEF OpenConnectCall, AnyRequest, Request, OpenConnectRequest
<1>3. CASE GetKeyCall(c)
  BY <1>1, <1>3 DEF GetKeyCall, AnyRequest, Request, GetKeyRequest
<1>4. CASE CloseCall(c)
  BY <1>1, <1>4 DEF CloseCall, AnyRequest, Request, CloseRequest
<1>5. CASE OtherCall(c)
  BY <1>5 DEF OtherCall, AnyRequest
<1> QED
  BY <1>2, <1>3, <1>4, <1>5 DEF AppStep

\* A step that leaves the server and the streams alone.
LEMMA StreamsSame ==
  ASSUME StreamsInv, Listening' = Listening,
         UNCHANGED <<ksid_info_linked_list, minted, restarts>>, KmsTypeOK'
  PROVE  StreamsInv'
  BY DEF StreamsInv, KmsInv, MintedOnce, RunsSoFar, OneStreamPerPair, ListIsThisRun

\* A call begins.
LEMMA CallSafe ==
  ASSUME Inv, NEW c \in Client, NEW req \in AnyRequest, Call(c, req)
  PROVE  Inv'
<1> USE DEF Call, Goto, serverVars, kmsVars
<1>1. pc[c] = "idle" /\ call[c] = NoRequest /\ conn[c] = "none"
  BY DEF Inv, AllCalls, CallInv
<1>2. c2s[c] = <<>> /\ s2c[c] = <<>>
  BY <1>1 DEF Inv, AllData, DataInv, Gone
<1>3. TypeOK'
  <2>1. calls[c] + 1 \in 0..MaxCalls
    BY ServiceAssumption DEF Inv, TypeOK
  <2> QED
    BY <2>1 DEF Inv, TypeOK, KmsTypeOK, Busy
<1>4. StreamsInv'
  BY <1>3, StreamsSame DEF Inv, TypeOK, Listening
<1>5. OneConnection'
  BY DEF Inv, OneConnection
<1>6. AllCalls'
  BY <1>1 DEF Inv, TypeOK, AllCalls, CallInv, Busy, Gone
<1>7. AllData'
  BY <1>2 DEF Inv, TypeOK, AllData, DataInv
<1>8. ServerInv'
  BY <1>1 DEF Inv, TypeOK, ServerInv, OneConnection, Down, Gone
<1>9. AllTrusted' /\ AllHonest'
  BY DEF Inv, AllTrusted, TrustInv, AllHonest
<1>10. CauseInv'
  BY <1>1 DEF Inv, TypeOK, CauseInv, Culprit, Listening, OneConnection, Down, Gone, NoRequest
<1> QED
  BY <1>3, <1>4, <1>5, <1>6, <1>7, <1>8, <1>9, <1>10 DEF Inv

\* A client process ends, whatever it was doing; what it sent may be lost, except
\* what the server is just reading.
LEMMA EndSafe ==
  ASSUME Inv, NEW c \in Client, NEW label \in Gone, Goto(c, label),
         \/ UNCHANGED c2s
         \/ ~(server_pc = "payload" /\ peer = c) /\ c2s' = [c2s EXCEPT ![c] = <<>>],
         UNCHANGED <<call, calls, fds, results, conn, s2c, backlog, serverVars, kmsVars>>
  PROVE  Inv'
<1> USE DEF Goto, serverVars, kmsVars
<1>1. TypeOK'
  <2>1. c2s' \in [Client -> Seq(AnyRequest)]
    <3>1. <<>> \in Seq(AnyRequest) /\ c2s \in [Client -> Seq(AnyRequest)]
      BY DEF Inv, TypeOK
    <3>2. ASSUME c2s' = [c2s EXCEPT ![c] = <<>>] PROVE c2s' \in [Client -> Seq(AnyRequest)]
      BY ONLY <3>1, <3>2, c \in Client
    <3> QED
      BY <3>1, <3>2
  <2> QED
    BY <2>1 DEF Inv, TypeOK, KmsTypeOK
<1>2. StreamsInv'
  BY <1>1, StreamsSame DEF Inv, TypeOK, Listening
<1>3. OneConnection'
  BY DEF Inv, OneConnection
<1>4. AllCalls'
  BY DEF Inv, TypeOK, AllCalls, CallInv, Busy, Gone
<1>5. AllData'
  BY DEF Inv, TypeOK, AllData, DataInv
<1>6. ServerInv'
  BY DEF Inv, TypeOK, ServerInv, OneConnection, Down
<1>7. AllTrusted' /\ AllHonest'
  BY DEF Inv, AllTrusted, TrustInv, AllHonest
<1>8. CauseInv'
  BY DEF Inv, TypeOK, CauseInv, Culprit, Listening
<1> QED
  BY <1>1, <1>2, <1>3, <1>4, <1>5, <1>6, <1>7, <1>8 DEF Inv

\* A client hangs, or goes on to send before the server has accepted it.
LEMMA MoveSafe ==
  ASSUME Inv, NEW c \in Client, Stall(c) \/ SslConnectEarly(c)
  PROVE  Inv'
<1>1. PICK label \in {"send", "stalled"} :
        /\ Goto(c, label)
        /\ pc[c] \in {"handshake", "send"}
        /\ label = "send" => conn[c] = "accepted"
  BY DEF Stall, SslConnectEarly
<1>2. UNCHANGED <<call, calls, fds, results, conn, c2s, s2c, backlog, serverVars, kmsVars>>
  BY DEF Stall, SslConnectEarly
<1> USE <1>1, <1>2 DEF Goto, serverVars, kmsVars
<1>3. TypeOK'
  BY DEF Inv, TypeOK, KmsTypeOK, Busy
<1>4. StreamsInv'
  BY <1>3, StreamsSame DEF Inv, TypeOK, Listening
<1>5. OneConnection'
  BY DEF Inv, OneConnection
<1>6. AllCalls'
  BY DEF Inv, TypeOK, AllCalls, CallInv, Busy, Gone
<1>7. AllData'
  BY DEF Inv, TypeOK, AllData, DataInv, Gone
<1>8. ServerInv'
  BY DEF Inv, TypeOK, ServerInv, OneConnection, Down, Gone
<1>9. AllTrusted' /\ AllHonest'
  BY DEF Inv, AllTrusted, TrustInv, AllHonest
<1>10. CauseInv'
  BY DEF Inv, TypeOK, CauseInv, Culprit, Listening, Gone
<1> QED
  BY <1>3, <1>4, <1>5, <1>6, <1>7, <1>8, <1>9, <1>10 DEF Inv

\* The kernel queues a new connection.
LEMMA ConnectSafe ==
  ASSUME Inv, NEW c \in Client, Connect(c)
  PROVE  Inv'
<1> USE DEF Connect, Goto, serverVars, kmsVars
<1>1. conn[c] = "none" /\ call[c] \in AnyRequest /\ calls[c] > 0
  BY DEF Inv, AllCalls, CallInv, Busy
<1>2. c2s[c] = <<>> /\ s2c[c] = <<>>
  BY <1>1 DEF Inv, AllData, DataInv
<1>3. TypeOK'
  <2>1. fds[c] + 1 \in 0..MaxFd
    BY ServiceAssumption DEF Inv, TypeOK, SocketLeft
  <2>2. backlog' \in Seq(Client)
    BY DEF Inv, TypeOK
  <2> QED
    BY <2>1, <2>2 DEF Inv, TypeOK, KmsTypeOK, Busy
<1>4. StreamsInv'
  BY <1>3, StreamsSame DEF Inv, TypeOK, Listening
<1>5. OneConnection'
  <2>1. /\ DOMAIN backlog' = DOMAIN backlog \cup {Len(backlog) + 1}
        /\ Len(backlog) + 1 \notin DOMAIN backlog
        /\ \A i \in DOMAIN backlog : backlog'[i] = backlog[i]
        /\ backlog'[Len(backlog) + 1] = c
    <3>1. backlog \in Seq(Client) /\ backlog' = Append(backlog, c)
      BY DEF Inv, TypeOK
    <3> QED
      BY ONLY <3>1
  <2>2. \A i \in DOMAIN backlog : backlog[i] # c
    BY <1>1 DEF Inv, OneConnection
  <2>3. /\ \A d \in Client : conn'[d] \in {"accepted", "open"} => peer = d
        /\ peer = NoClient <=> server_pc \in Down \cup {"accept"}
    BY <1>1 DEF Inv, TypeOK, OneConnection
  <2>4. \A d \in Client : conn'[d] = "queued" <=> \E i \in DOMAIN backlog' : backlog'[i] = d
    BY <2>1, <2>2 DEF Inv, TypeOK, OneConnection
  <2>5. \A i, j \in DOMAIN backlog' : backlog'[i] = backlog'[j] => i = j
    BY <2>1, <2>2 DEF Inv, OneConnection
  <2> QED
    BY <2>3, <2>4, <2>5 DEF OneConnection
<1>6. AllCalls'
  BY <1>1 DEF Inv, TypeOK, AllCalls, CallInv, Busy, Gone
<1>7. AllData'
  BY <1>2 DEF Inv, TypeOK, AllData, DataInv
<1>8. ServerInv'
  BY <1>1 DEF Inv, TypeOK, ServerInv, OneConnection, Down, Gone
<1>9. AllTrusted' /\ AllHonest'
  BY <1>2 DEF Inv, TypeOK, AllTrusted, TrustInv, AllHonest
<1>10. CauseInv'
  BY DEF Inv, TypeOK, CauseInv, Culprit, Listening, Gone, OneConnection, Down
<1> QED
  BY <1>3, <1>4, <1>5, <1>6, <1>7, <1>8, <1>9, <1>10 DEF Inv

\* A request is written, or lost on a connection that the server has closed.
LEMMA SendSafe ==
  ASSUME Inv, NEW c \in Client, Send(c)
  PROVE  Inv'
<1>1. /\ pc[c] = "send" /\ call[c] \in AnyRequest /\ c2s[c] = <<>> /\ s2c[c] = <<>>
      /\ conn[c] \in {"accepted", "open", "shut"}
  BY DEF Inv, AllCalls, CallInv, AllData, DataInv, Send, Busy, Gone
<1>2. UNCHANGED <<call, calls, fds, results, conn, s2c, backlog, serverVars, kmsVars>>
  BY DEF Send
<1>3. CASE Goto(c, "crashed") /\ UNCHANGED c2s
  BY <1>2, <1>3, EndSafe DEF Gone
<1>4. CASE /\ Goto(c, "recv")
           /\ \/ conn[c] = "shut" /\ UNCHANGED c2s
              \/ conn[c] # "shut" /\ c2s' = [c2s EXCEPT ![c] = <<call[c]>>]
  <2> USE <1>1, <1>2, <1>4 DEF Goto, serverVars, kmsVars
  <2>1. TypeOK'
    <3>1. <<call[c]>> \in Seq(AnyRequest) /\ c2s \in [Client -> Seq(AnyRequest)]
      BY DEF Inv, TypeOK
    <3>2. c2s' \in [Client -> Seq(AnyRequest)]
      BY <3>1
    <3> QED
      BY <3>2 DEF Inv, TypeOK, KmsTypeOK, Busy
  <2>2. StreamsInv'
    BY <2>1, StreamsSame DEF Inv, TypeOK, Listening
  <2>3. OneConnection'
    BY DEF Inv, OneConnection
  <2>4. AllCalls'
    BY DEF Inv, TypeOK, AllCalls, CallInv, Busy, Gone
  <2>5. AllData'
    BY DEF Inv, TypeOK, AllData, DataInv, Gone
  <2>6. ServerInv'
    BY DEF Inv, TypeOK, ServerInv, OneConnection, Down, Gone
  <2>7. AllTrusted' /\ AllHonest'
    BY DEF Inv, AllTrusted, TrustInv, AllHonest
  <2>8. CauseInv'
    BY DEF Inv, TypeOK, CauseInv, Culprit, Listening, Gone
  <2> QED
    BY <2>1, <2>2, <2>3, <2>4, <2>5, <2>6, <2>7, <2>8 DEF Inv
<1> QED
  BY <1>3, <1>4 DEF Send

\* Taking the only element of a sequence.
LEMMA OnlyElement ==
  ASSUME NEW S, NEW s \in Seq(S), Len(s) = 1
  PROVE  Head(s) = s[1] /\ Tail(s) = <<>>
<1>1. Head(s) = s[1] /\ Tail(s) \in Seq(S) /\ Len(Tail(s)) = 0
  OBVIOUS
<1>2. \A t \in Seq(S) : Len(t) = 0 => t = <<>>
  OBVIOUS
<1> QED
  BY <1>1, <1>2

\* A call returns with the answer to its request.
LEMMA RecvSafe ==
  ASSUME Inv, NEW c \in Client, Recv(c)
  PROVE  Inv'
<1> USE DEF Recv, Goto, serverVars, kmsVars
<1> DEFINE resp == Head(s2c[c])
<1>1. /\ Honest(minted, call[c], resp) /\ c2s[c] = <<>> /\ Tail(s2c[c]) = <<>>
      /\ conn[c] \in {"open", "shut"}
  <2>1. s2c[c] \in Seq(Response) /\ Len(s2c[c]) = 1 /\ Honest(minted, call[c], s2c[c][1])
    BY DEF Inv, TypeOK, AllData, DataInv
  <2>2. Tail(s2c[c]) = <<>> /\ resp = s2c[c][1]
    BY <2>1, OnlyElement
  <2> QED
    BY <2>1, <2>2 DEF Inv, AllData, DataInv
<1>2. call[c] \in Request /\ resp \in Response
  BY <1>1 DEF Honest
<1>3. peer = c => server_pc = "shutdown"
  <2>1. peer = c => server_pc \notin Down \cup {"accept"}
    BY ServiceAssumption DEF Inv, OneConnection
  <2> QED
    BY <1>1, <2>1 DEF Inv, TypeOK, ServerInv
<1> HIDE DEF resp
<1>4. results' = results \cup {[client |-> c, request |-> call[c], response |-> resp]}
  BY DEF resp
<1>5. s2c' = [s2c EXCEPT ![c] = <<>>]
  BY <1>1
<1>6. TypeOK'
  <2>1. s2c' \in [Client -> Seq(Response)]
    <3>1. <<>> \in Seq(Response) /\ s2c \in [Client -> Seq(Response)]
      BY DEF Inv, TypeOK
    <3> QED
      BY ONLY <3>1, <1>5, c \in Client
  <2>2. results' \subseteq Result
    BY <1>2, <1>4 DEF Inv, TypeOK, Result
  <2> QED
    BY <2>1, <2>2 DEF Inv, TypeOK, KmsTypeOK
<1>7. StreamsInv'
  BY <1>6, StreamsSame DEF Inv, TypeOK, Listening
<1>8. OneConnection'
  BY <1>1 DEF Inv, TypeOK, OneConnection
<1>9. AllCalls'
  BY DEF Inv, TypeOK, AllCalls, CallInv, Busy, Gone
<1>10. AllData'
  BY <1>1, <1>5 DEF Inv, TypeOK, AllData, DataInv
<1>11. ServerInv'
  BY <1>3, <1>5 DEF Inv, TypeOK, ServerInv, OneConnection, Down
<1>12. AllTrusted'
  BY <1>1, <1>4, <1>5 DEF Inv, TypeOK, AllTrusted, TrustInv
<1>13. AllHonest'
  BY <1>1, <1>4 DEF Inv, AllHonest
<1>14. CauseInv'
  <2>1. call[c].service \notin {"ERROR", "CLOSE_SERVER"}
    BY <1>2 DEF Request, OpenConnectRequest, GetKeyRequest, CloseRequest
  <2> QED
    BY <1>3, <2>1 DEF Inv, TypeOK, CauseInv, Culprit, Listening, Gone, OneConnection, Down
<1> QED
  BY <1>6, <1>7, <1>8, <1>9, <1>10, <1>11, <1>12, <1>13, <1>14 DEF Inv

\* Every step of a client preserves the invariant.
LEMMA ClientSafe ==
  ASSUME Inv, NEW c \in Client, ClientStep(c) \/ Kill(c) \/ Stall(c)
  PROVE  Inv'
<1>1. CASE ConnectFails(c) \/ ContextFails(c) \/ SslConnectFails(c) \/ RecvFails(c) \/ Kill(c)
  <2>1. PICK label \in Gone : Goto(c, label)
    BY <1>1 DEF ConnectFails, ContextFails, SslConnectFails, RecvFails, Kill, Gone
  <2>2. /\ \/ UNCHANGED c2s
           \/ ~(server_pc = "payload" /\ peer = c) /\ c2s' = [c2s EXCEPT ![c] = <<>>]
        /\ UNCHANGED <<call, calls, fds, results, conn, s2c, backlog, serverVars, kmsVars>>
    BY <1>1 DEF ConnectFails, ContextFails, SslConnectFails, RecvFails, Kill
  <2> QED
    BY <2>1, <2>2, EndSafe
<1> QED
  BY <1>1, ConnectSafe, MoveSafe, SendSafe, RecvSafe DEF ClientStep

-----------------------------------------------------------------------------
(* The steps of the server. *)

\* While the server is connected to somebody, that is a client.
LEMMA PeerIsClient ==
  ASSUME Inv, server_pc \in {"handshake", "header", "payload", "respond", "shutdown"}
  PROVE  peer \in Client /\ Listening
  BY DEF Inv, TypeOK, OneConnection, Listening, Down

\* The server process ends.
LEMMA ServerEndsSafe ==
  ASSUME Inv, NEW why \in Down, ServerEnds(why)
  PROVE  Inv'
<1> USE DEF ServerEnds, clientVars
<1>1. KmsTypeOK' /\ MintedOnce' /\ RunsSoFar'
  BY LoseMemorySafe DEF Inv, TypeOK, StreamsInv
<1>2. minted' = minted
  BY DEF LoseMemory
<1>3. /\ conn' \in [Client -> {"none", "shut"}]
      /\ \A c \in Client : conn'[c] = IF conn[c] = "none" THEN "none" ELSE "shut"
  BY DEF Inv, TypeOK, ConnectionsReset
<1>4. TypeOK'
  <2>1. c2s' \in [Client -> Seq(AnyRequest)] /\ backlog' \in Seq(Client)
    OBVIOUS
  <2> QED
    BY <1>1, <1>3, <2>1 DEF Inv, TypeOK
<1>5. StreamsInv'
  BY <1>1 DEF StreamsInv, Listening
<1>6. OneConnection'
  BY <1>3 DEF OneConnection
<1>7. AllCalls'
  BY <1>3 DEF Inv, TypeOK, AllCalls, CallInv
<1>8. AllData'
  BY <1>2, <1>3 DEF Inv, TypeOK, AllData, DataInv
<1>9. ServerInv'
  BY DEF ServerInv, Down
<1>10. AllTrusted' /\ AllHonest'
  BY <1>2, <1>3 DEF Inv, AllTrusted, TrustInv, AllHonest
<1>11. CauseInv'
  BY DEF CauseInv, Culprit, Listening, Down
<1> QED
  BY <1>4, <1>5, <1>6, <1>7, <1>8, <1>9, <1>10, <1>11 DEF Inv

\* The server takes the first connection of the queue.
LEMMA AcceptSafe ==
  ASSUME Inv, Accept
  PROVE  Inv'
<1> USE DEF Accept, clientVars, kmsVars
<1> DEFINE c == Head(backlog)
<1>1. backlog \in Seq(Client) /\ backlog # <<>>
  BY DEF Inv, TypeOK
<1>2. /\ 1 \in DOMAIN backlog /\ backlog[1] = c /\ c \in Client
      /\ backlog' \in Seq(Client)
      /\ \A i \in DOMAIN backlog' : i + 1 \in DOMAIN backlog /\ backlog'[i] = backlog[i + 1]
      /\ \A i \in DOMAIN backlog \ {1} : i - 1 \in DOMAIN backlog' /\ backlog'[i - 1] = backlog[i]
      /\ DOMAIN backlog \subseteq Nat /\ DOMAIN backlog' \subseteq Nat \ {0}
  <2>1. backlog' = Tail(backlog)
    OBVIOUS
  <2> QED
    BY ONLY <1>1, <2>1
<1> HIDE DEF c
<1>3. conn[c] = "queued" /\ \A d \in Client : conn[d] \notin {"accepted", "open"}
  BY <1>2, ServiceAssumption DEF Inv, OneConnection
<1>4. c2s[c] = <<>> /\ s2c[c] = <<>>
  BY <1>2, <1>3 DEF Inv, AllData, DataInv
<1>5. conn' = [conn EXCEPT ![c] = "accepted"] /\ peer' = c
  BY DEF c
<1>6. TypeOK'
  BY <1>2, <1>5 DEF Inv, TypeOK, KmsTypeOK
<1>7. StreamsInv'
  BY <1>6, StreamsSame DEF Inv, TypeOK, Listening, Down
<1>8. OneConnection'
  <2>1. \A d \in Client : conn'[d] \in {"accepted", "open"} => peer' = d
    BY <1>3, <1>5 DEF Inv, TypeOK
  <2>2. peer' # NoClient
    BY <1>2, <1>5, ServiceAssumption
  <2>3. \A i, j \in DOMAIN backlog : backlog[i] = backlog[j] => i = j
    BY DEF Inv, OneConnection
  <2>4. \A i, j \in DOMAIN backlog' : backlog'[i] = backlog'[j] => i = j
    BY <1>2, <2>3
  <2>5. ASSUME NEW d \in Client
        PROVE  conn'[d] = "queued" <=> \E i \in DOMAIN backlog' : backlog'[i] = d
    <3>1. CASE d = c
      <4>1. \A i \in DOMAIN backlog' : backlog'[i] # c
        BY <1>2, <2>3
      <4> QED
        BY <1>5, <3>1, <4>1 DEF Inv, TypeOK
    <3>2. CASE d # c
      <4>1. conn'[d] = "queued" <=> \E i \in DOMAIN backlog : backlog[i] = d
        BY <1>5, <3>2 DEF Inv, TypeOK, OneConnection
      <4>2. (\E i \in DOMAIN backlog : backlog[i] = d) <=> \E i \in DOMAIN backlog' : backlog'[i] = d
        BY <1>2, <3>2
      <4> QED
        BY <4>1, <4>2
    <3> QED
      BY <3>1, <3>2
  <2> QED
    BY <2>1, <2>2, <2>4, <2>5 DEF OneConnection, Down
<1>9. AllCalls'
  BY <1>3, <1>5 DEF Inv, TypeOK, AllCalls, CallInv
<1>10. AllData'
  BY <1>4, <1>5 DEF Inv, TypeOK, AllData, DataInv
<1>11. ServerInv'
  BY <1>2, <1>5 DEF Inv, TypeOK, ServerInv
<1>12. AllTrusted' /\ AllHonest'
  BY <1>5 DEF Inv, TypeOK, AllTrusted, TrustInv, AllHonest
<1>13. CauseInv'
  BY DEF Inv, TypeOK, CauseInv, Listening, Down
<1> QED
  BY <1>6, <1>7, <1>8, <1>9, <1>10, <1>11, <1>12, <1>13 DEF Inv

\* The handshake completes.
LEMMA SslAcceptSafe ==
  ASSUME Inv, SslAccept
  PROVE  Inv'
<1> USE DEF SslAccept, Goto, kmsVars
<1>1. peer \in Client /\ conn[peer] = "accepted" /\ calls[peer] > 0 /\ call[peer] \in AnyRequest
  BY PeerIsClient DEF Inv, ServerInv, AllCalls, CallInv, Busy
<1>2. s2c[peer] = <<>> /\ c2s[peer] = <<>>
  BY <1>1 DEF Inv, AllData, DataInv, Gone
<1>3. TypeOK'
  BY <1>1 DEF Inv, TypeOK, KmsTypeOK, Busy
<1>4. StreamsInv'
  BY <1>3, StreamsSame DEF Inv, TypeOK, Listening, Down
<1>5. OneConnection'
  BY <1>1 DEF Inv, TypeOK, OneConnection, Down
<1>6. AllCalls'
  BY <1>1 DEF Inv, TypeOK, AllCalls, CallInv, Busy, Gone
<1>7. AllData'
  BY <1>2 DEF Inv, TypeOK, AllData, DataInv
<1>8. ServerInv'
  BY <1>1, <1>2 DEF Inv, TypeOK, ServerInv
<1>9. AllTrusted' /\ AllHonest'
  BY <1>1 DEF Inv, TypeOK, AllTrusted, TrustInv, AllHonest, HandshakeSucceeds
<1>10. CauseInv'
  BY <1>1 DEF Inv, TypeOK, CauseInv, Listening, Down
<1> QED
  BY <1>3, <1>4, <1>5, <1>6, <1>7, <1>8, <1>9, <1>10 DEF Inv

\* The handshake fails, or the header of a request is read.
LEMMA ServerMovesSafe ==
  ASSUME Inv, SslAcceptFails \/ RecvHeader
  PROVE  Inv'
<1>1. /\ UNCHANGED <<clientVars, conn, c2s, s2c, backlog, server_status, peer, kmsVars>>
      /\ server_pc \in {"handshake", "header"}
      /\ server_pc' \in {"header", "payload", "shutdown"}
  BY DEF SslAcceptFails, RecvHeader
<1>2. peer \in Client
  BY <1>1, PeerIsClient
<1> USE <1>1 DEF clientVars, kmsVars
<1>3. TypeOK'
  BY DEF Inv, TypeOK, KmsTypeOK
<1>4. StreamsInv'
  BY <1>3, StreamsSame DEF Inv, TypeOK, Listening, Down
<1>5. OneConnection'
  BY DEF Inv, OneConnection, Down
<1>6. AllCalls' /\ AllData' /\ AllTrusted' /\ AllHonest'
  BY DEF Inv, AllCalls, CallInv, AllData, DataInv, AllTrusted, TrustInv, AllHonest
<1>7. ServerInv'
  <2>1. CASE SslAcceptFails
    BY <1>2, <2>1 DEF Inv, AllData, DataInv, ServerInv, SslAcceptFails
  <2>2. CASE RecvHeader
    <3>1. c2s[peer] = <<call[peer]>>
      BY <1>2, <2>2 DEF Inv, AllData, DataInv, RecvHeader
    <3>2. call[peer].service # "CLOSE_SERVER"
      BY <2>2, <3>1 DEF RecvHeader
    <3> QED
      BY <2>2, <3>2 DEF Inv, ServerInv, RecvHeader
  <2> QED
    BY <2>1, <2>2
<1>8. CauseInv'
  <2>1. CASE SslAcceptFails
    <3>1. server_pc' = "header" => Culprit(peer)
      <4>1. calls[peer] > 0
        BY <1>2, <2>1 DEF Inv, ServerInv, AllCalls, CallInv, SslAcceptFails
      <4>2. server_pc' = "header" => 0 \in SslAcceptFailure
        BY <2>1, ServiceAssumption DEF SslAcceptFails
      <4> QED
        BY <2>1, <4>1, <4>2 DEF Culprit, SslAcceptFails
    <3> QED
      BY <2>1, <3>1 DEF Inv, CauseInv, Culprit, Listening, Down, SslAcceptFails
  <2>2. CASE RecvHeader
    BY <2>2 DEF Inv, CauseInv, Listening, Down, RecvHeader
  <2> QED
    BY <2>1, <2>2
<1> QED
  BY <1>3, <1>4, <1>5, <1>6, <1>7, <1>8 DEF Inv

\* The server is asked to finish.
LEMMA RecvCloseServerSafe ==
  ASSUME Inv, RecvCloseServer
  PROVE  Inv'
<1> USE DEF RecvCloseServer, clientVars, kmsVars
<1>1. peer \in Client
  BY PeerIsClient
<1>2. c2s[peer] \in Seq(AnyRequest) /\ c2s[peer] = <<call[peer]>> /\ s2c[peer] = <<>>
  BY <1>1 DEF Inv, TypeOK, AllData, DataInv
<1>3. call[peer].service = "CLOSE_SERVER" /\ c2s' = [c2s EXCEPT ![peer] = <<>>]
  BY <1>2
<1>4. TypeOK'
  <2>1. <<>> \in Seq(AnyRequest) /\ c2s \in [Client -> Seq(AnyRequest)]
    BY DEF Inv, TypeOK
  <2>2. c2s' \in [Client -> Seq(AnyRequest)]
    BY ONLY <1>1, <1>3, <2>1
  <2> QED
    BY <2>2 DEF Inv, TypeOK, KmsTypeOK
<1>5. StreamsInv'
  BY <1>4, StreamsSame DEF Inv, TypeOK, Listening, Down
<1>6. OneConnection'
  BY DEF Inv, OneConnection, Down
<1>7. AllCalls' /\ AllTrusted' /\ AllHonest'
  BY DEF Inv, AllCalls, CallInv, AllTrusted, TrustInv, AllHonest
<1>8. AllData'
  BY <1>1, <1>3 DEF Inv, TypeOK, AllData, DataInv
<1>9. ServerInv'
  BY DEF ServerInv
<1>10. CauseInv'
  BY <1>3 DEF Inv, CauseInv, Listening, Down
<1> QED
  BY <1>4, <1>5, <1>6, <1>7, <1>8, <1>9, <1>10 DEF Inv

\* A handler runs on the request of the peer's own call.
LEMMA HandlesOwnRequest ==
  ASSUME Inv, Handle
  PROVE  /\ peer \in Client /\ KmsInv
         /\ conn[peer] = "open" /\ pc[peer] \in {"recv"} \cup Gone
         /\ c2s[peer] # <<>> /\ s2c[peer] = <<>> /\ c2s' = [c2s EXCEPT ![peer] = <<>>]
         /\ call[peer] \in Request /\ HandleRequest(call[peer])
<1> USE DEF Handle, clientVars
<1>1. peer \in Client /\ Listening
  BY PeerIsClient
<1>2. /\ c2s[peer] = <<call[peer]>> /\ c2s[peer] # <<>> /\ s2c[peer] = <<>>
      /\ conn[peer] = "open" /\ pc[peer] \in {"recv"} \cup Gone
  BY <1>1 DEF Inv, AllData, DataInv, ServerInv
<1>3. HandleRequest(call[peer]) /\ c2s' = [c2s EXCEPT ![peer] = <<>>]
  BY <1>2
<1>4. call[peer] \in Request
  <2>1. call[peer] \in AnyRequest \cup {NoRequest}
    BY <1>1 DEF Inv, TypeOK
  <2>2. call[peer].service \in {"OPEN_CONNECT", "GET_KEY", "CLOSE"}
    BY <1>3 DEF HandleRequest, qkd_open_connect, qkd_get_key, qkd_close
  <2> QED
    BY <2>1, <2>2, ServiceAssumption DEF AnyRequest, OtherRequest, NoRequest
<1>5. KmsInv
  BY <1>1 DEF Inv, StreamsInv
<1> QED
  BY <1>1, <1>2, <1>3, <1>4, <1>5

\* The servlet handles the request (qkd_server.c): the answer it keeps is honest.
LEMMA HandleServiceSafe ==
  ASSUME Inv, Handle
  PROVE  Inv'
<1> USE DEF Handle, clientVars
<1>1. peer \in Client /\ KmsInv
  BY HandlesOwnRequest
<1>2. s2c[peer] = <<>> /\ conn[peer] = "open" /\ pc[peer] \in {"recv"} \cup Gone
  BY HandlesOwnRequest
<1>3. HandleRequest(call[peer]) /\ c2s' = [c2s EXCEPT ![peer] = <<>>]
  BY HandlesOwnRequest
<1>4. call[peer] \in Request
  BY HandlesOwnRequest
<1>5. KmsInv' /\ minted \subseteq minted'
  BY <1>1, <1>3, <1>4, HandleSafe, HandleKeepsHistory
<1>6. Honest(minted', call[peer], response')
  BY <1>1, <1>3, <1>4, HandleHonest
<1>7. TypeOK'
  <2>1. <<>> \in Seq(AnyRequest) /\ c2s \in [Client -> Seq(AnyRequest)]
    BY DEF Inv, TypeOK
  <2>2. c2s' \in [Client -> Seq(AnyRequest)]
    BY ONLY <1>1, <1>3, <2>1
  <2> QED
    BY <1>5, <2>2 DEF Inv, TypeOK, KmsInv
<1>8. StreamsInv'
  BY <1>5 DEF StreamsInv, KmsInv
<1>9. OneConnection'
  BY DEF Inv, OneConnection, Down
<1>10. AllCalls' /\ AllTrusted'
  BY DEF Inv, AllCalls, CallInv, AllTrusted, TrustInv
<1>11. AllData'
  <2> SUFFICES ASSUME NEW c \in Client PROVE DataInv(c)'
    BY DEF AllData
  <2>1. DataInv(c)
    BY DEF Inv, AllData
  <2>2. Honest(minted, call[c], s2c[c][1]) => Honest(minted', call[c], s2c[c][1])
    BY <1>5, HonestForEver
  <2> QED
    BY <1>1, <1>3, <2>1, <2>2 DEF Inv, TypeOK, DataInv
<1>12. ServerInv'
  BY <1>1, <1>2, <1>3, <1>6 DEF Inv, TypeOK, ServerInv
<1>13. AllHonest'
  <2> SUFFICES ASSUME NEW r \in results PROVE Honest(minted', r.request, r.response)
    BY DEF AllHonest
  <2>1. Honest(minted, r.request, r.response)
    BY DEF Inv, AllHonest
  <2> QED
    BY <1>5, <2>1, HonestForEver
<1>14. CauseInv'
  BY DEF Inv, CauseInv, Listening, Down
<1> QED
  BY <1>7, <1>8, <1>9, <1>10, <1>11, <1>12, <1>13, <1>14 DEF Inv

\* The response goes to the peer, or is lost because the peer is gone.
LEMMA RespondSafe ==
  ASSUME Inv, server_pc = "respond", server_pc' = "shutdown", response' = NoResponse,
         s2c' = [s2c EXCEPT ![peer] = Append(@, response)] \/ UNCHANGED s2c,
         UNCHANGED <<clientVars, conn, c2s, backlog, server_status, peer,
                     ksid_info_linked_list, minted, restarts>>
  PROVE  Inv'
<1> USE DEF clientVars
<1>1. peer \in Client
  BY PeerIsClient
<1>2. /\ Honest(minted, call[peer], response) /\ s2c[peer] = <<>> /\ c2s[peer] = <<>>
      /\ conn[peer] = "open" /\ pc[peer] \in {"recv"} \cup Gone
  BY DEF Inv, ServerInv
<1>3. response \in Response
  BY <1>2 DEF Honest
<1>4. s2c' = [s2c EXCEPT ![peer] = <<response>>] \/ UNCHANGED s2c
  BY <1>2
<1>5. TypeOK'
  <2>1. <<response>> \in Seq(Response) /\ s2c \in [Client -> Seq(Response)]
    BY <1>3 DEF Inv, TypeOK
  <2>2. s2c' \in [Client -> Seq(Response)]
    BY ONLY <1>1, <1>4, <2>1
  <2> QED
    BY <2>2 DEF Inv, TypeOK, KmsTypeOK
<1>6. StreamsInv'
  BY <1>5, StreamsSame DEF Inv, TypeOK, Listening, Down
<1>7. OneConnection'
  BY DEF Inv, OneConnection, Down
<1>8. AllCalls' /\ AllHonest'
  BY DEF Inv, AllCalls, CallInv, AllHonest
<1>9. AllTrusted'
  BY <1>1, <1>2, <1>4 DEF Inv, TypeOK, AllTrusted, TrustInv
<1>10. AllData'
  <2>1. Len(<<response>>) = 1 /\ <<response>>[1] = response
    OBVIOUS
  <2> QED
    BY <1>1, <1>2, <1>4, <2>1 DEF Inv, TypeOK, AllData, DataInv
<1>11. ServerInv'
  BY DEF ServerInv
<1>12. CauseInv'
  BY DEF Inv, CauseInv, Listening, Down
<1> QED
  BY <1>5, <1>6, <1>7, <1>8, <1>9, <1>10, <1>11, <1>12 DEF Inv

\* The connection is closed, if the client still uses it, and the loop goes on.
LEMMA ShutdownSafe ==
  ASSUME Inv, Shutdown
  PROVE  Inv'
<1> USE DEF Shutdown, clientVars, kmsVars
<1>1. peer \in Client
  BY PeerIsClient
<1>2. ~Held(peer) => c2s[peer] = <<>>
  BY <1>1 DEF Inv, AllData, DataInv, Held
<1>3. /\ conn' = [c \in Client |-> IF c = peer /\ Held(c) THEN "shut" ELSE conn[c]]
      /\ c2s' = [c \in Client |-> IF c = peer THEN <<>> ELSE c2s[c]]
  BY <1>1, <1>2 DEF Inv, TypeOK
<1>4. \A c \in Client : Held(c) => c = peer
  BY DEF Inv, OneConnection, Held
<1>5. \A c \in Client : /\ conn'[c] \notin {"accepted", "open"}
                        /\ conn'[c] # conn[c] => conn'[c] = "shut" /\ Held(c)
  BY <1>3, <1>4 DEF Held
<1>6. TypeOK'
  <2>1. c2s' \in [Client -> Seq(AnyRequest)]
    <3>1. <<>> \in Seq(AnyRequest) /\ c2s \in [Client -> Seq(AnyRequest)]
      BY DEF Inv, TypeOK
    <3> QED
      BY <1>3, <3>1
  <2>2. conn' \in [Client -> {"none", "queued", "accepted", "open", "shut"}]
    BY <1>3 DEF Inv, TypeOK
  <2> QED
    BY <2>1, <2>2 DEF Inv, TypeOK, KmsTypeOK
<1>7. StreamsInv'
  BY <1>6, StreamsSame DEF Inv, TypeOK, Listening, Down
<1>8. OneConnection'
  BY <1>5 DEF Inv, OneConnection, Held
<1>9. AllCalls'
  BY <1>5 DEF Inv, AllCalls, CallInv, Held
<1>10. AllData'
  BY <1>3, <1>4, <1>5 DEF Inv, AllData, DataInv, Held
<1>11. AllTrusted' /\ AllHonest'
  BY <1>5 DEF Inv, AllTrusted, TrustInv, AllHonest
<1>12. ServerInv' /\ CauseInv'
  BY DEF Inv, ServerInv, CauseInv, Listening, Down
<1> QED
  BY <1>6, <1>7, <1>8, <1>9, <1>10, <1>11, <1>12 DEF Inv

\* The server is started again: nobody is connected.
LEMMA RestartServerSafe ==
  ASSUME Inv, RestartServer
  PROVE  Inv'
<1> USE DEF RestartServer, clientVars
<1>1. KmsInv' /\ minted' = minted
  BY RestartSafe DEF Inv, TypeOK, StreamsInv, Restart
<1>2. TypeOK'
  BY <1>1 DEF Inv, TypeOK, KmsInv
<1>3. StreamsInv'
  BY <1>1 DEF StreamsInv, KmsInv
<1>4. OneConnection'
  BY DEF Inv, OneConnection, Listening
<1>5. AllCalls' /\ AllTrusted'
  BY DEF Inv, AllCalls, CallInv, AllTrusted, TrustInv
<1>6. AllData' /\ AllHonest'
  BY <1>1 DEF Inv, AllData, DataInv, AllHonest
<1>7. ServerInv' /\ CauseInv'
  BY DEF ServerInv, CauseInv, Listening
<1> QED
  BY <1>2, <1>3, <1>4, <1>5, <1>6, <1>7 DEF Inv

\* Every step of the server preserves the invariant.
LEMMA ServerSafe ==
  ASSUME Inv, ServerStep
  PROVE  Inv'
<1>1. CASE \E why \in Down : ServerEnds(why)
  BY <1>1, ServerEndsSafe
<1>2. CASE Respond \/ (RespondToNobody /\ ~ServerEnds("crashed"))
  BY <1>2, RespondSafe DEF Respond, RespondToNobody
<1>3. RecvHeaderFails \/ HandleUnknown \/ RecvPayloadFails \/ ShutdownLast \/ ShutdownBroken
        => \E why \in Down : ServerEnds(why)
  BY DEF RecvHeaderFails, HandleUnknown, RecvPayloadFails, ShutdownLast, ShutdownBroken, Down
<1> QED
  BY <1>1, <1>2, <1>3, AcceptSafe, SslAcceptSafe, ServerMovesSafe, RecvCloseServerSafe,
     HandleServiceSafe, ShutdownSafe DEF ServerStep, Down

-----------------------------------------------------------------------------
(* The theorems. *)

\* A step that changes nothing preserves the invariant.
LEMMA StutterSafe ==
  ASSUME Inv, UNCHANGED vars
  PROVE  Inv'
<1> USE DEF vars, clientVars, serverVars, kmsVars
<1>1. TypeOK'
  BY DEF Inv, TypeOK, KmsTypeOK
<1>2. StreamsInv'
  BY <1>1, StreamsSame DEF Inv, TypeOK, Listening
<1>3. OneConnection' /\ AllCalls' /\ AllData' /\ ServerInv'
  BY DEF Inv, OneConnection, AllCalls, CallInv, AllData, DataInv, ServerInv
<1>4. AllTrusted' /\ CauseInv' /\ AllHonest'
  BY DEF Inv, AllTrusted, TrustInv, CauseInv, Culprit, Listening, AllHonest
<1> QED
  BY <1>1, <1>2, <1>3, <1>4 DEF Inv

\* Inv is an invariant of the clients and the server: data under way is the
\* request or the answer of the call its client is in.
THEOREM ServiceInvariant == Spec => []Inv
<1>1. Init => Inv
  <2> SUFFICES ASSUME Init PROVE Inv
    OBVIOUS
  <2> USE DEF Init, KmsInit
  <2>1. TypeOK
    BY BoundsAssumption, ServiceAssumption DEF TypeOK, KmsTypeOK
  <2>2. StreamsInv
    BY <2>1 DEF TypeOK, StreamsInv, KmsInv, OneStreamPerPair, MintedOnce, RunsSoFar, ListIsThisRun
  <2>3. OneConnection /\ ServerInv
    BY DEF OneConnection, Down, ServerInv
  <2>4. AllCalls /\ AllData /\ AllTrusted /\ AllHonest
    BY DEF AllCalls, CallInv, Busy, AllData, DataInv, AllTrusted, TrustInv, AllHonest
  <2>5. CauseInv
    BY DEF CauseInv
  <2> QED
    BY <2>1, <2>2, <2>3, <2>4, <2>5 DEF Inv
<1>2. Inv /\ [Next]_vars => Inv'
  <2> SUFFICES ASSUME Inv, [Next]_vars PROVE Inv'
    OBVIOUS
  <2>1. CASE \E c \in Client : AppStep(c)
    BY <2>1, AppStepCalls, CallSafe
  <2>2. CASE \E c \in Client : ClientStep(c) \/ Kill(c) \/ Stall(c)
    BY <2>2, ClientSafe
  <2>3. CASE ServerStep
    BY <2>3, ServerSafe
  <2>4. CASE RestartServer
    BY <2>4, RestartServerSafe
  <2>5. CASE Quiescent \/ UNCHANGED vars
    BY <2>5, StutterSafe DEF Quiescent
  <2> QED
    BY <2>1, <2>2, <2>3, <2>4, <2>5 DEF Next
<1> QED
  BY <1>1, <1>2, PTL DEF Spec

\* All state of clients, connections and server has its type; among it, no
\* process holds more sockets than it can and no call returns a response that
\* its service does not have.
THEOREM ServiceTypeCorrect == Spec => []TypeOK
<1>1. Inv => TypeOK
  BY DEF Inv
<1> QED
  BY <1>1, ServiceInvariant, PTL

\* The server talks to one client at a time, and the accept queue holds exactly
\* the clients that wait in it, once each.
THEOREM ServiceOneConnection == Spec => []OneConnection
<1>1. Inv => OneConnection
  BY DEF Inv
<1> QED
  BY <1>1, ServiceInvariant, PTL

\* The server process ends abnormally only because of the client it is connected to,
\* and normally only because that client asked it to, for any number of clients.
THEOREM ServiceServerEndsForCause == Spec => ServerEndsForCause
<1> DEFINE Cause ==
      /\ Listening /\ server_pc' \in {"exited", "crashed"} => Culprit(peer)
      /\ Listening /\ server_pc' = "finished" => call[peer].service = "CLOSE_SERVER"
<1>1. Inv /\ [Next]_vars => [Cause]_vars
  <2> SUFFICES ASSUME Inv, Next, Listening, server_pc' \in Down
               PROVE  /\ server_pc' \in {"exited", "crashed"} => Culprit(peer)
                      /\ server_pc' = "finished" => call[peer].service = "CLOSE_SERVER"
    BY DEF Down
  <2>1. server_pc' # server_pc
    BY DEF Listening
  <2>2. ServerStep
    <3>1. ASSUME NEW c \in Client, AppStep(c) \/ ClientStep(c) \/ Kill(c) \/ Stall(c)
          PROVE  server_pc' = server_pc
      BY <3>1 DEF AppStep, OpenConnectCall, GetKeyCall, CloseCall, OtherCall, Call, ClientStep,
                  Connect, ConnectFails, ContextFails, SslConnectEarly, SslConnectFails, Send, Recv,
                  RecvFails, Kill, Stall, serverVars
    <3>2. ~RestartServer /\ ~Quiescent
      BY <2>1 DEF RestartServer, Quiescent, vars, serverVars
    <3> QED
      BY <2>1, <3>1, <3>2 DEF Next
  <2>3. ~(Accept \/ SslAccept \/ SslAcceptFails \/ RecvHeader \/ RecvCloseServer \/ Handle
            \/ Respond \/ Shutdown)
    BY DEF Accept, SslAccept, SslAcceptFails, RecvHeader, RecvCloseServer, Handle, Respond,
           Shutdown, Down
  <2>4. CASE RecvHeaderFails
    BY <2>4 DEF RecvHeaderFails, ServerEnds, PeerWentAway, Inv, CauseInv, Culprit
  <2>5. CASE HandleUnknown
    <3>1. peer \in Client /\ server_pc' = "crashed"
      BY <2>5, PeerIsClient DEF HandleUnknown, ServerEnds
    <3>2. c2s[peer] = <<call[peer]>> /\ call[peer].service # "CLOSE_SERVER"
      BY <2>5, <3>1 DEF HandleUnknown, Inv, AllData, DataInv, ServerInv
    <3>3. call[peer].service \in OtherService
      BY <2>5, <3>2 DEF HandleUnknown
    <3> QED
      BY <3>1, <3>2, <3>3, ServiceAssumption DEF Culprit
  <2>6. CASE RecvPayloadFails \/ RespondToNobody \/ ShutdownBroken
    BY <2>6 DEF RecvPayloadFails, RespondToNobody, ShutdownBroken, ServerEnds, Culprit
  <2>7. CASE ShutdownLast
    BY <2>7 DEF ShutdownLast, ServerEnds, Inv, CauseInv
  <2> QED
    BY <2>2, <2>3, <2>4, <2>5, <2>6, <2>7 DEF ServerStep
<1>2. Spec => [][Cause]_vars
  BY <1>1, ServiceInvariant, PTL DEF Spec
<1> QED
  BY <1>2 DEF ServerEndsForCause, Culprit

\* A key that a call returned is the key of the stream that its request names.
LEMMA ReturnedKeyOrigin ==
  ASSUME Inv, NEW r \in ReturnedKeys
  PROVE  /\ r.request \in GetKeyRequest
         /\ \E m \in minted :
              /\ m.key_stream_id = r.request.key_stream_id
              /\ r.response.key_buffer = GeneratedKey(m, r.request, TRUE)
              /\ r.response.key_buffer.size = m.qos.key_chunk_size
              /\ r.response.key_buffer.seed = Seed(m.pair, r.request.index)
<1>1. r \in results /\ r.request.service = "GET_KEY" /\ r.response.key_buffer # EmptyKey
  BY DEF ReturnedKeys
<1>2. Honest(minted, r.request, r.response)
  BY <1>1 DEF Inv, AllHonest
<1>3. r.request \in GetKeyRequest
  BY <1>1, <1>2 DEF Honest, Request, OpenConnectRequest, CloseRequest, GetKeyRequest
<1>4. PICK m \in minted : /\ m.key_stream_id = r.request.key_stream_id
                          /\ r.response.key_buffer = GeneratedKey(m, r.request, TRUE)
  BY <1>1, <1>2 DEF Honest
<1>5. m.pair \in Pair /\ m.qos \in Qos
  BY DEF Inv, TypeOK, KmsTypeOK, Minted
<1>6. /\ r.response.key_buffer.size = m.qos.key_chunk_size
      /\ r.response.key_buffer.seed = Seed(m.pair, r.request.index)
  <2> DEFINE req == r.request
             key == GeneratedKey(m, req, TRUE)
  <2>1. req \in GetKeyRequest /\ TRUE \in BOOLEAN
    BY <1>3
  <2> HIDE DEF req
  <2>2. key = EmptyKey \/ (key.size = m.qos.key_chunk_size /\ key.seed = Seed(m.pair, req.index))
    BY ONLY <1>5, <2>1, GeneratedKeyProperties
  <2> QED
    BY <1>1, <1>4, <2>2 DEF req
<1> QED
  BY <1>3, <1>4, <1>6

\* A call returns the answer to its own request, and a key is that of the stream
\* the request names.
THEOREM ServiceOwnAnswer == Spec => []OwnAnswer
<1>1. Inv => OwnAnswer
  <2> SUFFICES ASSUME Inv, NEW r \in results
               PROVE  /\ r.response.service = r.request.service
                      /\ r.request.service = "GET_KEY" => r.response.index = r.request.index
                      /\ r \in ReturnedKeys =>
                           \E m \in minted :
                             /\ m.key_stream_id = r.request.key_stream_id
                             /\ r.response.key_buffer.size = m.qos.key_chunk_size
                             /\ r.response.key_buffer.seed = Seed(m.pair, r.request.index)
    BY DEF OwnAnswer
  <2>1. Honest(minted, r.request, r.response)
    BY DEF Inv, AllHonest
  <2> QED
    BY <2>1, ReturnedKeyOrigin DEF Honest
<1> QED
  BY <1>1, ServiceInvariant, PTL

\* The two ends of a stream get the same key for the same index, whatever calls,
\* restarts and crashes come in between.
THEOREM ServiceKeyAgreement == Spec => []KeyAgreement
<1>1. Inv => KeyAgreement
  <2> SUFFICES ASSUME Inv, NEW r \in ReturnedKeys, NEW s \in ReturnedKeys,
                      r.request.key_stream_id = s.request.key_stream_id,
                      r.request.index = s.request.index
               PROVE  /\ r.response.key_buffer.size = s.response.key_buffer.size
                      /\ r.response.key_buffer.seed = s.response.key_buffer.seed
                      /\ r.request.metadata = s.request.metadata
                           => r.response.key_buffer = s.response.key_buffer
    BY DEF KeyAgreement
  <2>1. PICK m \in minted :
          /\ m.key_stream_id = r.request.key_stream_id
          /\ r.response.key_buffer = GeneratedKey(m, r.request, TRUE)
          /\ r.response.key_buffer.size = m.qos.key_chunk_size
          /\ r.response.key_buffer.seed = Seed(m.pair, r.request.index)
    BY ReturnedKeyOrigin
  <2>2. PICK n \in minted :
          /\ n.key_stream_id = s.request.key_stream_id
          /\ s.response.key_buffer = GeneratedKey(n, s.request, TRUE)
          /\ s.response.key_buffer.size = n.qos.key_chunk_size
          /\ s.response.key_buffer.seed = Seed(n.pair, s.request.index)
    BY ReturnedKeyOrigin
  <2>3. m = n
    BY <2>1, <2>2 DEF Inv, StreamsInv, MintedOnce
  <2>4. r.request.metadata = s.request.metadata
          => GeneratedKey(m, r.request, TRUE) = GeneratedKey(m, s.request, TRUE)
    BY DEF GeneratedKey
  <2> QED
    BY <2>1, <2>2, <2>3, <2>4
<1> QED
  BY <1>1, ServiceInvariant, PTL

\* Applications that open the same pair without naming an id are given the same
\* id, and those of different pairs different ones, until the server restarts.
THEOREM ServiceRendezvous == Spec => []Rendezvous
<1>1. Inv => Rendezvous
  <2> SUFFICES ASSUME Inv, restarts = 0,
                      NEW r \in results, r.request.service = "OPEN_CONNECT",
                      r.request.key_stream_id = NilUuid,
                      NEW s \in results, s.request.service = "OPEN_CONNECT",
                      s.request.key_stream_id = NilUuid
               PROVE  r.request.pair = s.request.pair
                        <=> r.response.key_stream_id = s.response.key_stream_id
    BY DEF Rendezvous
  <2>1. PICK m \in minted : m.key_stream_id = r.response.key_stream_id /\ m.pair = r.request.pair
    BY DEF Inv, AllHonest, Honest
  <2>2. PICK n \in minted : n.key_stream_id = s.response.key_stream_id /\ n.pair = s.request.pair
    BY DEF Inv, AllHonest, Honest
  <2>3. m.run = 0 /\ n.run = 0
    BY DEF Inv, TypeOK, KmsTypeOK, Minted, StreamsInv, RunsSoFar
  <2> QED
    BY <2>1, <2>2, <2>3 DEF Inv, StreamsInv, MintedOnce
<1> QED
  BY <1>1, ServiceInvariant, PTL

\* Whoever is served has shown what the other side insists on.
THEOREM ServiceServedAreTrusted == Spec => []ServedAreTrusted
<1>1. ASSUME NEW c \in Trusted
      PROVE  /\ c \in Client
             /\ ServerTls.ca # "NULL" => ClientTls[c].cert = ServerTls.ca /\ ClientTls[c].key = "match"
             /\ ClientTls[c].ca # "NULL" => ServerTls.cert = ClientTls[c].ca
  <2>1. /\ c \in Client
        /\ ~ContextExits("client", ClientTls[c])
        /\ PeerAccepted("client", ClientTls[c], ServerTls)
        /\ PeerAccepted("server", ServerTls, ClientTls[c])
    BY DEF Trusted, Misconfigured, Distrusting, Rejected
  <2>2. CertsGiven(ServerTls)
    BY ServiceAssumption DEF ContextExits
  <2> QED
    BY <2>1, <2>2 DEF ContextExits, CertsGiven, PeerAccepted, VerifyMode
<1>2. Inv => ServedAreTrusted
  BY <1>1 DEF Inv, AllTrusted, TrustInv, ServedAreTrusted
<1> QED
  BY <1>2, ServiceInvariant, PTL

-----------------------------------------------------------------------------
(* Waiting. *)

\* Where a client may be while its connection and the server are where they are: a
\* handshake that is complete is so on both sides, only a client whose certificate is
\* yet to be refused is ahead of the server, and one that waits for the answer has sent
\* its request.
WaitInv(c) ==
  /\ pc[c] = "handshake" => conn[c] # "open"
  /\ pc[c] \in {"send", "recv"} /\ conn[c] = "accepted" => c \in Rejected \ Misconfigured
  /\ server_pc = "header" /\ peer = c /\ conn[c] = "open" /\ pc[c] = "recv" => c2s[c] # <<>>

AllWait == (\A c \in Client : WaitInv(c)) /\ (~Listening => backlog = <<>>)

\* A client that enters no state of waiting changes nothing for anybody else.
LEMMA WaitClient ==
  ASSUME Inv, AllWait, NEW c \in Client, NEW label, Goto(c, label),
         UNCHANGED <<conn, backlog, serverVars>>,
         \A d \in Client : d # c => c2s'[d] = c2s[d],
         label = "handshake" => conn[c] # "open",
         label \in {"send", "recv"} /\ conn[c] = "accepted" => c \in Rejected \ Misconfigured,
         label = "recv" /\ conn[c] = "open" => c2s'[c] # <<>>
  PROVE  AllWait'
<1>1. pc \in [Client -> {"idle", "stalled"} \cup Busy \cup Gone]
  BY DEF Inv, TypeOK
<1>2. pc'[c] = label /\ \A d \in Client : d # c => pc'[d] = pc[d]
  BY <1>1 DEF Goto
<1>3. \A d \in Client : WaitInv(d)'
  BY <1>2 DEF AllWait, WaitInv, serverVars
<1> QED
  BY <1>3 DEF AllWait, Listening, serverVars

\* The steps of a client.
LEMMA WaitClientStep ==
  ASSUME Inv, AllWait, NEW c \in Client, ClientStep(c) \/ Kill(c) \/ Stall(c)
  PROVE  AllWait'
<1> USE DEF AllWait
<1>1. CASE Connect(c)
  <2>1. /\ pc \in [Client -> {"idle", "stalled"} \cup Busy \cup Gone]
        /\ conn \in [Client -> {"none", "queued", "accepted", "open", "shut"}]
    BY DEF Inv, TypeOK
  <2>2. /\ pc'[c] = "handshake" /\ conn'[c] = "queued" /\ UNCHANGED <<c2s, server_pc, peer>>
        /\ \A d \in Client : d # c => pc'[d] = pc[d] /\ conn'[d] = conn[d]
        /\ Listening
    BY <1>1, <2>1 DEF Connect, Goto, serverVars
  <2> QED
    BY <2>2 DEF WaitInv, Listening
<1>2. CASE ConnectFails(c) \/ ContextFails(c) \/ SslConnectFails(c) \/ RecvFails(c) \/ Kill(c)
  <2>1. PICK label \in Gone : Goto(c, label)
    BY <1>2 DEF ConnectFails, ContextFails, SslConnectFails, RecvFails, Kill, Gone
  <2>2. UNCHANGED <<conn, backlog, serverVars>>
    BY <1>2 DEF ConnectFails, ContextFails, SslConnectFails, RecvFails, Kill
  <2>3. \A d \in Client : d # c => c2s'[d] = c2s[d]
    <3>1. c2s \in [Client -> Seq(AnyRequest)]
      BY DEF Inv, TypeOK
    <3>2. c2s' = c2s \/ c2s' = [c2s EXCEPT ![c] = <<>>]
      BY <1>2 DEF ConnectFails, ContextFails, SslConnectFails, RecvFails, Kill
    <3> QED
      BY <3>1, <3>2
  <2>4. label \notin {"handshake", "send", "recv"}
    BY DEF Gone
  <2> QED
    BY <2>1, <2>2, <2>3, <2>4, WaitClient
<1>3. CASE SslConnectEarly(c)
  <2>1. /\ Goto(c, "send") /\ UNCHANGED <<conn, backlog, serverVars>> /\ c2s' = c2s
        /\ c \in Rejected \ Misconfigured
    BY <1>3 DEF SslConnectEarly
  <2> QED
    BY <2>1, WaitClient
<1>4. CASE Send(c)
  <2>1. pc[c] = "send" /\ UNCHANGED <<conn, backlog, serverVars>>
    BY <1>4 DEF Send
  <2>2. conn[c] = "accepted" => c \in Rejected \ Misconfigured
    BY <2>1 DEF WaitInv
  <2>3. CASE conn[c] # "shut"
    <3>1. Goto(c, "recv") /\ c2s' = [c2s EXCEPT ![c] = <<call[c]>>]
      BY <1>4, <2>3 DEF Send
    <3>2. c2s'[c] # <<>> /\ \A d \in Client : d # c => c2s'[d] = c2s[d]
      BY <3>1 DEF Inv, TypeOK
    <3> QED
      BY <2>1, <2>2, <3>1, <3>2, WaitClient
  <2>4. CASE conn[c] = "shut"
    <3>1. PICK label \in {"recv", "crashed"} : Goto(c, label)
      BY <1>4, <2>4 DEF Send
    <3>2. c2s' = c2s
      BY <1>4, <2>4 DEF Send
    <3> QED
      BY <2>1, <2>4, <3>1, <3>2, WaitClient
  <2> QED
    BY <2>3, <2>4
<1>5. CASE Recv(c)
  <2>1. /\ pc \in [Client -> {"idle", "stalled"} \cup Busy \cup Gone]
        /\ conn \in [Client -> {"none", "queued", "accepted", "open", "shut"}]
    BY DEF Inv, TypeOK
  <2>2. /\ pc'[c] = "idle" /\ UNCHANGED <<c2s, server_pc, peer, backlog>>
        /\ \A d \in Client : d # c => pc'[d] = pc[d] /\ conn'[d] = conn[d]
    BY <1>5, <2>1 DEF Recv, Goto, serverVars
  <2> QED
    BY <2>2 DEF WaitInv, Listening
<1>6. CASE Stall(c)
  <2>1. Goto(c, "stalled") /\ UNCHANGED <<conn, backlog, serverVars>> /\ c2s' = c2s
    BY <1>6 DEF Stall
  <2> QED
    BY <2>1, WaitClient
<1> QED
  BY <1>1, <1>2, <1>3, <1>4, <1>5, <1>6 DEF ClientStep

\* The server process ends, and nobody is left waiting in its queue.
LEMMA WaitServerEnds ==
  ASSUME Inv, AllWait, NEW why \in Down, ServerEnds(why)
  PROVE  AllWait'
<1>1. /\ pc' = pc /\ backlog' = <<>> /\ server_pc' = why
      /\ \A c \in Client : conn'[c] = IF conn[c] \in {"queued", "accepted", "open"}
                                      THEN "shut" ELSE conn[c]
  BY DEF ServerEnds, ConnectionsReset, clientVars
<1>2. \A c \in Client : conn'[c] \notin {"accepted", "open"}
  BY <1>1
<1> QED
  BY <1>1, <1>2 DEF AllWait, WaitInv, Down

\* The steps of the server.
LEMMA WaitServerStep ==
  ASSUME Inv, AllWait, ServerStep
  PROVE  AllWait'
<1>1. /\ pc \in [Client -> {"idle", "stalled"} \cup Busy \cup Gone]
      /\ conn \in [Client -> {"none", "queued", "accepted", "open", "shut"}]
  BY DEF Inv, TypeOK
<1>2. CASE \E why \in Down : ServerEnds(why)
  BY <1>2, WaitServerEnds
<1>3. CASE Accept
  <2> DEFINE h == Head(backlog)
  <2>1. /\ server_pc = "accept" /\ server_pc' = "handshake" /\ pc' = pc
        /\ conn' = [conn EXCEPT ![h] = "accepted"]
    BY <1>3 DEF Accept, clientVars
  <2>2. h \in Client /\ conn[h] = "queued"
    <3>1. backlog \in Seq(Client) /\ backlog # <<>>
      BY <1>3 DEF Accept, Inv, TypeOK
    <3>2. 1 \in DOMAIN backlog /\ h = backlog[1] /\ h \in Client
      BY <3>1
    <3> QED
      BY <3>2 DEF Inv, OneConnection
  <2> HIDE DEF h
  <2>3. pc[h] \notin {"send", "recv"}
    BY <2>2 DEF Inv, AllCalls, CallInv
  <2>4. conn'[h] = "accepted" /\ \A d \in Client : d # h => conn'[d] = conn[d]
    BY <1>1, <2>1, <2>2
  <2>5. \A d \in Client : WaitInv(d)'
    BY <2>1, <2>3, <2>4 DEF AllWait, WaitInv
  <2> QED
    BY <2>1, <2>5 DEF AllWait, Listening, Down
<1>4. CASE SslAccept
  <2>1. peer \in Client
    BY <1>4, PeerIsClient DEF SslAccept
  <2>2. /\ server_pc' = "header" /\ peer' = peer
        /\ pc'[peer] = "send" /\ conn'[peer] = "open"
        /\ \A d \in Client : d # peer => pc'[d] = pc[d] /\ conn'[d] = conn[d]
    BY <1>1, <1>4, <2>1 DEF SslAccept, Goto
  <2>3. \A d \in Client : WaitInv(d)'
    BY <2>2 DEF AllWait, WaitInv
  <2> QED
    BY <2>2, <2>3 DEF AllWait, Listening, Down
<1>5. CASE SslAcceptFails
  <2>1. /\ server_pc = "handshake" /\ server_pc' \in {"shutdown", "header"}
        /\ pc' = pc /\ conn' = conn /\ peer' = peer
    BY <1>5 DEF SslAcceptFails, clientVars
  <2>2. conn[peer] = "accepted"
    BY <2>1 DEF Inv, ServerInv
  <2>3. \A d \in Client : WaitInv(d)'
    BY <2>1, <2>2 DEF AllWait, WaitInv
  <2> QED
    BY <2>1, <2>3 DEF AllWait, Listening, Down
<1>6. CASE RecvHeader \/ RecvCloseServer \/ Handle \/ Respond
  <2>1. server_pc' \in {"payload", "respond", "shutdown"} /\ pc' = pc /\ conn' = conn
    BY <1>6 DEF RecvHeader, RecvCloseServer, Handle, Respond, clientVars
  <2> QED
    BY <2>1 DEF AllWait, WaitInv, Listening, Down
<1>7. CASE RespondToNobody /\ ~ServerEnds("crashed")
  <2>1. server_pc' = "shutdown" /\ pc' = pc /\ conn' = conn
    BY <1>7 DEF RespondToNobody, clientVars
  <2> QED
    BY <2>1 DEF AllWait, WaitInv, Listening, Down
<1>8. CASE Shutdown
  <2>1. peer \in Client
    BY <1>8, PeerIsClient DEF Shutdown
  <2>2. /\ server_pc' = "accept" /\ pc' = pc
        /\ conn' = conn \/ conn' = [conn EXCEPT ![peer] = "shut"]
    BY <1>8 DEF Shutdown, clientVars
  <2>3. \A d \in Client : conn'[d] = conn[d] \/ conn'[d] = "shut"
    BY <1>1, <2>1, <2>2
  <2>4. \A d \in Client : WaitInv(d)'
    BY <2>2, <2>3 DEF AllWait, WaitInv
  <2> QED
    BY <2>2, <2>4 DEF AllWait, Listening, Down
<1>9. RecvHeaderFails \/ HandleUnknown \/ RecvPayloadFails \/ ShutdownLast \/ ShutdownBroken
        => \E why \in Down : ServerEnds(why)
  BY DEF RecvHeaderFails, HandleUnknown, RecvPayloadFails, ShutdownLast, ShutdownBroken, Down
<1>10. RespondToNobody /\ ServerEnds("crashed") => \E why \in Down : ServerEnds(why)
  BY DEF Down
<1> QED
  BY <1>2, <1>3, <1>4, <1>5, <1>6, <1>7, <1>8, <1>9, <1>10 DEF ServerStep

\* AllWait is an invariant.
THEOREM ServiceWaitInvariant == Spec => []AllWait
<1>1. Init => AllWait
  BY DEF Init, AllWait, WaitInv
<1>2. Inv /\ AllWait /\ [Next]_vars => AllWait'
  <2> SUFFICES ASSUME Inv, AllWait, [Next]_vars PROVE AllWait'
    OBVIOUS
  <2>1. CASE \E c \in Client : AppStep(c)
    <3>0. PICK c \in Client : \E req : Call(c, req)
      BY <2>1, AppStepCalls
    <3>1. PICK req : Call(c, req)
      BY <3>0
    <3>2. Goto(c, "connect") /\ UNCHANGED <<conn, backlog, serverVars>> /\ c2s' = c2s
      BY <3>1 DEF Call
    <3> QED
      BY <3>2, WaitClient
  <2>2. CASE \E c \in Client : ClientStep(c) \/ Kill(c) \/ Stall(c)
    BY <2>2, WaitClientStep
  <2>3. CASE ServerStep
    BY <2>3, WaitServerStep
  <2>4. CASE RestartServer
    <3>1. server_pc' = "accept" /\ pc' = pc /\ conn' = conn
      BY <2>4 DEF RestartServer, clientVars
    <3> QED
      BY <3>1 DEF AllWait, WaitInv, Listening, Down
  <2>5. CASE Quiescent \/ UNCHANGED vars
    BY <2>5 DEF Quiescent, vars, clientVars, serverVars, AllWait, WaitInv, Listening
  <2> QED
    BY <2>1, <2>2, <2>3, <2>4, <2>5 DEF Next
<1> QED
  BY <1>1, <1>2, ServiceInvariant, PTL DEF Spec

\* However many clients there are and wherever they fail, client and server wait for each
\* other exactly if the peer has asked for an unknown service without a payload
\* (ssl_socket_server.c:53).  Otherwise a waiting client has a server that can go on, or one
\* that waits for a peer which can go on or hangs (ssl_socket.c:263).
THEOREM ServiceNeverBothBlocked == Spec => []NeverBothBlocked
<1>1. Inv /\ AllWait => NeverBothBlocked
  <2> SUFFICES ASSUME Inv, AllWait, NEW c \in Client, ClientBlocked(c)
               PROVE  /\ Listening
                      /\ ServerBlocked => /\ peer \in Client
                                          /\ pc[peer] \in Busy \cup {"stalled"}
                                          /\ ClientBlocked(peer) <=> AwaitsPayload
    BY DEF NeverBothBlocked
  <2>1. conn[c] \in {"queued", "accepted", "open"}
    BY DEF Inv, TypeOK, AllCalls, CallInv, ClientBlocked
  <2>2. conn[c] = "queued" => backlog # <<>>
    BY DEF Inv, TypeOK, OneConnection
  <2>3. conn[c] # "queued" => peer # NoClient
    BY <2>1, ServiceAssumption DEF Inv, OneConnection
  <2>4. Listening
    BY <2>1, <2>2, <2>3 DEF AllWait, Listening, Inv, OneConnection
  <2>5. ASSUME ServerBlocked
        PROVE  /\ peer \in Client /\ pc[peer] \notin Gone
               /\ server_pc \in {"handshake", "header"} \/ AwaitsPayload
    <3>1. ~(server_pc = "accept" /\ backlog = <<>>)
      BY <2>1, <2>2, <2>3 DEF Inv, OneConnection
    <3> QED
      BY <2>5, <3>1, PeerIsClient DEF ServerBlocked, AwaitsPayload
  <2>6. ASSUME ServerBlocked, server_pc = "handshake"
        PROVE  pc[peer] \in Busy \cup {"stalled"} /\ ~ClientBlocked(peer)
    <3>1. peer \in Client /\ pc[peer] \notin Gone /\ conn[peer] = "accepted"
      BY <2>5, <2>6 DEF Inv, ServerInv
    <3>2. /\ peer \notin Rejected \ Misconfigured \/ pc[peer] = "stalled"
          /\ ~(pc[peer] = "handshake" /\ peer \in Trusted)
      BY <2>6 DEF ServerBlocked, AwaitsPayload
    <3>3. pc[peer] \in {"handshake", "stalled"}
      BY <3>1, <3>2 DEF AllWait, WaitInv, Inv, TypeOK, AllCalls, CallInv, Busy
    <3>4. pc[peer] = "handshake" => peer \in Misconfigured \/ peer \in Distrusting
      BY <3>1, <3>2 DEF Trusted
    <3> QED
      BY <3>1, <3>3, <3>4 DEF ClientBlocked, Busy
  <2>7. ASSUME ServerBlocked, server_pc = "header"
        PROVE  pc[peer] \in Busy \cup {"stalled"} /\ ~ClientBlocked(peer)
    <3>1. /\ peer \in Client /\ pc[peer] \notin Gone
          /\ conn[peer] = "open" /\ c2s[peer] = <<>>
      BY <2>5, <2>7 DEF ServerBlocked, AwaitsPayload
    <3>2. pc[peer] \in {"send", "stalled"}
      BY <2>7, <3>1 DEF AllWait, WaitInv, Inv, TypeOK, AllCalls, CallInv, Busy
    <3> QED
      BY <3>2 DEF ClientBlocked, Busy
  <2>8. ASSUME ServerBlocked, AwaitsPayload
        PROVE  pc[peer] \in Busy \cup {"stalled"} /\ ClientBlocked(peer)
    <3>1. server_pc = "payload" /\ peer \in Client /\ pc[peer] \notin Gone
      BY <2>5, <2>8 DEF AwaitsPayload
    <3>2. c2s[peer] # <<>> /\ s2c[peer] = <<>> /\ conn[peer] = "open"
      BY <3>1 DEF Inv, ServerInv
    <3>3. pc[peer] = "recv"
      BY <3>1, <3>2 DEF Inv, AllData, DataInv
    <3> QED
      BY <3>2, <3>3 DEF ClientBlocked, Busy
  <2>9. AwaitsPayload => server_pc = "payload"
    BY DEF AwaitsPayload
  <2> QED
    BY <2>4, <2>5, <2>6, <2>7, <2>8, <2>9
<1> QED
  BY <1>1, ServiceInvariant, ServiceWaitInvariant, PTL
=============================================================================
