--------------------------- MODULE ExchangeProofs ---------------------------
(***************************************************************************)
(* Proofs about library calls end to end, for all messages, keys and       *)
(* metadata of any length, and any number of calls and restarts.           *)
(***************************************************************************)
EXTENDS Exchange, KeyStreamsProofs, WireFormatProofs

(* The inductive invariant.                                                *)

\* The requests that applications make.
AppRequest ==
  {req \in RequestMessage :
     /\ req.key_stream_id \in Ksid
     /\ req.service = "OPEN_CONNECT" =>
          /\ [source |-> req.source, destination |-> req.destination] \in Pair
          /\ req.qos.key_chunk_size \in ChunkSize
     /\ req.service = "GET_KEY" => req.index \in Index}

\* What the servlet may answer to a request.
AppAnswer(req) ==
  {resp \in ResponseMessage :
     /\ resp.service = req.service
     /\ req.service = "OPEN_CONNECT" => resp.qos = req.qos /\ resp.key_stream_id \in Ksid
     /\ req.service = "GET_KEY" => resp.index = req.index}

\* A payload on the connection, behind its header.
Message(code, size, payload) == qkd_header_to_stream(code, size) \o payload

\* Counters, and the calls of client_example: the first two open the stream.
ScriptInv ==
  /\ phase \in {"idle", "request", "response"}
  /\ calls \in Nat
  /\ key_type \in {0, 1}
  /\ script \in Seq(ResponseMessage)
  /\ \A i \in DOMAIN script : i <= 2 => /\ script[i].service = "OPEN_CONNECT"
                                        /\ script[i].key_stream_id \in Ksid

\* A call that was sent is one that fits its buffer.
RequestInv ==
  phase # "idle" =>
    /\ call.request \in AppRequest
    /\ ~SizeAborts(call.request)
    /\ Len(request_to_stream(call.request)) < WordMod
    /\ call.by = "example" /\ Len(script) < 2 => call.request.service = "OPEN_CONNECT"

\* The message on the connection is the one that was sent, and the server has
\* decoded what the client encoded.
WireInv ==
  /\ phase = "request" =>
       /\ Sound
       /\ wire = Message(ServiceCode[call.request.service], qkd_sizeof_request(call.request),
                         request_to_stream(call.request))
  /\ phase = "response" =>
       /\ call.decoded = call.request
       /\ call.unread = <<>>
       /\ call.answer \in AppAnswer(call.request)
       /\ Sound =>
            /\ Len(response_to_stream(call.answer)) < WordMod
            /\ wire = Message(ServiceCode[call.request.service] + 1,
                              qkd_sizeof_response(call.answer), response_to_stream(call.answer))

Inv == KmsInv /\ ScriptInv /\ RequestInv /\ WireInv /\ RoundTrip /\ OverrunIffTooLong /\ AbortsAtSource

-----------------------------------------------------------------------------
(* Messages. *)

\* The second of two parts put together is found behind the first.
LEMMA SecondPart ==
  ASSUME NEW s \in Seq(Nat), NEW t \in Seq(Nat)
  PROVE  SubSeq(s \o t, Len(s) + 1, Len(s) + Len(t)) = t
  OBVIOUS

\* The header is read as it was written, its size in 32 bits; and behind it the
\* payload, if the size is that of the payload.
LEMMA HeaderRead ==
  ASSUME NEW code \in Nat, NEW size \in Nat, NEW payload \in Seq(Nat)
  PROVE  LET message == Message(code, size, payload)
         IN /\ qkd_header_from_stream(message) = [service |-> code, payload_size |-> size % WordMod]
            /\ size % WordMod = Len(payload) => PayloadOf(message) = payload
<1> DEFINE word == qkd_uint32_to_stream(size % WordMod)
           front == Append(QKD_004_VERSION, code)
           header == front \o word
           message == header \o payload
<1>1. size % WordMod \in uint32_t
  BY WordModType, Quotient DEF uint32_t
<1>2. word \in Octets(4)
  BY <1>1, FieldsWritten
<1>3. front \in Octets(4) /\ front[4] = code
  BY DEF Octets, QKD_004_VERSION
<1>4. header \in Octets(4 + 4)
  <2> HIDE DEF word, front
  <2> QED BY <1>2, <1>3, OctetsConcat
<1>5. message = Message(code, size, payload)
  BY DEF Message, qkd_header_to_stream
<1>6. Cat(Cat(front, word), payload) = Cat(front, Cat(word, payload))
  BY <1>2, <1>3, OctetsAreSequences, CatAssoc
<1>7. message = Cat(front, Cat(word, payload))
  BY <1>6 DEF Cat
<1>8. /\ front \in Seq(Nat) /\ Len(front) = 4 /\ Cat(word, payload) \in Seq(Nat)
      /\ header \in Seq(Nat) /\ Len(header) = 8
  <2> HIDE DEF word, front, header
  <2>1. front \in Seq(Nat) /\ Len(front) = 4 /\ word \in Seq(Nat)
    BY <1>2, <1>3, OctetsAreSequences
  <2>2. header \in Seq(Nat) /\ Len(header) = 4 + 4
    BY <1>4, OctetsAreSequences
  <2>3. Cat(word, payload) \in Seq(Nat)
    BY <2>1, CatType
  <2> QED
    BY <2>1, <2>2, <2>3
<1> HIDE DEF word, front, header
<1>9. message[4] = code
  <2>1. 4 \in 1..Len(front)
    BY <1>8
  <2>2. (front \o Cat(word, payload))[4] = front[4]
    BY <1>8, <2>1, ConcatHead
  <2> QED
    BY <1>3, <1>7, <2>2 DEF Cat
<1>10. Advance(message, 4) = Cat(word, payload)
  <2>1. Advance(front \o Cat(word, payload), Len(front)) = Cat(word, payload)
    BY <1>8, ReadsWritten
  <2> QED
    BY <1>7, <1>8, <2>1 DEF Cat
<1>11. qkd_uint32_from_stream(Cat(word, payload)).value = size % WordMod
  BY <1>1, FieldsRead DEF word
<1>12. qkd_header_from_stream(message) = [service |-> code, payload_size |-> size % WordMod]
  BY <1>9, <1>10, <1>11 DEF qkd_header_from_stream
<1>13. SubSeq(message, 9, 8 + Len(payload)) = payload
  <2>1. header \in Seq(Nat)
    BY <1>8
  <2>2. SubSeq(header \o payload, Len(header) + 1, Len(header) + Len(payload)) = payload
    BY <2>1, SecondPart
  <2>3. Len(header) + 1 = 9 /\ Len(header) + Len(payload) = 8 + Len(payload)
    BY <1>8
  <2> QED
    BY <2>2, <2>3
<1> HIDE DEF message
<1>14. size % WordMod = Len(payload) => PayloadOf(message) = payload
  BY <1>12, <1>13 DEF PayloadOf, HeaderSize
<1> QED
  BY <1>5, <1>12, <1>14

\* The service of a message tells its type.
LEMMA RequestServices ==
  ASSUME NEW req \in RequestMessage
  PROVE  /\ req.service \in {"OPEN_CONNECT", "GET_KEY", "CLOSE"}
         /\ req.service = "OPEN_CONNECT" => req \in qkd_open_connect_request_t
         /\ req.service = "GET_KEY" => req \in qkd_get_key_request_t
         /\ req.service = "CLOSE" => req \in qkd_close_request_t
  BY DEF RequestMessage, qkd_open_connect_request_t, qkd_get_key_request_t, qkd_close_request_t

\* The struct of a response is that of its service.
LEMMA ResponseServices ==
  ASSUME NEW resp \in ResponseMessage
  PROVE  /\ resp.service \in {"OPEN_CONNECT", "GET_KEY", "CLOSE"}
         /\ resp.service = "OPEN_CONNECT" => resp \in qkd_open_connect_response_t
         /\ resp.service = "GET_KEY" => resp \in qkd_get_key_response_t
         /\ resp.service = "CLOSE" => resp \in qkd_close_response_t
  BY DEF ResponseMessage, qkd_open_connect_response_t, qkd_get_key_response_t,
         qkd_close_response_t

\* Payloads are octets.
LEMMA RequestOctets ==
  ASSUME NEW req \in RequestMessage
  PROVE  request_to_stream(req) \in Seq(Nat)
<1>1. CASE req.service = "OPEN_CONNECT"
  BY <1>1, RequestServices, OpenConnectRequestRead, OctetsAreSequences DEF request_to_stream
<1>2. CASE req.service = "GET_KEY"
  BY <1>2, RequestServices, GetKeyRequestRead, OctetsAreSequences DEF request_to_stream
<1>3. CASE req.service = "CLOSE"
  BY <1>3, RequestServices, CloseRequestRead, OctetsAreSequences DEF request_to_stream
<1> QED
  BY <1>1, <1>2, <1>3, RequestServices

\* The same of responses.
LEMMA ResponseOctets ==
  ASSUME NEW resp \in ResponseMessage
  PROVE  response_to_stream(resp) \in Seq(Nat)
<1>1. CASE resp.service = "OPEN_CONNECT"
  BY <1>1, ResponseServices, OpenConnectResponseRead, OctetsAreSequences DEF response_to_stream
<1>2. CASE resp.service = "GET_KEY"
  BY <1>2, ResponseServices, GetKeyResponseRead, OctetsAreSequences DEF response_to_stream
<1>3. CASE resp.service = "CLOSE"
  BY <1>3, ResponseServices, CloseResponseRead, OctetsAreSequences DEF response_to_stream
<1> QED
  BY <1>1, <1>2, <1>3, ResponseServices

\* A request that was sent is what the servlet reads.
LEMMA RequestArrives ==
  ASSUME Inv, phase = "request"
  PROVE  LET header == qkd_header_from_stream(wire)
         IN /\ header.service = ServiceCode[call.request.service]
            /\ request_from_stream(header.service, PayloadOf(wire))
                 = [value |-> call.request, rest |-> <<>>]
<1> DEFINE req == call.request
           payload == request_to_stream(req)
           size == qkd_sizeof_request(req)
           code == ServiceCode[req.service]
<1>1. req \in RequestMessage /\ Len(payload) < WordMod /\ wire = Message(code, size, payload)
  BY DEF Inv, RequestInv, WireInv, AppRequest
<1>2. size \in Nat /\ size % WordMod = Len(payload)
  BY <1>1, RequestsFit DEF Fits
<1>3. payload \in Seq(Nat)
  BY <1>1, RequestOctets
<1>4. code \in Nat
  BY <1>1, RequestServices DEF ServiceCode
<1>5. request_from_stream(code, payload) = [value |-> req, rest |-> <<>>]
  BY <1>1, RequestsAreRead
<1> HIDE DEF req, payload, size, code
<1>6. /\ qkd_header_from_stream(wire).service = code
      /\ PayloadOf(wire) = payload
  BY <1>1, <1>2, <1>3, <1>4, HeaderRead
<1> QED
  BY <1>5, <1>6 DEF req, code

\* A response that was sent is what the client reads.
LEMMA ResponseArrives ==
  ASSUME Inv, phase = "response", Sound
  PROVE  response_from_stream(call.request.service, PayloadOf(wire))
           = [value |-> call.answer, rest |-> <<>>]
<1> DEFINE resp == call.answer
           payload == response_to_stream(resp)
           size == qkd_sizeof_response(resp)
           code == ServiceCode[call.request.service] + 1
<1>1. /\ resp \in ResponseMessage /\ Len(payload) < WordMod /\ wire = Message(code, size, payload)
      /\ call.request \in RequestMessage /\ resp.service = call.request.service
  BY DEF Inv, RequestInv, WireInv, AppRequest, AppAnswer
<1>2. size \in Nat /\ size % WordMod = Len(payload)
  BY <1>1, ResponsesFit DEF Fits
<1>3. payload \in Seq(Nat)
  BY <1>1, ResponseOctets
<1>4. code \in Nat
  BY <1>1, RequestServices DEF ServiceCode
<1>5. response_from_stream(resp.service, payload) = [value |-> resp, rest |-> <<>>]
  BY <1>1, ResponsesAreRead
<1> HIDE DEF resp, payload, size, code
<1>6. PayloadOf(wire) = payload
  BY <1>1, <1>2, <1>3, <1>4, HeaderRead
<1> QED
  BY <1>1, <1>5, <1>6 DEF resp

-----------------------------------------------------------------------------
(* A call is made. *)

\* What may go wrong when a message is written: abort() before anything else, then
\* the overrun.
LEMMA Mishaps ==
  ASSUME NEW who, NEW msg, NEW payload, NEW size, Fits(payload, size),
         SizeAborts(msg) \in BOOLEAN
  PROVE  LET mishap == Mishap(who, msg, payload, size)
         IN /\ mishap = {} => ~SizeAborts(msg) /\ Len(payload) < WordMod
            /\ <<who, "abort">> \in mishap <=> SizeAborts(msg)
            /\ <<who, "overrun">> \in mishap <=> ~SizeAborts(msg) /\ Len(payload) >= WordMod
            /\ mishap \subseteq {<<who, "abort">>, <<who, "overrun">>, <<who, "oversize">>}
<1> DEFINE abort == {<<who, "abort">>}
           overrun == {<<who, "overrun">>}
           oversize == {<<who, "oversize">>}
<1>1. Len(payload) \in Nat /\ WordMod \in Nat
  BY WordModType DEF Fits
<1>2. CASE SizeAborts(msg)
  <2>1. Mishap(who, msg, payload, size) = abort
    BY <1>2 DEF Mishap
  <2> QED
    BY <1>2, <2>1
<1>3. CASE ~SizeAborts(msg) /\ Len(payload) >= WordMod
  <2>1. Mishap(who, msg, payload, size) = overrun
    BY <1>3 DEF Mishap, Fits
  <2> QED
    BY <1>1, <1>3, <2>1
<1>4. CASE ~SizeAborts(msg) /\ Len(payload) < WordMod
  <2>1. Mishap(who, msg, payload, size) \in {oversize, {}}
    BY <1>1, <1>4 DEF Mishap, Fits
  <2> QED
    BY <1>1, <1>4, <2>1
<1> QED
  BY <1>1, <1>2, <1>3, <1>4

\* A step that leaves the server alone.
LEMMA KmsSame ==
  ASSUME KmsInv, UNCHANGED kmsVars
  PROVE  KmsInv'
  BY DEF KmsInv, kmsVars, KmsTypeOK, OneStreamPerPair, MintedOnce, ListIsThisRun, RunsSoFar

\* A call is sent, or goes wrong before.
LEMMA CallSafe ==
  ASSUME Inv, NEW by, NEW file, NEW req \in AppRequest, LibraryCall(by, file, req),
         by = "example" /\ Len(script) < 2 => req.service = "OPEN_CONNECT"
  PROVE  Inv'
<1> DEFINE payload == request_to_stream(req)
           size == qkd_sizeof_request(req)
           mishap == Mishap("client", req, payload, size)
<1>1. /\ phase = "idle" /\ Sound
      /\ calls' = calls + 1
      /\ call' = Called(by, file, req)
      /\ ended' = ended \cup mishap
      /\ UNCHANGED <<returned, key_type, script, kmsVars>>
      /\ mishap = {} => /\ phase' = "request"
                        /\ wire' = Message(ServiceCode[req.service], size, payload)
      /\ mishap # {} => phase' = phase
  BY DEF LibraryCall, Message
<1>2. req \in RequestMessage
  BY DEF AppRequest
<1>3. Fits(payload, size)
  BY <1>2, RequestsFit
<1>4. SizeAborts(req) \in BOOLEAN
  BY DEF SizeAborts
<1>5. /\ mishap = {} => ~SizeAborts(req) /\ Len(payload) < WordMod
      /\ <<"client", "overrun">> \in mishap <=> ~SizeAborts(req) /\ Len(payload) >= WordMod
      /\ mishap \subseteq {<<"client", "abort">>, <<"client", "overrun">>, <<"client", "oversize">>}
  BY <1>3, <1>4, Mishaps
<1>6. call'.request = req /\ call'.by = by /\ "request" \in DOMAIN call'
  BY <1>1 DEF Called
<1> HIDE DEF mishap, payload, size
<1>7. KmsInv'
  BY <1>1, KmsSame DEF Inv
<1>8. ScriptInv'
  BY <1>1 DEF Inv, ScriptInv
<1>9. RequestInv'
  BY <1>1, <1>5, <1>6 DEF RequestInv, payload
<1>10. WireInv'
  <2>1. phase' = "request" =>
          /\ Sound'
          /\ wire' = Message(ServiceCode[req.service], size, payload)
    BY <1>1 DEF Sound
  <2> QED
    BY <1>1, <1>6, <2>1 DEF WireInv, payload, size
<1>11. RoundTrip'
  BY <1>1 DEF Inv, RoundTrip, Exchanged
<1>12. AbortsAtSource'
  <2>1. <<"server", "abort">> \notin mishap
    BY <1>5
  <2> QED
    BY <1>1, <2>1 DEF Inv, AbortsAtSource, Exchanged
<1>13. OverrunIffTooLong'
  <2>1. <<"client", "overrun">> \in ended' <=> <<"client", "overrun">> \in mishap
    BY <1>1 DEF Sound
  <2>2. <<"server", "overrun">> \notin ended'
    BY <1>1, <1>5 DEF Sound
  <2>3. phase' = "idle" <=> mishap # {}
    BY <1>1
  <2>4. phase' # "response"
    BY <1>1
  <2>5. <<"client", "overrun">> \in ended'
          <=> phase' = "idle" /\ ~SizeAborts(req) /\ Len(payload) >= WordMod
    BY <1>5, <2>1, <2>3
  <2> QED
    BY <1>6, <2>2, <2>4, <2>5 DEF OverrunIffTooLong, payload
<1> QED
  BY <1>7, <1>8, <1>9, <1>10, <1>11, <1>12, <1>13 DEF Inv

-----------------------------------------------------------------------------
(* A call is served. *)

\* The first two octets of any metadata are a type and a role.
LEMMA KeyInfoType ==
  ASSUME NEW octets
  PROVE  KeyInfoOf(octets) \in KeyInfo
<1>1. KeyInfoOf(octets).key_type \in KeyTypes
  BY DEF KeyInfoOf, KeyTypes
<1> DEFINE role == CASE octets[2] = 16 -> "sender"
                     [] octets[2] = 17 -> "receiver"
                     [] octets[2] = 1 -> "error"
                     [] OTHER -> "default"
<1>2. role \in KeyRoles
  BY DEF KeyRoles
<1> QED
  BY <1>1, <1>2, ExchangeAssumption DEF KeyInfoOf

\* What the servlet has read is a request that the handlers of KeyStreams expect.
LEMMA HandlerArgumentsType ==
  ASSUME NEW req \in AppRequest, NEW key_info
  PROVE  LET args == HandlerArguments(req, key_info)
         IN /\ args \in Request
            /\ args.service = req.service
            /\ args.service = "GET_KEY" => args.index = req.index
<1>1. req \in RequestMessage /\ req.key_stream_id \in Ksid
  BY DEF AppRequest
<1>2. CASE req.service = "OPEN_CONNECT"
  <2>1. /\ [source |-> req.source, destination |-> req.destination] \in Pair
        /\ [key_chunk_size |-> req.qos.key_chunk_size] \in Qos
    BY <1>2 DEF AppRequest, Qos
  <2>2. HandlerArguments(req, key_info) =
          [service |-> "OPEN_CONNECT", key_stream_id |-> req.key_stream_id,
           pair |-> [source |-> req.source, destination |-> req.destination],
           qos |-> [key_chunk_size |-> req.qos.key_chunk_size]]
    BY <1>2 DEF HandlerArguments
  <2>3. HandlerArguments(req, key_info) \in OpenConnectRequest
    BY <1>1, <2>1, <2>2 DEF OpenConnectRequest
  <2> QED
    BY <1>2, <2>2, <2>3 DEF Request
<1>3. CASE req.service = "GET_KEY"
  <2>1. HandlerArguments(req, key_info) =
          [service |-> "GET_KEY", key_stream_id |-> req.key_stream_id, index |-> req.index,
           metadata |-> KeyInfoOf(key_info)]
    BY <1>3 DEF HandlerArguments
  <2>2. req.index \in Index /\ KeyInfoOf(key_info) \in KeyInfo
    BY <1>3, KeyInfoType DEF AppRequest
  <2>3. HandlerArguments(req, key_info) \in GetKeyRequest
    BY <1>1, <2>1, <2>2 DEF GetKeyRequest
  <2> QED
    BY <1>3, <2>1, <2>3 DEF Request
<1>4. CASE req.service = "CLOSE"
  <2>1. HandlerArguments(req, key_info) = req
    BY <1>4 DEF HandlerArguments
  <2>2. req \in CloseRequest
    BY <1>1, <1>4, RequestServices DEF CloseRequest, qkd_close_request_t
  <2> QED
    BY <1>4, <2>1, <2>2 DEF Request
<1> QED
  BY <1>1, <1>2, <1>3, <1>4, RequestServices

\* A handler answers the service and the index that it was asked for.
LEMMA HandlerAnswers ==
  ASSUME KmsInv, NEW req \in Request, HandleRequest(req)
  PROVE  /\ response' \in Response
         /\ response'.service = req.service
         /\ req.service = "GET_KEY" => response'.index = req.index
<1>1. response' \in Response \cup {NoResponse}
  BY HandleType DEF KmsInv, KmsTypeOK
<1>2. CASE qkd_open_connect(req)
  <2>1. req.service = "OPEN_CONNECT" /\ \E ksid : response' = OpenConnectAnswer(req, ksid)
    BY <1>2 DEF qkd_open_connect, OpenNamed, OpenJoined, OpenCreated, NewStream
  <2> QED
    BY <1>1, <2>1 DEF OpenConnectAnswer, NoResponse
<1>3. CASE qkd_get_key(req)
  <2>1. /\ req.service = "GET_KEY"
        /\ \E status, key, metadata : response' = GetKeyAnswer(req, status, key, metadata)
    BY <1>3 DEF qkd_get_key, GetKeyUnknown, GetKeyServed
  <2> QED
    BY <1>1, <2>1 DEF GetKeyAnswer, NoResponse
<1>4. CASE qkd_close(req)
  BY <1>1, <1>4 DEF qkd_close, NoResponse
<1> QED
  BY <1>2, <1>3, <1>4 DEF HandleRequest

\* A key is octets, as many as its size.
LEMMA OctetsType ==
  ASSUME NEW key \in Key
  PROVE  OctetsOf(key) \in qkd_bytes_t /\ Len(OctetsOf(key)) = key.size
<1>1. key.size \in Nat /\ key.size < WordMod
  <2>1. key.size \in ChunkSize \/ key.size = 0
    BY DEF Key, EmptyKey
  <2>2. ChunkSize \subseteq uint32_t
    BY ExchangeAssumption
  <2>3. \A n \in uint32_t : n \in Nat /\ n < WordMod
    BY WordModType DEF uint32_t
  <2>4. 0 \in uint32_t
    BY WordModType DEF uint32_t
  <2>5. key.size \in uint32_t
    BY <2>1, <2>2, <2>4
  <2> QED
    BY <2>3, <2>5
<1>2. \A i \in 1..key.size : Rand(key.seed, i) % 256 \in 0..255
  <2> SUFFICES ASSUME NEW i \in 1..key.size PROVE Rand(key.seed, i) % 256 \in 0..255
    OBVIOUS
  <2>1. Rand(key.seed, i) \in Nat
    BY OctetsAssumption
  <2> QED
    BY <2>1
<1>3. \A octet \in 0..255 : octet \div 2 \in 0..255
  OBVIOUS
<1>4. \A i, octet : octet \in 0..255 => ReceiverOctet(i, octet) \in Nat
  BY <1>3, OctetsAssumption DEF ReceiverOctet
<1>5. \A i \in 1..key.size :
        LET octet == Rand(key.seed, i) % 256
        IN (IF key.form = "half" THEN ReceiverOctet(i - 1, octet) ELSE octet) \in Nat
  BY <1>2, <1>4
<1>6. OctetsOf(key) \in [1..key.size -> Nat]
  BY <1>5 DEF OctetsOf
<1> QED
  BY <1>1, <1>6 DEF qkd_bytes_t

\* What the servlet answers has the types of the response structs.
LEMMA AnswerType ==
  ASSUME NEW req \in AppRequest, NEW resp \in Response, resp.service = req.service,
         req.service = "GET_KEY" => resp.index = req.index
  PROVE  ResponseStruct(req, resp) \in AppAnswer(req)
<1> DEFINE answer == ResponseStruct(req, resp)
<1>1. req \in RequestMessage
  BY DEF AppRequest
<1>2. Successful \in uint32_t /\ GkPeerNotConnected \in uint32_t
  BY WordModType DEF Successful, GkPeerNotConnected, uint32_t
<1>3. CASE req.service = "OPEN_CONNECT"
  <2>1. resp \in OpenConnectResponse
    BY <1>3 DEF Response, OpenConnectResponse, GetKeyResponse, CloseResponse
  <2>2. answer = [service |-> "OPEN_CONNECT", status |-> resp.status, qos |-> req.qos,
                  key_stream_id |-> resp.key_stream_id]
    BY <1>3, <2>1 DEF ResponseStruct, OpenConnectResponse
  <2>3. /\ resp.status \in uint32_t
        /\ req.qos \in qkd_qos_t
        /\ resp.key_stream_id \in Ksid /\ resp.key_stream_id \in uuid_t
    BY <1>1, <1>2, <1>3, <2>1, RequestServices, ExchangeAssumption
    DEF OpenConnectResponse, qkd_open_connect_request_t
  <2>4. answer \in qkd_open_connect_response_t
    BY <2>2, <2>3 DEF qkd_open_connect_response_t
  <2> QED
    BY <1>3, <2>2, <2>3, <2>4 DEF AppAnswer, ResponseMessage
<1>4. CASE req.service = "GET_KEY"
  <2>1. resp \in GetKeyResponse
    BY <1>4 DEF Response, OpenConnectResponse, GetKeyResponse, CloseResponse
  <2> DEFINE metadata == IF resp.metadata = DeviceInfo THEN DeviceInfoOctets ELSE req.metadata
  <2>2. answer = [service |-> "GET_KEY", status |-> resp.status, index |-> resp.index,
                  key_buffer |-> OctetsOf(resp.key_buffer), metadata |-> metadata]
    BY <1>4, <2>1 DEF ResponseStruct, GetKeyResponse
  <2>3. resp.status \in uint32_t /\ resp.index \in uint32_t
    BY <1>2, <2>1, ExchangeAssumption DEF GetKeyResponse
  <2>4. OctetsOf(resp.key_buffer) \in qkd_bytes_t
    BY <2>1, OctetsType DEF GetKeyResponse
  <2>5. metadata \in qkd_bytes_t
    BY <1>1, <1>4, RequestServices, ExchangeAssumption DEF qkd_get_key_request_t
  <2>6. answer \in qkd_get_key_response_t
    <3> HIDE DEF metadata
    <3> QED BY <2>2, <2>3, <2>4, <2>5 DEF qkd_get_key_response_t
  <2> HIDE DEF metadata
  <2> QED
    BY <1>4, <2>2, <2>6 DEF AppAnswer, ResponseMessage
<1>5. CASE req.service = "CLOSE"
  <2>1. resp \in CloseResponse
    BY <1>5 DEF Response, OpenConnectResponse, GetKeyResponse, CloseResponse
  <2>2. answer = resp
    BY <1>5 DEF ResponseStruct
  <2>3. resp \in qkd_close_response_t
    BY <1>2, <2>1 DEF CloseResponse, qkd_close_response_t
  <2> QED
    BY <1>5, <2>1, <2>2, <2>3 DEF AppAnswer, ResponseMessage, CloseResponse
<1> QED
  BY <1>1, <1>3, <1>4, <1>5, RequestServices

\* An answer aborts the server only if the request had aborted the client.
LEMMA AnswerSizeAborts ==
  ASSUME NEW req \in AppRequest, ~SizeAborts(req), NEW answer \in AppAnswer(req)
  PROVE  ~SizeAborts(answer)
  BY DEF AppAnswer, SizeAborts

\* The step of the servlet, once it is known what it reads.
ServeStep(req, answer, created) ==
  LET payload == response_to_stream(answer)
      size == qkd_sizeof_response(answer)
      mishap == Mishap("server", answer, payload, size)
      memory == ServletMemory(call.n, req, response', created)
  IN /\ \E key_info \in KeyInfoOctets(req) : HandleRequest(HandlerArguments(req, key_info))
     /\ call' = Served([value |-> req, rest |-> <<>>], answer)
     /\ heap' = HeapAfter("server", memory)
     /\ ended' = ended \cup mishap \cup BadFree("server", memory)
     /\ phase' = "response"
     /\ mishap = {} => wire' = Message(ServiceCode[req.service] + 1, size, payload)
     /\ UNCHANGED <<calls, returned, files, key_type, script>>

\* The servlet decodes the request the application made, so that its step depends on
\* the request, not on octets.
LEMMA ServeReads ==
  ASSUME Inv, Serve
  PROVE  /\ phase = "request" /\ Sound
         /\ ServeStep(call.request, ResponseStruct(call.request, response'),
                      {m.key_stream_id : m \in minted' \ minted})
<1> DEFINE header == qkd_header_from_stream(wire)
           read == request_from_stream(header.service, PayloadOf(wire))
           answer == ResponseStruct(read.value, response')
           size == qkd_sizeof_response(answer)
           payload == response_to_stream(answer)
           mishap == Mishap("server", answer, payload, size)
           created == {m.key_stream_id : m \in minted' \ minted}
           memory == ServletMemory(call.n, read.value, response', created)
<1>1. phase = "request" /\ Sound
  BY DEF Serve
<1>2. /\ header.service = ServiceCode[call.request.service]
      /\ read = [value |-> call.request, rest |-> <<>>]
  BY <1>1, RequestArrives
<1>3. /\ \E key_info \in KeyInfoOctets(read.value) :
           HandleRequest(HandlerArguments(read.value, key_info))
      /\ call' = Served(read, answer)
      /\ heap' = HeapAfter("server", memory)
      /\ ended' = ended \cup mishap \cup BadFree("server", memory)
      /\ phase' = "response"
      /\ wire' = IF mishap = {}
                 THEN qkd_header_to_stream(header.service + 1, size) \o payload ELSE <<>>
      /\ UNCHANGED <<calls, returned, files, key_type, script>>
  BY DEF Serve
<1>4. mishap = {} => wire' = Message(header.service + 1, size, payload)
  <2> HIDE DEF mishap, header, size, payload
  <2> QED
    BY <1>3 DEF Message
<1> HIDE DEF created, read, header
<1>5. read.value = call.request
  BY <1>2
<1> QED
  BY <1>1, <1>2, <1>3, <1>4, <1>5, Zenon DEF ServeStep, created

\* The request is read, handled and answered, or the answer goes wrong.
LEMMA ServeSafe ==
  ASSUME Inv, Serve
  PROVE  Inv'
<1> DEFINE req == call.request
           read == [value |-> req, rest |-> <<>>]
           answer == ResponseStruct(req, response')
           size == qkd_sizeof_response(answer)
           payload == response_to_stream(answer)
           mishap == Mishap("server", answer, payload, size)
           created == {m.key_stream_id : m \in minted' \ minted}
           badfree == BadFree("server", ServletMemory(call.n, req, response', created))
<1>1. phase = "request" /\ Sound
  BY ServeReads
<1>2. /\ \E key_info \in KeyInfoOctets(req) : HandleRequest(HandlerArguments(req, key_info))
      /\ call' = Served(read, answer)
      /\ ended' = ended \cup mishap \cup badfree
      /\ phase' = "response"
      /\ mishap = {} => wire' = Message(ServiceCode[req.service] + 1, size, payload)
      /\ UNCHANGED <<calls, returned, key_type, script>>
  BY ServeReads DEF ServeStep
<1>3. req \in AppRequest /\ ~SizeAborts(req) /\ Len(request_to_stream(req)) < WordMod
  BY <1>1 DEF Inv, RequestInv
<1>4. PICK key_info \in KeyInfoOctets(req) : HandleRequest(HandlerArguments(req, key_info))
  BY <1>2
<1>5. /\ HandlerArguments(req, key_info) \in Request
      /\ HandlerArguments(req, key_info).service = req.service
      /\ req.service = "GET_KEY" => HandlerArguments(req, key_info).index = req.index
  BY <1>3, HandlerArgumentsType
<1>6. KmsInv'
  BY <1>4, <1>5, HandleSafe DEF Inv
<1>7. /\ response' \in Response
      /\ response'.service = req.service
      /\ req.service = "GET_KEY" => response'.index = req.index
  BY <1>4, <1>5, HandlerAnswers DEF Inv
<1>8. answer \in AppAnswer(req)
  BY <1>3, <1>7, AnswerType
<1>9. answer \in ResponseMessage
  BY <1>8 DEF AppAnswer
<1>10. ~SizeAborts(answer) /\ SizeAborts(answer) \in BOOLEAN
  <2>1. ~SizeAborts(answer)
    BY <1>3, <1>8, AnswerSizeAborts
  <2>2. SizeAborts(answer) \in BOOLEAN
    BY DEF SizeAborts
  <2> QED
    BY <2>1, <2>2
<1>11. Fits(payload, size)
  BY <1>9, ResponsesFit
<1>12. /\ mishap = {} => Len(payload) < WordMod
       /\ <<"server", "abort">> \notin mishap
       /\ <<"server", "overrun">> \in mishap <=> Len(payload) >= WordMod
       /\ mishap \subseteq {<<"server", "abort">>, <<"server", "overrun">>, <<"server", "oversize">>}
  BY <1>10, <1>11, Mishaps
<1>13. badfree \subseteq {<<"server", "bad free">>}
  BY DEF BadFree
<1>14. /\ call'.request = req /\ call'.by = call.by /\ call'.decoded = req
       /\ call'.unread = <<>> /\ call'.answer = answer
  BY <1>2 DEF Served
<1> HIDE DEF req, answer, size, payload, mishap, badfree
<1>15. ScriptInv'
  BY <1>2 DEF Inv, ScriptInv
<1>16. RequestInv'
  BY <1>1, <1>2, <1>3, <1>14 DEF Inv, RequestInv, req
<1>17. WireInv'
  <2>1. Sound' => mishap = {}
    BY <1>2, <1>12 DEF Sound
  <2>2. Sound' => Len(payload) < WordMod
                    /\ wire' = Message(ServiceCode[req.service] + 1, size, payload)
    BY <1>2, <1>12, <2>1
  <2> QED
    BY <1>2, <1>8, <1>14, <2>2 DEF WireInv, payload, size
<1>18. RoundTrip'
  BY <1>2 DEF Inv, RoundTrip, Exchanged
<1>19. AbortsAtSource'
  <2>1. <<"server", "abort">> \notin ended'
    BY <1>1, <1>2, <1>12, <1>13 DEF Sound
  <2> QED
    BY <1>2, <2>1 DEF Inv, AbortsAtSource, Exchanged
<1>20. OverrunIffTooLong'
  <2>1. <<"client", "overrun">> \notin ended'
    BY <1>1, <1>2, <1>12, <1>13 DEF Sound
  <2>2. <<"server", "overrun">> \in ended' <=> Len(payload) >= WordMod
    BY <1>1, <1>2, <1>12, <1>13 DEF Sound
  <2> QED
    BY <1>2, <1>14, <2>1, <2>2 DEF OverrunIffTooLong, payload
<1> QED
  BY <1>6, <1>15, <1>16, <1>17, <1>18, <1>19, <1>20 DEF Inv

-----------------------------------------------------------------------------
(* A call returns. *)

\* The step of the client, once it is known what it reads.
LEMMA ReturnReads ==
  ASSUME Inv, Return
  PROVE  LET memory == ClientMemory(call.n, call.request, call.by)
         IN /\ phase = "response" /\ Sound
            /\ returned' = returned \cup {Returned([value |-> call.answer, rest |-> <<>>])}
            /\ heap' = HeapAfter("client", memory)
            /\ \E overrun \in {{<<"client", "sindex">>}, {}} :
                 ended' = ended \cup BadFree("client", memory) \cup overrun
            /\ files' = IF call.request.service = "GET_KEY"
                        THEN [files EXCEPT ![call.file] =
                                Append(@, write_key_to_file_bit_format(call.answer))]
                        ELSE files
            /\ script' = IF call.by = "example" THEN Append(script, call.answer) ELSE script
            /\ phase' = "idle"
            /\ UNCHANGED <<call, calls, key_type, kmsVars>>
<1>1. phase = "response" /\ Sound
  BY DEF Return
<1>2. response_from_stream(call.request.service, PayloadOf(wire))
        = [value |-> call.answer, rest |-> <<>>]
  BY <1>1, ResponseArrives
<1> QED
  BY <1>2 DEF Return

\* The answer is read, and kept by client_example if the call was its own.
LEMMA ReturnSafe ==
  ASSUME Inv, Return
  PROVE  Inv'
<1> DEFINE req == call.request
           read == [value |-> call.answer, rest |-> <<>>]
<1>1. phase = "response" /\ Sound
  BY ReturnReads
<1>2. /\ returned' = returned \cup {Returned(read)}
      /\ \E overrun \in {{<<"client", "sindex">>}, {}} :
           ended' = ended \cup BadFree("client", ClientMemory(call.n, req, call.by)) \cup overrun
      /\ script' = IF call.by = "example" THEN Append(script, call.answer) ELSE script
      /\ phase' = "idle"
      /\ UNCHANGED <<call, calls, key_type, kmsVars>>
  BY ReturnReads
<1>3. /\ req \in AppRequest /\ ~SizeAborts(req) /\ Len(request_to_stream(req)) < WordMod
      /\ call.by = "example" /\ Len(script) < 2 => req.service = "OPEN_CONNECT"
  BY <1>1 DEF Inv, RequestInv
<1>4. /\ call.decoded = req /\ call.unread = <<>> /\ call.answer \in AppAnswer(req)
  BY <1>1 DEF Inv, WireInv
<1>5. /\ ended \subseteq {<<"client", "abort">>}
      /\ ended' \subseteq {<<"client", "abort">>, <<"client", "bad free">>, <<"client", "sindex">>}
  BY <1>1, <1>2 DEF Sound, BadFree
<1>6. KmsInv'
  BY <1>2, KmsSame DEF Inv
<1>7. ScriptInv'
  <2>1. call.answer \in ResponseMessage
    BY <1>4 DEF AppAnswer
  <2>2. req.service = "OPEN_CONNECT" =>
          call.answer.service = "OPEN_CONNECT" /\ call.answer.key_stream_id \in Ksid
    BY <1>4 DEF AppAnswer
  <2>3. script \in Seq(ResponseMessage)
    BY DEF Inv, ScriptInv
  <2>4. script' \in Seq(ResponseMessage)
    BY <1>2, <2>1, <2>3
  <2>5. ASSUME NEW i \in DOMAIN script', i <= 2
        PROVE  script'[i].service = "OPEN_CONNECT" /\ script'[i].key_stream_id \in Ksid
    <3>1. CASE i \in DOMAIN script
      <4>1. script'[i] = script[i]
        BY <1>2, <2>1, <2>3, <3>1
      <4> QED
        BY <2>5, <3>1, <4>1 DEF Inv, ScriptInv
    <3>2. CASE i \notin DOMAIN script
      <4>1. call.by = "example" /\ i = Len(script) + 1 /\ script'[i] = call.answer
        BY <1>2, <2>1, <2>3, <3>2
      <4>2. Len(script) < 2
        BY <2>3, <2>5, <4>1
      <4> QED
        BY <1>3, <2>2, <4>1, <4>2
    <3> QED
      BY <3>1, <3>2
  <2> QED
    BY <1>2, <2>4, <2>5 DEF Inv, ScriptInv
<1>8. RequestInv' /\ WireInv'
  BY <1>2 DEF RequestInv, WireInv
<1>9. \A r \in Exchanged' : r \in Exchanged \/ r = Returned(read)
  BY <1>2 DEF Exchanged
<1>10. RoundTrip'
  <2>1. LET r == Returned(read)
        IN /\ r.decoded = r.request /\ r.unread = <<>>
           /\ r.response = r.answer /\ r.unread_response = <<>>
    BY <1>4 DEF Returned
  <2> QED
    BY <1>9, <2>1 DEF Inv, RoundTrip
<1>11. AbortsAtSource'
  <2>1. req.service = "OPEN_CONNECT" => Len(call.answer.qos.metadata_mimetype) < MimetypeMax
    <3> SUFFICES ASSUME req.service = "OPEN_CONNECT"
                 PROVE  Len(call.answer.qos.metadata_mimetype) < MimetypeMax
      OBVIOUS
    <3>1. call.answer.qos = req.qos
      BY <1>4 DEF AppAnswer
    <3>2. req.qos.metadata_mimetype \in Seq(Nat)
      BY <1>3, RequestServices DEF AppRequest, qkd_open_connect_request_t, qkd_qos_t, qkd_str_t
    <3>3. ~(Len(req.qos.metadata_mimetype) + 1 > MimetypeMax)
      BY <1>3 DEF SizeAborts, qkd_sizeof_str
    <3> QED
      BY <3>1, <3>2, <3>3, WireAssumption
  <2>2. Returned(read).request = req /\ Returned(read).response = call.answer
    BY DEF Returned
  <2>3. <<"server", "abort">> \notin ended'
    BY <1>5
  <2> QED
    BY <1>9, <2>1, <2>2, <2>3 DEF Inv, AbortsAtSource
<1>12. OverrunIffTooLong'
  <2>1. <<"client", "overrun">> \notin ended' /\ <<"server", "overrun">> \notin ended'
    BY <1>5
  <2>2. ~(Len(request_to_stream(req)) >= WordMod)
    <3>1. Len(request_to_stream(req)) \in Nat
      BY <1>3, RequestOctets DEF AppRequest
    <3> QED
      BY <1>3, <3>1, WordModType
  <2> QED
    BY <1>2, <2>1, <2>2 DEF OverrunIffTooLong
<1> QED
  BY <1>6, <1>7, <1>8, <1>10, <1>11, <1>12 DEF Inv

-----------------------------------------------------------------------------
(* Applications, and the theorems. *)

\* The requests of applications are of the types that AppRequest describes.
LEMMA OpenRequestType ==
  ASSUME NEW pair \in Pair, NEW qos \in qkd_qos_t, qos.key_chunk_size \in ChunkSize,
         NEW ksid \in Ksid
  PROVE  OpenRequest(pair, qos, ksid) \in AppRequest
<1>1. pair \in [source : qkd_str_t, destination : qkd_str_t] /\ ksid \in uuid_t
  BY ExchangeAssumption
<1>2. [source |-> pair.source, destination |-> pair.destination] = pair
  BY <1>1
<1>3. OpenRequest(pair, qos, ksid) \in qkd_open_connect_request_t
  BY <1>1 DEF OpenRequest, qkd_open_connect_request_t
<1> QED
  BY <1>2, <1>3 DEF AppRequest, RequestMessage, OpenRequest

\* What applications and the example pass to qkd_get_key is a request.
LEMMA KeyRequestType ==
  ASSUME NEW ksid \in Ksid, NEW index \in Index, NEW metadata \in qkd_bytes_t
  PROVE  KeyRequest(ksid, index, metadata) \in AppRequest
<1>1. ksid \in uuid_t /\ index \in uint32_t
  BY ExchangeAssumption
<1>2. KeyRequest(ksid, index, metadata) \in qkd_get_key_request_t
  BY <1>1 DEF KeyRequest, qkd_get_key_request_t
<1> QED
  BY <1>2 DEF AppRequest, RequestMessage, KeyRequest

\* What they pass to qkd_close is one.
LEMMA CloseRequestType ==
  ASSUME NEW ksid \in Ksid
  PROVE  CloseCallRequest(ksid) \in AppRequest
<1>1. ksid \in uuid_t
  BY ExchangeAssumption
<1>2. CloseCallRequest(ksid) \in qkd_close_request_t
  BY <1>1 DEF CloseCallRequest, qkd_close_request_t
<1> QED
  BY <1>2 DEF AppRequest, RequestMessage, CloseCallRequest

\* The QoS of client_example.c and client_api.c.
LEMMA JsonQosType ==
  ASSUME NEW chunk \in ChunkSize
  PROVE  JsonQos(chunk) \in qkd_qos_t /\ JsonQos(chunk).key_chunk_size = chunk
<1>1. chunk \in uint32_t /\ 32 \in uint32_t /\ JsonMimetype \in qkd_str_t
  BY ExchangeAssumption
<1>2. 0 \in uint32_t
  BY WordModType DEF uint32_t
<1> QED
  BY <1>1, <1>2 DEF JsonQos, qkd_qos_t

\* A type and a role are metadata.
LEMMA TwoOctets ==
  ASSUME NEW a \in Nat, NEW b \in Nat
  PROVE  <<a, b>> \in qkd_bytes_t
<1>1. <<a, b>> \in Seq(Nat) /\ Len(<<a, b>>) = 2
  OBVIOUS
<1>2. 2 < WordMod
  BY WordModType
<1> QED
  BY <1>1, <1>2 DEF qkd_bytes_t

\* The ids that applications know are ids.
LEMMA KnownKsidType ==
  ASSUME KmsInv
  PROVE  KnownKsid \subseteq Ksid
  BY DEF KmsInv, KmsTypeOK, KnownKsid, MintedIds, Minted, Ksid

\* Any application but client_example makes a call.
LEMMA AppCallSafe ==
  ASSUME Inv, NEW by, by # "example", NEW req \in AppRequest, AppCall(by, req)
  PROVE  Inv'
  BY CallSafe DEF AppCall

\* client_example makes its next call.
LEMMA ExampleSafe ==
  ASSUME Inv, ExampleStep
  PROVE  Inv'
<1>1. /\ script \in Seq(ResponseMessage)
      /\ key_type \in Nat
      /\ \A i \in DOMAIN script : i <= 2 => script[i].key_stream_id \in Ksid
  BY DEF Inv, ScriptInv
<1>2. Len(script) \in 0..5
  <2>1. Len(script) \in Nat
    BY <1>1
  <2>2. Len(script) < 6
    BY DEF ExampleStep
  <2>3. \A n \in Nat : n < 6 => n \in 0..5
    OBVIOUS
  <2> QED
    BY <2>1, <2>2, <2>3
<1>3. /\ Len(script) >= 1 => script[1].key_stream_id \in Ksid
      /\ Len(script) >= 2 => script[2].key_stream_id \in Ksid
  BY <1>1
<1>4. /\ ExampleRequest(script) \in AppRequest
      /\ Len(script) < 2 => ExampleRequest(script).service = "OPEN_CONNECT"
  <2>1. /\ JsonQos(ExampleChunk) \in qkd_qos_t
        /\ JsonQos(ExampleChunk).key_chunk_size \in ChunkSize
        /\ ExamplePair \in Pair /\ 0 \in Index /\ NilUuid \in Ksid
    BY JsonQosType, ExchangeAssumption DEF Ksid
  <2>2. <<key_type, 16>> \in qkd_bytes_t /\ <<key_type, 17>> \in qkd_bytes_t
    BY <1>1, TwoOctets
  <2>3. CASE Len(script) = 0
    <3>1. ExampleRequest(script) = OpenRequest(ExamplePair, JsonQos(ExampleChunk), NilUuid)
      BY <2>3 DEF ExampleRequest
    <3> QED BY <2>1, <3>1, OpenRequestType DEF OpenRequest
  <2>4. CASE Len(script) = 1
    <3>1. ExampleRequest(script)
            = OpenRequest(ExamplePair, JsonQos(ExampleChunk), script[1].key_stream_id)
      BY <2>4 DEF ExampleRequest
    <3> QED BY <1>3, <2>1, <2>4, <3>1, OpenRequestType DEF OpenRequest
  <2>5. CASE Len(script) = 2
    <3>1. ExampleRequest(script) = KeyRequest(script[1].key_stream_id, 0, <<key_type, 16>>)
      BY <2>5 DEF ExampleRequest
    <3> QED BY <1>3, <2>1, <2>2, <2>5, <3>1, KeyRequestType
  <2>6. CASE Len(script) = 3
    <3>1. ExampleRequest(script) = KeyRequest(script[2].key_stream_id, 0, <<key_type, 17>>)
      BY <2>6 DEF ExampleRequest
    <3> QED BY <1>3, <2>1, <2>2, <2>6, <3>1, KeyRequestType
  <2>7. CASE Len(script) = 4
    <3>1. ExampleRequest(script) = CloseCallRequest(script[1].key_stream_id)
      BY <2>7 DEF ExampleRequest
    <3> QED BY <1>3, <2>7, <3>1, CloseRequestType
  <2>8. CASE Len(script) = 5
    <3>1. ExampleRequest(script) = CloseCallRequest(script[2].key_stream_id)
      BY <2>8 DEF ExampleRequest
    <3> QED BY <1>3, <2>8, <3>1, CloseRequestType
  <2> QED
    BY <1>2, <2>3, <2>4, <2>5, <2>6, <2>7, <2>8
<1>5. PICK file : LibraryCall("example", file, ExampleRequest(script))
  BY DEF ExampleStep
<1> QED
  BY <1>4, <1>5, CallSafe

\* A step that leaves calls, connection and streams alone; a client may free
\* something wrong, and an answer may be returned that did not come from the server.
LEMMA IdleSafe ==
  ASSUME Inv, phase = "idle", KmsInv', UNCHANGED <<phase, call, key_type, script>>, calls' \in Nat,
         ended' \subseteq ended \cup {<<"client", "bad free">>}, ended \subseteq ended',
         Exchanged' = Exchanged
  PROVE  Inv'
<1>1. ScriptInv' /\ RequestInv' /\ WireInv'
  BY DEF Inv, ScriptInv, RequestInv, WireInv
<1>2. RoundTrip'
  BY DEF Inv, RoundTrip
<1>3. AbortsAtSource'
  BY DEF Inv, AbortsAtSource
<1>4. OverrunIffTooLong'
  BY DEF Inv, OverrunIffTooLong
<1> QED
  BY <1>1, <1>2, <1>3, <1>4 DEF Inv

\* A stuttering step.
LEMMA StutterSafe ==
  ASSUME Inv, UNCHANGED vars
  PROVE  Inv'
<1> USE DEF vars, exchangeVars
<1>1. KmsInv'
  BY KmsSame DEF Inv
<1>2. ScriptInv' /\ RequestInv'
  BY DEF Inv, ScriptInv, RequestInv
<1>3. WireInv'
  BY DEF Inv, WireInv, Sound
<1>4. RoundTrip' /\ AbortsAtSource'
  BY DEF Inv, RoundTrip, AbortsAtSource, Exchanged
<1>5. OverrunIffTooLong'
  BY DEF Inv, OverrunIffTooLong
<1> QED
  BY <1>1, <1>2, <1>3, <1>4, <1>5 DEF Inv

\* Inv is an invariant: messages arrive as they were sent, whatever applications
\* ask, however often the server is started again.
THEOREM ExchangeInvariant == Spec => []Inv
<1>1. Init => Inv
  <2> SUFFICES ASSUME Init PROVE Inv
    OBVIOUS
  <2>1. KmsInv
    <3>1. KmsTypeOK
      BY BoundsAssumption DEF Init, KmsInit, KmsTypeOK
    <3> QED
      BY <3>1 DEF Init, KmsInit, KmsInv, OneStreamPerPair, MintedOnce, RunsSoFar, ListIsThisRun
  <2>2. ScriptInv
    BY ExchangeAssumption DEF Init, ScriptInv
  <2>3. RequestInv /\ WireInv
    BY DEF Init, RequestInv, WireInv
  <2>4. RoundTrip /\ AbortsAtSource
    BY DEF Init, RoundTrip, AbortsAtSource, Exchanged
  <2>5. OverrunIffTooLong
    BY DEF Init, OverrunIffTooLong
  <2> QED
    BY <2>1, <2>2, <2>3, <2>4, <2>5 DEF Inv
<1>2. Inv /\ [Next]_vars => Inv'
  <2> SUFFICES ASSUME Inv, [Next]_vars PROVE Inv'
    OBVIOUS
  <2>1. KnownKsid \subseteq Ksid
    BY KnownKsidType DEF Inv
  <2>2. CASE Serve
    BY <2>2, ServeSafe
  <2>3. CASE Return
    BY <2>3, ReturnSafe
  <2>4. CASE ExampleStep
    BY <2>4, ExampleSafe
  <2>5. CASE AppOpenConnect
    <3>1. PICK pair \in Pair, qos \in AppQos, ksid \in KnownKsid :
            AppCall("app", OpenRequest(pair, qos, ksid))
      BY <2>5 DEF AppOpenConnect
    <3>2. qos \in qkd_qos_t /\ qos.key_chunk_size \in ChunkSize /\ ksid \in Ksid
      BY <2>1, ExchangeAssumption
    <3> QED
      BY <3>1, <3>2, OpenRequestType, AppCallSafe
  <2>6. CASE AppGetKey
    <3>1. PICK ksid \in KnownKsid, index \in Index, metadata \in AppMetadata :
            AppCall("app", KeyRequest(ksid, index, metadata))
      BY <2>6 DEF AppGetKey
    <3>2. ksid \in Ksid /\ metadata \in qkd_bytes_t
      BY <2>1, ExchangeAssumption
    <3> QED
      BY <3>1, <3>2, KeyRequestType, AppCallSafe
  <2>7. CASE AppClose
    BY <2>1, <2>7, CloseRequestType, AppCallSafe DEF AppClose
  <2>8. CASE ApiOpenConnect
    <3>1. PICK pair \in Pair, chunk \in ChunkSize :
            \/ \E ksid \in KnownKsid : AppCall("api", OpenRequest(pair, JsonQos(chunk), ksid))
            \/ AppCall("api, no id", OpenRequest(pair, JsonQos(chunk), NilUuid))
      BY <2>8 DEF ApiOpenConnect
    <3>2. \A ksid \in Ksid : OpenRequest(pair, JsonQos(chunk), ksid) \in AppRequest
      BY JsonQosType, OpenRequestType
    <3>3. NilUuid \in Ksid
      BY DEF Ksid
    <3> QED
      BY <2>1, <3>1, <3>2, <3>3, AppCallSafe
  <2>9. CASE ApiGetKey
    <3>1. PICK ksid \in KnownKsid, index \in Index :
            AppCall("api", KeyRequest(ksid, index, <<0, 0>>))
      BY <2>9 DEF ApiGetKey
    <3>2. <<0, 0>> \in qkd_bytes_t
      BY TwoOctets
    <3> QED
      BY <2>1, <3>1, <3>2, KeyRequestType, AppCallSafe
  <2>10. CASE ApiClose
    BY <2>1, <2>10, CloseRequestType, AppCallSafe DEF ApiClose
  <2>11. ASSUME ApiReturns
         PROVE  /\ phase = "idle" /\ KmsInv' /\ calls' \in Nat
                /\ UNCHANGED <<phase, call, key_type, script>>
    BY <2>11, KmsSame DEF ApiReturns, Inv, ScriptInv
  <2>12. CASE ApiOpenConnectUnparsable
    <3>1. /\ ended' \subseteq ended \cup {<<"client", "bad free">>} /\ ended \subseteq ended'
          /\ Exchanged' = Exchanged
      BY <2>12 DEF ApiOpenConnectUnparsable, Exchanged
    <3> QED
      BY <2>11, <2>12, <3>1, IdleSafe DEF ApiOpenConnectUnparsable
  <2>13. CASE ApiGetKeyUnparsable
    <3>1. Exchanged' = Exchanged
      BY <2>13 DEF ApiGetKeyUnparsable, Exchanged
    <3> QED
      BY <2>11, <2>13, <3>1, IdleSafe DEF ApiGetKeyUnparsable
  <2>14. CASE RestartServer
    <3>1. KmsInv'
      BY <2>14, RestartSafe DEF RestartServer, Inv, KmsInv
    <3>2. calls' \in Nat /\ Exchanged' = Exchanged
      BY <2>14 DEF RestartServer, Exchanged, Inv, ScriptInv
    <3> QED
      BY <2>14, <3>1, <3>2, IdleSafe DEF RestartServer
  <2>15. CASE Quiescent
    BY <2>15, StutterSafe DEF Quiescent
  <2>16. CASE UNCHANGED vars
    BY <2>16, StutterSafe
  <2> QED
    BY <2>2, <2>3, <2>4, <2>5, <2>6, <2>7, <2>8, <2>9, <2>10, <2>12, <2>13, <2>14, <2>15, <2>16
    DEF Next
<1> QED
  BY <1>1, <1>2, PTL DEF Spec

\* What an application asks is what the handler gets, and what the handler answers
\* is what the application gets, for strings, keys and metadata of any length
\* (serializers.c:101-245).
THEOREM ExchangeRoundTrip == Spec => []RoundTrip
<1>1. Inv => RoundTrip
  BY DEF Inv
<1> QED
  BY <1>1, ExchangeInvariant, PTL

\* A buffer is overrun exactly by a payload of 2^32 octets or more (sizes.c:5 and
\* payload_size), whatever the fields that add up to it.
THEOREM ExchangeOverrunIffTooLong == Spec => []OverrunIffTooLong
<1>1. Inv => OverrunIffTooLong
  BY DEF Inv
<1> QED
  BY <1>1, ExchangeInvariant, PTL

\* A mimetype that is too long never ends the server (sizes.c:18).
THEOREM ExchangeAbortsAtSource == Spec => []AbortsAtSource
<1>1. Inv => AbortsAtSource
  BY DEF Inv
<1> QED
  BY <1>1, ExchangeInvariant, PTL

\* The kinds of steps there are, whoever makes the call.
LEMMA StepKinds ==
  ASSUME [Next]_vars
  PROVE  \/ Serve \/ Return
         \/ \E by, file, req : LibraryCall(by, file, req)
         \/ ApiOpenConnectUnparsable \/ ApiGetKeyUnparsable \/ RestartServer
         \/ UNCHANGED vars
<1>1. CASE \E by, req : AppCall(by, req)
  BY <1>1 DEF AppCall
<1>2. CASE ExampleStep
  BY <1>2 DEF ExampleStep
<1>3. AppOpenConnect \/ AppGetKey \/ AppClose \/ ApiOpenConnect \/ ApiGetKey \/ ApiClose
        => \E by, req : AppCall(by, req)
  BY DEF AppOpenConnect, AppGetKey, AppClose, ApiOpenConnect, ApiGetKey, ApiClose
<1> QED
  BY <1>1, <1>2, <1>3 DEF Next, Quiescent
=============================================================================
