------------------------- MODULE ExchangeKeysProofs -------------------------
(***************************************************************************)
(* Proofs about the keys and the causes that GET_KEY returns to an         *)
(* application, and about the key files of client_example, from the        *)
(* invariant of ExchangeProofs.                                            *)
(***************************************************************************)
EXTENDS ExchangeProofs

\* A key that was cut from one of these streams: the one asked for, at the index
\* asked for, in the form that the metadata ask for.
KeyCut(streams, req, octets) ==
  \E m \in streams, form \in KeyForms :
    /\ m.key_stream_id = req.key_stream_id
    /\ octets = OctetsOf([size |-> m.qos.key_chunk_size, seed |-> Seed(m.pair, req.index),
                          form |-> form])
    /\ Len(req.metadata) >= 2 => (form = "half" <=> req.metadata[1] # 0 /\ req.metadata[2] # 16)

\* An answer from a stream of this run of the server.
FromStream(streams, req, resp, run) ==
  /\ resp.status = Successful
  /\ resp.metadata = DeviceInfoOctets
  /\ \E m \in streams : /\ m.key_stream_id = req.key_stream_id
                        /\ run = m.run
                        /\ Len(resp.key_buffer) \in {0, m.qos.key_chunk_size}
  /\ resp.key_buffer # <<>> => KeyCut(streams, req, resp.key_buffer)

\* An answer to an id that the server does not know.
NoStream(req, resp) ==
  /\ resp.status = GkPeerNotConnected
  /\ resp.metadata = req.metadata
  /\ resp.key_buffer = <<>>

Explained(streams, req, resp, run) == FromStream(streams, req, resp, run) \/ NoStream(req, resp)

\* The inductive invariant: each answer is explained by the streams of the run in
\* which the call was made, from the moment the handler gives it.  The server is not
\* restarted during a call.
KeysInv ==
  /\ phase # "idle" => call.run = restarts
  /\ phase = "response" /\ call.request.service = "GET_KEY" =>
       Explained(minted, call.request, call.answer, call.run)
  /\ \A r \in GetKeys : Explained(minted, r.request, r.response, r.run)
  /\ \A r \in returned \ Exchanged : r.response = error_response

-----------------------------------------------------------------------------
(* What the handler answers. *)

\* An answer stays explained when streams are added.
LEMMA ExplainedLater ==
  ASSUME NEW S, NEW T, S \subseteq T, NEW req, NEW resp, NEW run, Explained(S, req, resp, run)
  PROVE  Explained(T, req, resp, run)
<1>1. \A octets : KeyCut(S, req, octets) => KeyCut(T, req, octets)
  BY DEF KeyCut
<1> QED
  BY <1>1 DEF Explained, FromStream

\* The empty key is no octets.
LEMMA EmptyOctets == OctetsOf(EmptyKey) = <<>>
<1>1. EmptyKey \in Key /\ EmptyKey.size = 0
  BY DEF Key, EmptyKey
<1>2. OctetsOf(EmptyKey) \in Seq(Nat) /\ Len(OctetsOf(EmptyKey)) = 0
  BY <1>1, OctetsType DEF qkd_bytes_t
<1> QED
  BY <1>2

\* What the generators make of the metadata: the receiver's half of an oblivious key
\* for everybody but the sender.
LEMMA GeneratedForm ==
  ASSUME NEW stream, NEW req, NEW allocated
  PROVE  LET key == GeneratedKey(stream, req, allocated)
         IN \/ key = EmptyKey
            \/ \E form \in KeyForms :
                 /\ key = [size |-> stream.qos.key_chunk_size,
                           seed |-> Seed(stream.pair, req.index), form |-> form]
                 /\ form = "half" <=> req.metadata.key_type # "symmetric"
                                        /\ req.metadata.key_role # "sender"
  BY DEF GeneratedKey, gen_pseudorandom_key, gen_oblivious_pseudorandom_key, KeyForms

\* A type and a role as the server looks at them.
LEMMA KeyInfoMeaning ==
  ASSUME NEW octets
  PROVE  /\ KeyInfoOf(octets).key_type # "symmetric" <=> octets[1] # 0
         /\ KeyInfoOf(octets).key_role # "sender" <=> octets[2] # 16
         /\ KeyInfoOf(octets) # DeviceInfo
<1>1. KeyInfoOf(octets).key_type # "symmetric" <=> octets[1] # 0
  BY DEF KeyInfoOf
<1> DEFINE role == CASE octets[2] = 16 -> "sender"
                     [] octets[2] = 17 -> "receiver"
                     [] octets[2] = 1 -> "error"
                     [] OTHER -> "default"
<1>2. role # "sender" <=> octets[2] # 16
  OBVIOUS
<1>3. KeyInfoOf(octets).key_role = role
  BY DEF KeyInfoOf
<1>4. "device_info" \in DOMAIN DeviceInfo /\ "device_info" \notin DOMAIN KeyInfoOf(octets)
  BY DEF DeviceInfo, KeyInfoOf
<1> QED
  BY <1>1, <1>2, <1>3, <1>4

\* The octets that the server takes for a type and a role are those of the metadata,
\* if there are two.
LEMMA KeyInfoRead ==
  ASSUME NEW req \in AppRequest, req.service = "GET_KEY", NEW key_info \in KeyInfoOctets(req),
         Len(req.metadata) >= 2
  PROVE  key_info[1] = req.metadata[1] /\ key_info[2] = req.metadata[2]
<1>1. req.metadata \in Seq(Nat)
  BY RequestServices DEF AppRequest, qkd_get_key_request_t, qkd_bytes_t
<1>2. key_info = SubSeq(req.metadata, 1, 2)
  BY <1>1 DEF KeyInfoOctets
<1> QED
  BY <1>1, <1>2

\* The handler's answer to GET_KEY is explained by the streams.
LEMMA GetKeyExplained ==
  ASSUME KmsInv, NEW req \in AppRequest, req.service = "GET_KEY",
         NEW key_info \in KeyInfoOctets(req), HandleRequest(HandlerArguments(req, key_info))
  PROVE  Explained(minted, req, ResponseStruct(req, response'), restarts)
<1> DEFINE args == HandlerArguments(req, key_info)
           answer == ResponseStruct(req, response')
<1>1. /\ args = [service |-> "GET_KEY", key_stream_id |-> req.key_stream_id,
                 index |-> req.index, metadata |-> KeyInfoOf(key_info)]
      /\ args \in Request
  <2>1. args \in Request
    BY HandlerArgumentsType
  <2> QED
    BY <2>1 DEF HandlerArguments
<1>2. qkd_get_key(args)
  BY <1>1 DEF HandleRequest, qkd_open_connect, qkd_close
<1>3. ASSUME NEW status, NEW key, NEW metadata,
             response' = GetKeyAnswer(args, status, key, metadata)
      PROVE  /\ answer.status = status
             /\ answer.key_buffer = OctetsOf(key)
             /\ answer.metadata = IF metadata = DeviceInfo THEN DeviceInfoOctets ELSE req.metadata
  BY <1>3 DEF GetKeyAnswer, ResponseStruct
<1>4. CASE GetKeyUnknown(args)
  <2>1. response' = GetKeyAnswer(args, GkPeerNotConnected, EmptyKey, KeyInfoOf(key_info))
    BY <1>1, <1>4 DEF GetKeyUnknown, UnknownStatus
  <2>2. KeyInfoOf(key_info) # DeviceInfo
    BY KeyInfoMeaning
  <2> HIDE DEF args, answer
  <2>3. NoStream(req, answer)
    BY <1>3, <2>1, <2>2, EmptyOctets DEF NoStream
  <2> QED
    BY <2>3 DEF Explained, answer
<1>5. CASE GetKeyServed(args)
  <2> DEFINE i == Min(NodesOfKsid(args.key_stream_id))
             node == ksid_info_linked_list[i]
             m == [key_stream_id |-> node.key_stream_id, pair |-> node.pair,
                   qos |-> node.qos, run |-> restarts]
  <2>1. /\ i \in DOMAIN ksid_info_linked_list
        /\ node.key_stream_id = args.key_stream_id
    BY <1>5, SearchFindsMatch DEF KmsInv, GetKeyServed
  <2>2. node \in Node
    BY <2>1 DEF KmsInv, KmsTypeOK
  <2>3. m \in minted
    BY <2>1, ListIsThisRunSplit DEF KmsInv
  <2>4. PICK allocated \in BOOLEAN :
          response' = GetKeyAnswer(args, Successful, GeneratedKey(node, args, allocated), DeviceInfo)
    <3>1. (IF MallocMayFail THEN BOOLEAN ELSE {TRUE}) \subseteq BOOLEAN
      OBVIOUS
    <3> QED
      BY <1>5, <3>1 DEF GetKeyServed, IndexedRequest
  <2> DEFINE key == GeneratedKey(node, args, allocated)
  <2>5. key \in Key
    <3>1. args \in GetKeyRequest
      BY <1>1 DEF Request, OpenConnectRequest, GetKeyRequest, CloseRequest
    <3>2. node.pair \in Pair /\ node.qos \in Qos
      BY <2>2 DEF Node
    <3> QED
      BY <3>1, <3>2, GeneratedKeyProperties
  <2>6. /\ answer.status = Successful
        /\ answer.key_buffer = OctetsOf(key)
        /\ answer.metadata = DeviceInfoOctets
    BY <1>3, <2>4
  <2>7. Len(answer.key_buffer) = key.size
    BY <2>5, <2>6, OctetsType
  <2>8. /\ m.key_stream_id = req.key_stream_id /\ m.run = restarts
        /\ m.qos = node.qos /\ m.pair = node.pair
    BY <1>1, <2>1
  <2>9. CASE key = EmptyKey
    <3> HIDE DEF key, node, m, answer
    <3>1. answer.key_buffer = <<>> /\ Len(answer.key_buffer) = 0
      BY <2>6, <2>7, <2>9, EmptyOctets DEF EmptyKey
    <3>2. FromStream(minted, req, answer, restarts)
      BY <2>3, <2>6, <2>8, <3>1 DEF FromStream
    <3> QED
      BY <3>2 DEF Explained, answer
  <2>10. CASE key # EmptyKey
    <3>1. PICK form \in KeyForms :
            /\ key = [size |-> node.qos.key_chunk_size, seed |-> Seed(node.pair, args.index),
                      form |-> form]
            /\ form = "half" <=> args.metadata.key_type # "symmetric"
                                   /\ args.metadata.key_role # "sender"
      BY <2>10, GeneratedForm
    <3>2. args.index = req.index /\ args.metadata = KeyInfoOf(key_info)
      BY <1>1
    <3> HIDE DEF node, m, answer, args
    <3>3. Len(req.metadata) >= 2 => (form = "half" <=> req.metadata[1] # 0 /\ req.metadata[2] # 16)
      BY <3>1, <3>2, KeyInfoMeaning, KeyInfoRead
    <3>4. /\ key = [size |-> m.qos.key_chunk_size, seed |-> Seed(m.pair, req.index), form |-> form]
          /\ key.size = m.qos.key_chunk_size
      BY <2>8, <3>1, <3>2
    <3> HIDE DEF key
    <3>5. KeyCut(minted, req, answer.key_buffer)
      BY <2>3, <2>6, <2>8, <3>3, <3>4 DEF KeyCut
    <3>6. FromStream(minted, req, answer, restarts)
      BY <2>3, <2>6, <2>7, <2>8, <3>4, <3>5 DEF FromStream
    <3> QED
      BY <3>6 DEF Explained, answer
  <2> QED
    BY <2>9, <2>10
<1> QED
  BY <1>2, <1>4, <1>5 DEF qkd_get_key

-----------------------------------------------------------------------------
(* The invariant and the theorems. *)

\* A step that returns no call, and leaves the call in progress alone if there is
\* one.
LEMMA KeysKept ==
  ASSUME KeysInv, minted \subseteq minted', returned' = returned,
         \/ phase' = "idle"
         \/ UNCHANGED <<phase, call, restarts>>
         \/ phase' = "request" /\ call'.run = restarts'
  PROVE  KeysInv'
<1>1. Exchanged' = Exchanged /\ GetKeys' = GetKeys
  BY DEF Exchanged, GetKeys
<1>2. \A req, resp, run : Explained(minted, req, resp, run) => Explained(minted', req, resp, run)
  BY ExplainedLater
<1>3. \A r \in GetKeys' : Explained(minted', r.request, r.response, r.run)
  BY <1>1, <1>2 DEF KeysInv
<1>4. phase' = "response" /\ call'.request.service = "GET_KEY" =>
        Explained(minted', call'.request, call'.answer, call'.run)
  BY <1>2 DEF KeysInv
<1> QED
  BY <1>1, <1>3, <1>4 DEF KeysInv

\* The servlet gives an answer that the streams explain.
LEMMA KeysServe ==
  ASSUME Inv, KeysInv, Serve
  PROVE  KeysInv'
<1> DEFINE req == call.request
           answer == ResponseStruct(req, response')
<1>1. /\ phase = "request" /\ phase' = "response" /\ returned' = returned
      /\ call'.request = req /\ call'.answer = answer /\ call'.run = call.run
      /\ \E key_info \in KeyInfoOctets(req) : HandleRequest(HandlerArguments(req, key_info))
  BY ServeReads DEF ServeStep, Served
<1>2. req \in AppRequest /\ KmsInv
  BY <1>1 DEF Inv, RequestInv
<1>3. PICK key_info \in KeyInfoOctets(req) : HandleRequest(HandlerArguments(req, key_info))
  BY <1>1
<1>4. restarts' = restarts /\ minted \subseteq minted'
  BY <1>3 DEF HandleRequest, qkd_open_connect, OpenNamed, OpenJoined, OpenCreated, NewStream,
              qkd_get_key, qkd_close
<1>5. call'.run = restarts'
  BY <1>1, <1>4 DEF KeysInv
<1>6. req.service = "GET_KEY" => Explained(minted', req, answer, restarts)
  BY <1>2, <1>3, <1>4, GetKeyExplained, ExplainedLater
<1>7. \A r \in GetKeys' : Explained(minted', r.request, r.response, r.run)
  BY <1>1, <1>4, ExplainedLater DEF KeysInv, GetKeys, Exchanged
<1>8. \A r \in returned' \ Exchanged' : r.response = error_response
  BY <1>1 DEF KeysInv, Exchanged
<1> HIDE DEF req, answer
<1>9. call'.request.service = "GET_KEY" =>
        Explained(minted', call'.request, call'.answer, call'.run)
  BY <1>1, <1>4, <1>5, <1>6
<1> QED
  BY <1>5, <1>7, <1>8, <1>9 DEF KeysInv

\* The answer is returned as the servlet gave it.
LEMMA KeysReturn ==
  ASSUME Inv, KeysInv, Return
  PROVE  KeysInv'
<1> DEFINE r0 == Returned([value |-> call.answer, rest |-> <<>>])
<1>1. /\ phase = "response" /\ phase' = "idle" /\ returned' = returned \cup {r0}
      /\ minted' = minted
  BY ReturnReads DEF kmsVars
<1>2. /\ "answer" \in DOMAIN r0
      /\ r0.request = call.request /\ r0.response = call.answer /\ r0.run = call.run
  BY DEF Returned
<1> HIDE DEF r0
<1>3. ASSUME NEW r \in GetKeys'
      PROVE  Explained(minted', r.request, r.response, r.run)
  BY <1>1, <1>2 DEF KeysInv, GetKeys, Exchanged
<1>4. \A r \in returned' \ Exchanged' : r.response = error_response
  BY <1>1, <1>2 DEF KeysInv, Exchanged
<1> QED
  BY <1>1, <1>3, <1>4 DEF KeysInv

\* KeysInv is an invariant.
THEOREM ExchangeKeysInvariant == Spec => []KeysInv
<1>1. Init => KeysInv
  BY DEF Init, KeysInv, GetKeys, Exchanged
<1>2. Inv /\ KeysInv /\ [Next]_vars => KeysInv'
  <2> SUFFICES ASSUME Inv, KeysInv, [Next]_vars PROVE KeysInv'
    OBVIOUS
  <2>1. CASE Serve
    BY <2>1, KeysServe
  <2>2. CASE Return
    BY <2>2, KeysReturn
  <2>3. CASE \E by, file, req : LibraryCall(by, file, req)
    <3>1. PICK by, file, req : LibraryCall(by, file, req)
      BY <2>3
    <3>2. /\ phase = "idle" /\ returned' = returned /\ minted' = minted /\ restarts' = restarts
          /\ call' = Called(by, file, req)
          /\ phase' = "request" \/ phase' = phase
      BY <3>1 DEF LibraryCall, kmsVars
    <3>3. call'.run = restarts'
      BY <3>2 DEF Called
    <3> QED
      BY <3>2, <3>3, KeysKept
  <2>4. CASE ApiOpenConnectUnparsable
    BY <2>4, KeysKept DEF ApiOpenConnectUnparsable, ApiReturns, kmsVars
  <2>5. CASE ApiGetKeyUnparsable
    <3> DEFINE r0 == [n |-> calls + 1, by |-> "api", request |-> KeyRequest(<<>>, 0, <<0, 0>>),
                      response |-> error_response]
    <3>1. /\ returned' = returned \cup {r0}
          /\ r0.response = error_response
          /\ "answer" \notin DOMAIN r0
      BY <2>5 DEF ApiGetKeyUnparsable
    <3> HIDE DEF r0
    <3>2. phase' = "idle" /\ minted' = minted
      BY <2>5 DEF ApiGetKeyUnparsable, ApiReturns, kmsVars
    <3>3. Exchanged' = Exchanged /\ GetKeys' = GetKeys
      BY <3>1 DEF Exchanged, GetKeys
    <3> QED
      BY <3>1, <3>2, <3>3 DEF KeysInv
  <2>6. CASE RestartServer
    BY <2>6, KeysKept DEF RestartServer, Restart
  <2>7. CASE UNCHANGED vars
    BY <2>7, KeysKept DEF vars, exchangeVars, kmsVars
  <2> QED
    BY <2>1, <2>2, <2>3, <2>4, <2>5, <2>6, <2>7, StepKinds
<1> QED
  BY <1>1, <1>2, ExchangeInvariant, PTL DEF Spec

\* The key of an answer is cut from the stream and at the index asked for, in its
\* full length and in the form that the metadata ask for (server_example.c:175).
THEOREM ExchangeKeyFollowsMetadata == Spec => []KeyFollowsMetadata
<1>1. KeysInv => KeyFollowsMetadata
  <2> SUFFICES ASSUME KeysInv, NEW r \in WithKey
               PROVE  KeyCut(minted, r.request, r.response.key_buffer)
    BY DEF KeyFollowsMetadata, KeyCut
  <2> QED
    BY DEF WithKey, KeysInv, Explained, FromStream, NoStream
<1> QED
  BY <1>1, ExchangeKeysInvariant, PTL

\* The caller of GET_KEY can tell from the answer whether the stream exists, the
\* server does not know the id, or client_api could not parse it.
THEOREM ExchangeAnswerTellsCause == Spec => []AnswerTellsCause
<1>1. KeysInv => AnswerTellsCause
  <2> SUFFICES ASSUME KeysInv, NEW r \in returned, r.request.service = "GET_KEY"
               PROVE  IF r.response.status = Successful /\ r.response.metadata = DeviceInfoOctets
                      THEN \E m \in minted :
                             /\ m.key_stream_id = r.request.key_stream_id
                             /\ r.run = m.run
                             /\ Len(r.response.key_buffer) \in {0, m.qos.key_chunk_size}
                      ELSE /\ r.response.key_buffer = <<>>
                           /\ IF r \in Exchanged
                              THEN /\ r.response.status = GkPeerNotConnected
                                   /\ r.response.metadata = r.request.metadata
                              ELSE r.response.status = Successful /\ r.response.metadata = <<>>
    BY DEF AnswerTellsCause
  <2>1. CASE r \in Exchanged
    <3>1. Explained(minted, r.request, r.response, r.run)
      BY <2>1 DEF KeysInv, GetKeys
    <3> QED
      BY <2>1, <3>1 DEF Explained, FromStream, NoStream, Successful, GkPeerNotConnected
  <2>2. CASE r \notin Exchanged
    <3>1. r.response = error_response
      BY <2>2 DEF KeysInv
    <3>2. DeviceInfoOctets # <<>>
      BY ExchangeAssumption
    <3> QED
      BY <2>2, <3>1, <3>2 DEF error_response, Successful
  <2> QED
    BY <2>1, <2>2
<1> QED
  BY <1>1, ExchangeKeysInvariant, PTL

-----------------------------------------------------------------------------
(* The two files of client_example. *)

\* Half an octet moves its bits down by one.
LEMMA BitOfHalf ==
  ASSUME NEW octet \in 0..255, NEW b \in {1, 3, 5, 7}
  PROVE  Bit(octet \div 2, b - 1) = Bit(octet, b)
<1>1. ASSUME NEW p \in Nat \ {0} PROVE (octet \div 2) \div p = octet \div (2 * p)
  OBVIOUS
<1>2. CASE b = 1
  <2>1. 2^(b - 1) = 1 /\ 2^b = 2
    BY <1>2
  <2> QED
    BY <1>1, <2>1 DEF Bit
<1>3. CASE b = 3
  <2>1. 2^(b - 1) = 4 /\ 2^b = 8
    BY <1>3
  <2> QED
    BY <1>1, <2>1 DEF Bit
<1>4. CASE b = 5
  <2>1. 2^(b - 1) = 16 /\ 2^b = 32
    BY <1>4
  <2> QED
    BY <1>1, <2>1 DEF Bit
<1>5. CASE b = 7
  <2>1. 2^(b - 1) = 64 /\ 2^b = 128
    BY <1>5
  <2> QED
    BY <1>1, <2>1 DEF Bit
<1> QED
  BY <1>2, <1>3, <1>4, <1>5

\* Each pair of bits of the receiver's octet is a choice and the sender's bit it chooses.
LEMMA OctetChosen ==
  ASSUME NEW i \in Nat, NEW octet \in 0..255, NEW b \in {1, 3, 5, 7}
  PROVE  LET got == ReceiverOctet(i, octet)
         IN Bit(got, b - 1) = IF Bit(got, b) = 1 THEN Bit(octet, b - 1) ELSE Bit(octet, b)
<1>1. /\ b \in 0..7 /\ b - 1 \in 0..7 /\ b % 2 = 1 /\ (b - 1) % 2 = 0
      /\ octet \div 2 \in 0..255
  OBVIOUS
<1>2. CASE i % 2 = 0
  <2>1. /\ Bit(Or8(octet, 170), b) = 1
        /\ Bit(Or8(octet, 170), b - 1) = Bit(octet, b - 1)
    BY <1>1, OctetsAssumption
  <2> QED
    BY <1>2, <2>1 DEF ReceiverOctet
<1>3. CASE i % 2 # 0
  <2>1. /\ Bit(And8(octet \div 2, 85), b) = 0
        /\ Bit(And8(octet \div 2, 85), b - 1) = Bit(octet \div 2, b - 1)
    BY <1>1, OctetsAssumption
  <2> QED
    BY <1>3, <2>1, BitOfHalf DEF ReceiverOctet
<1> QED
  BY <1>2, <1>3

\* The bits of a key in the file.
LEMMA FileBits ==
  ASSUME NEW resp, resp.key_buffer \in Seq(Nat)
  PROVE  LET bits == write_key_to_file_bit_format(resp).key
             octets == resp.key_buffer
         IN /\ Len(bits) = 8 * Len(octets)
            /\ \A q \in 1..(8 * Len(octets)) :
                 bits[q] = Bit(octets[(q - 1) \div 8 + 1], 7 - ((q - 1) % 8))
<1> DEFINE octets == resp.key_buffer
           size == 8 * Len(octets)
           bit(q) == Bit(octets[(q - 1) \div 8 + 1], 7 - ((q - 1) % 8))
           bits == [q \in 1..size |-> bit(q)]
<1>1. write_key_to_file_bit_format(resp).key = bits
  BY DEF write_key_to_file_bit_format
<1>2. size \in Nat
  OBVIOUS
<1> HIDE DEF size, bit
<1>3. Len(bits) = size /\ \A q \in 1..size : bits[q] = bit(q)
  BY <1>2
<1> QED
  BY <1>1, <1>3 DEF size, bit

\* The files of the two ends of an oblivious key.
LEMMA HalfChosen ==
  ASSUME NEW size \in ChunkSize, NEW pair \in Pair, NEW index \in Index, NEW sent, NEW got,
         sent.key_buffer = OctetsOf([size |-> size, seed |-> Seed(pair, index), form |-> "whole"]),
         got.key_buffer = OctetsOf([size |-> size, seed |-> Seed(pair, index), form |-> "half"])
  PROVE  Chosen(write_key_to_file_bit_format(sent).key, write_key_to_file_bit_format(got).key)
<1> DEFINE seed == Seed(pair, index)
           Whole == [size |-> size, seed |-> seed, form |-> "whole"]
           Half == [size |-> size, seed |-> seed, form |-> "half"]
           S == sent.key_buffer
           R == got.key_buffer
           sender == write_key_to_file_bit_format(sent).key
           receiver == write_key_to_file_bit_format(got).key
<1>1. Whole \in Key /\ Half \in Key /\ Whole.size = size /\ Half.size = size
  BY DEF Key, KeyForms
<1>2. /\ S \in Seq(Nat) /\ R \in Seq(Nat) /\ Len(S) = size /\ Len(R) = size /\ size \in Nat
  <2>1. size \in uint32_t
    BY ExchangeAssumption
  <2>2. size \in Nat
    BY <2>1, WordModType DEF uint32_t
  <2> HIDE DEF Whole, Half
  <2>3. S = OctetsOf(Whole) /\ R = OctetsOf(Half)
    BY DEF Whole, Half
  <2> QED
    BY <1>1, <2>2, <2>3, OctetsType DEF qkd_bytes_t
<1>3. \A k \in 1..size : S[k] \in 0..255 /\ R[k] = ReceiverOctet(k - 1, S[k])
  <2> SUFFICES ASSUME NEW k \in 1..size
               PROVE  S[k] \in 0..255 /\ R[k] = ReceiverOctet(k - 1, S[k])
    OBVIOUS
  <2>1. Rand(Whole.seed, k) \in Nat /\ Whole.seed = seed
    BY <1>1, OctetsAssumption
  <2>2. S[k] = Rand(seed, k) % 256
    BY DEF OctetsOf
  <2>3. R[k] = ReceiverOctet(k - 1, Rand(seed, k) % 256)
    BY DEF OctetsOf
  <2> QED
    BY <2>1, <2>2, <2>3
<1>4. /\ Len(sender) = 8 * size /\ Len(receiver) = 8 * size
      /\ \A q \in 1..(8 * size) :
           /\ sender[q] = Bit(S[(q - 1) \div 8 + 1], 7 - ((q - 1) % 8))
           /\ receiver[q] = Bit(R[(q - 1) \div 8 + 1], 7 - ((q - 1) % 8))
  BY <1>2, FileBits
<1> HIDE DEF S, R, sender, receiver, seed
<1>5. ASSUME NEW p \in 1..(Len(sender) \div 2)
      PROVE  receiver[2 * p] = IF receiver[2 * p - 1] = 1 THEN sender[2 * p] ELSE sender[2 * p - 1]
  <2> DEFINE k == (2 * p - 2) \div 8 + 1
             b == 7 - ((2 * p - 2) % 8)
  <2>1. p \in Nat /\ p >= 1 /\ p <= 4 * size
    BY <1>2, <1>4
  <2>2. PICK a \in Nat, c \in {0, 1, 2, 3} : p - 1 = 4 * a + c
    <3>1. (p - 1) \div 4 \in Nat /\ (p - 1) % 4 \in {0, 1, 2, 3}
            /\ p - 1 = 4 * ((p - 1) \div 4) + ((p - 1) % 4)
      BY <2>1
    <3> QED
      BY <3>1
  <2>3. /\ (2 * p - 2) \div 8 = a /\ (2 * p - 2) % 8 = 2 * c
        /\ (2 * p - 1) \div 8 = a /\ (2 * p - 1) % 8 = 2 * c + 1
    BY <2>1, <2>2
  <2>4. k = a + 1 /\ k \in 1..size /\ b = 7 - 2 * c /\ b \in {1, 3, 5, 7} /\ k - 1 = a
    BY <1>2, <2>1, <2>2, <2>3
  <2>5. /\ 2 * p \in 1..(8 * size) /\ 2 * p - 1 \in 1..(8 * size)
        /\ (2 * p) - 1 = 2 * p - 1 /\ (2 * p - 1) - 1 = 2 * p - 2
        /\ 7 - ((2 * p - 1) % 8) = b - 1
        /\ (2 * p - 1) \div 8 + 1 = k
    BY <1>2, <2>1, <2>3, <2>4
  <2> HIDE DEF k, b
  <2>6. /\ receiver[2 * p] = Bit(R[k], b - 1) /\ sender[2 * p] = Bit(S[k], b - 1)
        /\ receiver[2 * p - 1] = Bit(R[k], b) /\ sender[2 * p - 1] = Bit(S[k], b)
    <3> DEFINE h == 2 * p - 1
               l == 2 * p
    <3>1. /\ (h - 1) \div 8 + 1 = k /\ 7 - ((h - 1) % 8) = b
          /\ (l - 1) \div 8 + 1 = k /\ 7 - ((l - 1) % 8) = b - 1
          /\ h \in 1..(8 * size) /\ l \in 1..(8 * size)
      BY <2>5 DEF k, b
    <3> HIDE DEF h, l
    <3>2. /\ receiver[l] = Bit(R[k], b - 1) /\ sender[l] = Bit(S[k], b - 1)
          /\ receiver[h] = Bit(R[k], b) /\ sender[h] = Bit(S[k], b)
      BY <1>4, <3>1
    <3> QED
      BY <3>2 DEF h, l
  <2>7. R[k] = ReceiverOctet(k - 1, S[k]) /\ S[k] \in 0..255 /\ k - 1 \in Nat
    BY <1>3, <2>4
  <2> DEFINE o == S[k]
  <2>8. Bit(R[k], b - 1) = IF Bit(R[k], b) = 1 THEN Bit(o, b - 1) ELSE Bit(o, b)
    <3>1. o \in 0..255 /\ k - 1 \in Nat /\ b \in {1, 3, 5, 7} /\ R[k] = ReceiverOctet(k - 1, o)
      BY <2>4, <2>7
    <3> HIDE DEF o
    <3> DEFINE i == k - 1
    <3>2. i \in Nat /\ R[k] = ReceiverOctet(i, o)
      BY <3>1
    <3> HIDE DEF i
    <3>3. Bit(ReceiverOctet(i, o), b - 1) =
            IF Bit(ReceiverOctet(i, o), b) = 1 THEN Bit(o, b - 1) ELSE Bit(o, b)
      BY <3>1, <3>2, OctetChosen
    <3> QED
      BY <3>2, <3>3
  <2> QED
    BY <2>6, <2>8
<1> QED
  BY <1>4, <1>5 DEF Chosen, sender, receiver

-----------------------------------------------------------------------------
(* The calls of client_example. *)

\* An answer with an end of a key of the stream that was opened first (client_example.c:53),
\* and in the first run of the server no failure.
ExampleKey(streams, run, type, got, role, resp) ==
  /\ resp.index = 0
  /\ resp.key_buffer # <<>> =>
       KeyCut(streams, KeyRequest(got[1].key_stream_id, 0, <<type, role>>), resp.key_buffer)
  /\ run = 0 => resp.status = Successful

\* What the example has after so many answers: the id of a stream, twice, and a key
\* from either end of it.
Gotten(streams, run, type, got) ==
  /\ Len(got) >= 1 => \E m \in streams : m.key_stream_id = got[1].key_stream_id
  /\ Len(got) >= 2 => got[2].key_stream_id = got[1].key_stream_id
  /\ Len(got) >= 3 => ExampleKey(streams, run, type, got, 16, got[3])
  /\ Len(got) >= 4 => ExampleKey(streams, run, type, got, 17, got[4])

\* Its files hold these keys and nothing else.
FilesInv ==
  /\ DOMAIN files = {"test.key", "test_.key", "app.key"}
  /\ files["test.key"] =
       IF Len(script) >= 3 THEN <<write_key_to_file_bit_format(script[3])>> ELSE <<>>
  /\ files["test_.key"] =
       IF Len(script) >= 4 THEN <<write_key_to_file_bit_format(script[4])>> ELSE <<>>

\* A call of the example is the one its script has reached; others have another file.
Scripted(by, file, req) ==
  IF by = "example"
  THEN /\ Len(script) < 6
       /\ file = (IF Len(script) = 2 THEN "test.key" ELSE "test_.key")
       /\ req = ExampleRequest(script)
  ELSE file = "app.key"

\* The inductive invariant: the answer that is under way is the next of the script.
ExampleInv ==
  /\ Gotten(minted, restarts, key_type, script)
  /\ FilesInv
  /\ phase # "idle" => Scripted(call.by, call.file, call.request)
  /\ phase = "response" /\ call.by = "example" =>
       Gotten(minted, restarts, key_type, Append(script, call.answer))

\* New streams leave what the example has alone, and so does a restart.
LEMMA GottenLater ==
  ASSUME NEW S, NEW T, S \subseteq T, NEW run, NEW run1, run1 = run \/ run1 # 0,
         NEW type, NEW got, Gotten(S, run, type, got)
  PROVE  Gotten(T, run1, type, got)
<1>1. \A req, octets : KeyCut(S, req, octets) => KeyCut(T, req, octets)
  BY DEF KeyCut
<1>2. \A role, resp : ExampleKey(S, run, type, got, role, resp)
                        => ExampleKey(T, run1, type, got, role, resp)
  BY <1>1 DEF ExampleKey
<1> QED
  BY <1>2 DEF Gotten

\* One more answer.
LEMMA GottenMore ==
  ASSUME NEW S, NEW run, NEW type, NEW got \in Seq(ResponseMessage), NEW resp \in ResponseMessage,
         Gotten(S, run, type, got),
         Len(got) = 0 => \E m \in S : m.key_stream_id = resp.key_stream_id,
         Len(got) = 1 => resp.key_stream_id = got[1].key_stream_id,
         Len(got) = 2 => ExampleKey(S, run, type, got, 16, resp),
         Len(got) = 3 => ExampleKey(S, run, type, got, 17, resp)
  PROVE  Gotten(S, run, type, Append(got, resp))
<1> DEFINE more == Append(got, resp)
<1>1. /\ Len(got) \in Nat
      /\ Len(more) = Len(got) + 1
      /\ \A i \in 1..Len(got) : more[i] = got[i]
      /\ more[Len(got) + 1] = resp
  OBVIOUS
<1> HIDE DEF more
<1>2. /\ Len(more) >= 2 => Len(got) = 1 \/ Len(got) >= 2
      /\ Len(more) >= 3 => Len(got) = 2 \/ Len(got) >= 3
      /\ Len(more) >= 4 => Len(got) = 3 \/ Len(got) >= 4
  <2>1. \A n \in Nat : /\ n + 1 >= 2 => n = 1 \/ n >= 2
                       /\ n + 1 >= 3 => n = 2 \/ n >= 3
                       /\ n + 1 >= 4 => n = 3 \/ n >= 4
    OBVIOUS
  <2> QED
    BY <1>1, <2>1
<1>3. Len(more) >= 1 => \E m \in S : m.key_stream_id = more[1].key_stream_id
  BY <1>1 DEF Gotten
<1>4. Len(more) >= 2 => more[2].key_stream_id = more[1].key_stream_id
  <2>1. CASE Len(got) = 1
    <3>1. more[2] = resp /\ more[1] = got[1]
      BY <1>1, <2>1
    <3> QED
      BY <2>1, <3>1
  <2>2. CASE Len(got) >= 2
    <3>1. more[2] = got[2] /\ more[1] = got[1]
      BY <1>1, <2>2
    <3> QED
      BY <2>2, <3>1 DEF Gotten
  <2> QED
    BY <1>2, <2>1, <2>2
<1>5. ASSUME Len(got) >= 1, NEW role, NEW answer, ExampleKey(S, run, type, got, role, answer)
      PROVE  ExampleKey(S, run, type, more, role, answer)
  <2>1. more[1] = got[1]
    BY <1>1, <1>5
  <2> QED
    BY <1>5, <2>1 DEF ExampleKey
<1>6. Len(more) >= 3 => ExampleKey(S, run, type, more, 16, more[3])
  <2> SUFFICES ASSUME Len(more) >= 3 PROVE ExampleKey(S, run, type, more, 16, more[3])
    OBVIOUS
  <2>1. CASE Len(got) = 2
    <3>1. more[3] = resp
      BY <1>1, <2>1
    <3> QED
      BY <1>5, <2>1, <3>1
  <2>2. CASE Len(got) >= 3
    <3>1. more[3] = got[3]
      BY <1>1, <2>2
    <3>2. ExampleKey(S, run, type, got, 16, got[3])
      BY <2>2 DEF Gotten
    <3> QED
      BY <1>5, <2>2, <3>1, <3>2
  <2> QED
    BY <1>2, <2>1, <2>2
<1>7. Len(more) >= 4 => ExampleKey(S, run, type, more, 17, more[4])
  <2> SUFFICES ASSUME Len(more) >= 4 PROVE ExampleKey(S, run, type, more, 17, more[4])
    OBVIOUS
  <2>1. CASE Len(got) = 3
    <3>1. more[4] = resp
      BY <1>1, <2>1
    <3> QED
      BY <1>5, <2>1, <3>1
  <2>2. CASE Len(got) >= 4
    <3>1. more[4] = got[4]
      BY <1>1, <2>2
    <3>2. ExampleKey(S, run, type, got, 17, got[4])
      BY <2>2 DEF Gotten
    <3> QED
      BY <1>5, <2>2, <3>1, <3>2
  <2> QED
    BY <1>2, <2>1, <2>2
<1> QED
  BY <1>3, <1>4, <1>6, <1>7 DEF Gotten, more

\* OPEN_CONNECT gives back the id it is given, or else that of a stream.
LEMMA OpenGivesStream ==
  ASSUME KmsInv, NEW req \in AppRequest, req.service = "OPEN_CONNECT", NEW key_info,
         HandleRequest(HandlerArguments(req, key_info))
  PROVE  LET answer == ResponseStruct(req, response')
         IN /\ req.key_stream_id # NilUuid => answer.key_stream_id = req.key_stream_id
            /\ req.key_stream_id = NilUuid =>
                 \E m \in minted' : m.key_stream_id = answer.key_stream_id
<1> DEFINE args == HandlerArguments(req, key_info)
           answer == ResponseStruct(req, response')
<1>1. args.service = "OPEN_CONNECT" /\ args.key_stream_id = req.key_stream_id
  BY DEF HandlerArguments
<1>2. qkd_open_connect(args)
  BY <1>1 DEF HandleRequest, qkd_get_key, qkd_close
<1> HIDE DEF args
<1>3. ASSUME NEW ksid, response' = OpenConnectAnswer(args, ksid)
      PROVE  answer.key_stream_id = ksid
  BY <1>3 DEF ResponseStruct, OpenConnectAnswer
<1> HIDE DEF answer
<1>4. CASE OpenNamed(args)
  <2>1. answer.key_stream_id = args.key_stream_id /\ args.key_stream_id # NilUuid
    BY <1>3, <1>4 DEF OpenNamed
  <2> QED
    BY <1>1, <2>1 DEF answer
<1>5. CASE OpenJoined(args)
  <2> DEFINE i == Min(NodesOfPair(args.pair))
             node == ksid_info_linked_list[i]
             m == [key_stream_id |-> node.key_stream_id, pair |-> node.pair,
                   qos |-> node.qos, run |-> restarts]
  <2>1. i \in DOMAIN ksid_info_linked_list
    BY <1>5, SearchFindsMatch DEF KmsInv, OpenJoined
  <2>2. m \in minted /\ m.key_stream_id = node.key_stream_id
    BY <2>1, ListIsThisRunSplit DEF KmsInv
  <2>3. answer.key_stream_id = node.key_stream_id /\ minted' = minted
    BY <1>3, <1>5 DEF OpenJoined
  <2>4. args.key_stream_id = NilUuid
    BY <1>5 DEF OpenJoined
  <2> HIDE DEF m, node
  <2> QED
    BY <1>1, <2>2, <2>3, <2>4 DEF answer
<1>6. CASE OpenCreated(args)
  <2>1. PICK ksid \in Uuid : NewStream(args, ksid)
    BY <1>6 DEF OpenCreated
  <2> DEFINE m == [key_stream_id |-> ksid, pair |-> args.pair, qos |-> args.qos, run |-> restarts]
  <2>2. m \in minted' /\ m.key_stream_id = ksid
    BY <2>1 DEF NewStream
  <2>3. answer.key_stream_id = ksid
    BY <1>3, <2>1 DEF NewStream
  <2>4. args.key_stream_id = NilUuid
    BY <1>6 DEF OpenCreated
  <2> HIDE DEF m
  <2> QED
    BY <1>1, <2>2, <2>3, <2>4 DEF answer
<1> QED
  BY <1>2, <1>4, <1>5, <1>6 DEF qkd_open_connect

\* In the first run of the server a stream that was ever created is there.
LEMMA FirstRunServes ==
  ASSUME KmsInv, restarts = 0, NEW req \in AppRequest, req.service = "GET_KEY",
         NEW key_info \in KeyInfoOctets(req), HandleRequest(HandlerArguments(req, key_info)),
         NEW m \in minted, m.key_stream_id = req.key_stream_id
  PROVE  ResponseStruct(req, response').status = Successful
<1> DEFINE args == HandlerArguments(req, key_info)
           answer == ResponseStruct(req, response')
<1>1. args.service = "GET_KEY" /\ args.key_stream_id = req.key_stream_id
  BY DEF HandlerArguments
<1> HIDE DEF args
<1>2. qkd_get_key(args)
  BY <1>1 DEF HandleRequest, qkd_open_connect, qkd_close, args
<1>3. m.run = restarts
  <2>1. m \in Minted
    BY DEF KmsInv, KmsTypeOK
  <2>2. m.run \in Nat /\ m.run <= restarts
    BY <2>1 DEF KmsInv, RunsSoFar, Minted
  <2> QED
    BY <2>2
<1>4. NodesOfKsid(args.key_stream_id) # {}
  <2>1. PICK i \in DOMAIN ksid_info_linked_list :
          m.key_stream_id = ksid_info_linked_list[i].key_stream_id
    BY <1>3, ListIsThisRunSplit DEF KmsInv
  <2> QED
    BY <1>1, <2>1 DEF NodesOfKsid
<1>5. GetKeyServed(args)
  BY <1>2, <1>4 DEF qkd_get_key, GetKeyUnknown
<1>6. PICK key : response' = GetKeyAnswer(args, Successful, key, DeviceInfo)
  BY <1>5 DEF GetKeyServed
<1>7. answer.status = Successful
  BY <1>6 DEF GetKeyAnswer, ResponseStruct
<1> QED
  BY <1>7

\* The servlet answers a call of the example with what the example needs next.
LEMMA ExampleServe ==
  ASSUME Inv, KeysInv, ExampleInv, Serve
  PROVE  ExampleInv'
<1> DEFINE req == call.request
           answer == ResponseStruct(req, response')
<1>1. /\ phase = "request" /\ phase' = "response"
      /\ call'.request = req /\ call'.answer = answer
      /\ call'.by = call.by /\ call'.file = call.file
      /\ \E key_info \in KeyInfoOctets(req) : HandleRequest(HandlerArguments(req, key_info))
  BY ServeReads DEF ServeStep, Served
<1>2. UNCHANGED <<files, key_type, script>>
  BY DEF Serve
<1>3. req \in AppRequest /\ KmsInv /\ Inv'
  BY <1>1, ServeSafe DEF Inv, RequestInv
<1>4. answer \in AppAnswer(req)
  BY <1>1, <1>3 DEF Inv, WireInv
<1>5. PICK key_info \in KeyInfoOctets(req) : HandleRequest(HandlerArguments(req, key_info))
  BY <1>1
<1>6. restarts' = restarts /\ minted \subseteq minted'
  BY <1>5 DEF HandleRequest, qkd_open_connect, OpenNamed, OpenJoined, OpenCreated, NewStream,
              qkd_get_key, qkd_close
<1>7. Gotten(minted', restarts', key_type, script)
  BY <1>6, GottenLater DEF ExampleInv
<1>8. Scripted(call.by, call.file, req)
  BY <1>1 DEF ExampleInv
<1> HIDE DEF answer
<1>9. ASSUME call.by = "example"
      PROVE  Gotten(minted', restarts', key_type, Append(script, answer))
  <2>1. script \in Seq(ResponseMessage) /\ answer \in ResponseMessage /\ Len(script) \in Nat
    BY <1>4 DEF Inv, ScriptInv, AppAnswer
  <2>2. req = ExampleRequest(script)
    BY <1>8, <1>9 DEF Scripted
  <2>3. Len(script) = 0 => \E m \in minted' : m.key_stream_id = answer.key_stream_id
    <3> SUFFICES ASSUME Len(script) = 0
                 PROVE  \E m \in minted' : m.key_stream_id = answer.key_stream_id
      OBVIOUS
    <3>1. req.service = "OPEN_CONNECT" /\ req.key_stream_id = NilUuid
      BY <2>2 DEF ExampleRequest, OpenRequest
    <3> QED
      BY <1>3, <1>5, <3>1, OpenGivesStream DEF answer
  <2>4. Len(script) = 1 => answer.key_stream_id = script[1].key_stream_id
    <3> SUFFICES ASSUME Len(script) = 1
                 PROVE  answer.key_stream_id = script[1].key_stream_id
      OBVIOUS
    <3>1. req.service = "OPEN_CONNECT" /\ req.key_stream_id = script[1].key_stream_id
      BY <2>2 DEF ExampleRequest, OpenRequest
    <3>2. PICK m \in minted : m.key_stream_id = script[1].key_stream_id
      BY DEF ExampleInv, Gotten
    <3>3. m.key_stream_id # NilUuid
      BY ModelsAssumption DEF Inv, KmsInv, KmsTypeOK, Minted
    <3> QED
      BY <1>3, <1>5, <3>1, <3>2, <3>3, OpenGivesStream DEF answer
  <2>5. ASSUME NEW role, req = KeyRequest(script[1].key_stream_id, 0, <<key_type, role>>),
               Len(script) >= 2
        PROVE  ExampleKey(minted', restarts', key_type, script, role, answer)
    <3>1. /\ req.service = "GET_KEY" /\ req.index = 0
          /\ req.key_stream_id = script[1].key_stream_id
      BY <2>5 DEF KeyRequest
    <3>2. PICK m \in minted : m.key_stream_id = script[1].key_stream_id
      BY <2>1, <2>5 DEF ExampleInv, Gotten
    <3>3. restarts' = 0 => answer.status = Successful
      BY <1>3, <1>5, <1>6, <3>1, <3>2, FirstRunServes DEF answer
    <3>4. Explained(minted, req, answer, restarts)
      BY <1>3, <1>5, <3>1, GetKeyExplained DEF answer
    <3>5. Explained(minted', req, answer, restarts)
      BY <1>6, <3>4, ExplainedLater
    <3>6. answer.key_buffer # <<>> => KeyCut(minted', req, answer.key_buffer)
      BY <3>5 DEF Explained, FromStream, NoStream
    <3>7. answer.index = 0
      BY <1>4, <3>1 DEF AppAnswer
    <3> QED
      BY <2>5, <3>3, <3>6, <3>7 DEF ExampleKey
  <2>6. Len(script) = 2 => ExampleKey(minted', restarts', key_type, script, 16, answer)
    <3>1. Len(script) = 2 => req = KeyRequest(script[1].key_stream_id, 0, <<key_type, 16>>)
      BY <2>2 DEF ExampleRequest
    <3> QED
      BY <2>5, <3>1
  <2>7. Len(script) = 3 => ExampleKey(minted', restarts', key_type, script, 17, answer)
    <3>1. Len(script) = 3 => req = KeyRequest(script[2].key_stream_id, 0, <<key_type, 17>>)
      BY <2>2 DEF ExampleRequest
    <3>2. Len(script) = 3 => script[2].key_stream_id = script[1].key_stream_id
      BY DEF ExampleInv, Gotten
    <3> QED
      BY <2>5, <3>1, <3>2
  <2> QED
    BY <1>7, <2>1, <2>3, <2>4, <2>6, <2>7, GottenMore
<1>10. FilesInv'
  BY <1>2 DEF ExampleInv, FilesInv
<1>11. Scripted(call.by, call.file, call.request)'
  BY <1>1, <1>2, <1>8 DEF Scripted, ExampleRequest
<1>12. Gotten(minted, restarts, key_type, script)'
  BY <1>2, <1>7
<1>13. (phase = "response" /\ call.by = "example" =>
          Gotten(minted, restarts, key_type, Append(script, call.answer)))'
  BY <1>1, <1>2, <1>9
<1> QED
  BY <1>10, <1>11, <1>12, <1>13 DEF ExampleInv

\* The example keeps its answer, and writes a key to the file of its end.
LEMMA ExampleReturn ==
  ASSUME Inv, ExampleInv, Return
  PROVE  ExampleInv'
<1> DEFINE text == write_key_to_file_bit_format(call.answer)
           key == call.request.service = "GET_KEY"
<1>1. /\ phase = "response" /\ phase' = "idle"
      /\ files' = IF key THEN [files EXCEPT ![call.file] = Append(@, text)] ELSE files
      /\ script' = IF call.by = "example" THEN Append(script, call.answer) ELSE script
      /\ key_type' = key_type /\ minted' = minted /\ restarts' = restarts
  BY ReturnReads DEF kmsVars
<1>2. Scripted(call.by, call.file, call.request)
  BY <1>1 DEF ExampleInv
<1>3. script \in Seq(ResponseMessage) /\ call.answer \in ResponseMessage /\ Len(script) \in Nat
  BY <1>1 DEF Inv, ScriptInv, WireInv, AppAnswer
<1>4. Gotten(minted, restarts, key_type, script)'
  BY <1>1 DEF ExampleInv
<1> HIDE DEF text
<1>5. CASE call.by # "example"
  <2>1. script' = script /\ call.file = "app.key"
    BY <1>1, <1>2, <1>5 DEF Scripted
  <2>2. /\ DOMAIN files' = DOMAIN files
        /\ files'["test.key"] = files["test.key"] /\ files'["test_.key"] = files["test_.key"]
    BY <1>1, <2>1 DEF ExampleInv, FilesInv
  <2>3. FilesInv'
    BY <2>1, <2>2 DEF ExampleInv, FilesInv
  <2> QED
    BY <1>1, <1>4, <2>3 DEF ExampleInv
<1>6. CASE call.by = "example"
  <2>1. /\ call.request = ExampleRequest(script) /\ Len(script) < 6
        /\ call.file = IF Len(script) = 2 THEN "test.key" ELSE "test_.key"
    BY <1>2, <1>6 DEF Scripted
  <2>2. key <=> Len(script) \in {2, 3}
    <3>1. Len(script) \in {0, 1, 2, 3, 4, 5}
      <4>1. \A n \in Nat : n < 6 => n \in {0, 1, 2, 3, 4, 5}
        OBVIOUS
      <4> QED
        BY <1>3, <2>1, <4>1
    <3>2. CASE Len(script) = 0
      BY <2>1, <3>2 DEF ExampleRequest, OpenRequest
    <3>3. CASE Len(script) = 1
      BY <2>1, <3>3 DEF ExampleRequest, OpenRequest
    <3>4. CASE Len(script) = 2
      BY <2>1, <3>4 DEF ExampleRequest, KeyRequest
    <3>5. CASE Len(script) = 3
      BY <2>1, <3>5 DEF ExampleRequest, KeyRequest
    <3>6. CASE Len(script) = 4
      BY <2>1, <3>6 DEF ExampleRequest, CloseCallRequest
    <3>7. CASE Len(script) = 5
      BY <2>1, <3>7 DEF ExampleRequest, CloseCallRequest
    <3> QED
      BY <3>1, <3>2, <3>3, <3>4, <3>5, <3>6, <3>7
  <2>3. /\ Len(script') = Len(script) + 1
        /\ \A i \in 1..Len(script) : script'[i] = script[i]
        /\ script'[Len(script) + 1] = call.answer
    BY <1>1, <1>3, <1>6
  <2>4. CASE Len(script) = 2
    <3>1. /\ Len(script') = 3 /\ script'[3] = call.answer
          /\ files["test.key"] = <<>> /\ files["test_.key"] = <<>>
      BY <2>3, <2>4 DEF ExampleInv, FilesInv
    <3>2. files' = [files EXCEPT !["test.key"] = Append(@, text)]
      BY <1>1, <2>1, <2>2, <2>4
    <3>3. /\ DOMAIN files' = DOMAIN files
          /\ files'["test.key"] = <<text>> /\ files'["test_.key"] = <<>>
      BY <3>1, <3>2 DEF ExampleInv, FilesInv
    <3>4. FilesInv'
      BY <3>1, <3>3 DEF ExampleInv, FilesInv, text
    <3> QED
      BY <1>1, <1>4, <3>4 DEF ExampleInv
  <2>5. CASE Len(script) = 3
    <3>1. /\ Len(script') = 4 /\ script'[4] = call.answer /\ script'[3] = script[3]
          /\ files["test.key"] = <<write_key_to_file_bit_format(script[3])>>
          /\ files["test_.key"] = <<>>
      BY <2>3, <2>5 DEF ExampleInv, FilesInv
    <3>2. files' = [files EXCEPT !["test_.key"] = Append(@, text)]
      BY <1>1, <2>1, <2>2, <2>5
    <3>3. /\ DOMAIN files' = DOMAIN files
          /\ files'["test.key"] = files["test.key"] /\ files'["test_.key"] = <<text>>
      BY <3>1, <3>2 DEF ExampleInv, FilesInv
    <3>4. FilesInv'
      BY <3>1, <3>3 DEF ExampleInv, FilesInv, text
    <3> QED
      BY <1>1, <1>4, <3>4 DEF ExampleInv
  <2>6. CASE Len(script) \notin {2, 3}
    <3>1. files' = files
      BY <1>1, <2>2, <2>6
    <3>2. \/ Len(script') < 3 /\ Len(script) < 3
          \/ /\ Len(script') >= 4 /\ Len(script) >= 4
             /\ script'[3] = script[3] /\ script'[4] = script[4]
      <4>1. \A n \in Nat : \/ n < 3 /\ n + 1 < 3
                           \/ n \in {2, 3}
                           \/ n + 1 >= 4 /\ n >= 4 /\ 3 \in 1..n /\ 4 \in 1..n
        OBVIOUS
      <4> QED
        BY <1>3, <2>3, <2>6, <4>1
    <3>3. FilesInv'
      BY <3>1, <3>2 DEF ExampleInv, FilesInv
    <3> QED
      BY <1>1, <1>4, <3>3 DEF ExampleInv
  <2> QED
    BY <2>4, <2>5, <2>6
<1> QED
  BY <1>5, <1>6

\* Who makes a call.
LEMMA CallsScripted ==
  ASSUME [Next]_vars
  PROVE  \/ Serve \/ Return
         \/ \E by, file, req : LibraryCall(by, file, req) /\ Scripted(by, file, req)
         \/ ApiOpenConnectUnparsable \/ ApiGetKeyUnparsable \/ RestartServer
         \/ UNCHANGED vars
<1>1. CASE ExampleStep
  BY <1>1 DEF ExampleStep, Scripted
<1>2. ASSUME NEW by \in {"app", "api", "api, no id"}, NEW req, AppCall(by, req)
      PROVE  LibraryCall(by, "app.key", req) /\ Scripted(by, "app.key", req)
  BY <1>2 DEF AppCall, Scripted
<1>3. AppOpenConnect \/ AppGetKey \/ AppClose \/ ApiOpenConnect \/ ApiGetKey \/ ApiClose
        => \E by \in {"app", "api", "api, no id"} : \E req : AppCall(by, req)
  BY DEF AppOpenConnect, AppGetKey, AppClose, ApiOpenConnect, ApiGetKey, ApiClose
<1> QED
  BY <1>1, <1>2, <1>3 DEF Next, Quiescent

\* ExampleInv is an invariant.
THEOREM ExchangeExampleInvariant == Spec => []ExampleInv
<1>1. Init => ExampleInv
  BY DEF Init, KmsInit, ExampleInv, Gotten, FilesInv
<1>2. Inv /\ KeysInv /\ ExampleInv /\ [Next]_vars => ExampleInv'
  <2> SUFFICES ASSUME Inv, KeysInv, ExampleInv, [Next]_vars PROVE ExampleInv'
    OBVIOUS
  <2>1. CASE Serve
    BY <2>1, ExampleServe
  <2>2. CASE Return
    BY <2>2, ExampleReturn
  <2>3. CASE \E by, file, req : LibraryCall(by, file, req) /\ Scripted(by, file, req)
    <3>1. PICK by, file, req : LibraryCall(by, file, req) /\ Scripted(by, file, req)
      BY <2>3
    <3>2. /\ UNCHANGED <<files, script, minted, restarts, key_type>>
          /\ phase' \in {"idle", "request"}
          /\ call'.by = by /\ call'.file = file /\ call'.request = req
      BY <3>1 DEF LibraryCall, Called, kmsVars
    <3>3. Scripted(call.by, call.file, call.request)'
      BY <3>1, <3>2 DEF Scripted, ExampleRequest
    <3>4. FilesInv' /\ Gotten(minted, restarts, key_type, script)'
      BY <3>2 DEF ExampleInv, FilesInv
    <3> QED
      BY <3>2, <3>3, <3>4 DEF ExampleInv
  <2>4. CASE ApiOpenConnectUnparsable \/ ApiGetKeyUnparsable
    <3>1. UNCHANGED <<phase, files, script, minted, restarts, key_type>> /\ phase = "idle"
      BY <2>4 DEF ApiOpenConnectUnparsable, ApiGetKeyUnparsable, ApiReturns, kmsVars
    <3> QED
      BY <3>1 DEF ExampleInv, FilesInv
  <2>5. CASE RestartServer
    <3>1. UNCHANGED <<phase, files, script, minted, key_type>> /\ phase = "idle"
      BY <2>5 DEF RestartServer, Restart
    <3>2. restarts' # 0
      <4>1. restarts \in Nat /\ restarts' = restarts + 1
        BY <2>5, BoundsAssumption DEF RestartServer, Restart, Inv, KmsInv, KmsTypeOK
      <4> QED
        BY <4>1
    <3>3. Gotten(minted, restarts, key_type, script)'
      BY <3>1, <3>2, GottenLater DEF ExampleInv
    <3> QED
      BY <3>1, <3>3 DEF ExampleInv, FilesInv
  <2>6. CASE UNCHANGED vars
    BY <2>6 DEF vars, exchangeVars, kmsVars, ExampleInv, FilesInv, Scripted, ExampleRequest
  <2> QED
    BY <2>1, <2>2, <2>3, <2>4, <2>5, <2>6, CallsScripted
<1> QED
  BY <1>1, <1>2, ExchangeInvariant, ExchangeKeysInvariant, PTL DEF Spec

\* Two forms of one key, each as the metadata ask for.
TwoForms(index, some, other, a, b) ==
  \E size \in ChunkSize, pair \in Pair, f, g \in KeyForms :
    /\ a = OctetsOf([size |-> size, seed |-> Seed(pair, index), form |-> f])
    /\ b = OctetsOf([size |-> size, seed |-> Seed(pair, index), form |-> g])
    /\ Len(some) >= 2 => (f = "half" <=> some[1] # 0 /\ some[2] # 16)
    /\ Len(other) >= 2 => (g = "half" <=> other[1] # 0 /\ other[2] # 16)

\* Two keys of one id and index are two forms of one key, since an id is given once.
LEMMA OneKey ==
  ASSUME Inv, NEW ksid, NEW index, NEW some, NEW other, NEW a, NEW b,
         KeyCut(minted, KeyRequest(ksid, index, some), a),
         KeyCut(minted, KeyRequest(ksid, index, other), b)
  PROVE  TwoForms(index, some, other, a, b)
<1>1. \A metadata : /\ KeyRequest(ksid, index, metadata).key_stream_id = ksid
                    /\ KeyRequest(ksid, index, metadata).index = index
                    /\ KeyRequest(ksid, index, metadata).metadata = metadata
  BY DEF KeyRequest
<1>2. PICK m \in minted, f \in KeyForms :
        /\ m.key_stream_id = ksid
        /\ a = OctetsOf([size |-> m.qos.key_chunk_size, seed |-> Seed(m.pair, index), form |-> f])
        /\ Len(some) >= 2 => (f = "half" <=> some[1] # 0 /\ some[2] # 16)
  BY <1>1 DEF KeyCut
<1>3. PICK n \in minted, g \in KeyForms :
        /\ n.key_stream_id = ksid
        /\ b = OctetsOf([size |-> n.qos.key_chunk_size, seed |-> Seed(n.pair, index), form |-> g])
        /\ Len(other) >= 2 => (g = "half" <=> other[1] # 0 /\ other[2] # 16)
  BY <1>1 DEF KeyCut
<1>4. m = n
  BY <1>2, <1>3 DEF Inv, KmsInv, MintedOnce
<1>5. m.qos.key_chunk_size \in ChunkSize /\ m.pair \in Pair
  BY DEF Inv, KmsInv, KmsTypeOK, Minted, Qos
<1> QED
  BY <1>2, <1>3, <1>4, <1>5 DEF TwoForms

\* A key of no octets leaves no bits in the file.
LEMMA NoBits ==
  ASSUME NEW resp, resp.key_buffer = <<>>
  PROVE  write_key_to_file_bit_format(resp).key = <<>>
<1>1. Len(<<>>) = 0 /\ 1..(8 * 0) = {}
  OBVIOUS
<1> QED
  BY <1>1 DEF write_key_to_file_bit_format

\* The text of an index and the bits of a key depend on nothing else.
LEMMA SameText ==
  ASSUME NEW a, NEW b
  PROVE  /\ a.index = b.index =>
              write_key_to_file_bit_format(a).index = write_key_to_file_bit_format(b).index
         /\ a.key_buffer = b.key_buffer =>
              write_key_to_file_bit_format(a).key = write_key_to_file_bit_format(b).key
  BY DEF write_key_to_file_bit_format

\* The two files of the example belong together, whatever other applications do with
\* its stream and whenever the server is started again (client_example.c:54).
THEOREM ExchangeExampleFilesAgree == Spec => []ExampleFilesAgree
<1>1. Inv /\ ExampleInv => ExampleFilesAgree
  <2> DEFINE sent == script[3]
             got == script[4]
             sender == write_key_to_file_bit_format(sent)
             receiver == write_key_to_file_bit_format(got)
             Agree == /\ sender.index = receiver.index
                      /\ restarts = 0 => sent.status = Successful /\ got.status = Successful
                      /\ sender.key # <<>> /\ receiver.key # <<>> =>
                           IF key_type = 0 THEN sender.key = receiver.key
                           ELSE Chosen(sender.key, receiver.key)
  <2> SUFFICES ASSUME Inv, ExampleInv, NEW i \in DOMAIN files["test_.key"]
               PROVE  files["test.key"][i] = sender /\ files["test_.key"][i] = receiver /\ Agree
    BY DEF ExampleFilesAgree
  <2>1. /\ Len(script) >= 4
        /\ files["test.key"] = <<sender>> /\ files["test_.key"] = <<receiver>>
    <3>1. Len(script) >= 4 /\ files["test_.key"] = <<receiver>>
      BY DEF ExampleInv, FilesInv
    <3>2. Len(script) >= 3
      BY <3>1 DEF Inv, ScriptInv
    <3> QED
      BY <3>1, <3>2 DEF ExampleInv, FilesInv
  <2>2. files["test.key"][i] = sender /\ files["test_.key"][i] = receiver
    BY <2>1
  <2> DEFINE ksid == script[1].key_stream_id
  <2>3. /\ ExampleKey(minted, restarts, key_type, script, 16, sent)
        /\ ExampleKey(minted, restarts, key_type, script, 17, got)
    <3>1. Len(script) >= 3
      BY <2>1 DEF Inv, ScriptInv
    <3> QED
      BY <2>1, <3>1 DEF ExampleInv, Gotten
  <2>4. sender.index = receiver.index
    BY <2>3, SameText DEF ExampleKey
  <2>5. restarts = 0 => sent.status = Successful /\ got.status = Successful
    BY <2>3 DEF ExampleKey
  <2>6. ASSUME sender.key # <<>>, receiver.key # <<>>
        PROVE  IF key_type = 0 THEN sender.key = receiver.key
               ELSE Chosen(sender.key, receiver.key)
    <3>1. sent.key_buffer # <<>> /\ got.key_buffer # <<>>
      BY <2>6, NoBits
    <3>2. /\ KeyCut(minted, KeyRequest(ksid, 0, <<key_type, 16>>), sent.key_buffer)
          /\ KeyCut(minted, KeyRequest(ksid, 0, <<key_type, 17>>), got.key_buffer)
      BY <2>3, <3>1 DEF ExampleKey
    <3>3. PICK size \in ChunkSize, pair \in Pair, f, g \in KeyForms :
            /\ sent.key_buffer = OctetsOf([size |-> size, seed |-> Seed(pair, 0), form |-> f])
            /\ got.key_buffer = OctetsOf([size |-> size, seed |-> Seed(pair, 0), form |-> g])
            /\ f = "half" <=> key_type # 0 /\ 16 # 16
            /\ g = "half" <=> key_type # 0 /\ 17 # 16
      <4> DEFINE some == <<key_type, 16>>
                 other == <<key_type, 17>>
      <4>1. /\ Len(some) >= 2 /\ some[1] = key_type /\ some[2] = 16
            /\ Len(other) >= 2 /\ other[1] = key_type /\ other[2] = 17
        OBVIOUS
      <4> HIDE DEF some, other, sent, got, ksid
      <4>2. /\ KeyCut(minted, KeyRequest(ksid, 0, some), sent.key_buffer)
            /\ KeyCut(minted, KeyRequest(ksid, 0, other), got.key_buffer)
        BY <3>2 DEF some, other
      <4>3. PICK size \in ChunkSize, pair \in Pair, f, g \in KeyForms :
              /\ sent.key_buffer = OctetsOf([size |-> size, seed |-> Seed(pair, 0), form |-> f])
              /\ got.key_buffer = OctetsOf([size |-> size, seed |-> Seed(pair, 0), form |-> g])
              /\ Len(some) >= 2 => (f = "half" <=> some[1] # 0 /\ some[2] # 16)
              /\ Len(other) >= 2 => (g = "half" <=> other[1] # 0 /\ other[2] # 16)
        <5>1. TwoForms(0, some, other, sent.key_buffer, got.key_buffer)
          BY <4>2, OneKey
        <5> QED
          BY <5>1 DEF TwoForms
      <4>4. /\ f = "half" <=> key_type # 0 /\ 16 # 16
            /\ g = "half" <=> key_type # 0 /\ 17 # 16
        BY <4>1, <4>3
      <4> QED
        BY <4>3, <4>4
    <3>4. f = "whole" /\ g = IF key_type = 0 THEN "whole" ELSE "half"
      BY <3>3 DEF KeyForms
    <3>5. CASE key_type = 0
      BY <3>3, <3>4, <3>5, SameText
    <3>6. CASE key_type # 0
      <4>1. 0 \in Index
        BY ExchangeAssumption
      <4>2. /\ sent.key_buffer = OctetsOf([size |-> size, seed |-> Seed(pair, 0), form |-> "whole"])
            /\ got.key_buffer = OctetsOf([size |-> size, seed |-> Seed(pair, 0), form |-> "half"])
        BY <3>3, <3>4, <3>6
      <4> HIDE DEF sent, got
      <4>3. Chosen(sender.key, receiver.key)
        BY <4>1, <4>2, HalfChosen
      <4> QED
        BY <3>6, <4>3
    <3> QED
      BY <3>5, <3>6
  <2> QED
    BY <2>2, <2>4, <2>5, <2>6
<1> QED
  BY <1>1, ExchangeInvariant, ExchangeExampleInvariant, PTL

-----------------------------------------------------------------------------
(* Decimal digits.  What a function defined by the digits of a number returns  *)
(* is shown by its least counterexample.                                       *)

\* A set of numbers that is not empty has a least element.
LEMMA LeastNumber ==
  ASSUME NEW T, T \subseteq Nat, T # {}
  PROVE  \E x \in T : \A y \in T : x <= y
<1> DEFINE R == OpToRel(<, Nat)
<1>1. IsWellFoundedOn(R, Nat)
  BY NatLessThanWellFounded
<1>2. \A x, y \in Nat : <<y, x>> \in R <=> y < x
  BY DEF OpToRel
<1> HIDE DEF R
<1>3. PICK x \in T : \A y \in T : ~ (<<y, x>> \in R)
  BY <1>1, WFMin
<1>4. \A y \in T : x <= y
  <2> TAKE y \in T
  <2>1. x \in Nat /\ y \in Nat /\ ~ (y < x)
    BY <1>2, <1>3
  <2> QED
    BY <2>1
<1> QED
  BY <1>3, <1>4

\* A number of more than one digit and what is left of it without the last one.
LEMMA LastDigit ==
  ASSUME NEW n \in Nat
  PROVE  /\ n \div 10 \in Nat /\ n % 10 \in 0..9
         /\ n = (n \div 10) * 10 + (n % 10)
         /\ n >= 10 => n \div 10 < n /\ n \div 10 >= 1
  OBVIOUS

\* f is defined on the numbers up to k, by the last digit of n and the value for the
\* digits before it.
ByDigits(V, base, step, f, k) ==
  /\ f \in [0..k -> V]
  /\ \A n \in 0..k : f[n] = IF n < 10 THEN base[n] ELSE step[<<f[n \div 10], n % 10>>]

\* Two such functions agree where both are defined.
LEMMA ByDigitsUnique ==
  ASSUME NEW V, NEW base, NEW step, NEW f, NEW g, NEW j \in Nat, NEW k \in Nat,
         ByDigits(V, base, step, f, j), ByDigits(V, base, step, g, k),
         NEW n \in Nat, n <= j, n <= k
  PROVE  f[n] = g[n]
<1> DEFINE T == {i \in Nat : i <= j /\ i <= k /\ f[i] # g[i]}
<1> SUFFICES ASSUME T # {} PROVE FALSE
  OBVIOUS
<1>1. T \subseteq Nat
  OBVIOUS
<1> HIDE DEF T
<1>2. PICK i \in T : \A l \in T : i <= l
  BY <1>1, LeastNumber
<1>3. i \in Nat /\ i <= j /\ i <= k /\ f[i] # g[i] /\ i \in 0..j /\ i \in 0..k
  BY DEF T
<1>4. /\ f[i] = IF i < 10 THEN base[i] ELSE step[<<f[i \div 10], i % 10>>]
      /\ g[i] = IF i < 10 THEN base[i] ELSE step[<<g[i \div 10], i % 10>>]
  BY <1>3 DEF ByDigits
<1>5. i >= 10 => f[i \div 10] = g[i \div 10]
  <2> HAVE i >= 10
  <2>1. i \div 10 \in Nat /\ i \div 10 < i
    BY <1>3, LastDigit
  <2>2. ~ (i \div 10 \in T)
    BY <1>2, <1>3, <2>1
  <2> QED
    BY <1>3, <2>1, <2>2 DEF T
<1> QED
  BY <1>3, <1>4, <1>5

\* There is one for every k.
LEMMA ByDigitsExists ==
  ASSUME NEW V, NEW base \in [0..9 -> V], NEW step \in [V \X (0..9) -> V], NEW k \in Nat
  PROVE  \E f : ByDigits(V, base, step, f, k)
<1> DEFINE T == {i \in Nat : ~ \E f : ByDigits(V, base, step, f, i)}
<1> SUFFICES ASSUME T # {} PROVE FALSE
  OBVIOUS
<1>1. T \subseteq Nat
  OBVIOUS
<1> HIDE DEF T
<1>2. PICK i \in T : \A l \in T : i <= l
  BY <1>1, LeastNumber
<1>3. i \in Nat /\ ~ \E f : ByDigits(V, base, step, f, i)
  BY DEF T
<1>4. CASE i = 0
  <2> DEFINE f == [n \in 0..0 |-> base[0]]
  <2>1. 0..0 = {0} /\ 0 \in 0..9
    OBVIOUS
  <2>2. ByDigits(V, base, step, f, 0)
    BY <2>1 DEF ByDigits
  <2> QED
    BY <1>3, <1>4, <2>2
<1>5. CASE i # 0
  <2>1. i - 1 \in Nat /\ ~ (i <= i - 1)
    BY <1>3, <1>5
  <2>2. ~ (i - 1 \in T)
    BY <1>2, <2>1
  <2>3. PICK f : ByDigits(V, base, step, f, i - 1)
    BY <2>1, <2>2 DEF T
  <2> DEFINE v == IF i < 10 THEN base[i] ELSE step[<<f[i \div 10], i % 10>>]
             g == [n \in 0..i |-> IF n = i THEN v ELSE f[n]]
  <2>4. i >= 10 => i \div 10 \in 0..(i - 1) /\ i \div 10 # i /\ i % 10 \in 0..9
    <3> HAVE i >= 10
    <3>1. i \div 10 \in Nat /\ i \div 10 < i /\ i % 10 \in 0..9
      BY <1>3, LastDigit
    <3> QED
      BY <1>3, <3>1
  <2>5. v \in V
    <3>1. CASE i < 10
      BY <1>3, <3>1
    <3>2. CASE ~ (i < 10)
      <4>1. f[i \div 10] \in V /\ i % 10 \in 0..9
        BY <1>3, <2>3, <2>4, <3>2 DEF ByDigits
      <4>2. <<f[i \div 10], i % 10>> \in V \X (0..9)
        BY <4>1
      <4> QED
        BY <3>2, <4>2
    <3> QED
      BY <3>1, <3>2
  <2> HIDE DEF v
  <2>6. \A n \in 0..i : n # i => n \in 0..(i - 1)
    BY <1>3
  <2>7. g \in [0..i -> V]
    BY <2>3, <2>5, <2>6 DEF ByDigits
  <2>8. \A n \in 0..i : g[n] = IF n < 10 THEN base[n] ELSE step[<<g[n \div 10], n % 10>>]
    <3> TAKE n \in 0..i
    <3>1. CASE n = i
      <4>1. i >= 10 => g[i \div 10] = f[i \div 10]
        BY <1>3, <2>4
      <4>2. g[n] = v
        BY <3>1
      <4> HIDE DEF g
      <4> QED
        BY <1>3, <3>1, <4>1, <4>2 DEF v
    <3>2. CASE n # i
      <4>1. n \in 0..(i - 1) /\ g[n] = f[n]
        BY <2>6, <3>2
      <4>2. f[n] = IF n < 10 THEN base[n] ELSE step[<<f[n \div 10], n % 10>>]
        BY <2>3, <4>1 DEF ByDigits
      <4>3. n >= 10 => g[n \div 10] = f[n \div 10]
        <5> HAVE n >= 10
        <5>1. n \in Nat /\ n < i
          BY <1>3, <4>1
        <5>2. n \div 10 \in Nat /\ n \div 10 < n
          BY <5>1, LastDigit
        <5>3. n \div 10 \in 0..i /\ n \div 10 # i
          BY <1>3, <5>1, <5>2
        <5> QED
          BY <5>3
      <4>4. n \in Nat
        OBVIOUS
      <4> HIDE DEF g
      <4> QED
        BY <4>1, <4>2, <4>3, <4>4
    <3> QED
      BY <3>1, <3>2
  <2> HIDE DEF g
  <2>9. ByDigits(V, base, step, g, i)
    BY <2>7, <2>8 DEF ByDigits
  <2> QED
    BY <1>3, <2>9
<1> QED
  BY <1>4, <1>5

\* F is so defined on all numbers.
DigitRule(V, base, step, F) ==
  /\ F \in [Nat -> V]
  /\ \A n \in Nat : F[n] = IF n < 10 THEN base[n] ELSE step[<<F[n \div 10], n % 10>>]

\* A function of all numbers can be defined by their digits.
LEMMA DigitRecursion ==
  ASSUME NEW V, NEW base \in [0..9 -> V], NEW step \in [V \X (0..9) -> V]
  PROVE  \E F : DigitRule(V, base, step, F)
<1> DEFINE part(k) == CHOOSE f : ByDigits(V, base, step, f, k)
           F == [n \in Nat |-> part(n)[n]]
<1>1. \A k \in Nat : ByDigits(V, base, step, part(k), k)
  BY ByDigitsExists
<1> HIDE DEF part
<1>2. \A n \in Nat : F[n] = part(n)[n]
  OBVIOUS
<1>3. \A n \in Nat : part(n)[n] \in V
  BY <1>1 DEF ByDigits
<1>4. F \in [Nat -> V]
  BY <1>3
<1> HIDE DEF F
<1>5. \A n \in Nat : F[n] = IF n < 10 THEN base[n] ELSE step[<<F[n \div 10], n % 10>>]
  <2> TAKE n \in Nat
  <2>1. part(n)[n] = IF n < 10 THEN base[n] ELSE step[<<part(n)[n \div 10], n % 10>>]
    BY <1>1 DEF ByDigits
  <2>2. n >= 10 => part(n)[n \div 10] = F[n \div 10]
    <3> HAVE n >= 10
    <3>1. n \div 10 \in Nat /\ n \div 10 <= n /\ n \div 10 <= n \div 10
      BY LastDigit
    <3>2. part(n)[n \div 10] = part(n \div 10)[n \div 10]
      BY <1>1, <3>1, ByDigitsUnique
    <3> QED
      BY <1>2, <3>1, <3>2
  <2> QED
    BY <1>2, <2>1, <2>2
<1> QED
  BY <1>4, <1>5 DEF DigitRule

\* number_of_digits, Decimal and what they return.
LEMMA NumberOfDigits ==
  /\ number_of_digits \in [Nat -> Nat \ {0}]
  /\ \A n \in Nat :
       number_of_digits[n] = IF n < 10 THEN 1 ELSE 1 + number_of_digits[n \div 10]
<1> DEFINE V == Nat \ {0}
           base == [d \in 0..9 |-> 1]
           step == [p \in V \X (0..9) |-> 1 + p[1]]
           Equation(f) == f = [n \in Nat |-> IF n < 10 THEN 1 ELSE 1 + f[n \div 10]]
<1>1. base \in [0..9 -> V] /\ step \in [V \X (0..9) -> V]
  OBVIOUS
<1>2. \A v \in V, d \in 0..9 : base[d] = 1 /\ step[<<v, d>>] = 1 + v
  OBVIOUS
<1> HIDE DEF V, base, step
<1>3. PICK F : DigitRule(V, base, step, F)
  BY <1>1, DigitRecursion
<1>4. \A n \in Nat : F[n] = IF n < 10 THEN 1 ELSE 1 + F[n \div 10]
  <2> TAKE n \in Nat
  <2>1. n \div 10 \in Nat /\ n % 10 \in 0..9 /\ (n < 10 => n \in 0..9)
    BY LastDigit
  <2>2. F[n] = IF n < 10 THEN base[n] ELSE step[<<F[n \div 10], n % 10>>]
    BY <1>3 DEF DigitRule
  <2>3. F[n \div 10] \in V
    BY <1>3, <2>1 DEF DigitRule
  <2>4. n < 10 => base[n] = 1
    BY <1>2, <2>1, <2>3
  <2>5. step[<<F[n \div 10], n % 10>>] = 1 + F[n \div 10]
    BY <1>2, <2>1, <2>3
  <2> QED
    BY <2>2, <2>4, <2>5
<1>5. Equation(F)
  <2>1. F \in [Nat -> V]
    BY <1>3 DEF DigitRule
  <2> QED
    BY <1>4, <2>1
<1>6. number_of_digits = CHOOSE f : Equation(f)
  BY DEF number_of_digits
<1> HIDE DEF Equation
<1>7. Equation(number_of_digits)
  BY <1>5, <1>6
<1>8. /\ DOMAIN number_of_digits = Nat
      /\ \A n \in Nat :
           number_of_digits[n] = IF n < 10 THEN 1 ELSE 1 + number_of_digits[n \div 10]
      /\ number_of_digits = [n \in Nat |-> number_of_digits[n]]
  BY <1>7 DEF Equation
<1>9. \A n \in Nat : number_of_digits[n] \in Nat \ {0}
  <2> DEFINE T == {n \in Nat : ~ (number_of_digits[n] \in Nat \ {0})}
  <2> SUFFICES ASSUME T # {} PROVE FALSE
    OBVIOUS
  <2>1. T \subseteq Nat
    OBVIOUS
  <2> HIDE DEF T
  <2>2. PICK i \in T : \A l \in T : i <= l
    BY <2>1, LeastNumber
  <2>3. i \in Nat /\ ~ (number_of_digits[i] \in Nat \ {0})
    BY DEF T
  <2>4. i >= 10
    <3>1. i < 10 => number_of_digits[i] = 1
      BY <1>8, <2>3
    <3> QED
      BY <2>3, <3>1
  <2>5. i \div 10 \in Nat /\ i \div 10 < i
    BY <2>3, <2>4, LastDigit
  <2>6. ~ (i \div 10 \in T)
    BY <2>2, <2>3, <2>5
  <2>7. number_of_digits[i \div 10] \in Nat \ {0}
    BY <2>5, <2>6 DEF T
  <2>8. number_of_digits[i] = 1 + number_of_digits[i \div 10]
    BY <1>8, <2>3, <2>4
  <2> QED
    BY <2>3, <2>7, <2>8
<1> QED
  BY <1>8, <1>9

\* The same for the digits themselves.
LEMMA DecimalDigits ==
  /\ \A n \in Nat : Decimal[n] = IF n < 10 THEN <<n>> ELSE Append(Decimal[n \div 10], n % 10)
  /\ \A n \in Nat : Decimal[n] \in Seq(0..9) /\ Len(Decimal[n]) = number_of_digits[n]
<1> DEFINE V == Seq(0..9)
           base == [d \in 0..9 |-> <<d>>]
           step == [p \in V \X (0..9) |-> Append(p[1], p[2])]
           Equation(f) ==
             f = [n \in Nat |-> IF n < 10 THEN <<n>> ELSE Append(f[n \div 10], n % 10)]
<1>1. base \in [0..9 -> V] /\ step \in [V \X (0..9) -> V]
  <2>1. \A d \in 0..9 : <<d>> \in V
    OBVIOUS
  <2>2. \A p \in V \X (0..9) : Append(p[1], p[2]) \in V
    OBVIOUS
  <2> QED
    BY <2>1, <2>2
<1>2. /\ \A d \in 0..9 : base[d] = <<d>>
      /\ \A v \in V, d \in 0..9 : step[<<v, d>>] = Append(v, d)
  OBVIOUS
<1> HIDE DEF V, base, step
<1>3. PICK F : DigitRule(V, base, step, F)
  BY <1>1, DigitRecursion
<1>4. \A n \in Nat : F[n] = IF n < 10 THEN <<n>> ELSE Append(F[n \div 10], n % 10)
  <2> TAKE n \in Nat
  <2>1. n \div 10 \in Nat /\ n % 10 \in 0..9 /\ (n < 10 => n \in 0..9)
    BY LastDigit
  <2>2. /\ F[n \div 10] \in V
        /\ F[n] = IF n < 10 THEN base[n] ELSE step[<<F[n \div 10], n % 10>>]
    BY <1>3, <2>1 DEF DigitRule
  <2>3. n < 10 => base[n] = <<n>>
    BY <1>2, <2>1
  <2>4. step[<<F[n \div 10], n % 10>>] = Append(F[n \div 10], n % 10)
    BY <1>2, <2>1, <2>2
  <2> QED
    BY <2>2, <2>3, <2>4
<1>5. Equation(F)
  <2>1. F \in [Nat -> V]
    BY <1>3 DEF DigitRule
  <2> QED
    BY <1>4, <2>1
<1>6. Decimal = CHOOSE f : Equation(f)
  BY DEF Decimal
<1> HIDE DEF Equation
<1>7. Equation(Decimal)
  BY <1>5, <1>6
<1>8. \A n \in Nat : Decimal[n] = IF n < 10 THEN <<n>> ELSE Append(Decimal[n \div 10], n % 10)
  BY <1>7 DEF Equation
<1>9. \A n \in Nat : Decimal[n] \in Seq(0..9) /\ Len(Decimal[n]) = number_of_digits[n]
  <2> DEFINE Right(n) == Decimal[n] \in Seq(0..9) /\ Len(Decimal[n]) = number_of_digits[n]
             T == {n \in Nat : ~ Right(n)}
  <2> SUFFICES ASSUME T # {} PROVE FALSE
    OBVIOUS
  <2>1. T \subseteq Nat
    OBVIOUS
  <2> HIDE DEF T
  <2>2. PICK i \in T : \A l \in T : i <= l
    BY <2>1, LeastNumber
  <2>3. i \in Nat /\ ~ Right(i)
    BY DEF T
  <2>4. CASE i < 10
    <3>1. Decimal[i] = <<i>>
      BY <1>8, <2>3, <2>4
    <3>2. number_of_digits[i] = 1 /\ i \in 0..9
      BY <2>3, <2>4, NumberOfDigits
    <3>3. <<i>> \in Seq(0..9) /\ Len(<<i>>) = 1
      BY <3>2
    <3> QED
      BY <2>3, <3>1, <3>2, <3>3
  <2>5. CASE ~ (i < 10)
    <3>1. i \div 10 \in Nat /\ i \div 10 < i /\ i % 10 \in 0..9
      BY <2>3, <2>5, LastDigit
    <3>2. ~ (i \div 10 \in T)
      BY <2>2, <2>3, <3>1
    <3>3. Right(i \div 10)
      BY <3>1, <3>2 DEF T
    <3>4. /\ Decimal[i] = Append(Decimal[i \div 10], i % 10)
          /\ number_of_digits[i] = 1 + number_of_digits[i \div 10]
          /\ number_of_digits[i \div 10] \in Nat
      BY <1>8, <2>3, <2>5, <3>1, NumberOfDigits
    <3> QED
      BY <2>3, <3>1, <3>3, <3>4
  <2> QED
    BY <2>4, <2>5
<1> QED
  BY <1>8, <1>9

\* A larger number has no fewer digits.
LEMMA DigitsGrow ==
  ASSUME NEW n \in Nat, NEW m \in Nat, n <= m
  PROVE  number_of_digits[n] <= number_of_digits[m]
<1> DEFINE Grown(k) == \A l \in Nat : l <= k => number_of_digits[l] <= number_of_digits[k]
           T == {k \in Nat : ~ Grown(k)}
<1> SUFFICES ASSUME T # {} PROVE FALSE
  OBVIOUS
<1>1. T \subseteq Nat
  OBVIOUS
<1> HIDE DEF T
<1>2. PICK k \in T : \A l \in T : k <= l
  BY <1>1, LeastNumber
<1>3. k \in Nat /\ ~ Grown(k)
  BY DEF T
<1>4. PICK l \in Nat : l <= k /\ ~ (number_of_digits[l] <= number_of_digits[k])
  BY <1>3
<1>5. number_of_digits[k] \in Nat \ {0}
  BY <1>3, NumberOfDigits
<1>6. ~ (l < 10)
  <2>1. l < 10 => number_of_digits[l] = 1
    BY NumberOfDigits
  <2> QED
    BY <1>4, <1>5, <2>1
<1>7. ~ (k < 10)
  BY <1>3, <1>4, <1>6
<1>8. /\ k \div 10 \in Nat /\ k \div 10 < k /\ l \div 10 \in Nat
      /\ l \div 10 <= k \div 10
  <2>1. \A a, b \in Nat : a <= b => a \div 10 <= b \div 10
    OBVIOUS
  <2> QED
    BY <1>3, <1>4, <1>7, <2>1, LastDigit
<1>9. Grown(k \div 10)
  <2>1. ~ (k \div 10 \in T)
    BY <1>2, <1>3, <1>8
  <2> QED
    BY <1>8, <2>1 DEF T
<1>10. number_of_digits[l \div 10] <= number_of_digits[k \div 10]
  BY <1>8, <1>9
<1>11. /\ number_of_digits[l] = 1 + number_of_digits[l \div 10]
       /\ number_of_digits[k] = 1 + number_of_digits[k \div 10]
       /\ number_of_digits[l \div 10] \in Nat /\ number_of_digits[k \div 10] \in Nat
  BY <1>3, <1>6, <1>7, <1>8, NumberOfDigits
<1> QED
  BY <1>4, <1>10, <1>11

\* Two sequences that end alike are one digit longer than two that are alike.
LEMMA AppendEqual ==
  ASSUME NEW s \in Seq(0..9), NEW t \in Seq(0..9), NEW a \in 0..9, NEW b \in 0..9,
         Append(s, a) = Append(t, b)
  PROVE  s = t /\ a = b
<1>1. Len(Append(s, a)) = Len(s) + 1 /\ Len(Append(t, b)) = Len(t) + 1
  OBVIOUS
<1>2. Len(s) \in Nat /\ Len(t) \in Nat /\ Len(s) = Len(t)
  BY <1>1
<1>3. Append(s, a)[Len(s) + 1] = a /\ Append(t, b)[Len(t) + 1] = b
  OBVIOUS
<1>4. \A i \in 1..Len(s) : s[i] = Append(s, a)[i]
  OBVIOUS
<1>5. \A i \in 1..Len(t) : t[i] = Append(t, b)[i]
  OBVIOUS
<1>6. \A i \in 1..Len(s) : s[i] = t[i]
  BY <1>2, <1>4, <1>5
<1>7. s = t
  BY <1>2, <1>6
<1> QED
  BY <1>2, <1>3, <1>7

\* Different numbers have different digits.
LEMMA DecimalInjective ==
  ASSUME NEW n \in Nat, NEW m \in Nat, Decimal[n] = Decimal[m]
  PROVE  n = m
<1> DEFINE Only(k) == \A l \in Nat : Decimal[k] = Decimal[l] => k = l
           T == {k \in Nat : ~ Only(k)}
<1> SUFFICES ASSUME T # {} PROVE FALSE
  OBVIOUS
<1>1. T \subseteq Nat
  OBVIOUS
<1> HIDE DEF T
<1>2. PICK k \in T : \A l \in T : k <= l
  BY <1>1, LeastNumber
<1>3. k \in Nat /\ ~ Only(k)
  BY DEF T
<1>4. PICK l \in Nat : Decimal[k] = Decimal[l] /\ k # l
  BY <1>3
<1> HIDE DEF Only
<1>5. \A i \in Nat : i < 10 => Decimal[i] = <<i>> /\ number_of_digits[i] = 1
  BY DecimalDigits, NumberOfDigits
<1>6. \A i \in Nat : ~ (i < 10) =>
        /\ Decimal[i] = Append(Decimal[i \div 10], i % 10)
        /\ i \div 10 \in Nat /\ i % 10 \in 0..9 /\ Decimal[i \div 10] \in Seq(0..9)
        /\ number_of_digits[i] = 1 + number_of_digits[i \div 10]
        /\ number_of_digits[i \div 10] \in Nat \ {0}
  BY DecimalDigits, NumberOfDigits, LastDigit
<1>7. number_of_digits[k] = number_of_digits[l]
  BY <1>3, <1>4, DecimalDigits
<1>8. k < 10 <=> l < 10
  <2>1. \A i \in Nat : i < 10 <=> number_of_digits[i] = 1
    <3> TAKE i \in Nat
    <3>1. CASE i < 10
      BY <1>5, <3>1
    <3>2. CASE ~ (i < 10)
      <4>1. /\ number_of_digits[i] = 1 + number_of_digits[i \div 10]
            /\ number_of_digits[i \div 10] \in Nat \ {0}
        BY <1>6, <3>2
      <4> QED
        BY <3>2, <4>1
    <3> QED
      BY <3>1, <3>2
  <2> QED
    BY <1>3, <1>7, <2>1
<1>9. CASE k < 10
  <2>1. <<k>> = <<l>>
    BY <1>3, <1>4, <1>5, <1>8, <1>9
  <2> QED
    BY <1>4, <2>1
<1>10. CASE ~ (k < 10)
  <2>1. Append(Decimal[k \div 10], k % 10) = Append(Decimal[l \div 10], l % 10)
    BY <1>3, <1>4, <1>6, <1>8, <1>10
  <2>2. /\ k \div 10 \in Nat /\ k % 10 \in 0..9 /\ Decimal[k \div 10] \in Seq(0..9)
        /\ l \div 10 \in Nat /\ l % 10 \in 0..9 /\ Decimal[l \div 10] \in Seq(0..9)
    BY <1>3, <1>6, <1>8, <1>10
  <2>3. Decimal[k \div 10] = Decimal[l \div 10] /\ k % 10 = l % 10
    <3> DEFINE s == Decimal[k \div 10]
               t == Decimal[l \div 10]
               a == k % 10
               b == l % 10
    <3>1. s \in Seq(0..9) /\ t \in Seq(0..9) /\ a \in 0..9 /\ b \in 0..9
      BY <2>2
    <3>2. Append(s, a) = Append(t, b)
      BY <2>1
    <3> HIDE DEF s, t, a, b
    <3>3. s = t /\ a = b
      BY <3>1, <3>2, AppendEqual
    <3> QED
      BY <3>3 DEF s, t, a, b
  <2>4. ~ (k \div 10 \in T)
    <3>1. k \div 10 < k
      BY <1>3, <1>10, LastDigit
    <3> QED
      BY <1>2, <1>3, <2>2, <3>1
  <2>5. k \div 10 = l \div 10
    BY <2>2, <2>3, <2>4 DEF T, Only
  <2> QED
    BY <1>3, <1>4, <2>3, <2>5, LastDigit
<1> QED
  BY <1>9, <1>10

-----------------------------------------------------------------------------
(* The index in the key file. *)

\* What stands in the file for an index is its decimal digits exactly if the index is
\* less than 2^31, and then those of no other index (write_key_to_file.c:26).
LEMMA IndexText ==
  ASSUME NEW resp, resp.index \in uint32_t, NEW n \in uint32_t
  PROVE  write_key_to_file_bit_format(resp).index = Decimal[n]
           <=> n = resp.index /\ resp.index < WordMod \div 2
<1> DEFINE index == resp.index
           printed == SprintfIndex(index)
           text == [i \in 1..number_of_digits[index] |->
                      IF i <= Len(printed) THEN printed[i] ELSE Stray]
<1>1. write_key_to_file_bit_format(resp).index = text
  BY DEF write_key_to_file_bit_format
<1>2. WordMod \in Nat /\ index \in Nat /\ index < WordMod /\ n \in Nat
  BY WordModType DEF uint32_t
<1>3. /\ Decimal[index] \in Seq(0..9) /\ Len(Decimal[index]) = number_of_digits[index]
      /\ Decimal[n] \in Seq(0..9) /\ Len(Decimal[n]) = number_of_digits[n]
      /\ number_of_digits[index] \in Nat \ {0} /\ number_of_digits[n] \in Nat \ {0}
  BY <1>2, DecimalDigits, NumberOfDigits
<1>4. CASE index < WordMod \div 2
  <2>1. printed = Decimal[index]
    BY <1>4 DEF SprintfIndex
  <2>2. text = Decimal[index]
    <3> DEFINE d == Decimal[index]
               l == number_of_digits[index]
    <3>1. d \in Seq(0..9) /\ Len(d) = l /\ l \in Nat
      BY <1>3
    <3>2. text = [i \in 1..l |-> IF i <= Len(d) THEN d[i] ELSE Stray]
      BY <2>1
    <3> HIDE DEF text, d, l
    <3>3. \A i \in 1..l : text[i] = d[i]
      BY <3>1, <3>2
    <3>4. text = d
      BY <3>1, <3>2, <3>3
    <3> QED
      BY <3>4 DEF d
  <2> QED
    BY <1>1, <1>2, <1>4, <2>2, DecimalInjective
<1>5. CASE ~ (index < WordMod \div 2)
  <2> DEFINE rest == Decimal[WordMod - index]
  <2>1. WordMod - index \in Nat
    BY <1>2
  <2>2. rest \in Seq(0..9)
    BY <2>1, DecimalDigits
  <2>3. printed = <<Minus>> \o rest
    BY <1>5 DEF SprintfIndex
  <2> HIDE DEF rest, printed
  <2>4. Len(printed) >= 1 /\ printed[1] = 10
    BY <2>2, <2>3 DEF Minus
  <2>5. 1 \in 1..number_of_digits[index] /\ 1 \in 1..number_of_digits[n]
    BY <1>3
  <2>6. text[1] = 10
    BY <2>4, <2>5
  <2>7. Decimal[n][1] \in 0..9
    BY <1>3, <2>5
  <2> HIDE DEF text
  <2>8. text # Decimal[n]
    BY <2>6, <2>7
  <2> QED
    BY <1>1, <1>5, <2>8
<1> QED
  BY <1>4, <1>5

\* Printing overruns sindex for the indices from 2^31 whose negative value has as many
\* digits as the largest index: the sign is the character there is no room for
\* (write_key_to_file.c:20).
LEMMA OverrunBySign ==
  ASSUME NEW index \in uint32_t
  PROVE  SindexOverrun(index)
           <=> /\ index >= WordMod \div 2
               /\ number_of_digits[WordMod - index] >= number_of_digits[WordMod - 1]
<1>1. /\ WordMod \in Nat /\ WordMod >= 16 /\ index \in Nat /\ index <= WordMod - 1
      /\ WordMod - 1 \in Nat /\ WordMod - index \in Nat /\ WordMod \div 2 \in Nat
  <2>1. WordMod \in Nat /\ WordMod >= 16
    BY WordModType
  <2>2. \A w \in Nat : w >= 16 => w - 1 \in Nat /\ w \div 2 \in Nat
    OBVIOUS
  <2>3. index \in Nat /\ index <= WordMod - 1 /\ WordMod - index \in Nat
    BY <2>1 DEF uint32_t
  <2> QED
    BY <2>1, <2>2, <2>3
<1> DEFINE most == number_of_digits[WordMod - 1]
           rest == number_of_digits[WordMod - index]
<1>2. most \in Nat /\ rest \in Nat /\ SindexSize = most + 1
  BY <1>1, NumberOfDigits DEF SindexSize
<1>3. CASE index < WordMod \div 2
  <2>1. SprintfIndex(index) = Decimal[index]
    BY <1>3 DEF SprintfIndex
  <2>2. Len(SprintfIndex(index)) = number_of_digits[index] /\ number_of_digits[index] \in Nat
    BY <1>1, <2>1, DecimalDigits, NumberOfDigits
  <2>3. number_of_digits[index] <= most
    BY <1>1, DigitsGrow
  <2> HIDE DEF most
  <2>4. ~ SindexOverrun(index)
    BY <1>2, <2>2, <2>3 DEF SindexOverrun
  <2>5. ~ (index >= WordMod \div 2)
    BY <1>1, <1>3
  <2> QED
    BY <2>4, <2>5
<1>4. CASE index >= WordMod \div 2
  <2>1. ~ (index < WordMod \div 2)
    BY <1>1, <1>4
  <2>2. SprintfIndex(index) = <<Minus>> \o Decimal[WordMod - index]
    BY <2>1 DEF SprintfIndex
  <2>3. Decimal[WordMod - index] \in Seq(0..9) /\ Len(Decimal[WordMod - index]) = rest
    BY <1>1, DecimalDigits
  <2>4. \A s \in Seq(0..9) : Len(<<Minus>> \o s) = 1 + Len(s)
    OBVIOUS
  <2>5. Len(SprintfIndex(index)) = 1 + rest
    BY <2>2, <2>3, <2>4
  <2> HIDE DEF most, rest
  <2>6. SindexOverrun(index) <=> rest >= most
    BY <1>2, <2>5 DEF SindexOverrun
  <2> QED
    BY <1>4, <2>6 DEF most, rest
<1> QED
  BY <1>1, <1>3, <1>4

\* What the keys that were got leave in files.
KeyTexts == {write_key_to_file_bit_format(r.response) : r \in GetKeys}

\* The inductive invariant: files hold such texts, every key its own in its file, and
\* sindex is overrun if one of their indices does so.
IndexInv ==
  /\ \A f \in DOMAIN files : files[f] \in Seq(KeyTexts)
  /\ \A r \in GetKeys :
       /\ r.file \in DOMAIN files
       /\ write_key_to_file_bit_format(r.response) \in ToSet(files[r.file])
       /\ r.response.index = r.request.index
       /\ r.request.index \in uint32_t
  /\ <<"client", "sindex">> \in ended <=> \E r \in GetKeys : SindexOverrun(r.request.index)

\* Nothing is lost of a file to which more is written.
LEMMA FileGrows ==
  ASSUME NEW S, NEW T, S \subseteq T, NEW s \in Seq(S), NEW x \in T
  PROVE  /\ s \in Seq(T)
         /\ Append(s, x) \in Seq(T)
         /\ x \in ToSet(Append(s, x))
         /\ ToSet(s) \subseteq ToSet(Append(s, x))
<1>1. /\ s \in Seq(T) /\ Append(s, x) \in Seq(T)
      /\ DOMAIN s = 1..Len(s) /\ DOMAIN Append(s, x) = 1..(Len(s) + 1) /\ Len(s) \in Nat
      /\ Append(s, x)[Len(s) + 1] = x
      /\ \A i \in 1..Len(s) : Append(s, x)[i] = s[i]
  OBVIOUS
<1>2. Len(s) + 1 \in 1..(Len(s) + 1) /\ \A i \in 1..Len(s) : i \in 1..(Len(s) + 1)
  BY <1>1
<1> DEFINE t == Append(s, x)
<1> HIDE DEF t
<1>3. /\ DOMAIN t = 1..(Len(s) + 1) /\ t[Len(s) + 1] = x
      /\ \A i \in DOMAIN s : i \in DOMAIN t /\ t[i] = s[i]
  BY <1>1, <1>2 DEF t
<1>4. x \in ToSet(t) /\ ToSet(s) \subseteq ToSet(t)
  BY <1>2, <1>3 DEF ToSet
<1> QED
  BY <1>1, <1>4 DEF t

\* A step that returns no key and writes none leaves the files alone.
LEMMA IndexKept ==
  ASSUME IndexInv, GetKeys' = GetKeys, files' = files,
         <<"client", "sindex">> \in ended' <=> <<"client", "sindex">> \in ended
  PROVE  IndexInv'
<1>1. KeyTexts' = KeyTexts
  BY DEF KeyTexts
<1> QED
  BY <1>1 DEF IndexInv

\* A call returns: its key goes to its file, and its index through sindex.
LEMMA IndexReturn ==
  ASSUME Inv, ExampleInv, IndexInv, Return
  PROVE  IndexInv'
<1> DEFINE got == Returned([value |-> call.answer, rest |-> <<>>])
           text == write_key_to_file_bit_format(call.answer)
           key == call.request.service = "GET_KEY"
<1>1. /\ phase = "response"
      /\ returned' = returned \cup {got}
      /\ files' = IF key THEN [files EXCEPT ![call.file] = Append(@, text)] ELSE files
  BY ReturnReads
<1>2. /\ "answer" \in DOMAIN got /\ got.request = call.request /\ got.file = call.file
      /\ got.response = call.answer
  BY DEF Returned
<1>3. <<"client", "sindex">> \in ended'
        <=> \/ <<"client", "sindex">> \in ended
            \/ key /\ SindexOverrun(call.answer.index)
  <2>1. response_from_stream(call.request.service, PayloadOf(wire))
          = [value |-> call.answer, rest |-> <<>>]
    BY <1>1, ResponseArrives DEF Return
  <2>2. ended' = ended \cup BadFree("client", ClientMemory(call.n, call.request, call.by)) \cup
          IF key /\ SindexOverrun(call.answer.index) THEN {<<"client", "sindex">>} ELSE {}
    BY <2>1 DEF Return
  <2>3. \A memory : <<"client", "sindex">> \notin BadFree("client", memory)
    BY DEF BadFree
  <2> QED
    BY <2>2, <2>3
<1> HIDE DEF got, text
<1>4. CASE ~key
  <2>1. GetKeys' = GetKeys
    BY <1>1, <1>2, <1>4 DEF GetKeys, Exchanged
  <2> QED
    BY <1>1, <1>3, <1>4, <2>1, IndexKept
<1>5. CASE key
  <2>1. GetKeys' = GetKeys \cup {got}
    BY <1>1, <1>2, <1>5 DEF GetKeys, Exchanged
  <2>2. call.answer.index = call.request.index /\ call.request.index \in uint32_t
    <3>1. /\ call.answer.index = call.request.index /\ call.request.index \in Index
      BY <1>1, <1>5 DEF Inv, RequestInv, WireInv, AppAnswer, AppRequest
    <3> QED
      BY <3>1, ExchangeAssumption
  <2>3. KeyTexts' = KeyTexts \cup {text}
    BY <1>2, <2>1 DEF KeyTexts, text
  <2>4. call.file \in DOMAIN files
    BY <1>1 DEF ExampleInv, FilesInv, Scripted
  <2>5. /\ DOMAIN files' = DOMAIN files
        /\ files'[call.file] = Append(files[call.file], text)
        /\ \A f \in DOMAIN files : f # call.file => files'[f] = files[f]
    BY <1>1, <1>5, <2>4
  <2>6. \A f \in DOMAIN files :
          /\ files'[f] \in Seq(KeyTexts')
          /\ ToSet(files[f]) \subseteq ToSet(files'[f])
          /\ f = call.file => text \in ToSet(files'[f])
    <3> TAKE f \in DOMAIN files
    <3>1. /\ KeyTexts \subseteq KeyTexts' /\ text \in KeyTexts' /\ files[f] \in Seq(KeyTexts)
      BY <2>3 DEF IndexInv
    <3>2. /\ files[f] \in Seq(KeyTexts') /\ Append(files[f], text) \in Seq(KeyTexts')
          /\ text \in ToSet(Append(files[f], text))
          /\ ToSet(files[f]) \subseteq ToSet(Append(files[f], text))
      BY <3>1, FileGrows
    <3> QED
      BY <2>5, <3>2
  <2>7. ASSUME NEW r \in GetKeys'
        PROVE  /\ r.file \in DOMAIN files'
               /\ write_key_to_file_bit_format(r.response) \in ToSet(files'[r.file])
               /\ r.response.index = r.request.index
               /\ r.request.index \in uint32_t
    <3>1. CASE r \in GetKeys
      BY <2>5, <2>6, <3>1 DEF IndexInv
    <3>2. CASE r = got
      BY <1>2, <2>2, <2>4, <2>5, <2>6, <3>2 DEF text
    <3> QED
      BY <2>1, <3>1, <3>2
  <2>8. <<"client", "sindex">> \in ended' <=> \E r \in GetKeys' : SindexOverrun(r.request.index)
    <3>1. <<"client", "sindex">> \in ended <=> \E r \in GetKeys : SindexOverrun(r.request.index)
      BY DEF IndexInv
    <3>2. SindexOverrun(got.request.index) <=> SindexOverrun(call.answer.index)
      BY <1>2, <2>2
    <3> QED
      BY <1>3, <1>5, <2>1, <3>1, <3>2
  <2> QED
    BY <2>5, <2>6, <2>7, <2>8 DEF IndexInv
<1> QED
  BY <1>4, <1>5

\* IndexInv is an invariant: only Return writes to files, and only there is sindex used.
THEOREM ExchangeIndexInvariant == Spec => []IndexInv
<1>1. Init => IndexInv
  <2> SUFFICES ASSUME Init PROVE IndexInv
    OBVIOUS
  <2>1. GetKeys = {} /\ ended = {} /\ \A f \in DOMAIN files : files[f] = <<>>
    BY DEF Init, GetKeys, Exchanged
  <2>2. \A S : <<>> \in Seq(S)
    OBVIOUS
  <2>3. \A f \in DOMAIN files : files[f] \in Seq(KeyTexts)
    BY <2>1, <2>2
  <2> QED
    BY <2>1, <2>3 DEF IndexInv
<1>2. Inv /\ ExampleInv /\ IndexInv /\ [Next]_vars => IndexInv'
  <2> SUFFICES ASSUME Inv, ExampleInv, IndexInv, [Next]_vars PROVE IndexInv'
    OBVIOUS
  <2>0. \A who, msg, payload, size :
          <<"client", "sindex">> \notin Mishap(who, msg, payload, size)
    BY DEF Mishap
  <2>1. CASE Serve
    <3>1. /\ returned' = returned /\ files' = files
          /\ \E msg, payload, size, memory :
               ended' = ended \cup Mishap("server", msg, payload, size) \cup BadFree("server", memory)
      BY <2>1 DEF Serve
    <3>2. \A memory : <<"client", "sindex">> \notin BadFree("server", memory)
      BY DEF BadFree
    <3>3. <<"client", "sindex">> \in ended' <=> <<"client", "sindex">> \in ended
      BY <2>0, <3>1, <3>2
    <3>4. GetKeys' = GetKeys
      BY <3>1 DEF GetKeys, Exchanged
    <3> QED
      BY <3>1, <3>3, <3>4, IndexKept
  <2>2. CASE Return
    BY <2>2, IndexReturn
  <2>3. CASE \E by, file, req : LibraryCall(by, file, req)
    <3>1. /\ returned' = returned /\ files' = files
          /\ \E msg, payload, size : ended' = ended \cup Mishap("client", msg, payload, size)
      BY <2>3 DEF LibraryCall
    <3>2. <<"client", "sindex">> \in ended' <=> <<"client", "sindex">> \in ended
      BY <2>0, <3>1
    <3>3. GetKeys' = GetKeys
      BY <3>1 DEF GetKeys, Exchanged
    <3> QED
      BY <3>1, <3>2, <3>3, IndexKept
  <2>4. CASE ApiOpenConnectUnparsable
    <3>1. /\ returned' = returned /\ files' = files
          /\ ended' = ended \/ ended' = ended \cup {<<"client", "bad free">>}
      BY <2>4 DEF ApiOpenConnectUnparsable, ApiReturns
    <3> QED
      BY <3>1, IndexKept DEF GetKeys, Exchanged
  <2>5. CASE ApiGetKeyUnparsable
    <3> DEFINE r0 == [n |-> calls + 1, by |-> "api", request |-> KeyRequest(<<>>, 0, <<0, 0>>),
                      response |-> error_response]
    <3>1. /\ returned' = returned \cup {r0} /\ "answer" \notin DOMAIN r0
          /\ files' = files /\ ended' = ended
      BY <2>5 DEF ApiGetKeyUnparsable, ApiReturns
    <3> HIDE DEF r0
    <3>2. GetKeys' = GetKeys
      BY <3>1 DEF GetKeys, Exchanged
    <3> QED
      BY <3>1, <3>2, IndexKept
  <2>6. CASE RestartServer \/ UNCHANGED vars
    <3>1. returned' = returned /\ files' = files /\ ended' = ended
      BY <2>6 DEF RestartServer, vars, exchangeVars
    <3> QED
      BY <3>1, IndexKept DEF GetKeys, Exchanged
  <2> QED
    BY <2>1, <2>2, <2>3, <2>4, <2>5, <2>6, StepKinds
<1> QED
  BY <1>1, <1>2, ExchangeInvariant, ExchangeExampleInvariant, PTL DEF Spec

\* A key file shows the index of every key that was got exactly if the index is less than
\* 2^31, and sindex is overrun exactly by the indices whose sign has no room in it, for
\* every width of a word (write_key_to_file.c:20, write_key_to_file.c:26).
THEOREM ExchangeIndexInFile == Spec => []IndexInFile
<1>1. IndexInv => IndexInFile
  <2> SUFFICES ASSUME IndexInv PROVE IndexInFile
    OBVIOUS
  <2>1. ASSUME NEW r \in GetKeys
        PROVE  (\E entry \in ToSet(files[r.file]) : entry.index = Decimal[r.request.index])
                 <=> r.request.index < WordMod \div 2
    <3>1. /\ r.file \in DOMAIN files /\ r.response.index = r.request.index
          /\ r.request.index \in uint32_t
          /\ write_key_to_file_bit_format(r.response) \in ToSet(files[r.file])
      BY DEF IndexInv
    <3>2. ASSUME NEW entry \in ToSet(files[r.file]), entry.index = Decimal[r.request.index]
          PROVE  r.request.index < WordMod \div 2
      <4>1. entry \in KeyTexts
        <5>1. files[r.file] \in Seq(KeyTexts)
          BY <3>1 DEF IndexInv
        <5> QED
          BY <5>1 DEF ToSet
      <4>2. PICK x \in GetKeys : entry = write_key_to_file_bit_format(x.response)
        BY <4>1 DEF KeyTexts
      <4>3. x.response.index \in uint32_t
        BY DEF IndexInv
      <4>4. r.request.index = x.response.index /\ x.response.index < WordMod \div 2
        BY <3>1, <3>2, <4>2, <4>3, IndexText
      <4> QED
        BY <4>4
    <3>3. ASSUME r.request.index < WordMod \div 2
          PROVE  write_key_to_file_bit_format(r.response).index = Decimal[r.request.index]
      BY <3>1, <3>3, IndexText
    <3> QED
      BY <3>1, <3>2, <3>3
  <2>2. <<"client", "sindex">> \in ended
          <=> \E r \in GetKeys :
                /\ r.request.index >= WordMod \div 2
                /\ number_of_digits[WordMod - r.request.index] >= number_of_digits[WordMod - 1]
    <3>1. \A r \in GetKeys : r.request.index \in uint32_t
      BY DEF IndexInv
    <3>2. \A r \in GetKeys : SindexOverrun(r.request.index)
            <=> /\ r.request.index >= WordMod \div 2
                /\ number_of_digits[WordMod - r.request.index] >= number_of_digits[WordMod - 1]
      BY <3>1, OverrunBySign
    <3> QED
      BY <3>2 DEF IndexInv
  <2> QED
    BY <2>1, <2>2 DEF IndexInFile
<1> QED
  BY <1>1, ExchangeIndexInvariant, PTL
=============================================================================
