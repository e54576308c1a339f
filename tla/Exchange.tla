------------------------------ MODULE Exchange ------------------------------
(***************************************************************************)
(* Library calls end to end: the structs that applications pass, the       *)
(* buffers they are serialised to, what qkd_servlet reads out of them, the *)
(* handlers of KeyStreams, and the way back; with the memory that client   *)
(* and server allocate and free on that way.  The applications are         *)
(* client_example.c, the wrappers of client_api.c, and others that use     *)
(* qkd_open_connect_struct, qkd_get_key_struct and qkd_close_struct.       *)
(*                                                                         *)
(* Calls do not overlap: QkdService is about concurrency and connections.  *)
(* A message longer than a TLS record ends the exchange: SslSocket is      *)
(* about what is read of it.                                               *)
(***************************************************************************)
EXTENDS KeyStreams, KeyOctets

CONSTANTS
  AppQos,             \* the QoS that applications ask for, all eight fields
  AppMetadata,        \* octets that applications pass as metadata to GET_KEY
  ExamplePair,        \* source and destination of client_example.c
  ExampleChunk,       \* its key_chunk_size
  ExampleKeyType,     \* arguments of its getKey: a subset of {0, 1}
  JsonMimetype,       \* "application/json"
  DeviceInfoOctets,   \* the device_info of the server, with its NUL
  StrayOctet,         \* values of memory nobody has initialised
  RecordMax,          \* octets that SSL_write puts into one record
  MaxAppCalls         \* bound: calls of applications other than client_example

ASSUME ExchangeAssumption ==
  /\ Pair \subseteq [source : qkd_str_t, destination : qkd_str_t]
  /\ Ksid \subseteq uuid_t
  /\ Index \subseteq uint32_t
  /\ ChunkSize \subseteq uint32_t
  /\ KeyInfo = [key_type : KeyTypes, key_role : KeyRoles]
  /\ AppQos \subseteq {qos \in qkd_qos_t : qos.key_chunk_size \in ChunkSize}
  /\ AppMetadata \subseteq qkd_bytes_t
  /\ 0 \in Index
  /\ 32 \in uint32_t
  /\ JsonMimetype \in qkd_str_t
  /\ DeviceInfoOctets \in qkd_bytes_t \ {<<>>}
  /\ StrayOctet \subseteq Nat
  /\ ExamplePair \in Pair
  /\ ExampleChunk \in ChunkSize
  /\ ExampleKeyType \subseteq {0, 1}
  /\ RecordMax \in Nat
  /\ MaxAppCalls \in Nat

VARIABLES
  phase,      \* of the call in progress: "idle", "request", "response"
  call,       \* the call in progress, or the last one
  calls,      \* the number of calls made
  wire,       \* the message on the connection
  returned,   \* history: the calls that returned
  heap,       \* live blocks of the clients and of the server
  ended,      \* what ended a process, as <<process, why>>
  files,      \* key files: test.key and test_.key of the example, app.key
  key_type,   \* argument of client_example's getKey
  script      \* what the calls of client_example have returned so far

exchangeVars == <<phase, call, calls, wire, returned, heap, ended, files, key_type, script>>
vars == <<exchangeVars, kmsVars>>

\* Memory is sound: nothing was written or freed that is not there.  abort()
\* ends a client and leaves the others alone.
Sound == ended \subseteq {<<"client", "abort">>}

-----------------------------------------------------------------------------
(* Blocks of memory. *)

\* The block that this call allocates for something, and those of a list node.
Block(n, of) == [call |-> n, of |-> of]
NodeBlocks(ksid) ==
  {[node |-> ksid, of |-> f] : f \in {"struct", "source", "destination", "mimetype"}}

\* The blocks freed one after the other are live, and none of them twice.
FreesLive(live, ptrs) ==
  /\ ToSet(ptrs) \subseteq live
  /\ \A i, j \in DOMAIN ptrs : ptrs[i] = ptrs[j] => i = j

\* Mutant: qkd_ksid_info_t points to the strings of the request.
NewNodeBlocksShared(ksid) == {[node |-> ksid, of |-> "struct"]}

\* What qkd_open_connect allocates for a new node: calloc, and a copy of each
\* string (qkd_copy_qos, qkd_copy_uri).
NewNodeBlocks(ksid) == NodeBlocks(ksid)

\* Mutant: the line in free_qkd_get_key_request that is commented out.
free_qkd_get_key_request_metadata(metadata) == <<metadata>>

free_qkd_get_key_request(metadata) == <<>>

\* The blocks of one run of qkd_servlet: what it allocates and, in order, frees.
\* The metadata of a failed GET_KEY are those of the request; a successful one
\* has metadata of its own.  A key that malloc refused is NULL.  The TLS session of
\* the connection is the accept loop's, which frees it (ssl_socket.c:271).
ServletMemory(n, req, resp, created) ==
  LET b(of) == Block(n, of)
      decoded == IF req.service = "OPEN_CONNECT"
                 THEN {b("source"), b("destination"), b("mimetype"), b("response mimetype")}
                 ELSE IF req.service = "GET_KEY" THEN {b("metadata")} ELSE {}
      key == IF req.service = "GET_KEY" /\ resp.key_buffer # EmptyKey THEN {b("key")} ELSE {}
      device == IF req.service = "GET_KEY" /\ resp.status = Successful
                THEN {b("device_info")} ELSE {}
  IN [malloc |-> {b("header"), b("payload"), b("response_buf")} \cup decoded \cup key \cup device
                   \cup UNION {NewNodeBlocks(ksid) : ksid \in created},
      free |-> <<b("header")>>
               \o (CASE req.service = "OPEN_CONNECT" ->
                          <<b("source"), b("destination"), b("mimetype"), b("response mimetype")>>
                     [] req.service = "GET_KEY" ->
                          free_qkd_get_key_request(b("metadata"))
                            \o (IF key # {} THEN <<b("key")>> ELSE <<>>)
                            \o <<IF device # {} THEN b("device_info") ELSE b("metadata")>>
                     [] req.service = "CLOSE" -> <<>>)
               \o <<b("payload"), b("response_buf")>>]

\* The texts of ids that openConnect of client_api.c allocates.
ApiTexts(req, by) ==
  IF req.service # "OPEN_CONNECT" THEN {}
  ELSE CASE by = "api" -> {"id text"}
         [] by = "api, no id" -> {"id text", "nil id text"}
         [] OTHER -> {}

\* The same for a call of the client library: request_buf and the payload are
\* freed; qkd_copy_qos frees the mimetype that qkd_open_connect_struct had copied
\* and makes another copy.  The TLS context and session are created for the call
\* (ssl_socket.c:112, :174), and client_perform_request forgets both.  openConnect
\* returns the id as text, and keeps the text of the nil id if it was given none.
ClientMemory(n, req, by) ==
  LET b(of) == Block(n, of)
      open == req.service = "OPEN_CONNECT"
  IN [malloc |-> {b("request_buf"), b("ctx"), b("ssl_socket"), b("header"), b("payload")} \cup
                   (CASE open -> {b("struct mimetype"), b("response mimetype"), b("qos mimetype")}
                      [] req.service = "GET_KEY" -> {b("key_buffer"), b("metadata")}
                      [] req.service = "CLOSE" -> {})
                   \cup {b(text) : text \in ApiTexts(req, by)},
      free |-> <<b("request_buf")>> \o (IF open THEN <<b("struct mimetype")>> ELSE <<>>)
                 \o <<b("payload")>>]

\* The heap of a process after a call, and what the call did wrong.
HeapAfter(who, memory) ==
  [heap EXCEPT ![who] = (@ \cup memory.malloc) \ ToSet(memory.free)]
BadFree(who, memory) ==
  IF FreesLive(heap[who] \cup memory.malloc, memory.free) THEN {} ELSE {<<who, "bad free">>}

-----------------------------------------------------------------------------
(* Messages. *)

\* What becomes of a message whose payload was given this size: the process
\* aborts, writes past the buffer, or sends more than a record, or none of these.
Mishap(who, msg, payload, size) ==
  IF SizeAborts(msg) THEN {<<who, "abort">>}
  ELSE IF HeaderSize + Len(payload) > AllocatedSize(size) THEN {<<who, "overrun">>}
  ELSE IF HeaderSize + Len(payload) > RecordMax THEN {<<who, "oversize">>}
  ELSE {}

\* The payload that is read after the header.
PayloadOf(message) ==
  SubSeq(message, HeaderSize + 1, HeaderSize + qkd_header_from_stream(message).payload_size)

\* What the server may find where it reads the qkd_key_info_t of a GET_KEY:
\* metadata that are too short are read past their end.
KeyInfoOctets(req) ==
  IF req.service = "GET_KEY" /\ Len(req.metadata) < 2
  THEN {SubSeq(req.metadata \o stray, 1, 2) : stray \in [1..2 -> StrayOctet]}
  ELSE {IF req.service = "GET_KEY" THEN SubSeq(req.metadata, 1, 2) ELSE <<>>}

\* The arguments of the handler of KeyStreams.
HandlerArguments(req, key_info) ==
  CASE req.service = "OPEN_CONNECT" ->
         [service |-> "OPEN_CONNECT", key_stream_id |-> req.key_stream_id,
          pair |-> [source |-> req.source, destination |-> req.destination],
          qos |-> [key_chunk_size |-> req.qos.key_chunk_size]]
    [] req.service = "GET_KEY" ->
         [service |-> "GET_KEY", key_stream_id |-> req.key_stream_id, index |-> req.index,
          metadata |-> KeyInfoOf(key_info)]
    [] req.service = "CLOSE" -> req

\* The response struct: qkd_open_connect_struct and qkd_get_key_struct copied the
\* QoS, the index and the metadata of the request into it.
ResponseStruct(req, resp) ==
  CASE req.service = "OPEN_CONNECT" -> [resp EXCEPT !.qos = req.qos]
    [] req.service = "GET_KEY" ->
         [resp EXCEPT !.key_buffer = OctetsOf(resp.key_buffer),
                      !.metadata = IF resp.metadata = DeviceInfo THEN DeviceInfoOctets
                                                                 ELSE req.metadata]
    [] req.service = "CLOSE" -> resp

-----------------------------------------------------------------------------
(* The library. *)

\* What is known of a call once it is made, once it is served, and once it returns.
Called(by, file, req) ==
  [n |-> calls + 1, run |-> restarts, by |-> by, file |-> file, request |-> req]
Served(read, answer) ==
  [n |-> call.n, run |-> call.run, by |-> call.by, file |-> call.file, request |-> call.request,
   decoded |-> read.value, unread |-> read.rest, answer |-> answer]
Returned(read) ==
  [n |-> call.n, run |-> call.run, by |-> call.by, file |-> call.file, request |-> call.request,
   decoded |-> call.decoded, unread |-> call.unread, answer |-> call.answer,
   response |-> read.value, unread_response |-> read.rest]

\* An application makes a call and wants the key, if there is one, in this file.
LibraryCall(by, file, req) ==
  LET size == qkd_sizeof_request(req)
      payload == request_to_stream(req)
      mishap == Mishap("client", req, payload, size)
  IN /\ phase = "idle"
     /\ Sound
     /\ calls' = calls + 1
     /\ call' = Called(by, file, req)
     /\ ended' = ended \cup mishap
     /\ IF mishap = {}
        THEN /\ phase' = "request"
             /\ wire' = qkd_header_to_stream(ServiceCode[req.service], size) \o payload
        ELSE UNCHANGED <<phase, wire>>
     /\ UNCHANGED <<returned, heap, files, key_type, script, kmsVars>>

\* qkd_servlet: the request is read, handled and answered.
Serve ==
  LET header == qkd_header_from_stream(wire)
      read == request_from_stream(header.service, PayloadOf(wire))
      created == {m.key_stream_id : m \in minted' \ minted}
      memory == ServletMemory(call.n, read.value, response', created)
      answer == ResponseStruct(read.value, response')
      size == qkd_sizeof_response(answer)
      payload == response_to_stream(answer)
      mishap == Mishap("server", answer, payload, size)
  IN /\ phase = "request"
     /\ Sound
     /\ \E key_info \in KeyInfoOctets(read.value) :
          HandleRequest(HandlerArguments(read.value, key_info))
     /\ call' = Served(read, answer)
     /\ heap' = HeapAfter("server", memory)
     /\ ended' = ended \cup mishap \cup BadFree("server", memory)
     /\ phase' = "response"
     /\ wire' = IF mishap = {}
                THEN qkd_header_to_stream(header.service + 1, size) \o payload ELSE <<>>
     /\ UNCHANGED <<calls, returned, files, key_type, script>>

\* The response is read and the call returns; the application writes its key.
Return ==
  LET read == response_from_stream(call.request.service, PayloadOf(wire))
      memory == ClientMemory(call.n, call.request, call.by)
      key == call.request.service = "GET_KEY"
  IN /\ phase = "response"
     /\ Sound
     /\ returned' = returned \cup {Returned(read)}
     /\ heap' = HeapAfter("client", memory)
     /\ files' = IF key THEN [files EXCEPT ![call.file] =
                               Append(@, write_key_to_file_bit_format(read.value))]
                 ELSE files
     /\ ended' = ended \cup BadFree("client", memory) \cup
          IF key /\ SindexOverrun(read.value.index) THEN {<<"client", "sindex">>} ELSE {}
     /\ script' = IF call.by = "example" THEN Append(script, read.value) ELSE script
     /\ phase' = "idle"
     /\ wire' = <<>>
     /\ UNCHANGED <<call, calls, key_type, kmsVars>>

-----------------------------------------------------------------------------
(* Applications. *)

OpenRequest(pair, qos, ksid) ==
  [service |-> "OPEN_CONNECT", source |-> pair.source, destination |-> pair.destination,
   qos |-> qos, key_stream_id |-> ksid]
KeyRequest(ksid, index, metadata) ==
  [service |-> "GET_KEY", key_stream_id |-> ksid, index |-> index, metadata |-> metadata]
CloseCallRequest(ksid) == [service |-> "CLOSE", key_stream_id |-> ksid]

\* The QoS of client_example.c and client_api.c.
JsonQos(chunk) ==
  [key_chunk_size |-> chunk, max_bps |-> 32, min_bps |-> 32, jitter |-> 0, priority |-> 0,
   timeout |-> 0, ttl |-> 0, metadata_mimetype |-> JsonMimetype]

\* The six calls of getKey in client_example.c, given what the calls before
\* returned; no status is looked at.
ExampleRequest(got) ==
  CASE Len(got) = 0 -> OpenRequest(ExamplePair, JsonQos(ExampleChunk), NilUuid)
    [] Len(got) = 1 -> OpenRequest(ExamplePair, JsonQos(ExampleChunk), got[1].key_stream_id)
    [] Len(got) = 2 -> KeyRequest(got[1].key_stream_id, 0, <<key_type, 16>>)
    [] Len(got) = 3 -> KeyRequest(got[2].key_stream_id, 0, <<key_type, 17>>)
    [] Len(got) = 4 -> CloseCallRequest(got[1].key_stream_id)
    [] Len(got) = 5 -> CloseCallRequest(got[2].key_stream_id)

ExampleStep ==
  /\ Len(script) < 6
  /\ LibraryCall("example", IF Len(script) = 2 THEN "test.key" ELSE "test_.key",
                 ExampleRequest(script))

AppCall(by, req) ==
  /\ calls - Len(script) < MaxAppCalls
  /\ LibraryCall(by, "app.key", req)

AppOpenConnect ==
  \E pair \in Pair, qos \in AppQos, ksid \in KnownKsid : AppCall("app", OpenRequest(pair, qos, ksid))
AppGetKey ==
  \E ksid \in KnownKsid, index \in Index, metadata \in AppMetadata :
    AppCall("app", KeyRequest(ksid, index, metadata))
AppClose == \E ksid \in KnownKsid : AppCall("app", CloseCallRequest(ksid))

\* client_api.c: ids are text.  A missing id is the nil id for openConnect, and so
\* is for close one that uuid_parse does not understand.
ApiOpenConnect ==
  \E pair \in Pair, chunk \in ChunkSize :
    \/ \E ksid \in KnownKsid : AppCall("api", OpenRequest(pair, JsonQos(chunk), ksid))
    \/ AppCall("api, no id", OpenRequest(pair, JsonQos(chunk), NilUuid))
ApiGetKey ==
  \E ksid \in KnownKsid, index \in Index : AppCall("api", KeyRequest(ksid, index, <<0, 0>>))
ApiClose == \E ksid \in KnownKsid : AppCall("api", CloseCallRequest(ksid))

\* A wrapper of client_api.c that returns before it calls the library.
ApiReturns ==
  /\ phase = "idle"
  /\ Sound
  /\ calls - Len(script) < MaxAppCalls
  /\ calls' = calls + 1
  /\ UNCHANGED <<phase, call, wire, heap, files, key_type, script, kmsVars>>

\* openConnect frees an id that it cannot parse, wherever the caller has it from.
ApiOpenConnectUnparsable ==
  /\ ApiReturns
  /\ \E malloced \in BOOLEAN :
       ended' = IF malloced THEN ended ELSE ended \cup {<<"client", "bad free">>}
  /\ UNCHANGED returned

\* getKey returns error_response, which is {}.
error_response ==
  [service |-> "GET_KEY", status |-> 0, index |-> 0, key_buffer |-> <<>>, metadata |-> <<>>]

ApiGetKeyUnparsable ==
  /\ ApiReturns
  /\ returned' = returned \cup
       {[n |-> calls + 1, by |-> "api", request |-> KeyRequest(<<>>, 0, <<0, 0>>),
         response |-> error_response]}
  /\ UNCHANGED ended

\* server_example is started again between two calls.
RestartServer ==
  /\ phase = "idle"
  /\ Sound
  /\ Restart
  /\ heap' = [heap EXCEPT !.server = {}]
  /\ UNCHANGED <<phase, call, calls, wire, returned, ended, files, key_type, script>>

-----------------------------------------------------------------------------
Init ==
  /\ KmsInit
  /\ phase = "idle"
  /\ call = <<>>
  /\ calls = 0
  /\ wire = <<>>
  /\ returned = {}
  /\ heap = [client |-> {}, server |-> {}]
  /\ ended = {}
  /\ files = [f \in {"test.key", "test_.key", "app.key"} |-> <<>>]
  /\ key_type \in ExampleKeyType
  /\ script = <<>>

\* Nobody has to make another call, and after a mishap nothing is known.
Quiescent == (phase = "idle" \/ ~Sound) /\ UNCHANGED vars

Next ==
  \/ Serve \/ Return
  \/ ExampleStep \/ AppOpenConnect \/ AppGetKey \/ AppClose
  \/ ApiOpenConnect \/ ApiGetKey \/ ApiClose \/ ApiOpenConnectUnparsable
  \/ ApiGetKeyUnparsable \/ RestartServer \/ Quiescent

Spec == Init /\ [][Next]_vars
-----------------------------------------------------------------------------
(* Properties. *)

\* The calls that went to the server and back, and those of them that got a key.
Exchanged == {r \in returned : "answer" \in DOMAIN r}
GetKeys == {r \in Exchanged : r.request.service = "GET_KEY"}
WithKey == {r \in GetKeys : r.response.key_buffer # <<>>}

\* What an application asks is what the server reads, what the handler answers
\* is what the application gets, and both payloads are read to their last octet:
\* reading and writing agree on order, types and lengths of all fields
\* (serializers.c:101-245), for empty strings, keys and metadata too.
RoundTrip ==
  \A r \in Exchanged : /\ r.decoded = r.request /\ r.unread = <<>>
                        /\ r.response = r.answer /\ r.unread_response = <<>>

\* Buffers hold what is written to them as long as the payload is shorter than
\* 2^32 octets.  A longer one always overruns its buffer: the two places where
\* the size is cut to 32 bits (sizes.c:5 and payload_size) do not cancel out.
OverrunIffTooLong ==
  "request" \in DOMAIN call =>
    /\ <<"client", "overrun">> \in ended
         <=> /\ phase = "idle"
             /\ ~SizeAborts(call.request)
             /\ Len(request_to_stream(call.request)) >= WordMod
    /\ <<"server", "overrun">> \in ended
         <=> phase = "response" /\ Len(response_to_stream(call.answer)) >= WordMod

\* A mimetype that is too long ends the client that made it and never the server
\* (sizes.c:18): none reaches the server or another client.
AbortsAtSource ==
  /\ <<"server", "abort">> \notin ended
  /\ \A r \in Exchanged : r.request.service = "OPEN_CONNECT" =>
       Len(r.response.qos.metadata_mimetype) < MimetypeMax

\* A call that goes to the server frees only blocks it has allocated, each once:
\* on success and on failure of GET_KEY, where the response shares the metadata of
\* the request (memory_free_utils.c:38), and when malloc refused the key.
NoBadFree ==
  \A e \in ended : e[2] = "bad free" =>
    e[1] = "client" /\ phase = "idle" /\ \A r \in Exchanged : r.n < calls

\* What the server holds between calls: its list, and the request metadata of each
\* GET_KEY that succeeded since it was started.
ListBlocks(list) == UNION {NodeBlocks(node.key_stream_id) : node \in ToSet(list)}
HeldByServer ==
  ListBlocks(ksid_info_linked_list)
    \cup {Block(r.n, "metadata") :
            r \in {x \in GetKeys : x.response.status = Successful /\ x.run = restarts}}

\* What clients hold of the calls that returned: a TLS context, a session, a header,
\* what was returned to the application, a second mimetype of each OPEN_CONNECT and
\* the texts of openConnect.
HeldOfCall(req, by) ==
  {"ctx", "ssl_socket", "header"}
    \cup (CASE req.service = "OPEN_CONNECT" -> {"response mimetype", "qos mimetype"}
            [] req.service = "GET_KEY" -> {"key_buffer", "metadata"}
            [] req.service = "CLOSE" -> {})
    \cup ApiTexts(req, by)
HeldByClients ==
  UNION {{Block(r.n, of) : of \in HeldOfCall(r.request, r.by)} : r \in Exchanged}

\* Between calls every block that a call allocated is accounted for: the strings of
\* the list are copies that outlive the request, and nobody frees the request
\* metadata of a GET_KEY that succeeded (memory_free_utils.c:38), nor the header, the
\* TLS context and the session of a client's call (ssl_socket_client.c:12-40).
MemoryAccounted ==
  phase = "idle" => heap = [client |-> HeldByClients, server |-> HeldByServer]

\* The key of an answer is cut from the stream and index asked for, in its full
\* length; whether it is the sender's or the receiver's is decided by the
\* metadata if they hold a type and a role, and by chance if they are shorter
\* (server_example.c:175): no answer has the status that models.h:28 has for
\* metadata of insufficient size.
KeyFollowsMetadata ==
  \A r \in WithKey :
    \E m \in minted, form \in KeyForms :
      /\ m.key_stream_id = r.request.key_stream_id
      /\ r.response.key_buffer =
           OctetsOf([size |-> m.qos.key_chunk_size, seed |-> Seed(m.pair, r.request.index),
                     form |-> form])
      /\ Len(r.request.metadata) >= 2 =>
           (form = "half" <=> r.request.metadata[1] # 0 /\ r.request.metadata[2] # 16)

\* The bits of the receiver are pairs of a choice and the chosen bit of the
\* sender's pair: the bits after one another in the key files, most significant
\* first, or those of the octets.
Chosen(sender, receiver) ==
  /\ Len(sender) = Len(receiver)
  /\ \A p \in 1..(Len(sender) \div 2) :
       LET high == 2 * p - 1
           low == 2 * p
       IN receiver[low] = IF receiver[high] = 1 THEN sender[low] ELSE sender[high]

\* The two files of client_example.c belong together: they hold the same index,
\* and the same key or the two ends of an oblivious key, whatever other
\* applications do with the stream in between.  The example looks at no status;
\* only a restart between its calls makes one of them fail (client_example.c:54).
ExampleFilesAgree ==
  \A i \in DOMAIN files["test_.key"] :
    LET sender == files["test.key"][i]
        receiver == files["test_.key"][i]
    IN /\ sender.index = receiver.index
       /\ restarts = 0 => script[3].status = Successful /\ script[4].status = Successful
       /\ sender.key # <<>> /\ receiver.key # <<>> =>
            IF key_type = 0 THEN sender.key = receiver.key ELSE Chosen(sender.key, receiver.key)

\* The file shows the index of the key exactly if it is less than 2^31; printing
\* it overruns sindex (write_key_to_file.c:20) exactly for the indices from 2^31
\* whose negative value has as many digits as sindex has room for characters.
IndexInFile ==
  /\ \A r \in GetKeys :
       (\E entry \in ToSet(files[r.file]) : entry.index = Decimal[r.request.index])
         <=> r.request.index < WordMod \div 2
  /\ <<"client", "sindex">> \in ended
       <=> \E r \in GetKeys :
             /\ r.request.index >= WordMod \div 2
             /\ number_of_digits[WordMod - r.request.index] >= number_of_digits[WordMod - 1]

\* The caller of GET_KEY can tell what happened, whatever metadata it sent: success
\* with metadata of the server means that the stream exists (the key may still be
\* empty, if malloc failed), failure with its own metadata that the server does not
\* know the id, and success without metadata that client_api could not parse the id.
\* Neither status nor metadata tell alone.
AnswerTellsCause ==
  \A r \in {x \in returned : x.request.service = "GET_KEY"} :
    IF r.response.status = Successful /\ r.response.metadata = DeviceInfoOctets
    THEN \E m \in minted : /\ m.key_stream_id = r.request.key_stream_id
                           /\ r.run = m.run
                           /\ Len(r.response.key_buffer) \in {0, m.qos.key_chunk_size}
    ELSE /\ r.response.key_buffer = <<>>
         /\ IF r \in Exchanged
            THEN r.response.status = GkPeerNotConnected /\ r.response.metadata = r.request.metadata
            ELSE r.response.status = Successful /\ r.response.metadata = <<>>
=============================================================================
