----------------------------- MODULE WireFormat -----------------------------
(***************************************************************************)
(* Messages as octets: serializers.c, and the sizes of sizes.c by which    *)
(* their buffers are allocated.                                            *)
(*                                                                         *)
(* A uint32_t is four digits to the base Radix, most significant first.    *)
(* Radix is 256 in the code and small in the instances, so that buffers    *)
(* come within reach of the overflow at WordMod = Radix^4.  Strings are    *)
(* sequences of octets other than NUL; a qkd_bytes_t is the sequence of    *)
(* its octets.  A from_stream operator returns the value it read and the   *)
(* rest of the stream, where the code has advanced its pointer to.         *)
(***************************************************************************)
EXTENDS Integers, SequencesExt

CONSTANTS
  Radix,         \* values of a digit of a uint32_t: 256
  UuidSize,      \* sizeof(uuid_t): 16
  MimetypeMax    \* MIMETYPE_MAX: 256

ASSUME WireAssumption ==
  /\ Radix \in Nat \ {0, 1}
  /\ UuidSize \in Nat \ {0}
  /\ MimetypeMax \in Nat \ {0}

WordMod == Radix * Radix * Radix * Radix
WordSize == 4
HeaderSize == 8

\* enum qkd_service, for requests; a response has the next number.
ServiceCode == [OPEN_CONNECT |-> 2, GET_KEY |-> 4, CLOSE |-> 8]
QKD_004_VERSION == <<2, 1, 1>>

\* The stream after n octets of it were read.
Advance(stream, n) == SubSeq(stream, n + 1, Len(stream))

-----------------------------------------------------------------------------
(* The types of the structs (models.h), with the service that a message is     *)
(* for.  The data of a qkd_bytes_t are as many octets as its size says.        *)

uint32_t == 0..(WordMod - 1)
Octets(n) == {octets \in Seq(Nat) : Len(octets) = n}
uuid_t == Octets(UuidSize)
qkd_bytes_t == {octets \in Seq(Nat) : Len(octets) < WordMod}
qkd_str_t == Seq(Nat \ {0})

qkd_qos_t ==
  [key_chunk_size : uint32_t, max_bps : uint32_t, min_bps : uint32_t, jitter : uint32_t,
   priority : uint32_t, timeout : uint32_t, ttl : uint32_t, metadata_mimetype : qkd_str_t]

qkd_open_connect_request_t ==
  [service : {"OPEN_CONNECT"}, source : qkd_str_t, destination : qkd_str_t, qos : qkd_qos_t,
   key_stream_id : uuid_t]
qkd_get_key_request_t ==
  [service : {"GET_KEY"}, key_stream_id : uuid_t, index : uint32_t, metadata : qkd_bytes_t]
qkd_close_request_t == [service : {"CLOSE"}, key_stream_id : uuid_t]
RequestMessage == qkd_open_connect_request_t \cup qkd_get_key_request_t \cup qkd_close_request_t

qkd_open_connect_response_t ==
  [service : {"OPEN_CONNECT"}, status : uint32_t, qos : qkd_qos_t, key_stream_id : uuid_t]
qkd_get_key_response_t ==
  [service : {"GET_KEY"}, status : uint32_t, index : uint32_t, key_buffer : qkd_bytes_t,
   metadata : qkd_bytes_t]
qkd_close_response_t == [service : {"CLOSE"}, status : uint32_t]
ResponseMessage ==
  qkd_open_connect_response_t \cup qkd_get_key_response_t \cup qkd_close_response_t

-----------------------------------------------------------------------------
(* Fields. *)

qkd_uint32_to_stream(number) ==
  <<number \div (Radix * Radix * Radix), (number \div (Radix * Radix)) % Radix,
    (number \div Radix) % Radix, number % Radix>>

qkd_uint32_from_stream(stream) ==
  [value |-> ((stream[1] * Radix + stream[2]) * Radix + stream[3]) * Radix + stream[4],
   rest |-> Advance(stream, WordSize)]

qkd_uuid_from_stream(stream) ==
  [value |-> SubSeq(stream, 1, UuidSize), rest |-> Advance(stream, UuidSize)]

\* Key buffers and metadata.
qkd_bytes_data_to_stream(data) == qkd_uint32_to_stream(Len(data) % WordMod) \o data

qkd_bytes_data_from_stream(stream) ==
  LET size == qkd_uint32_from_stream(stream)
  IN [value |-> SubSeq(size.rest, 1, size.value), rest |-> Advance(size.rest, size.value)]

\* URIs and mimetypes, with their NUL.
qkd_str_to_stream(str) == Append(str, 0)

qkd_str_from_stream(stream) ==
  LET size == SelectInSeq(stream, LAMBDA octet : octet = 0)
  IN [value |-> SubSeq(stream, 1, size - 1), rest |-> Advance(stream, size)]

qkd_qos_to_stream(qos) ==
  qkd_uint32_to_stream(qos.key_chunk_size) \o qkd_uint32_to_stream(qos.max_bps)
    \o qkd_uint32_to_stream(qos.min_bps) \o qkd_uint32_to_stream(qos.jitter)
    \o qkd_uint32_to_stream(qos.priority) \o qkd_uint32_to_stream(qos.timeout)
    \o qkd_uint32_to_stream(qos.ttl) \o qkd_str_to_stream(qos.metadata_mimetype)

qkd_qos_from_stream(stream) ==
  LET key_chunk_size == qkd_uint32_from_stream(stream)
      max_bps == qkd_uint32_from_stream(key_chunk_size.rest)
      min_bps == qkd_uint32_from_stream(max_bps.rest)
      jitter == qkd_uint32_from_stream(min_bps.rest)
      priority == qkd_uint32_from_stream(jitter.rest)
      timeout == qkd_uint32_from_stream(priority.rest)
      ttl == qkd_uint32_from_stream(timeout.rest)
      metadata_mimetype == qkd_str_from_stream(ttl.rest)
  IN [value |-> [key_chunk_size |-> key_chunk_size.value, max_bps |-> max_bps.value,
                 min_bps |-> min_bps.value, jitter |-> jitter.value, priority |-> priority.value,
                 timeout |-> timeout.value, ttl |-> ttl.value,
                 metadata_mimetype |-> metadata_mimetype.value],
      rest |-> metadata_mimetype.rest]

-----------------------------------------------------------------------------
(* The payloads, by service. *)

qkd_open_connect_request_to_stream(req) ==
  qkd_str_to_stream(req.source) \o qkd_str_to_stream(req.destination)
    \o qkd_qos_to_stream(req.qos) \o req.key_stream_id
qkd_get_key_request_to_stream(req) ==
  req.key_stream_id \o qkd_uint32_to_stream(req.index) \o qkd_bytes_data_to_stream(req.metadata)
qkd_close_request_to_stream(req) == req.key_stream_id

request_to_stream(req) ==
  CASE req.service = "OPEN_CONNECT" -> qkd_open_connect_request_to_stream(req)
    [] req.service = "GET_KEY" -> qkd_get_key_request_to_stream(req)
    [] req.service = "CLOSE" -> qkd_close_request_to_stream(req)

qkd_open_connect_response_to_stream(resp) ==
  qkd_uint32_to_stream(resp.status) \o qkd_qos_to_stream(resp.qos) \o resp.key_stream_id
qkd_get_key_response_to_stream(resp) ==
  qkd_uint32_to_stream(resp.status) \o qkd_uint32_to_stream(resp.index)
    \o qkd_bytes_data_to_stream(resp.key_buffer) \o qkd_bytes_data_to_stream(resp.metadata)
qkd_close_response_to_stream(resp) == qkd_uint32_to_stream(resp.status)

response_to_stream(resp) ==
  CASE resp.service = "OPEN_CONNECT" -> qkd_open_connect_response_to_stream(resp)
    [] resp.service = "GET_KEY" -> qkd_get_key_response_to_stream(resp)
    [] resp.service = "CLOSE" -> qkd_close_response_to_stream(resp)

\* The service comes from the header, or from the call; the rest is read.
qkd_open_connect_request_from_stream(stream) ==
  LET source == qkd_str_from_stream(stream)
      destination == qkd_str_from_stream(source.rest)
      qos == qkd_qos_from_stream(destination.rest)
      key_stream_id == qkd_uuid_from_stream(qos.rest)
  IN [value |-> [service |-> "OPEN_CONNECT", source |-> source.value,
                 destination |-> destination.value, qos |-> qos.value,
                 key_stream_id |-> key_stream_id.value],
      rest |-> key_stream_id.rest]

qkd_get_key_request_from_stream(stream) ==
  LET key_stream_id == qkd_uuid_from_stream(stream)
      index == qkd_uint32_from_stream(key_stream_id.rest)
      metadata == qkd_bytes_data_from_stream(index.rest)
  IN [value |-> [service |-> "GET_KEY", key_stream_id |-> key_stream_id.value,
                 index |-> index.value, metadata |-> metadata.value],
      rest |-> metadata.rest]

qkd_close_request_from_stream(stream) ==
  LET key_stream_id == qkd_uuid_from_stream(stream)
  IN [value |-> [service |-> "CLOSE", key_stream_id |-> key_stream_id.value],
      rest |-> key_stream_id.rest]

qkd_open_connect_response_from_stream(stream) ==
  LET status == qkd_uint32_from_stream(stream)
      qos == qkd_qos_from_stream(status.rest)
      key_stream_id == qkd_uuid_from_stream(qos.rest)
  IN [value |-> [service |-> "OPEN_CONNECT", status |-> status.value, qos |-> qos.value,
                 key_stream_id |-> key_stream_id.value],
      rest |-> key_stream_id.rest]

\* Mutant: the metadata are taken for the key.
qkd_get_key_response_from_stream_swapped(stream) ==
  LET status == qkd_uint32_from_stream(stream)
      index == qkd_uint32_from_stream(status.rest)
      metadata == qkd_bytes_data_from_stream(index.rest)
      key_buffer == qkd_bytes_data_from_stream(metadata.rest)
  IN [value |-> [service |-> "GET_KEY", status |-> status.value, index |-> index.value,
                 key_buffer |-> key_buffer.value, metadata |-> metadata.value],
      rest |-> key_buffer.rest]

qkd_get_key_response_from_stream(stream) ==
  LET status == qkd_uint32_from_stream(stream)
      index == qkd_uint32_from_stream(status.rest)
      key_buffer == qkd_bytes_data_from_stream(index.rest)
      metadata == qkd_bytes_data_from_stream(key_buffer.rest)
  IN [value |-> [service |-> "GET_KEY", status |-> status.value, index |-> index.value,
                 key_buffer |-> key_buffer.value, metadata |-> metadata.value],
      rest |-> metadata.rest]

qkd_close_response_from_stream(stream) ==
  LET status == qkd_uint32_from_stream(stream)
  IN [value |-> [service |-> "CLOSE", status |-> status.value], rest |-> status.rest]

\* The server goes by the service in the header, a client by the call it made.
request_from_stream(code, stream) ==
  CASE code = ServiceCode.OPEN_CONNECT -> qkd_open_connect_request_from_stream(stream)
    [] code = ServiceCode.GET_KEY -> qkd_get_key_request_from_stream(stream)
    [] code = ServiceCode.CLOSE -> qkd_close_request_from_stream(stream)

response_from_stream(service, stream) ==
  CASE service = "OPEN_CONNECT" -> qkd_open_connect_response_from_stream(stream)
    [] service = "GET_KEY" -> qkd_get_key_response_from_stream(stream)
    [] service = "CLOSE" -> qkd_close_response_from_stream(stream)

-----------------------------------------------------------------------------
(* Sizes.  Sums are of size_t, but those of a qkd_bytes_t of uint32_t. *)

qkd_sizeof_bytes(data) == (WordSize + Len(data)) % WordMod

\* Mutant: the terminating NUL is forgotten.
qkd_sizeof_str_without_nul(str) == Len(str)

qkd_sizeof_str(str) == Len(str) + 1

qkd_sizeof_qos(qos) == 7 * WordSize + qkd_sizeof_str(qos.metadata_mimetype)

\* Mutant: the size of a request is computed without qkd_sizeof_mimetype.
SizeAbortsInResponses(msg) ==
  /\ "status" \in DOMAIN msg
  /\ msg.service = "OPEN_CONNECT"
  /\ qkd_sizeof_str(msg.qos.metadata_mimetype) > MimetypeMax

\* qkd_sizeof_mimetype, and with it the size of anything that holds a QoS, calls
\* abort() for a mimetype that is too long.
SizeAborts(msg) ==
  msg.service = "OPEN_CONNECT" /\ qkd_sizeof_str(msg.qos.metadata_mimetype) > MimetypeMax

qkd_sizeof_request(req) ==
  CASE req.service = "OPEN_CONNECT" ->
         qkd_sizeof_str(req.source) + qkd_sizeof_str(req.destination)
           + qkd_sizeof_qos(req.qos) + UuidSize
    [] req.service = "GET_KEY" -> UuidSize + WordSize + qkd_sizeof_bytes(req.metadata)
    [] req.service = "CLOSE" -> UuidSize

qkd_sizeof_response(resp) ==
  WordSize +
    CASE resp.service = "OPEN_CONNECT" -> qkd_sizeof_qos(resp.qos) + UuidSize
      [] resp.service = "GET_KEY" -> WordSize + qkd_sizeof_bytes(resp.key_buffer)
                                       + qkd_sizeof_bytes(resp.metadata)
      [] resp.service = "CLOSE" -> 0

-----------------------------------------------------------------------------
\* The header's payload_size is a uint32_t; the buffer is allocated by it.
qkd_header_to_stream(code, payload_size) ==
  Append(QKD_004_VERSION, code) \o qkd_uint32_to_stream(payload_size % WordMod)

qkd_header_from_stream(stream) ==
  [service |-> stream[4], payload_size |-> qkd_uint32_from_stream(Advance(stream, 4)).value]

AllocatedSize(payload_size) == HeaderSize + (payload_size % WordMod)
=============================================================================
