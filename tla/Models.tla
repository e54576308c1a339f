------------------------------- MODULE Models -------------------------------
(***************************************************************************)
(* The messages of the protocol (models.h) and the keys that the example   *)
(* server generates.                                                       *)
(*                                                                         *)
(* Of a qkd_qos_t only key_chunk_size is ever read; the other fields are   *)
(* copied from request to response and are left out.  Key bytes are the    *)
(* record [size, seed, form] that determines them: the bytes are those of  *)
(* rand() after srand(seed), and form tells whether they were then turned  *)
(* into the receiver's half of an oblivious key.                           *)
(***************************************************************************)
EXTENDS Integers, Sequences, FiniteSetsExt

CONSTANTS
  Pair,            \* the [source, destination] URI pairs applications use
  ChunkSize,       \* values of qos.key_chunk_size
  Index,           \* key indices applications ask for
  KeyInfo,         \* metadata of GET_KEY requests: [key_type, key_role]
  Uuid,            \* what uuid_generate_random can return
  AppUuid,         \* key stream ids that applications choose themselves
  NilUuid,         \* 00000000-0000-0000-0000-000000000000
  MallocMayFail,   \* can the malloc of a key return NULL?
  simple_hash(_),  \* the 32-bit hash of a URI
  Xor32(_, _)      \* bitwise exclusive or

KeyTypes == {"symmetric", "oblivious"}
KeyRoles == {"default", "error", "sender", "receiver"}

ASSUME ModelsAssumption ==
  /\ NilUuid \notin Uuid
  /\ AppUuid \cap (Uuid \cup {NilUuid}) = {}
  /\ ChunkSize \subseteq Nat
  /\ KeyInfo \subseteq [key_type : KeyTypes, key_role : KeyRoles]
  /\ MallocMayFail \in BOOLEAN

\* qkd_status_code_t: the two codes the server ever returns.
Successful == 0
GkPeerNotConnected == 3

Qos == [key_chunk_size : ChunkSize]
Ksid == Uuid \cup AppUuid \cup {NilUuid}

\* What gen_pseudorandom_key feeds to srand: the exclusive or of the hashes
\* of the two URIs and of the index.
Seed(pair, index) ==
  Xor32(Xor32(Xor32(0, simple_hash(pair.source)), simple_hash(pair.destination)), index)

EmptyKey == [size |-> 0]

\* The key of key_size bytes for this pair and index, or {0, NULL} when malloc
\* fails.  No bytes at all are the same empty key whatever the seed.
gen_pseudorandom_key(pair, key_size, index, allocated) ==
  IF allocated /\ key_size > 0
  THEN [size |-> key_size, seed |-> Seed(pair, index), form |-> "whole"]
  ELSE EmptyKey

\* The same bytes; for oblivious_key_type 2 each octet is then replaced by
\* alternate choice bits and the bits they select.
gen_oblivious_pseudorandom_key(pair, key_size, index, oblivious_key_type, allocated) ==
  IF allocated /\ key_size > 0
  THEN [size |-> key_size, seed |-> Seed(pair, index),
        form |-> IF oblivious_key_type = 2 THEN "half" ELSE "whole"]
  ELSE EmptyKey

KeyForms == {"whole", "half"}
Key == {EmptyKey} \cup
       [size : ChunkSize, seed : {Seed(p, i) : p \in Pair, i \in Index}, form : KeyForms]

DeviceInfo == [device_info |-> "key_rate, qber"]

OpenConnectRequest ==
  [service : {"OPEN_CONNECT"}, pair : Pair, qos : Qos, key_stream_id : Ksid]
GetKeyRequest ==
  [service : {"GET_KEY"}, key_stream_id : Ksid, index : Index, metadata : KeyInfo]
CloseRequest == [service : {"CLOSE"}, key_stream_id : Ksid]
Request == OpenConnectRequest \cup GetKeyRequest \cup CloseRequest

OpenConnectResponse ==
  [service : {"OPEN_CONNECT"}, status : {Successful}, qos : Qos, key_stream_id : Ksid]
GetKeyResponse ==
  [service : {"GET_KEY"}, status : {Successful, GkPeerNotConnected}, index : Index,
   key_buffer : Key, metadata : KeyInfo \cup {DeviceInfo}]
CloseResponse == [service : {"CLOSE"}, status : {Successful}]
NoResponse == [service |-> "NONE"]
Response == OpenConnectResponse \cup GetKeyResponse \cup CloseResponse

-----------------------------------------------------------------------------
\* qkd_open_connect_struct copies the request's QoS into the response before
\* the handler runs and the handler leaves it alone.
OpenConnectAnswer(req, ksid) ==
  [service |-> "OPEN_CONNECT", status |-> Successful,
   qos |-> req.qos, key_stream_id |-> ksid]

\* qkd_get_key_struct copies index and metadata of the request into the
\* response, whose key buffer is empty before the handler runs.
GetKeyAnswer(req, status, key, metadata) ==
  [service |-> "GET_KEY", status |-> status, index |-> req.index,
   key_buffer |-> key, metadata |-> metadata]

\* The key of a stream (its pair and QoS) for a request: the three-way choice of
\* the generator on the metadata of the request.
GeneratedKey(stream, req, allocated) ==
  IF req.metadata.key_type = "symmetric"
  THEN gen_pseudorandom_key(stream.pair, stream.qos.key_chunk_size, req.index, allocated)
  ELSE gen_oblivious_pseudorandom_key(stream.pair, stream.qos.key_chunk_size, req.index,
         IF req.metadata.key_role = "sender" THEN 1 ELSE 2, allocated)
=============================================================================
