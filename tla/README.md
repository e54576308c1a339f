# A TLA+ model of minimal-etsi-qkd-004

The repository is a small C implementation of the key delivery interface of
ETSI GS QKD 004: a client library, a TLS server with a servlet that decodes
requests, and an example key management server that simulates a QKD link.
This directory holds a TLA+ model of it, the TLC configurations that check the
model on small instances, and proofs that TLAPS checks for instances of any
size. Paths below are relative to `src/etsi-gs-qkd-004-c/`.

## 1. The system

### Components

| component | source | state it keeps | operations |
|---|---|---|---|
| key management server | `src/server_example.c` | linked list of key streams (`ksid_info_linked_list`) in the memory of `main` | `qkd_open_connect`, `qkd_get_key`, `qkd_close` |
| key generators | `src/server_example.c` | the state of `rand()` | `gen_pseudorandom_key`, `gen_oblivious_pseudorandom_key`, `simple_hash` |
| servlet | `src/qkd/ssl_socket_server.c` | locals of one request, `server_status` | `qkd_servlet` |
| TLS server | `src/qkd/ssl_socket.c` | listening socket, one connection | `socket_server_init` and its accept loop |
| client library | `src/qkd/ssl_socket_client.c` | leaked sockets of the process | the three calls, `client_perform_request` |
| record transport | `src/qkd/ssl_socket.c` | locals of `socket_ssl_recv` | `socket_ssl_send`, `socket_ssl_recv` |
| request/response structs | `src/qkd/interfaces.c`, `include/qkd/models.h` | none | `qkd_*_struct` |
| wire format | `src/qkd/serializers.c`, `src/qkd/sizes.c` | none | `qkd_*_to_stream`, `qkd_*_from_stream`, `qkd_sizeof_*` |
| memory ownership | `src/qkd/copy.c`, `src/memory_free_utils.c` | heap | copy and free functions |
| key file | `src/write_key_to_file.c` | files | `write_key_to_file_bit_format` |
| application flows | `src/client_example.c`, `src/client_api.c` | id, index, keys | sequences of the three calls; wrappers with textual ids |
| TLS set-up | `src/qkd/ssl_socket.c` | `SSL_CTX` | `socket_ssl_context_create` and the two functions that load files |
| Python wrapper | `src/qkd/wrapper.c` | none | argument conversion; not built |
| debug output | `src/qkd/utils.c` | none | `fprintf` |

### How they interact

An application calls `qkd_open_connect`, `qkd_get_key` or `qkd_close` of the
client library. Each call opens a TCP connection and a TLS session of its own,
writes a header with a service number and a size followed by the payload, reads
a header and a payload back, and returns. It never closes its socket. The
server has one thread: it takes one connection from the kernel's accept queue,
completes the TLS handshake, runs the servlet, closes, and starts over. The
servlet reads the header, then as many bytes as the header says, decodes, calls
the handler of the key management server, encodes and writes the answer. Two
applications meet because they open the same (source, destination) pair: the
first creates a stream, the second is given its id, and the keys both then ask
for are computed from the pair, the chunk size of the stream and the index.

### What is hard

* Clients interleave with each other, with the accept queue, and with the
  server that closes the previous connection after its client has moved on.
* Every error path of the transport ends a process: `exit()` when `SSL_read`
  returns 0, a `memcpy` to NULL when it returns -1, SIGPIPE on a write to a
  connection that is gone. One client that dies can take the server with it, and
  with the server go all streams.
* With TLS 1.3 a client believes that it is connected before the server has
  looked at its certificate.
* There is no timeout anywhere: whoever waits, waits until the other side acts
  or ends.
* A message is octets without tags: writer, reader and size function must agree,
  and sizes are 32-bit numbers that wrap.
* Buffers have owners: what a servlet run decodes it frees, except where the
  response shares it with the request, and list nodes outlive the request they
  were made from.
* `socket_ssl_recv` has a loop over partial reads, a special size 0, a `size_t`
  that -1 is added to, and a buffer on the stack whose size the peer chooses; sizes
  are cast to `int` on both sides.
* The servlet reads a payload before it looks at the service, and with size 0 it
  waits for one that nobody may ever send.

`PROJECT.json` lists these as hazards, each at its line, with the properties
that watch it.

### What makes each component correct

* Key management server: at most one stream per pair and per id; no stream
  vanishes while the server runs; an id never changes its meaning, across
  restarts too; every key is counted on one stream and no other.
* TLS server and client library: both ends of a stream get the same key for the
  same index; a call gets the answer to its own request; at most one connection
  is served; a refused client is never served; the server ends only for a cause
  that came from its peer; every call ends, and client and server never wait for each
  other, but for a request of an unknown service that has no payload.
* All together: the calls look atomic to applications (`KeyService`).
* Wire format and memory: what an application asks is what the handler gets, and
  the other way round; no buffer is written past its end; no block is freed twice,
  and each one that is not freed is known.
* Key file and applications: the two files of the example belong together.
* TLS set-up: whoever is served has shown the certificate the other side insists on.
* Record transport: what is read is what was written, or the process ends
  because the peer went away or its stack does not hold the payload.

## 2. The modules

| module | what it is |
|---|---|
| `Models` | requests, responses, status codes, keys, and the operators that build an answer |
| `KeyStreams` | the linked list and the three handlers, with restarts |
| `KeyStreamsProofs` | proofs about `KeyStreams` |
| `QkdService` | clients, connections, accept loop and servlet, composed with `KeyStreams` |
| `KeyService` | abstract specification: atomic calls on a function from pairs to streams |
| `QkdRefinement` | refinement mapping from `QkdService` to `KeyService` |
| `QkdServiceProofs` | proofs about `QkdService` |
| `QkdRefinementProofs` | the proof that `QkdService` implements `KeyService` |
| `QkdClaims` | statements of the headers that the code does not keep |
| `TlsContext` | what certificate, key and CA files make of a process, and whom it talks to |
| `WireFormat` | serializers and sizes as operators on sequences of octets |
| `WireFormatProofs` | proofs about the serializers and the sizes |
| `KeyOctets` | hash, octets of keys, the receiver's half, the key file |
| `Exchange` | library calls end to end in octets, with the memory of both sides; composes `KeyStreams`, `WireFormat`, `KeyOctets` with the applications |
| `ExchangeProofs` | proofs about messages and buffers of `Exchange` |
| `ExchangeKeysProofs`, `ExchangeMemoryProofs` | proofs about its keys and answers, and about its memory |
| `SslSocket` | one message through `socket_ssl_send` and `socket_ssl_recv` |
| `SslSocketProofs` | proofs about `SslSocket` |
| `MCKeyStreams`, `MCQkdService`, `MCExchange` | small instances for TLC |

### Models

Of a `qkd_qos_t` only `key_chunk_size` is read by anything; the other fields
travel from request to response unchanged and are left out here (`Exchange` has
all eight). The status codes
are the two the server can return. A key is the record `[size, seed, form]`
that determines its bytes: the bytes come from `rand()` after `srand(seed)`, so
two keys with the same seed and size have the same bytes, and `form` says
whether the transformation for receivers of oblivious keys was applied. The seed
is the exclusive or of the code; the hash of a URI and the exclusive or are
parameters, and the MC modules give the real exclusive or to TLC. A key of zero
bytes has no seed: `EmptyKey` is also what a failed `malloc` yields, and the code
reports `Successful` for both.

### KeyStreams

`ksid_info_linked_list` is the list as a sequence, oldest first, and
`response` the out-parameters of the handler that ran last. `minted` (every
stream ever created) and `restarts` are history. The two searches of the code
stop at the first node that matches: `Min` of the matching positions.

| code | definition |
|---|---|
| `server_example.c:111`, the id is not nil | `OpenNamed` |
| `:113-119`, the pair is found | `OpenJoined` |
| `:127-148`, append a new node | `OpenCreated` |
| `:167-171`, no such stream | `GetKeyUnknown` |
| `:173-201`, generate and count | `GetKeyServed` |
| `:204-213`, an empty body | `qkd_close` |
| process ends, `main` starts again | `LoseMemory`, `Restart` |

`uuid_generate_random` is assumed to return an id it never returned before. That
is the only assumption about randomness, and `MintedOnce` and the agreement of
keys across restarts rest on it. `current_index` is an `int` that wraps around at
`IntMax` (`Incremented`); signed overflow is undefined in C, but the build has no
option that traps it and no branch depends on the count.

### QkdService

A client is in one of the states idle, connect, handshake, send, recv of one
library call, or gone (`exited`, `crashed`, `killed`), or `stalled`. `conn[c]`
is the connection of its current call, `c2s` and `s2c` what was written and not
yet read. The server is at one of the points of its accept loop: accept,
handshake, header, payload, respond, shutdown; or it is down. Each of these
steps is one action, because each ends at a call in which the process may wait
or another process may act; the handler is one action because the server has a
single thread.

Failures follow the code:

* `ConnectFails`: no descriptor, refused, or the accept queue stays full.
* `ContextFails`: the client creates its TLS context after it has connected, and a
  file that is wrong ends it while the server expects a handshake.
* `SslConnectEarly`, `SslAcceptFails`: a refused client goes on to send; the
  server closes after -1 and runs the servlet on a dead session after 0, since
  only -1 is tested (`ssl_socket.c:265`).
* `RecvFails`, `RecvHeaderFails`: `SSL_read` returned 0 or -1 in
  `socket_ssl_recv`, which ends the client, or the whole server.
* `HandleUnknown`: an unknown service leaves `response_buf` NULL and it is
  written to. That comes after its payload has been read (`ssl_socket_server.c:53`).
  A request of an unknown service therefore says whether it has a payload
  (`OtherRequest`); with none the server asks for a whole record and waits
  (`AwaitsPayload`), as does its peer, until the peer goes away
  (`RecvPayloadFails`). The requests of the library always have a payload, since
  each holds an id.
* `RespondToNobody`, `ShutdownBroken`: the client is gone; the write may raise
  SIGPIPE.
* `Kill`, `Stall`, `RestartServer` come from outside. A killed client may leave
  its request behind to be served, or take it along. A client hangs in its handshake
  or before it sends; the server then waits in `SSL_accept` or in `SSL_read`.

`ServerEnds` closes every connection and empties the list. Messages are assumed
to arrive as they were written, which `SslSocket` shows for all that fit one TLS
record.

### KeyService and QkdRefinement

`KeyService` has no sockets: a client asks, its request is served at one instant
and at most once by the streams alive at that instant, and it returns the answer
of that instant. The server may lose all streams, and a client may leave, at any
time. The mapping counts a call as answered from the moment its handler has run,
and a request that a dead client left in the connection as orphaned until it is
served or dropped.

### TlsContext

A set-up is the issuer of the certificate, the key, the CA that is trusted, each
possibly NULL or unreadable, and `max_proto_version`. `ContextExits` and
`VerifyMode` are `socket_ssl_context_create` and the functions it calls: a server
needs both files, a client that is given one of two goes on without a certificate,
and without a CA nobody is verified (which is how the two examples are set up).
What OpenSSL does with a verify mode is `PeerAccepted`, external. From these follow
the sets `Misconfigured`, `Distrusting`, `Rejected` and `Trusted` of clients that
`QkdService` uses.

### WireFormat and KeyOctets

`WireFormat` has a type per struct of `models.h` (`qkd_qos_t`, `qkd_get_key_request_t`
and so on), one writer per `to_stream` function and one reader per `from_stream`
function, which reads its fields one after the other in the order of the code.
Readers return the value and the rest of the stream, which is the pointer the code
advances. `qkd_sizeof_bytes` and `payload_size` are cut to 32 bits, and `Radix` makes
"32 bits" small: a `uint32_t` has four digits to that base. `SizeAborts` is the
`abort()` of `qkd_sizeof_mimetype`.

`KeyOctets` turns the keys of `Models` into octets (`OctetsOf`, `ReceiverOctet`), the
first two octets of metadata into a key type and role (`KeyInfoOf`), and a GET_KEY
response into what `write_key_to_file_bit_format` appends to the file. `rand()` and
the bitwise operations are parameters.

### Exchange

One call at a time: `LibraryCall` (the request is sized, allocated and serialised),
`Serve` (the whole of `qkd_servlet`: read, handled by `KeyStreams`, answered, freed),
`Return` (the response is read and the application writes its key to a file). Calls
come from the six steps of `client_example.c` (`ExampleStep`, with what the earlier
ones returned), from the wrappers of `client_api.c` (`Api...`, with those that return
before they call the library), from other applications (`App...`), with
`RestartServer` between them.

`heap` holds the live blocks of each side, a block being named by its call and what
it is for, or by its list node. `ServletMemory` and `ClientMemory` give what a call
allocates and, in order, frees; freeing what is not live is recorded in `ended`, as
is a write past a buffer, an `abort()`, an index that overruns `sindex`, and a
message longer than a record. After any of these but `abort()`, which ends a client
alone, the behaviour stops: nothing is known about a program after it, and what is
read of a long message is the subject of `SslSocket`.

### SslSocket

Bytes are positions in the message. `SSL_write` cuts a message into records of
`RecordMax` bytes, and `SSL_read` returns bytes of one record only (OpenSSL's
documented behaviour). The model follows the loop of `socket_ssl_recv` for the
header and then for the payload: reads go to the front of `buf`, the loop is
left after one read when the size is `RecordMax`, and a failed read subtracts one
from `buf_len` modulo `SizeMod`. `HeaderReturned` is the caller that unpacks the
size and calls again; `StackOverflows` is that call with a payload larger than
`stack_limit`, for which `buf` (`ssl_socket.c:31`) has no room. Sizes go through
`AsInt`, the cast to `int`, on both sides: `Written` is what `SSL_write` makes of the
size of the message (`:75`), nothing if it is negative, and `ReadSize` what `SSL_read`
is given (`:42`).

## 3. The runs

| run | module, cfg | question |
|---|---|---|
| `key_streams` | `MCKeyStreams`, `KeyStreams.cfg` | do the handlers keep the list right in any order, with restarts and failing `malloc`? |
| `service` | `MCQkdService`, `Service.cfg` | do two clients agree on keys and get their own answers when all interleave, with two pairs and two chunk sizes? |
| `faults` | `MCQkdService`, `Faults.cfg` | does a call still get its own answer, at one instant, when clients are killed or hang or ask for unknown services, the queue fills, descriptors run out and the server ends and restarts; what ends it; does anybody wait for somebody who waits? |
| `rejected` | `MCQkdService`, `Rejected.cfg` | with a server that verifies, is a client ever served that it should not trust, or that should not trust it; what ends the server; and whom does a refused client leave waiting? |
| `live` | `MCQkdService`, `Live.cfg` | does every call end; does every call return while nothing is killed? |
| `exchange` | `MCExchange`, `Exchange.cfg` | are messages, buffers, blocks and key files right, octet by octet? |
| `ssl_socket` | `SslSocket`, `SslSocket.cfg` | which messages arrive intact, up to sizes that the stack or an `int` does not hold; does the loop wait in vain, and does it end? |
| `oversize`, `qos_mismatch`, `after_close`, `own_ksid`, `timeout` | | claims that fail, see section 5 |

`exchange` shows, besides that what is written is read:

* Buffers hold what is written to them exactly up to payloads of 2^32 - 1 octets
  (`OverrunIffTooLong`). One octet more and the code writes past the buffer, on
  either side; the two places that cut the size never cancel out.
* The server keeps the request metadata of every GET_KEY that succeeds. A client
  keeps a TLS context, a session and a header per call (`ssl_socket.c:112`, `:174`,
  `ssl_socket_client.c:21`) and a copy of the mimetype per OPEN_CONNECT; `openConnect`
  of `client_api.c` also keeps a text of the nil id it was not given
  (`MemoryAccounted`). No other block that a library call or a servlet run allocates
  is lost, and nothing that a list node points to is freed. What the accept loop
  holds is outside this account: one TLS context as long as the server runs, and a
  session per connection, which it frees (`ssl_socket.c:271`).
* The only `free` of something that may not be the library's is that of
  `client_api.c:24`, of an id the caller owns (`NoBadFree`).
* An index of 2^31 or more is printed as a negative number and cut; the longest of
  these overrun `sindex` by one (`IndexInFile`).
* Metadata of fewer than two octets leave the form of the key to chance
  (`KeyFollowsMetadata`); `models.h:28` has a status for metadata of insufficient
  size, which nothing returns.
* A mimetype that is too long ends the client of this library that sends it
  (`AbortsAtSource`). A peer that writes the wire format itself does not run
  `qkd_sizeof_mimetype` and is not covered.
* `getKey` of `client_api.c` reports an id that it cannot parse with the status of
  success; a caller can tell by the missing metadata, and an unknown stream by the
  status, but nothing by one of the two alone (`AnswerTellsCause`).

### Bounds and why they are enough

* Two clients and two calls each are what it takes for one client to create, the
  other to join, and both to draw a key; `faults` has a third call, with which a
  stream can be opened again after a restart. The third call also exceeds
  `MaxFd = 2`, so that running out of descriptors happens.
* `AcceptQueue` is 1 in `faults`, where the queue fills up, and 2 elsewhere, where
  it never does.
* One kill, one hang and one restart: each ends in a state from which everything
  starts afresh but for the history that the properties compare against.
* Pairs in both directions have the same seed (the exclusive or commutes), the
  case in which a mix-up of streams would show least; the chunk sizes 1 and 2
  tell streams apart, and chunk size 0 gives the empty key.
* Agreement of keys is checked in `service`, where two pairs and two chunk sizes tell
  keys apart; with one pair and one chunk size, as in `faults`, all keys are the same
  and it would say nothing. Across a restart the same question is asked where streams
  differ: `MintedOnce` in `key_streams` (an id from before never names a stream opened
  after) and `ExampleFilesAgree` in `exchange`; the theorem `ServiceKeyAgreement` has
  no such limits.
* Two ids suffice for `service`; `key_streams` has four, two per pair and run.
* `IntMax` is 1 in `key_streams`: `current_index` runs through all of its four values
  and wraps around. Elsewhere it is 2^31 - 1.
* `RecordMax = 6`, `HeaderSize = 2` and payloads on both sides of every boundary:
  none, one record not full, exactly full, one byte over, exactly `RecordMax`,
  and up to the fourth record. `WordMod = 48` makes 24 of 2^31: payloads of 21 and 22
  are on its two sides with their headers, and with 46 and 47 the size of the message
  wraps around to 0 and 1. `SizeMod = 64` leaves room to see the wraparound of
  `buf_len`. A stack of 12 bytes holds a payload of 10 and not one of 13, one of 60
  holds them all.
* In `rejected` each of four clients makes one call; what is asked is who is served
  at all. One has everything right, and each of the others one thing wrong: no key,
  the wrong key, another CA.
* In `exchange`, `Radix = 4` makes 256 of 2^32. With metadata of 250 octets and a
  key of 253 requests and responses pass that limit, with 200 only the record of
  120; the indices 130 and 170 are beyond half of it, and -86 and -126 have different
  numbers of digits. Mimetypes have no octets, the most that are allowed, or one
  more. The example makes its six calls, and one call of another application or one
  restart may come anywhere between them: enough to create, join and draw from the
  example's stream before the example does.

Symmetry is used in `key_streams` (ids) and `service` (ids and clients), which
check invariants and an action property, and not where liveness or refinement is
checked. Deadlock is checked in `key_streams`, in `exchange` and in all safety runs
of `QkdService`, where only a system in which nobody waits for an answer, or
somebody hangs, or the server awaits a payload that there is not, may stand still
(`Quiescent`). It is off in `live` and for
`SslSocket`: there a process that has ended or has received its message does
stop.

### Fairness

`FairSpec` has weak fairness of the server's steps and of each client's steps
inside a call: a process that is not killed or hung is scheduled again, the kernel
delivers what is written and reports a closed connection. Nothing makes an
application call, a client die, or somebody restart the server, and a hung
client has no fair step. `SocketFairSpec` likewise: the sender goes on writing
unless it ends, the receiver goes on reading.

`NeverBothBlocked` is the part of progress that needs no fairness: while a client is in
`SSL_connect` or waits for its answer the server is up and either can move or waits
for its peer, which is in a call and is itself waiting exactly if it asked for an
unknown service without a payload. `CallsEnd` says that a call returns or ends its
process, whatever is killed.
`CallsReturn` says that it returns, as long as nothing was killed and the server
is up, provided the queue has room and descriptors suffice. Both hold unless the
server awaits such a payload for ever, which stops every client behind that one.
`ServerEndsForCause` is about the step that ends the server: the peer at that moment
is the one who is gone, was refused or asked for it.

## 4. What is proved

TLAPS checks these for every set of pairs, ids, chunk sizes and indices, and for
every bound. Messages in `QkdService` arrive whole, so that its theorems are about
payloads that `SslSocket` delivers: with their header within one record, and within the
stack of the receiver. Every invariant, action property and refinement of the runs of
section 3 is a theorem here; liveness is not.

`KeyStreamsProofs`, about `KmsSpec`: `KmsTypeCorrect`, `KmsOneStreamPerPair`,
`KmsMintedOnce`, `KmsListIsThisRun` and `KmsStreamsOnlyGrow`. The inductive
invariant `KmsInv` is the conjunction of the type invariant, the three
properties, and `RunsSoFar` (no stream was minted by a run that is still to
come). None of the three is inductive alone. That a new node brings no second
id into the list needs to know that every node of the list is in the history
(`ListIsThisRun`) and that the new id is not; that a pair gets only one id in
a run needs the other direction, from history to list; and after a restart the empty list
equals the empty part of the history only because of `RunsSoFar`. The argument is
in lemmas about any request (`HandleType`, `HandleSafe`), about `LoseMemory`
and about `Restart`, so that it also serves a composition which reaches the
handlers through `HandleRequest`. `SearchFindsMatch` is about the search for the
first match, `GeneratedKeyProperties` about the key generators. Assumptions:
`ModelsAssumption` and `BoundsAssumption`, which the runs evaluate, and the
freshness of ids in `NewStream`.

`SslSocketProofs`, about `SocketSpec`, for every record size that an `int` holds, every
smaller header, every payload size that a header can announce (a `uint32_t`), every
stack, and a `size_t` wider than these:
`SocketTypeCorrect`, `SocketHeaderIntact`, `SocketSizeReturned`,
`SocketEndsForCause`, `SocketReadSizeKept` and `SocketIntactIffOneRecord`. None follows from one step;
the inductive invariant `SocketInv` says what each phase knows. Of a message whose size
an `int` does not hold the sender writes nothing, or less than a header if the size
has wrapped around (`WrittenProperties`), so that the receiver stays in its header
phase: that is why no read is ever given a negative size, and why the properties
about payloads are about the others. Among these a payload larger than the stack ends
the receiver while its sender is alive; that cause is part of `EndsForCause`.
`WholeRecords`:
what was sent is a multiple of the record size or the whole message, so that the
end of a record of which one byte has come has come too
(`RecordEndProperties`, from `NextMultiple` about division). `HeaderPhase`: the
header is read at once or not at all. `Buffered`: after the first read the payload
buffer holds everything the first record has of the payload, and after a second
one its first byte comes from beyond the first record, which is what makes a long
message never intact. `Counting` or `CountingDown`: `buf_len` counts what was read,
or a read has failed and the counter goes down until it wraps (`CountDown`), which
`LoopEnds` shows to be the only way out of the loop besides success. Two theorems are
the safety part of `RecvEnds`. `SocketNeverWaitsInVain`: unless there is no payload, or
its size is lost in the cast, something to read has come, is still to be written, or the sender is gone; it
needs of the counter that `buf_len` is what was read and less than the buffer, so that
the message is not yet consumed. `SocketRemainingFalls`: `Remaining` (octets to read,
octets to send, calls to make, reads that may still fail before `buf_len` wraps) is a
natural number that every step makes smaller, `ReadFails` by counting down and the last
`ReadFails` by wrapping. What is left of `RecvEnds` is that a step which is always
possible is taken at last. Assumption: `SocketAssumption`, evaluated by the runs.

`QkdServiceProofs`, about `Spec` of `QkdService`, for any set of clients, certificates,
bounds and failures: `ServiceTypeCorrect`, `ServiceOneConnection`,
`ServiceServerEndsForCause`, `ServiceOwnAnswer`, `ServiceKeyAgreement`,
`ServiceRendezvous` and `ServiceServedAreTrusted`. The inductive invariant `Inv` follows
the data of a call. `Honest` says that a response answers a request by a stream that
was created at some time; it holds of what the handler returned (`ServerInv`, while the
server responds), of what is under way to the client (`DataInv`) and of every result
(`AllHonest`), and it survives new streams because the history only grows. `DataInv`
and `CallInv` say that a connection carries the request of its client's current call
or one answer to it, never both, also when the client is gone: without that a client
that was killed and its successor could not be told apart from a client that gets an
old answer. `ServerInv` ties the server's point in its loop to its peer's connection.
`StreamsInv` is `KmsInv` of the list while there is one, and its part about the history
while the server is down. `TrustInv` says that what got through a handshake is trusted,
and `CauseInv` which servlet may run on a session that was never established, and
that a server which was told to close is still connected to the one who told it.
`ServiceKeyAgreement` and `ServiceRendezvous` then follow from `AllHonest` with
`MintedOnce`: two honest answers about one id are about one stream.

`ServiceNeverBothBlocked` is deadlock freedom for any number of clients. It needs three
facts about where a client may be while its connection is where it is (`WaitInv`): a
handshake that the server has completed the client has completed too; a client that
has gone on while the server has not is one whose certificate is yet to be refused, so
that the server has a step; and while the server waits for a header, a peer that waits
for its answer has its request still in the connection. The case in which both wait is
that of `AwaitsPayload`, and the theorem says that it is the only one. `AllWait` adds that a server that
is down has nothing queued, since `ServerEnds` resets every connection, which is why
nobody waits for it. With `Inv` (a waiting client is queued or is the peer) this leaves
only the peer for the server to wait for, and the peer does not wait but in that case.

`QkdRefinementProofs`: `ServiceImplementsKeyService`, that is `Spec =>
ImplementsKeyService`. The step in which the handler runs is `Serve` of `KeyService`;
the client's call and return are its own; the end of the server is `LoseStreams`;
a client that ends and a request that is dropped with its connection are `Leave`; all
other steps stutter (`SameView`). It uses `Inv` of `QkdServiceProofs`; that the list is
a function of pairs (`LiveTable`) rests on `OneStreamPerPair`.

`WireFormatProofs`, for every `Radix` above one and every id size: `RequestsAreRead` and
`ResponsesAreRead` (the reader of a message gives it back with no octet left over; the
lemmas about single fields allow for octets that follow), `RequestsFit` and
`ResponsesFit` (the buffer allocated holds header and payload exactly if the payload is
shorter than 2^32 octets). Numbers are four digits to the base `Radix` (`UintDigits`),
strings end at the first NUL because no octet before it is one (`StrRead`), octets come
with their length (`BytesRead`); messages are put together from these with `Cat`. For the
sizes, each `to_stream` is as long as its `sizeof` modulo 2^32, and two cuts are one.

`ExchangeProofs`, about `Spec` of `Exchange`, for any number of calls, restarts,
requests and steps of the example: `ExchangeRoundTrip`, `ExchangeOverrunIffTooLong` and
`ExchangeAbortsAtSource`. `Inv` adds to these and `KmsInv`: `ScriptInv` (the first two
answers the example got are those to its OPEN_CONNECTs, so that what it asks for later
has an id), `RequestInv` (a request under way fits its buffer) and `WireInv` (the octets
on the connection are the header and the payload of that request, or of an answer that
can be given to it). `ServeReads` and `ReturnReads` use the theorems about the wire format
once, to replace octets by the messages they stand for; after that no proof looks at
octets.

`ExchangeKeysProofs`: `ExchangeKeyFollowsMetadata`, `ExchangeAnswerTellsCause` and
`ExchangeExampleFilesAgree`. The invariant `KeysInv` says that every answer, from the moment the handler gives it, is
explained by a stream of the run in which the call was made, or by there being none;
it needs that the server is not restarted during a call. `ExampleInv` follows the six
calls of the example: its first answer has the id of a stream, its second the same id
because the code gives back an id it is given, and its two keys are both cut from that
stream (`OneKey`, from `MintedOnce`); the answer under way is already part of the
argument before the example has it. `OctetChosen` and `HalfChosen` are about the bits:
each pair of the receiver's is a choice and the sender's bit it chooses, for every octet
and every length of the key.

`ExchangeIndexInFile`, in the same module, is about numbers in decimal. Three facts are
needed of every number: `number_of_digits` is positive and grows with its argument
(`DigitsGrow`), `Decimal` has that many digits (`DecimalDigits`), and different numbers
have different digits (`DecimalInjective`). The induction is written out as a least
counterexample: `LeastNumber` is the well-ordering of the naturals for a set, from the
library's `NatLessThanWellFounded`, and dropping the last digit of a counterexample
gives a smaller one. That the two recursive definitions define functions at all is
`DigitRecursion`: for each bound exactly one function on the numbers up to it obeys the
rule, and their values together make the function on all numbers. `IndexText`
is then about one call: what it writes for its index are the digits of that index if it
is below 2^31, and otherwise, cut and with a sign, the digits of no index. `IndexInv` is
about the files: they hold only such texts, that of every key is in its file, and
`sindex` is overrun exactly if one of the indices does so.

`ExchangeMemoryProofs`: `ExchangeNoBadFree` and `ExchangeMemoryAccounted`. `MemoryInv`
accounts for every block during a call too (`HeldNow`), and numbers calls (`Numbered`) so
that the blocks of a new call are not those of an old one. `ServletFrees` and
`ClientFrees` are about the order of frees of one call: each of a block it allocated,
each once, and what is left is exactly what `MemoryAccounted` lists.

Assumptions: `ServiceAssumption` and those of `TlsContext` for `QkdService`, `WireAssumption`
for the wire format, `OctetsAssumption` and `ExchangeAssumption` for `Exchange` (the inputs
of applications are values of the C types, the pairs are the texts they open, and
bitwise operations with 170 and 85 set or clear every second bit).
The runs evaluate all of them.

The proofs changed the model in four places. In `QkdRefinement` the answer of a client
was a `CASE` whose conditions overlap in states that cannot be reached; it now has an
order. `OverrunIffTooLong` has to leave out requests that `abort()` before a buffer is
allocated. `AnswerTellsCause` read the cause off the metadata, which is
wrong of an application that sends the very octets the server answers with; it takes
status and metadata together. `Decimal` gave each digit by a power of ten and is
now a recursive function that appends the last digit, which is what an argument by
digits can follow.

Only model-checked:

* `CallsEnd`, `CallsReturn` and `RecvEnds`: the prover has no rules for fairness. Their
  safety parts are `NeverBothBlocked`, `NeverWaitsInVain` and `RemainingFalls`, which are
  proved.

## 5. Where code and comments disagree

Each of these is a run in which TLC finds a counterexample to what a comment says.

* `oversize`: `ssl_socket.c:41` speaks of "trying to read the remaining part", but
  each read goes to the front of `buf` (`:42`), so a payload that does not fit one
  record with its header is returned without its beginning; and a payload of
  exactly `SSL3_RT_MAX_PLAIN_LENGTH` bytes is read only once (`:51`). The trace is
  the first: five bytes of payload where a record has room for four, and the last one
  overwrites the first.
  `IntactIffOneRecord` says exactly which messages survive.
* `qos_mismatch`: a client that joins a stream is told its own QoS and
  `Successful`, and gets keys of the other's chunk size; `models.h:27` has a status
  for this.
* `after_close`: `qkd_close` of the example server is empty, so a closed stream
  still gives keys.
* `own_ksid`: `OPEN_CONNECT` with an id of the application's own succeeds and
  stores nothing; `GET_KEY` with that id fails.
* `timeout`: `qos.timeout` is read by nothing; a client that hangs after it has
  connected stops the service for all.

## 6. Not modelled

* Debug output (`utils.c`): printing only, and only with `QKD_LOG_DEBUG`. The Python
  wrapper is commented out in `CMakeLists.txt` and does not fit the current
  `models.h`.
* Allocations other than that of the key fail nowhere in the model; the code uses
  their results unchecked, so that such a failure ends the process at once. The same
  goes for failures inside OpenSSL when it creates a context or a session.
* What remains of the stack when `socket_ssl_recv` is called is a parameter
  (`stack_limit`), and an array that does not fit ends the process; what the array
  might overwrite beyond a guard page is left out.
* `qkd_open_connect` of the client library called directly with a mimetype that is
  not on the heap, which `qkd_copy_qos` frees: applications here use the struct
  functions, as all in the repository do.
* `close` of `client_api.c` has the name of the system call; which of the two a
  program with both gets is a matter of linking.
* An id text of NULL for `getKey` or `close` of `client_api.c`.
* `Exchange` has one call at a time, `QkdService` has messages that arrive as they
  were written: concurrency and octets are not checked in one model. A servlet run
  is sequential and shares nothing with clients but the messages, so each model
  covers what the other takes for granted.
* Hash collisions of URIs: streams are compared by URI, and keys of different pairs
  may coincide; nothing in the code relies on their being different.

## 7. Plan

All modules of section 2 are written, and every invariant, action property and
refinement that the runs check is proved. What would be worth doing next:

* a measure like `Remaining` for one call of `QkdService` while nothing new is called,
  which would leave only the scheduling of `CallsEnd` to TLC;
* concurrency and octets in one model, if the server ever serves two connections at once.
