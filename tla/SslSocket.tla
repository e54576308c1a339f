----------------------------- MODULE SslSocket -----------------------------
(***************************************************************************)
(* One message between the two ends of a TLS connection: socket_ssl_send   *)
(* on one side and, on the other, the two calls of socket_ssl_recv that    *)
(* read the header and then as many bytes as the header announces          *)
(* (qkd_servlet and client_perform_request).                               *)
(*                                                                         *)
(* A byte is the position it has in the message.  SSL_write cuts a message *)
(* into records of at most RecordMax bytes and SSL_read returns bytes of   *)
(* one record only.  The sender may end after any number of records; then  *)
(* SSL_read returns 0 or -1 once everything that arrived has been read.    *)
(* Sizes are cut to an int on both sides, and the buffer of the receiver   *)
(* is on its stack.                                                        *)
(***************************************************************************)
EXTENDS Integers

CONSTANTS
  RecordMax,     \* SSL3_RT_MAX_PLAIN_LENGTH
  HeaderSize,    \* sizeof(qkd_header_t)
  PayloadSizes,  \* payload sizes of messages
  WordMod,       \* 2^(bits of int and uint32_t)
  SizeMod,       \* 2^(bits of size_t)
  StackLimits,   \* bytes that buf can have on the receiver's stack
  Junk           \* what a byte of the uninitialised buffer holds

ASSUME SocketAssumption ==
  /\ RecordMax \in Nat
  /\ HeaderSize \in 1..RecordMax - 1
  /\ WordMod \in Nat
  /\ RecordMax < WordMod \div 2
  /\ PayloadSizes \subseteq 0..WordMod - 1
  /\ SizeMod \in Nat
  /\ WordMod < SizeMod
  /\ StackLimits \subseteq Nat
  /\ Junk \notin Nat

VARIABLES
  payload_size,     \* of this message
  stack_limit,      \* of the receiving process
  sent,             \* bytes written so far, a whole number of records
  ended,            \* the sender has gone away
  consumed,         \* bytes read so far
  phase,            \* where the receiver is
  buffer_max_size,  \* parameter of the current socket_ssl_recv
  buf, buf_len,     \* its locals
  need_more_reads,
  msg               \* what the last socket_ssl_recv returned

readerVars == <<consumed, phase, buffer_max_size, buf, buf_len, need_more_reads, msg>>
socketVars == <<payload_size, stack_limit, sent, ended, readerVars>>

Over == {"done", "exited", "crashed"}

MessageSize == HeaderSize + payload_size
Header == [i \in 1..HeaderSize |-> i]
Payload == [i \in 1..payload_size |-> HeaderSize + i]

Least(m, n) == IF m <= n THEN m ELSE n

\* The cast of a size to int.
AsInt(n) == IF n % WordMod < WordMod \div 2 THEN n % WordMod ELSE (n % WordMod) - WordMod

\* Mutant: the size is passed on as it is.
WrittenUncast == MessageSize

\* The bytes that socket_ssl_send writes.  The size of the message is cut to the
\* uint32_t of socket_data_t and cast to int; SSL_write takes no negative size, and
\* the sender goes on after it has printed that.
Written == IF AsInt(MessageSize) > 0 THEN AsInt(MessageSize) ELSE 0

\* The last byte of the record that holds byte n + 1 of what is written.
RecordEnd(n) == Least(Written, (n \div RecordMax + 1) * RecordMax)

\* Mutant: one byte too many is waited for.
BufferSizeOffByOne(size) == IF size = 0 THEN RecordMax ELSE size + 1

\* Size 0 stands for the largest record.
BufferSize(size) == IF size = 0 THEN RecordMax ELSE size

-----------------------------------------------------------------------------
\* SSL_write hands the next record to the network.
SslWrite ==
  /\ ~ended
  /\ sent < Written
  /\ sent' = RecordEnd(sent)
  /\ UNCHANGED <<payload_size, stack_limit, ended, readerVars>>

SenderEnds ==
  /\ ~ended
  /\ ended' = TRUE
  /\ UNCHANGED <<payload_size, stack_limit, sent, readerVars>>

\* Mutant: the break after the largest record is missing.
ReadingWithoutBreak == phase \in {"header", "payload"} /\ buf_len < buffer_max_size

\* The condition of the loop of socket_ssl_recv and the break at its end.
Reading ==
  /\ phase \in {"header", "payload"}
  /\ buf_len < buffer_max_size
  /\ ~(need_more_reads /\ buffer_max_size = RecordMax)

\* The size that SSL_read is given.
ReadSize == AsInt(buffer_max_size - buf_len)

\* SSL_read returns bytes, which always go to the start of buf.
Read ==
  /\ Reading
  /\ ReadSize >= 0
  /\ consumed < sent
  /\ LET len == Least(ReadSize, RecordEnd(consumed) - consumed)
     IN /\ buf' = [i \in 1..buffer_max_size |-> IF i <= len THEN consumed + i ELSE buf[i]]
        /\ buf_len' = buf_len + len
        /\ consumed' = consumed + len
  /\ need_more_reads' = TRUE
  /\ UNCHANGED <<payload_size, stack_limit, sent, ended, phase, buffer_max_size, msg>>

\* Mutant: no data yet is taken for a closed connection.
ReadClosedEarly ==
  /\ Reading
  /\ consumed = sent
  /\ phase' = "exited"
  /\ UNCHANGED <<payload_size, stack_limit, sent, ended, consumed, buffer_max_size, buf, buf_len,
                 need_more_reads, msg>>

\* SSL_read returns 0: exit(EXIT_FAILURE).
ReadClosed ==
  /\ Reading
  /\ ReadSize >= 0
  /\ consumed = sent
  /\ ended
  /\ phase' = "exited"
  /\ UNCHANGED <<payload_size, stack_limit, sent, ended, consumed, buffer_max_size, buf, buf_len,
                 need_more_reads, msg>>

\* Mutant: a signed length.
ReadFailsSigned ==
  /\ Reading
  /\ consumed = sent
  /\ ended
  /\ buf_len' = buf_len - 1
  /\ need_more_reads' = TRUE
  /\ UNCHANGED <<payload_size, stack_limit, sent, ended, consumed, phase, buffer_max_size, buf, msg>>

\* SSL_read returns -1, which is reported and added to the size_t buf_len: the
\* sender has gone, or the size is negative.
ReadFails ==
  /\ Reading
  /\ ReadSize < 0 \/ (consumed = sent /\ ended)
  /\ buf_len' = (buf_len - 1) % SizeMod
  /\ need_more_reads' = TRUE
  /\ UNCHANGED <<payload_size, stack_limit, sent, ended, consumed, phase, buffer_max_size, buf, msg>>

Returned == [i \in 1..buf_len |-> buf[i]]

\* After the loop buf_len bytes are copied out of buf: past its end, or to the
\* NULL of a malloc of SIZE_MAX, when buf_len has wrapped around.
CopyFails ==
  /\ phase \in {"header", "payload"}
  /\ ~Reading
  /\ buf_len > buffer_max_size
  /\ phase' = "crashed"
  /\ UNCHANGED <<payload_size, stack_limit, sent, ended, consumed, buffer_max_size, buf, buf_len,
                 need_more_reads, msg>>

\* What the header says of the length of the payload.
AnnouncedSizes == IF Returned = Header THEN {payload_size} ELSE PayloadSizes

\* Mutant: buf_len is not reset for the second call.
HeaderReturnedKeepsLength ==
  /\ phase = "header"
  /\ ~Reading
  /\ buf_len <= buffer_max_size
  /\ BufferSize(payload_size) <= stack_limit
  /\ msg' = Returned
  /\ buffer_max_size' = BufferSize(payload_size)
  /\ buf' = [i \in 1..BufferSize(payload_size) |-> Junk]
  /\ need_more_reads' = FALSE
  /\ phase' = "payload"
  /\ UNCHANGED <<payload_size, stack_limit, sent, ended, consumed, buf_len>>

\* The header says how long the payload is, and socket_ssl_recv is called again,
\* with a buffer of that size on the stack.
HeaderReturned ==
  /\ phase = "header"
  /\ ~Reading
  /\ buf_len <= buffer_max_size
  /\ msg' = Returned
  /\ \E size \in AnnouncedSizes :
       /\ BufferSize(size) <= stack_limit
       /\ buffer_max_size' = BufferSize(size)
       /\ buf' = [i \in 1..BufferSize(size) |-> Junk]
  /\ buf_len' = 0
  /\ need_more_reads' = FALSE
  /\ phase' = "payload"
  /\ UNCHANGED <<payload_size, stack_limit, sent, ended, consumed>>

\* The same with a buffer that is larger than the stack.
StackOverflows ==
  /\ phase = "header"
  /\ ~Reading
  /\ buf_len <= buffer_max_size
  /\ \E size \in AnnouncedSizes : BufferSize(size) > stack_limit
  /\ phase' = "crashed"
  /\ UNCHANGED <<payload_size, stack_limit, sent, ended, consumed, buffer_max_size, buf, buf_len,
                 need_more_reads, msg>>

PayloadReturned ==
  /\ phase = "payload"
  /\ ~Reading
  /\ buf_len <= buffer_max_size
  /\ msg' = Returned
  /\ phase' = "done"
  /\ UNCHANGED <<payload_size, stack_limit, sent, ended, consumed, buffer_max_size, buf, buf_len,
                 need_more_reads>>

\* Mutant: sizeof of a padded header.
SocketInitPadded ==
  /\ payload_size \in PayloadSizes
  /\ stack_limit \in StackLimits
  /\ sent = 0
  /\ ended = FALSE
  /\ consumed = 0
  /\ phase = "header"
  /\ buffer_max_size = HeaderSize + 1
  /\ buf = [i \in 1..HeaderSize + 1 |-> Junk]
  /\ buf_len = 0
  /\ need_more_reads = FALSE
  /\ msg = [i \in 1..0 |-> Junk]

SocketInit ==
  /\ payload_size \in PayloadSizes
  /\ stack_limit \in StackLimits
  /\ sent = 0
  /\ ended = FALSE
  /\ consumed = 0
  /\ phase = "header"
  /\ buffer_max_size = HeaderSize
  /\ buf = [i \in 1..HeaderSize |-> Junk]
  /\ buf_len = 0
  /\ need_more_reads = FALSE
  /\ msg = [i \in 1..0 |-> Junk]

Receive ==
  Read \/ ReadClosed \/ ReadFails \/ CopyFails \/ HeaderReturned \/ StackOverflows
    \/ PayloadReturned
SocketNext == SslWrite \/ SenderEnds \/ Receive

SocketSpec == SocketInit /\ [][SocketNext]_socketVars

\* The sender goes on writing unless it ends, and the receiver goes on reading.
SocketFairSpec == SocketSpec /\ WF_socketVars(SslWrite) /\ WF_socketVars(Receive)
-----------------------------------------------------------------------------
Byte == Nat \cup {Junk}

\* Type invariant.  buf_len is a size_t.
SocketTypeOK ==
  /\ payload_size \in PayloadSizes
  /\ stack_limit \in StackLimits
  /\ sent \in 0..Written
  /\ ended \in BOOLEAN
  /\ consumed \in 0..sent
  /\ phase \in {"header", "payload"} \cup Over
  /\ buffer_max_size \in {HeaderSize} \cup {BufferSize(n) : n \in PayloadSizes}
  /\ \A i \in 1..buffer_max_size : buf[i] \in Byte
  /\ buf_len \in 0..SizeMod - 1
  /\ need_more_reads \in BOOLEAN

\* A message that fits one record arrives as it was sent: what qkd_servlet and
\* client_perform_request unpack is exactly the payload.  One that does not fit
\* never does, whatever the sizes: a second read starts again at the front of buf
\* (ssl_socket.c:42) and a payload of RecordMax bytes is read only once
\* (ssl_socket.c:51).
IntactIffOneRecord ==
  phase = "done" /\ payload_size > 0 => (msg = Payload <=> MessageSize <= RecordMax)

\* The header is read whole, so the size asked for next is that of the payload.
HeaderIntact ==
  phase = "payload" => /\ msg = Header
                       /\ buffer_max_size = BufferSize(payload_size)

\* The size that is returned is that of the payload, except that the largest
\* record is read only once; a message without payload returns nothing.
SizeReturned ==
  phase = "done" => buf_len = IF payload_size = RecordMax
                              THEN RecordMax - HeaderSize ELSE payload_size

\* An int holds the size of the message.
SizeFitsInt == MessageSize < WordMod \div 2

\* socket_ssl_recv ends the process only if the sender went away before all of
\* the message was written, or if the message has no payload to wait for; or,
\* with the sender alive, if the payload is larger than the stack.
EndsForCause ==
  phase \in {"exited", "crashed"} =>
    \/ ended /\ (sent < MessageSize \/ payload_size = 0)
    \/ SizeFitsInt /\ BufferSize(payload_size) > stack_limit

\* A size that SSL_read would be given as a negative number (ssl_socket.c:42) is
\* never asked for: the sender's cast (ssl_socket.c:75) has dropped such a message,
\* header and all, and what is left of one beyond 2^32 is less than a header.
ReadSizeKept == Reading => ReadSize = buffer_max_size - buf_len

\* The receiver is never stuck in its loop: with a payload to wait for and a size
\* that an int holds, the call returns or ends the process, even when failed reads
\* count buf_len down.
RecvEnds == payload_size > 0 /\ SizeFitsInt ~> phase \in Over

\* SSL_read waits, and nobody will write anything more.
WaitsInVain == Reading /\ consumed = sent /\ sent = Written /\ ~ended

\* The receiver never waits for bytes that nobody will write (ssl_socket.c:42), but
\* for a message without payload, for which it asks once more (ssl_socket.c:28), and
\* one whose size an int does not hold, of which the header does not come.
NeverWaitsInVain == WaitsInVain => payload_size = 0 \/ ~SizeFitsInt

\* The records, bytes and calls that are still to come, and the reads that may
\* still fail before buf_len wraps around.
Remaining ==
  2 * (MessageSize - consumed) + (MessageSize - sent) + (IF ended THEN 0 ELSE 1)
    + 2 * (CASE phase = "header" -> 2 [] phase = "payload" -> 1 [] OTHER -> 0)
    + (IF buf_len < buffer_max_size THEN buf_len + 1 ELSE 0)

\* The loop of socket_ssl_recv cannot go on for ever (ssl_socket.c:35): every step of
\* sender or receiver, and a failed read too, leaves less to do than before.
RemainingFalls == [][Remaining' \in Nat /\ Remaining' < Remaining]_socketVars

\* ssl_socket.c:41: "SSL socket has only partially read the packet, trying to
\* read the remaining part."
RemainingPartIsRead == phase = "done" /\ payload_size > 0 => msg = Payload
=============================================================================
