--------------------------- MODULE SslSocketProofs ---------------------------
(***************************************************************************)
(* Proofs about one message on a TLS connection, for every record size,    *)
(* header size and payload size.                                           *)
(***************************************************************************)
EXTENDS SslSocket, TLAPS

\* Division with remainder.
LEMMA Division ==
  ASSUME NEW d \in Nat, d > 0, NEW n \in Nat
  PROVE  /\ n \div d \in Nat
         /\ (n \div d) * d <= n
         /\ n < (n \div d) * d + d
         /\ (n \div d + 1) * d \in Nat
         /\ (n \div d + 1) * d = (n \div d) * d + d
         /\ n < d => n \div d = 0
  BY SMT

\* The next multiple above a number is at most any multiple above it.
LEMMA NextMultiple ==
  ASSUME NEW d \in Nat, d > 0, NEW n \in Nat, NEW k \in Nat, n < k * d
  PROVE  (n \div d + 1) * d <= k * d
<1> DEFINE q == n \div d
<1>1. q \in Nat /\ q * d <= n
  BY Division
<1> HIDE DEF q
<1>2. q * d < k * d
  BY <1>1
<1>3. q < k
  BY <1>1, <1>2
<1>4. PICK r \in Nat : k = q + 1 + r
  <2>1. k - q - 1 \in Nat /\ k = q + 1 + (k - q - 1)
    BY <1>1, <1>3
  <2> QED
    BY <2>1
<1>5. k * d = (q + 1) * d + r * d /\ r * d >= 0
  BY <1>1, <1>4
<1> QED
  BY <1>1, <1>5 DEF q

\* Counting down a size_t: it wraps around at zero.
LEMMA CountDown ==
  ASSUME NEW m \in Nat, m > 0, NEW n \in 0..m - 1
  PROVE  (n - 1) % m = IF n = 0 THEN m - 1 ELSE n - 1
  BY SMT

\* The cast of a size below 2^32, and of one not much beyond.
LEMMA Cast ==
  ASSUME NEW n \in Nat, NEW m \in Nat, n < m + m
  PROVE  n % m = IF n < m THEN n ELSE n - m
<1>1. CASE n < m
  <2>1. n \div m = 0 /\ n = m * (n \div m) + (n % m)
    BY <1>1
  <2> QED
    BY <1>1, <2>1
<1>2. CASE n >= m
  <2>1. m > 0 /\ n - m \in 0..m - 1 /\ n = (n - m) + m
    BY <1>2
  <2> QED
    BY <1>2, <2>1, SMT
<1> QED
  BY <1>1, <1>2

-----------------------------------------------------------------------------
(* The inductive invariant. *)

\* What SSL_write has sent is whole records, the first of which holds the header.
WholeRecords ==
  /\ sent = Written \/ \E k \in Nat : sent = k * RecordMax
  /\ sent > 0 => sent >= Least(Written, RecordMax)

\* The header is read at once, or only begins because the size of the message was cut,
\* or is given up because the sender has gone.
HeaderPhase ==
  phase = "header" =>
    /\ buffer_max_size = HeaderSize
    /\ \/ buf_len = 0 /\ consumed = 0
       \/ buf_len = HeaderSize /\ consumed = HeaderSize /\ buf = Header
       \/ ~SizeFitsInt /\ buf_len <= consumed
       \/ buf_len = SizeMod - 1 /\ consumed = sent /\ ended /\ sent < MessageSize

\* What the payload buffer holds: the payload so far while it comes from the first
\* record, and something else at its front once a second record was read.
Buffered ==
  /\ consumed \in HeaderSize..MessageSize
  /\ consumed = HeaderSize \/ consumed >= Least(MessageSize, RecordMax)
  /\ consumed <= RecordMax => \A i \in 1..consumed - HeaderSize : buf[i] = HeaderSize + i
  /\ consumed > RecordMax => buf[1] \in Nat /\ buf[1] > RecordMax

\* No read has failed: buf_len counts what was read.
Counting ==
  /\ buf_len = consumed - HeaderSize
  /\ need_more_reads <=> consumed > HeaderSize
  /\ buffer_max_size = RecordMax /\ need_more_reads => consumed = RecordMax

\* A read has failed: there is nothing more to read, and the loop goes on counting
\* down until the process ends.
CountingDown ==
  /\ ended
  /\ consumed = sent
  /\ sent < MessageSize \/ payload_size = 0
  /\ \/ buf_len = SizeMod - 1
     \/ buffer_max_size # RecordMax /\ buf_len < consumed - HeaderSize

PayloadPhase ==
  phase = "payload" =>
    /\ SizeFitsInt
    /\ buffer_max_size = BufferSize(payload_size)
    /\ msg = Header
    /\ Buffered
    /\ Counting \/ CountingDown

DonePhase ==
  phase = "done" =>
    /\ payload_size > 0
    /\ Buffered
    /\ msg = Returned
    /\ buf_len = consumed - HeaderSize
    /\ buf_len = IF payload_size = RecordMax THEN RecordMax - HeaderSize ELSE payload_size

SocketInv ==
  /\ SocketTypeOK
  /\ buf \in [1..buffer_max_size -> Byte]
  /\ WholeRecords
  /\ HeaderPhase
  /\ PayloadPhase
  /\ DonePhase
  /\ EndsForCause

\* The sizes in play, with room for the one that a failed read subtracts.
LEMMA Sizes ==
  ASSUME SocketTypeOK
  PROVE  /\ RecordMax \in Nat /\ RecordMax > 1 /\ HeaderSize \in Nat /\ HeaderSize > 0
         /\ HeaderSize < RecordMax
         /\ payload_size \in Nat
         /\ payload_size + 1 < SizeMod /\ RecordMax + 1 < SizeMod
         /\ SizeMod \in Nat
         /\ MessageSize \in Nat /\ MessageSize = HeaderSize + payload_size
         /\ buffer_max_size \in Nat /\ buffer_max_size + 1 < SizeMod /\ buffer_max_size > 0
<1>1. WordMod \in Nat /\ WordMod \div 2 \in Nat /\ WordMod \div 2 <= WordMod
  BY SocketAssumption
<1>2. RecordMax \in Nat /\ RecordMax < WordMod \div 2 /\ SizeMod \in Nat /\ WordMod < SizeMod
      /\ HeaderSize \in 1..RecordMax - 1
  BY SocketAssumption
<1>3. \A n \in PayloadSizes : n \in Nat /\ n < WordMod
  BY <1>1, SocketAssumption
<1>4. payload_size \in PayloadSizes
      /\ buffer_max_size \in {HeaderSize} \cup {BufferSize(n) : n \in PayloadSizes}
  BY DEF SocketTypeOK
<1>5. \A n \in PayloadSizes : BufferSize(n) \in Nat /\ BufferSize(n) + 1 < SizeMod /\ BufferSize(n) > 0
  BY <1>1, <1>2, <1>3 DEF BufferSize
<1> QED
  BY <1>1, <1>2, <1>3, <1>4, <1>5 DEF MessageSize

\* What is written: the whole message, or less than a header.
LEMMA WrittenProperties ==
  ASSUME SocketTypeOK
  PROVE  /\ Written \in Nat /\ Written <= MessageSize
         /\ SizeFitsInt => Written = MessageSize
         /\ ~SizeFitsInt => Written < HeaderSize
<1> DEFINE half == WordMod \div 2
<1>1. WordMod \in Nat /\ half \in Nat /\ half <= WordMod /\ HeaderSize \in Nat /\ HeaderSize > 0
      /\ HeaderSize < half /\ payload_size \in 0..WordMod - 1
  BY SocketAssumption DEF SocketTypeOK
<1>2. MessageSize \in Nat /\ MessageSize = HeaderSize + payload_size
  BY Sizes
<1>3. MessageSize % WordMod = IF MessageSize < WordMod THEN MessageSize ELSE MessageSize - WordMod
  <2>1. MessageSize < WordMod + WordMod
    BY <1>1, <1>2
  <2> QED
    BY <1>1, <1>2, <2>1, Cast
<1>4. AsInt(MessageSize) = IF MessageSize % WordMod < half
                           THEN MessageSize % WordMod ELSE (MessageSize % WordMod) - WordMod
  BY DEF AsInt
<1>5. SizeFitsInt <=> MessageSize < half
  BY DEF SizeFitsInt
<1> HIDE DEF half
<1>6. CASE MessageSize < half
  BY <1>1, <1>2, <1>3, <1>4, <1>5, <1>6 DEF Written
<1>7. CASE half <= MessageSize /\ MessageSize < WordMod
  <2>1. AsInt(MessageSize) = MessageSize - WordMod
    BY <1>1, <1>2, <1>3, <1>4, <1>7
  <2> QED
    BY <1>1, <1>2, <1>5, <1>7, <2>1 DEF Written
<1>8. CASE WordMod <= MessageSize
  <2>1. AsInt(MessageSize) = MessageSize - WordMod /\ MessageSize - WordMod < HeaderSize
    BY <1>1, <1>2, <1>3, <1>4, <1>8
  <2> QED
    BY <1>1, <1>2, <1>5, <1>8, <2>1 DEF Written
<1> QED
  BY <1>1, <1>2, <1>6, <1>7, <1>8

\* The size that SSL_read is given is that of the rest of the buffer.
LEMMA ReadSizeIs ==
  ASSUME SocketInv, Reading
  PROVE  ReadSize = buffer_max_size - buf_len /\ ReadSize > 0
<1> DEFINE half == WordMod \div 2
           rest == buffer_max_size - buf_len
<1>1. WordMod \in Nat /\ half \in Nat /\ half <= WordMod
  BY SocketAssumption
<1>2. /\ SocketTypeOK /\ buf_len \in Nat /\ buf_len < buffer_max_size /\ buffer_max_size \in Nat
      /\ phase \in {"header", "payload"}
      /\ HeaderSize \in Nat /\ HeaderSize < RecordMax /\ RecordMax \in Nat /\ RecordMax < half
      /\ payload_size \in Nat /\ MessageSize = HeaderSize + payload_size
  BY Sizes, SocketAssumption DEF SocketInv, SocketTypeOK, Reading
<1>3. phase = "header" => buffer_max_size = HeaderSize
  BY DEF SocketInv, HeaderPhase
<1>4. phase = "payload" => MessageSize < half /\ buffer_max_size = BufferSize(payload_size)
  BY DEF SocketInv, PayloadPhase, SizeFitsInt
<1> HIDE DEF half
<1>5. buffer_max_size < half
  BY <1>1, <1>2, <1>3, <1>4 DEF BufferSize
<1>6. rest \in Nat /\ rest > 0 /\ rest < half /\ rest < WordMod
  BY <1>1, <1>2, <1>5
<1> HIDE DEF rest
<1>7. rest % WordMod = rest
  BY <1>1, <1>6, Cast
<1> QED
  BY <1>6, <1>7 DEF ReadSize, AsInt, rest, half

\* The end of a record lies beyond its bytes, within the message, and within what
\* was sent as soon as any of its bytes was.
LEMMA RecordEndProperties ==
  ASSUME SocketTypeOK, WholeRecords, NEW n \in Nat, n < Written
  PROVE  /\ RecordEnd(n) \in n + 1..Written
         /\ n < sent => RecordEnd(n) <= sent
         /\ n < RecordMax => RecordEnd(n) = Least(Written, RecordMax)
         /\ RecordEnd(n) = Written \/ \E k \in Nat : RecordEnd(n) = k * RecordMax
<1> DEFINE q == n \div RecordMax
<1>1. /\ RecordMax \in Nat /\ RecordMax > 0 /\ Written \in Nat
      /\ sent \in 0..Written
  BY Sizes, WrittenProperties DEF SocketTypeOK
<1>2. /\ q \in Nat /\ n < (q + 1) * RecordMax /\ (q + 1) * RecordMax \in Nat
      /\ n < RecordMax => q = 0
  BY <1>1, Division
<1>3. RecordEnd(n) = Least(Written, (q + 1) * RecordMax)
  BY DEF RecordEnd
<1>4. ASSUME NEW k \in Nat, n < k * RecordMax
      PROVE  (q + 1) * RecordMax <= k * RecordMax
  BY <1>1, <1>4, NextMultiple, Zenon
<1>5. \A k \in Nat : k * RecordMax \in Nat
  BY <1>1
<1> HIDE DEF q
<1>6. RecordEnd(n) \in n + 1..Written
  BY <1>1, <1>2, <1>3 DEF Least
<1>7. n < sent => RecordEnd(n) <= sent
  <2> SUFFICES ASSUME n < sent PROVE RecordEnd(n) <= sent
    OBVIOUS
  <2>1. CASE sent = Written
    BY <1>1, <1>6, <2>1
  <2>2. ASSUME NEW k \in Nat, sent = k * RecordMax PROVE RecordEnd(n) <= sent
    <3> DEFINE end == (q + 1) * RecordMax
    <3>1. end <= sent
      BY <1>4, <2>2
    <3>2. end \in Nat /\ RecordEnd(n) = Least(Written, end)
      BY <1>2, <1>3
    <3> HIDE DEF end
    <3> QED
      BY <1>1, <3>1, <3>2 DEF Least
  <2> QED
    BY <2>1, <2>2 DEF WholeRecords
<1>8. n < RecordMax => RecordEnd(n) = Least(Written, RecordMax)
  BY <1>1, <1>2, <1>3
<1>9. RecordEnd(n) = Written \/ \E k \in Nat : RecordEnd(n) = k * RecordMax
  BY <1>1, <1>2, <1>3 DEF Least
<1> QED
  BY <1>6, <1>7, <1>8, <1>9

\* SSL_write sends whole records and touches nothing of the receiver.
LEMMA SslWriteInv ==
  ASSUME SocketInv, SslWrite
  PROVE  SocketInv'
<1>1. /\ SocketTypeOK /\ WholeRecords
      /\ sent \in Nat /\ sent < Written /\ ~ended
      /\ sent' = RecordEnd(sent)
      /\ UNCHANGED <<payload_size, stack_limit, ended, consumed, phase, buffer_max_size, buf, buf_len,
                     need_more_reads, msg>>
  BY DEF SocketInv, SocketTypeOK, SslWrite, readerVars
<1>2. /\ sent' \in sent + 1..Written
      /\ sent < RecordMax => sent' = Least(Written, RecordMax)
      /\ sent' = Written \/ \E k \in Nat : sent' = k * RecordMax
  BY <1>1, RecordEndProperties
<1>3. MessageSize' = MessageSize /\ Written' = Written /\ SizeFitsInt' = SizeFitsInt
  BY <1>1 DEF MessageSize, Written, AsInt, SizeFitsInt
<1>4. WholeRecords'
  <2>1. sent' >= Least(Written, RecordMax)
    BY <1>1, <1>2, Sizes, WrittenProperties DEF WholeRecords, Least
  <2> QED
    BY <1>2, <1>3, <2>1 DEF WholeRecords
<1>5. SocketTypeOK'
  BY <1>1, <1>2, <1>3, Sizes, WrittenProperties DEF SocketTypeOK
<1>6. HeaderPhase' /\ EndsForCause'
  BY <1>1, <1>3 DEF SocketInv, HeaderPhase, EndsForCause, Header, BufferSize
<1>7. PayloadPhase'
  BY <1>1, <1>3 DEF SocketInv, PayloadPhase, Buffered, Counting, CountingDown, Header, BufferSize
<1>8. DonePhase'
  BY <1>1, <1>3 DEF SocketInv, DonePhase, Buffered, Returned
<1> QED
  BY <1>1, <1>4, <1>5, <1>6, <1>7, <1>8 DEF SocketInv

\* The end of the sender only allows reads to fail.
LEMMA SenderEndsInv ==
  ASSUME SocketInv, SenderEnds
  PROVE  SocketInv'
<1>1. /\ ~ended /\ ended'
      /\ UNCHANGED <<payload_size, stack_limit, sent, consumed, phase, buffer_max_size, buf, buf_len,
                     need_more_reads, msg>>
  BY DEF SenderEnds, readerVars
<1>2. MessageSize' = MessageSize /\ Written' = Written /\ SizeFitsInt' = SizeFitsInt
  BY <1>1 DEF MessageSize, Written, AsInt, SizeFitsInt
<1>3. SocketTypeOK' /\ WholeRecords' /\ HeaderPhase' /\ EndsForCause'
  BY <1>1, <1>2 DEF SocketInv, SocketTypeOK, WholeRecords, HeaderPhase, EndsForCause, Header, BufferSize
<1>4. PayloadPhase' /\ DonePhase'
  BY <1>1, <1>2 DEF SocketInv, PayloadPhase, DonePhase, Buffered, Counting, CountingDown,
                    Returned, Header, BufferSize
<1> QED
  BY <1>1, <1>3, <1>4 DEF SocketInv

\* A read that succeeds: the first one from the first record, any other from
\* where the next record begins.
LEMMA ReadInv ==
  ASSUME SocketInv, Read
  PROVE  SocketInv'
<1> DEFINE end == RecordEnd(consumed)
           len == Least(buffer_max_size - buf_len, end - consumed)
<1>0. Reading /\ ReadSize = buffer_max_size - buf_len
  BY ReadSizeIs DEF Read
<1>1. /\ SocketTypeOK /\ WholeRecords /\ Reading
      /\ consumed < sent /\ consumed \in 0..sent /\ sent \in 0..Written
      /\ buf_len < buffer_max_size /\ buf_len \in 0..SizeMod - 1
      /\ buf' = [i \in 1..buffer_max_size |-> IF i <= len THEN consumed + i ELSE buf[i]]
      /\ buf_len' = buf_len + len
      /\ consumed' = consumed + len
      /\ need_more_reads' = TRUE
      /\ UNCHANGED <<payload_size, stack_limit, sent, ended, phase, buffer_max_size, msg>>
  BY <1>0 DEF SocketInv, SocketTypeOK, Read, Reading
<1>2. /\ RecordMax \in Nat /\ RecordMax > 1 /\ HeaderSize \in Nat /\ HeaderSize > 0
      /\ HeaderSize < RecordMax
      /\ payload_size \in Nat
      /\ SizeMod \in Nat
      /\ MessageSize \in Nat /\ MessageSize = HeaderSize + payload_size
      /\ buffer_max_size \in Nat /\ buffer_max_size + 1 < SizeMod
      /\ Written \in Nat /\ Written <= MessageSize /\ (SizeFitsInt => Written = MessageSize)
  BY <1>1, Sizes, WrittenProperties
<1>3. consumed \in Nat /\ consumed < Written /\ consumed < MessageSize
  BY <1>1, <1>2
<1>4. /\ end \in consumed + 1..MessageSize
      /\ end <= sent
      /\ SizeFitsInt /\ consumed < RecordMax => end = Least(MessageSize, RecordMax)
  <2>1. /\ end \in consumed + 1..Written
        /\ end <= sent
        /\ consumed < RecordMax => end = Least(Written, RecordMax)
    BY <1>1, <1>3, RecordEndProperties
  <2> QED
    BY <1>2, <1>3, <2>1
<1> HIDE DEF end
<1>5. /\ len \in Nat /\ len > 0
      /\ len <= buffer_max_size - buf_len
      /\ len <= end - consumed
      /\ len = buffer_max_size - buf_len \/ len = end - consumed
  BY <1>1, <1>2, <1>3, <1>4 DEF Least
<1> HIDE DEF len
<1>6. MessageSize' = MessageSize /\ Written' = Written /\ SizeFitsInt' = SizeFitsInt
  BY <1>1 DEF MessageSize, Written, AsInt, SizeFitsInt
<1>7. buf' \in [1..buffer_max_size -> Byte]
  BY <1>1, <1>3, <1>5 DEF SocketInv, Byte
<1>8. SocketTypeOK'
  <2>1. consumed' \in 0..sent' /\ buf_len' \in 0..SizeMod - 1
    BY <1>1, <1>2, <1>3, <1>4, <1>5
  <2> QED
    BY <1>1, <1>6, <1>7, <2>1 DEF SocketTypeOK
<1>9. WholeRecords'
  BY <1>1, <1>6 DEF WholeRecords
<1>10. HeaderPhase'
  <2> SUFFICES ASSUME phase = "header" PROVE HeaderPhase'
    BY <1>1 DEF HeaderPhase
  <2>1. /\ buffer_max_size = HeaderSize
        /\ (buf_len = 0 /\ consumed = 0) \/ (~SizeFitsInt /\ buf_len <= consumed)
    BY <1>1, <1>2 DEF SocketInv, HeaderPhase
  <2>2. CASE SizeFitsInt
    <3>1. len = HeaderSize /\ buf_len = 0 /\ consumed = 0
      BY <1>2, <1>4, <1>5, <2>1, <2>2 DEF Least
    <3>2. buf' = Header
      BY <1>1, <1>2, <2>1, <3>1 DEF Header
    <3>3. Header' = Header
      BY DEF Header
    <3> QED
      BY <1>1, <1>2, <2>1, <3>1, <3>2, <3>3 DEF HeaderPhase
  <2>3. CASE ~SizeFitsInt
    <3>1. buf_len' <= consumed'
      BY <1>1, <1>2, <1>3, <1>5, <2>1
    <3> QED
      BY <1>1, <1>6, <2>1, <2>3, <3>1 DEF HeaderPhase
  <2> QED
    BY <2>2, <2>3
<1>11. PayloadPhase'
  <2> SUFFICES ASSUME phase = "payload" PROVE PayloadPhase'
    BY <1>1 DEF PayloadPhase
  <2>1. /\ SizeFitsInt
        /\ buffer_max_size = BufferSize(payload_size) /\ msg = Header /\ Buffered /\ Counting
    BY <1>1, <1>3 DEF SocketInv, PayloadPhase, CountingDown
  <2>2. /\ buf_len = consumed - HeaderSize
        /\ consumed \in HeaderSize..MessageSize
        /\ consumed = HeaderSize \/ consumed >= Least(MessageSize, RecordMax)
        /\ need_more_reads <=> consumed > HeaderSize
    BY <2>1 DEF Buffered, Counting
  <2>3. payload_size > 0 /\ buffer_max_size = payload_size
    BY <1>2, <1>3, <2>1, <2>2 DEF BufferSize
  <2>4. buffer_max_size = RecordMax => consumed = HeaderSize
    BY <1>1, <1>2, <2>2 DEF Reading
  <2>5. consumed' \in HeaderSize..MessageSize /\ consumed' > HeaderSize
    BY <1>1, <1>2, <1>3, <1>4, <1>5, <2>2
  <2>6. CASE consumed < RecordMax
    <3>1. consumed = HeaderSize
      BY <1>2, <1>3, <2>2, <2>6 DEF Least
    <3>2. len = Least(MessageSize, RecordMax) - HeaderSize
      BY <1>2, <1>4, <1>5, <2>1, <2>2, <2>3, <3>1 DEF Least
    <3>3. consumed' = Least(MessageSize, RecordMax) /\ consumed' <= RecordMax
      BY <1>1, <1>2, <3>1, <3>2 DEF Least
    <3>4. \A i \in 1..consumed' - HeaderSize : buf'[i] = HeaderSize + i
      BY <1>1, <1>2, <1>5, <2>2, <3>1, <3>2, <3>3
    <3>5. Buffered'
      BY <1>2, <1>6, <2>5, <3>3, <3>4 DEF Buffered
    <3>6. Counting'
      <4>1. buffer_max_size' = RecordMax => consumed' = RecordMax
        BY <1>1, <1>2, <2>3, <3>3 DEF Least
      <4>2. buf_len' = consumed' - HeaderSize
        BY <1>1, <1>2, <1>5, <2>2, <3>1
      <4> QED
        BY <1>1, <2>5, <4>1, <4>2 DEF Counting
    <3> QED
      BY <1>1, <1>6, <2>1, <3>5, <3>6 DEF PayloadPhase, Header, BufferSize
  <2>7. CASE consumed >= RecordMax
    <3>1. buf'[1] = consumed + 1 /\ consumed' > RecordMax
      BY <1>1, <1>2, <1>3, <1>5, <2>7
    <3>2. Buffered'
      <4>1. consumed' >= Least(MessageSize, RecordMax) /\ ~(consumed' <= RecordMax)
        BY <1>2, <2>5, <3>1 DEF Least
      <4>2. buf'[1] \in Nat /\ buf'[1] > RecordMax
        BY <1>2, <1>3, <2>7, <3>1
      <4> QED
        BY <1>6, <2>5, <4>1, <4>2 DEF Buffered
    <3>3. Counting'
      <4>1. buf_len' = consumed' - HeaderSize
        BY <1>1, <1>2, <1>3, <1>5, <2>2
      <4>2. buffer_max_size' # RecordMax
        BY <1>1, <1>2, <2>4, <2>7
      <4> QED
        BY <1>1, <2>5, <4>1, <4>2 DEF Counting
    <3> QED
      BY <1>1, <1>6, <2>1, <3>2, <3>3 DEF PayloadPhase, Header, BufferSize
  <2> QED
    BY <1>2, <1>3, <2>6, <2>7
<1>12. DonePhase' /\ EndsForCause'
  BY <1>1 DEF DonePhase, EndsForCause, Reading
<1> QED
  BY <1>1, <1>7, <1>8, <1>9, <1>10, <1>11, <1>12 DEF SocketInv

\* A read can fail only for want of bytes of the message, or when there is no
\* payload to wait for.
LEMMA CauseOfFailure ==
  ASSUME SocketInv, Reading, consumed = sent
  PROVE  sent < MessageSize \/ payload_size = 0
<1>1. /\ SocketTypeOK /\ buf_len < buffer_max_size
      /\ phase = "header" \/ phase = "payload"
  BY DEF SocketInv, Reading
<1>2. /\ HeaderSize \in Nat /\ HeaderSize > 0 /\ payload_size \in Nat
      /\ MessageSize = HeaderSize + payload_size
      /\ SizeMod \in Nat /\ buffer_max_size \in Nat /\ buffer_max_size + 1 < SizeMod
      /\ sent \in 0..Written /\ Written \in Nat /\ Written <= MessageSize
      /\ (~SizeFitsInt => Written < HeaderSize)
  BY <1>1, Sizes, WrittenProperties DEF SocketTypeOK
<1>3. CASE phase = "header"
  BY <1>1, <1>2, <1>3 DEF SocketInv, HeaderPhase
<1>4. CASE phase = "payload"
  <2>1. buffer_max_size = BufferSize(payload_size) /\ (Counting \/ CountingDown)
    BY <1>4 DEF SocketInv, PayloadPhase
  <2>2. CASE Counting
    BY <1>1, <1>2, <2>1, <2>2 DEF Counting, BufferSize
  <2>3. CASE CountingDown
    BY <2>3 DEF CountingDown
  <2> QED
    BY <2>1, <2>2, <2>3
<1> QED
  BY <1>1, <1>3, <1>4

\* SSL_read returns 0 and the process exits.
LEMMA ReadClosedInv ==
  ASSUME SocketInv, ReadClosed
  PROVE  SocketInv'
<1>1. /\ SocketTypeOK /\ Reading /\ consumed = sent /\ ended /\ phase' = "exited"
      /\ UNCHANGED <<payload_size, stack_limit, sent, ended, consumed, buffer_max_size, buf, buf_len,
                     need_more_reads, msg>>
  BY DEF SocketInv, ReadClosed
<1>2. sent < MessageSize \/ payload_size = 0
  BY <1>1, CauseOfFailure
<1>3. MessageSize' = MessageSize /\ Written' = Written /\ SizeFitsInt' = SizeFitsInt
  BY <1>1 DEF MessageSize, Written, AsInt, SizeFitsInt
<1>4. SocketTypeOK' /\ WholeRecords'
  BY <1>1, <1>3 DEF SocketInv, SocketTypeOK, WholeRecords, Over
<1>5. HeaderPhase' /\ PayloadPhase' /\ DonePhase'
  BY <1>1 DEF HeaderPhase, PayloadPhase, DonePhase
<1>6. EndsForCause'
  BY <1>1, <1>2, <1>3 DEF EndsForCause
<1> QED
  BY <1>1, <1>4, <1>5, <1>6 DEF SocketInv

\* SSL_read returns -1: the header is given up at once, the payload is counted
\* down.
LEMMA ReadFailsInv ==
  ASSUME SocketInv, ReadFails
  PROVE  SocketInv'
<1>0. Reading /\ consumed = sent /\ ended
  <2>1. Reading /\ (ReadSize < 0 \/ (consumed = sent /\ ended))
    BY DEF ReadFails
  <2>2. ReadSize > 0 /\ ReadSize \in Int
    <3>1. buf_len \in Nat /\ buffer_max_size \in Nat
      BY Sizes DEF SocketInv, SocketTypeOK
    <3> QED
      BY <2>1, <3>1, ReadSizeIs
  <2> QED
    BY <2>1, <2>2
<1>1. /\ SocketTypeOK /\ Reading /\ consumed = sent /\ ended
      /\ buf_len \in 0..SizeMod - 1 /\ buf_len < buffer_max_size
      /\ buf_len' = (buf_len - 1) % SizeMod
      /\ need_more_reads' = TRUE
      /\ UNCHANGED <<payload_size, stack_limit, sent, ended, consumed, phase, buffer_max_size, buf, msg>>
  BY <1>0 DEF SocketInv, SocketTypeOK, ReadFails, Reading
<1>2. /\ RecordMax \in Nat /\ HeaderSize \in Nat /\ HeaderSize > 0
      /\ HeaderSize < RecordMax
      /\ payload_size \in Nat
      /\ SizeMod \in Nat /\ SizeMod > 0
      /\ MessageSize \in Nat /\ MessageSize = HeaderSize + payload_size
      /\ buffer_max_size \in Nat /\ buffer_max_size + 1 < SizeMod
      /\ sent \in Nat
  BY <1>1, Sizes, WrittenProperties DEF SocketTypeOK
<1>3. buf_len' = IF buf_len = 0 THEN SizeMod - 1 ELSE buf_len - 1
  BY <1>1, <1>2, CountDown
<1>4. sent < MessageSize \/ payload_size = 0
  BY <1>1, CauseOfFailure
<1>5. MessageSize' = MessageSize /\ Written' = Written /\ SizeFitsInt' = SizeFitsInt
  BY <1>1 DEF MessageSize, Written, AsInt, SizeFitsInt
<1>6. SocketTypeOK'
  <2>1. buf_len' \in 0..SizeMod - 1
    BY <1>1, <1>2, <1>3
  <2> QED
    BY <1>1, <1>5, <2>1 DEF SocketTypeOK
<1>7. WholeRecords'
  BY <1>1, <1>5 DEF SocketInv, WholeRecords
<1>8. HeaderPhase'
  <2> SUFFICES ASSUME phase = "header" PROVE HeaderPhase'
    BY <1>1 DEF HeaderPhase
  <2>1. /\ buffer_max_size = HeaderSize
        /\ (buf_len = 0 /\ consumed = 0) \/ (~SizeFitsInt /\ buf_len <= consumed)
    BY <1>1, <1>2 DEF SocketInv, HeaderPhase
  <2>2. buf_len' = SizeMod - 1 \/ (~SizeFitsInt /\ buf_len' <= consumed)
    BY <1>1, <1>2, <1>3, <2>1
  <2>3. buf_len' = SizeMod - 1 => sent < MessageSize
    BY <1>1, <1>2, <1>4, <2>1, WrittenProperties DEF SocketTypeOK
  <2> QED
    BY <1>1, <1>5, <2>1, <2>2, <2>3 DEF HeaderPhase
<1>9. PayloadPhase'
  <2> SUFFICES ASSUME phase = "payload" PROVE PayloadPhase'
    BY <1>1 DEF PayloadPhase
  <2>1. /\ SizeFitsInt
        /\ buffer_max_size = BufferSize(payload_size) /\ msg = Header /\ Buffered
        /\ Counting \/ CountingDown
    BY DEF SocketInv, PayloadPhase
  <2>2. /\ buffer_max_size' = BufferSize(payload_size)' /\ msg' = Header' /\ Buffered'
    BY <1>1, <1>5, <2>1 DEF Buffered, Header, BufferSize
  <2>3. \/ buf_len' = SizeMod - 1
        \/ buffer_max_size # RecordMax /\ buf_len' < consumed - HeaderSize
    <3>1. consumed \in Nat
      BY <1>1, <1>2
    <3>2. CASE Counting
      BY <1>1, <1>2, <1>3, <3>1, <3>2 DEF Counting, Reading
    <3>3. CASE CountingDown
      BY <1>1, <1>2, <1>3, <3>1, <3>3 DEF CountingDown
    <3> QED
      BY <2>1, <3>2, <3>3
  <2>4. CountingDown'
    BY <1>1, <1>4, <1>5, <2>3 DEF CountingDown
  <2> QED
    BY <1>5, <2>1, <2>2, <2>4 DEF PayloadPhase
<1>10. DonePhase' /\ EndsForCause'
  BY <1>1 DEF DonePhase, EndsForCause, Reading
<1> QED
  BY <1>1, <1>6, <1>7, <1>8, <1>9, <1>10 DEF SocketInv

\* Where the loop ends: the bytes of the message were counted right, or a failed
\* read has taken the counter beyond the buffer.
LEMMA LoopEnds ==
  ASSUME SocketInv, ~Reading, phase \in {"header", "payload"}
  PROVE  \/ phase = "header" /\ buf_len = HeaderSize /\ consumed = HeaderSize /\ buf = Header
            /\ SizeFitsInt
         \/ phase = "payload" /\ Counting /\ payload_size > 0
            /\ buf_len = IF payload_size = RecordMax
                         THEN RecordMax - HeaderSize ELSE payload_size
         \/ /\ buf_len = SizeMod - 1 /\ buf_len > buffer_max_size
            /\ ended /\ (sent < MessageSize \/ payload_size = 0)
<1>1. /\ RecordMax \in Nat /\ HeaderSize \in Nat /\ HeaderSize > 0
      /\ HeaderSize < RecordMax
      /\ payload_size \in Nat
      /\ SizeMod \in Nat
      /\ MessageSize \in Nat /\ MessageSize = HeaderSize + payload_size
      /\ buffer_max_size \in Nat /\ buffer_max_size + 1 < SizeMod
      /\ buf_len \in Nat /\ consumed \in Nat /\ sent \in Nat
      /\ consumed <= Written /\ Written \in Nat /\ (~SizeFitsInt => Written < HeaderSize)
  BY Sizes, WrittenProperties DEF SocketInv, SocketTypeOK
<1>2. CASE phase = "header"
  BY <1>1, <1>2 DEF SocketInv, HeaderPhase, Reading
<1>3. CASE phase = "payload"
  <2>1. buffer_max_size = BufferSize(payload_size) /\ (Counting \/ CountingDown) /\ Buffered
    BY <1>3 DEF SocketInv, PayloadPhase
  <2>2. buf_len >= buffer_max_size \/ (need_more_reads /\ buffer_max_size = RecordMax)
    BY <1>1, <1>3 DEF Reading
  <2>3. CASE Counting
    <3>1. buf_len = consumed - HeaderSize /\ consumed <= HeaderSize + payload_size
      BY <1>1, <2>1, <2>3 DEF Buffered, Counting
    <3>2. payload_size > 0
      BY <1>1, <2>1, <2>2, <2>3, <3>1 DEF Counting, BufferSize
    <3>3. buf_len = IF payload_size = RecordMax THEN RecordMax - HeaderSize ELSE payload_size
      BY <1>1, <2>1, <2>2, <2>3, <3>1, <3>2 DEF Counting, BufferSize
    <3> QED
      BY <1>3, <2>3, <3>2, <3>3
  <2>4. CASE CountingDown
    <3>1. consumed <= HeaderSize + payload_size
      BY <1>1, <2>1 DEF Buffered
    <3>2. buf_len = SizeMod - 1
      <4> SUFFICES ASSUME buffer_max_size # RecordMax, buf_len < consumed - HeaderSize
                   PROVE  FALSE
        BY <2>4 DEF CountingDown
      <4>1. buffer_max_size = payload_size
        BY <2>1 DEF BufferSize
      <4> QED
        BY <1>1, <2>2, <3>1, <4>1
    <3> QED
      BY <1>1, <2>4, <3>2 DEF CountingDown
  <2> QED
    BY <2>1, <2>3, <2>4
<1> QED
  BY <1>2, <1>3

\* The copy of a wrapped length ends the process.
LEMMA CopyFailsInv ==
  ASSUME SocketInv, CopyFails
  PROVE  SocketInv'
<1>1. /\ SocketTypeOK /\ ~Reading /\ phase \in {"header", "payload"}
      /\ buf_len > buffer_max_size /\ phase' = "crashed"
      /\ UNCHANGED <<payload_size, stack_limit, sent, ended, consumed, buffer_max_size, buf, buf_len,
                     need_more_reads, msg>>
  BY DEF SocketInv, CopyFails
<1>2. ended /\ (sent < MessageSize \/ payload_size = 0)
  <2>1. /\ RecordMax \in Nat /\ HeaderSize \in Nat /\ HeaderSize < RecordMax
        /\ payload_size \in Nat /\ buffer_max_size \in Nat /\ HeaderSize > 0
    BY <1>1, Sizes
  <2>2. phase = "header" => buffer_max_size = HeaderSize
    BY DEF SocketInv, HeaderPhase
  <2>3. phase = "payload" => buffer_max_size = BufferSize(payload_size)
    BY DEF SocketInv, PayloadPhase
  <2> QED
    BY <1>1, <2>1, <2>2, <2>3, LoopEnds DEF BufferSize
<1>3. MessageSize' = MessageSize /\ Written' = Written /\ SizeFitsInt' = SizeFitsInt
  BY <1>1 DEF MessageSize, Written, AsInt, SizeFitsInt
<1>4. SocketTypeOK' /\ WholeRecords'
  BY <1>1, <1>3 DEF SocketInv, SocketTypeOK, WholeRecords, Over
<1>5. HeaderPhase' /\ PayloadPhase' /\ DonePhase'
  BY <1>1 DEF HeaderPhase, PayloadPhase, DonePhase
<1>6. EndsForCause'
  BY <1>1, <1>2, <1>3 DEF EndsForCause
<1> QED
  BY <1>1, <1>4, <1>5, <1>6 DEF SocketInv

\* The header was read whole, so the second call asks for the size it announces.
LEMMA HeaderReturnedInv ==
  ASSUME SocketInv, HeaderReturned
  PROVE  SocketInv'
<1>1. /\ SocketTypeOK /\ WholeRecords /\ ~Reading /\ phase = "header"
      /\ buf_len <= buffer_max_size
      /\ msg' = Returned
      /\ buf_len' = 0 /\ need_more_reads' = FALSE /\ phase' = "payload"
      /\ UNCHANGED <<payload_size, stack_limit, sent, ended, consumed>>
  BY DEF SocketInv, HeaderReturned
<1>2. /\ RecordMax \in Nat /\ RecordMax > 1 /\ HeaderSize \in Nat /\ HeaderSize > 0
      /\ HeaderSize < RecordMax
      /\ payload_size \in Nat /\ SizeMod \in Nat /\ RecordMax + 1 < SizeMod
      /\ MessageSize \in Nat /\ MessageSize = HeaderSize + payload_size
      /\ buffer_max_size \in Nat /\ buf_len \in Nat
  BY <1>1, Sizes DEF SocketTypeOK
<1>3. buf_len = HeaderSize /\ consumed = HeaderSize /\ buf = Header /\ SizeFitsInt
  BY <1>1, <1>2, Sizes, LoopEnds
<1>4. Returned = Header
  BY <1>3 DEF Returned, Header
<1>5. /\ buffer_max_size' = BufferSize(payload_size)
      /\ buf' = [i \in 1..BufferSize(payload_size) |-> Junk]
  BY <1>4 DEF HeaderReturned, AnnouncedSizes
<1>6. MessageSize' = MessageSize /\ Header' = Header /\ Written' = Written
      /\ SizeFitsInt' = SizeFitsInt /\ BufferSize(payload_size)' = BufferSize(payload_size)
  BY <1>1 DEF MessageSize, Header, BufferSize, Written, AsInt, SizeFitsInt
<1>7. buf' \in [1..buffer_max_size' -> Byte]
  BY <1>5 DEF Byte
<1>8. SocketTypeOK'
  <2>1. /\ payload_size' \in PayloadSizes /\ stack_limit' \in StackLimits /\ sent' \in 0..Written'
        /\ ended' \in BOOLEAN /\ consumed' \in 0..sent'
    BY <1>1, <1>6 DEF SocketTypeOK
  <2>2. buffer_max_size' \in {HeaderSize} \cup {BufferSize(n) : n \in PayloadSizes}
    BY <1>5, <1>1, <2>1
  <2>3. {BufferSize(n) : n \in PayloadSizes}' = {BufferSize(n) : n \in PayloadSizes}
    BY DEF BufferSize
  <2>4. buf_len' \in 0..SizeMod - 1
    BY <1>1, <1>2
  <2> QED
    BY <1>1, <1>7, <2>1, <2>2, <2>3, <2>4 DEF SocketTypeOK
<1>9. WholeRecords'
  BY <1>1, <1>6 DEF WholeRecords
<1>10. PayloadPhase'
  <2>1. Buffered'
    <3>1. consumed' = HeaderSize /\ 1..consumed' - HeaderSize = {} /\ ~(consumed' > RecordMax)
      BY <1>1, <1>2, <1>3
    <3>2. consumed' \in HeaderSize..MessageSize'
      BY <1>2, <1>6, <3>1
    <3> QED
      BY <3>1, <3>2 DEF Buffered
  <2>2. Counting'
    BY <1>1, <1>2, <1>3 DEF Counting
  <2> QED
    BY <1>1, <1>3, <1>4, <1>5, <1>6, <2>1, <2>2 DEF PayloadPhase
<1>11. HeaderPhase' /\ DonePhase' /\ EndsForCause'
  BY <1>1 DEF HeaderPhase, DonePhase, EndsForCause
<1> QED
  BY <1>7, <1>8, <1>9, <1>10, <1>11 DEF SocketInv

\* The header was read whole, so it is the payload it announces that the stack cannot
\* hold.
LEMMA StackOverflowsInv ==
  ASSUME SocketInv, StackOverflows
  PROVE  SocketInv'
<1>1. /\ SocketTypeOK /\ ~Reading /\ phase = "header"
      /\ buf_len <= buffer_max_size /\ phase' = "crashed"
      /\ UNCHANGED <<payload_size, stack_limit, sent, ended, consumed, buffer_max_size, buf, buf_len,
                     need_more_reads, msg>>
  BY DEF SocketInv, StackOverflows
<1>2. buffer_max_size \in Nat /\ buf_len \in Nat
  BY <1>1, Sizes DEF SocketTypeOK
<1>3. buf_len = HeaderSize /\ buf = Header /\ SizeFitsInt
  BY <1>1, <1>2, LoopEnds
<1>4. BufferSize(payload_size) > stack_limit
  <2>1. Returned = Header
    BY <1>3 DEF Returned, Header
  <2> QED
    BY <2>1 DEF StackOverflows, AnnouncedSizes
<1>5. /\ MessageSize' = MessageSize /\ Written' = Written /\ SizeFitsInt' = SizeFitsInt
      /\ BufferSize(payload_size)' = BufferSize(payload_size)
  BY <1>1 DEF MessageSize, Written, AsInt, SizeFitsInt, BufferSize
<1>6. SocketTypeOK' /\ WholeRecords'
  BY <1>1, <1>5 DEF SocketInv, SocketTypeOK, WholeRecords, Over
<1>7. HeaderPhase' /\ PayloadPhase' /\ DonePhase'
  BY <1>1 DEF HeaderPhase, PayloadPhase, DonePhase
<1>8. EndsForCause'
  BY <1>1, <1>3, <1>4, <1>5 DEF EndsForCause
<1> QED
  BY <1>1, <1>6, <1>7, <1>8 DEF SocketInv

\* The payload is returned after as many bytes as the loop waits for.
LEMMA PayloadReturnedInv ==
  ASSUME SocketInv, PayloadReturned
  PROVE  SocketInv'
<1>1. /\ SocketTypeOK /\ WholeRecords /\ ~Reading /\ phase = "payload"
      /\ buf_len <= buffer_max_size
      /\ msg' = Returned /\ phase' = "done"
      /\ UNCHANGED <<payload_size, stack_limit, sent, ended, consumed, buffer_max_size, buf, buf_len,
                     need_more_reads>>
  BY DEF SocketInv, PayloadReturned
<1>2. buffer_max_size \in Nat /\ buf_len \in Nat
  BY <1>1, Sizes DEF SocketTypeOK
<1>3. /\ Counting /\ payload_size > 0
      /\ buf_len = IF payload_size = RecordMax THEN RecordMax - HeaderSize ELSE payload_size
  BY <1>1, <1>2, LoopEnds
<1>4. MessageSize' = MessageSize /\ Returned' = Returned /\ Written' = Written
  BY <1>1 DEF MessageSize, Returned, Written, AsInt
<1>5. SocketTypeOK' /\ WholeRecords'
  BY <1>1, <1>4 DEF SocketTypeOK, WholeRecords, Over
<1>6. DonePhase'
  <2>1. Buffered'
    BY <1>1, <1>4 DEF SocketInv, PayloadPhase, Buffered
  <2> QED
    BY <1>1, <1>3, <1>4, <2>1 DEF DonePhase, Counting
<1>7. HeaderPhase' /\ PayloadPhase' /\ EndsForCause'
  BY <1>1 DEF HeaderPhase, PayloadPhase, EndsForCause
<1> QED
  BY <1>1, <1>5, <1>6, <1>7 DEF SocketInv

\* Initial states have the invariant.
LEMMA SocketInitInv == SocketInit => SocketInv
<1> SUFFICES ASSUME SocketInit PROVE SocketInv
  OBVIOUS
<1>1. buf \in [1..buffer_max_size -> Byte]
  BY DEF SocketInit, Byte
<1>2. /\ SizeMod \in Nat /\ SizeMod > 0 /\ RecordMax \in Nat
      /\ payload_size \in Nat /\ HeaderSize \in Nat /\ WordMod \in Nat
  BY SocketAssumption DEF SocketInit
<1>3. SocketTypeOK
  <2>0. Written \in Nat
    <3>1. WordMod > 0 /\ MessageSize \in Nat
      BY <1>2, SocketAssumption DEF MessageSize, SocketInit
    <3>2. MessageSize % WordMod \in Int
      BY <1>2, <3>1
    <3> QED
      BY <1>2, <3>2 DEF Written, AsInt
  <2>1. sent \in 0..Written /\ consumed \in 0..sent /\ buf_len \in 0..SizeMod - 1
    BY <1>2, <2>0 DEF SocketInit
  <2>2. \A i \in 1..buffer_max_size : buf[i] \in Byte
    BY <1>1
  <2> QED
    BY <2>1, <2>2 DEF SocketInit, SocketTypeOK
<1>4. WholeRecords
  <2>1. sent = 0 * RecordMax /\ ~(sent > 0)
    BY <1>2 DEF SocketInit
  <2> QED
    BY <2>1 DEF WholeRecords
<1>5. HeaderPhase /\ PayloadPhase /\ DonePhase /\ EndsForCause
  BY DEF SocketInit, HeaderPhase, PayloadPhase, DonePhase, EndsForCause
<1> QED
  BY <1>1, <1>3, <1>4, <1>5 DEF SocketInv

-----------------------------------------------------------------------------
(* The theorems. *)

\* The conjunction of the type invariant, EndsForCause and what each phase knows of
\* the buffer holds in every state.
THEOREM SocketInvariant == SocketSpec => []SocketInv
<1>1. ASSUME SocketInv, [SocketNext]_socketVars PROVE SocketInv'
  <2>1. CASE SslWrite
    BY <1>1, <2>1, SslWriteInv
  <2>2. CASE SenderEnds
    BY <1>1, <2>2, SenderEndsInv
  <2>3. CASE Read
    BY <1>1, <2>3, ReadInv
  <2>4. CASE ReadClosed
    BY <1>1, <2>4, ReadClosedInv
  <2>5. CASE ReadFails
    BY <1>1, <2>5, ReadFailsInv
  <2>6. CASE CopyFails
    BY <1>1, <2>6, CopyFailsInv
  <2>7. CASE HeaderReturned
    BY <1>1, <2>7, HeaderReturnedInv
  <2>8. CASE PayloadReturned
    BY <1>1, <2>8, PayloadReturnedInv
  <2>9. CASE StackOverflows
    BY <1>1, <2>9, StackOverflowsInv
  <2>10. CASE UNCHANGED socketVars
    <3>1. UNCHANGED <<payload_size, stack_limit, sent, ended, consumed, phase, buffer_max_size, buf, buf_len,
                      need_more_reads, msg>>
      BY <2>10 DEF socketVars, readerVars
    <3>2. /\ SocketTypeOK' = SocketTypeOK /\ WholeRecords' = WholeRecords
          /\ EndsForCause' = EndsForCause /\ HeaderPhase' = HeaderPhase
      BY <3>1 DEF SocketTypeOK, WholeRecords, EndsForCause, HeaderPhase, MessageSize, Header, Written,
                  AsInt, SizeFitsInt, BufferSize
    <3>3. PayloadPhase' = PayloadPhase /\ DonePhase' = DonePhase
      BY <3>1 DEF SizeFitsInt, PayloadPhase, DonePhase, Buffered, Counting, CountingDown, MessageSize,
                  Header, Returned, BufferSize
    <3> QED
      BY <1>1, <3>1, <3>2, <3>3 DEF SocketInv
  <2> QED
    BY <1>1, <2>1, <2>2, <2>3, <2>4, <2>5, <2>6, <2>7, <2>8, <2>9, <2>10
    DEF SocketNext, Receive
<1> QED
  BY <1>1, SocketInitInv, PTL DEF SocketSpec

\* Type correctness; in particular buf_len stays a size_t when failed reads count it
\* down (ssl_socket.c:49).
THEOREM SocketTypeCorrect == SocketSpec => []SocketTypeOK
<1>1. SocketInv => SocketTypeOK
  BY DEF SocketInv
<1> QED
  BY <1>1, SocketInvariant, PTL

\* The header is read whole, for every header smaller than a record.
THEOREM SocketHeaderIntact == SocketSpec => []HeaderIntact
<1>1. SocketInv => HeaderIntact
  BY DEF SocketInv, PayloadPhase, HeaderIntact
<1> QED
  BY <1>1, SocketInvariant, PTL

\* socket_ssl_recv returns the size announced, or what the first record holds of a
\* payload of the largest size.
THEOREM SocketSizeReturned == SocketSpec => []SizeReturned
<1>1. SocketInv => SizeReturned
  BY DEF SocketInv, DonePhase, SizeReturned
<1> QED
  BY <1>1, SocketInvariant, PTL

\* A process ends in socket_ssl_recv only if its peer went away too early or sent a
\* message without payload, or if the payload is larger than its stack, for every size
\* that a uint32_t holds.
THEOREM SocketEndsForCause == SocketSpec => []EndsForCause
<1>1. SocketInv => EndsForCause
  BY DEF SocketInv
<1> QED
  BY <1>1, SocketInvariant, PTL

\* A returned payload is the one that was sent exactly if the message fits one
\* record, for all record, header and payload sizes.
THEOREM SocketIntactIffOneRecord == SocketSpec => []IntactIffOneRecord
<1>1. SocketInv => IntactIffOneRecord
  <2> SUFFICES ASSUME SocketInv, phase = "done"
               PROVE  msg = Payload <=> MessageSize <= RecordMax
    BY DEF IntactIffOneRecord
  <2>1. /\ RecordMax \in Nat /\ HeaderSize \in Nat /\ HeaderSize > 0 /\ HeaderSize < RecordMax
        /\ payload_size \in Nat /\ MessageSize = HeaderSize + payload_size
        /\ consumed \in Nat
    BY Sizes DEF SocketInv, SocketTypeOK
  <2>2. /\ Buffered /\ msg = Returned /\ payload_size > 0
        /\ buf_len = consumed - HeaderSize
        /\ buf_len = IF payload_size = RecordMax THEN RecordMax - HeaderSize ELSE payload_size
    BY DEF SocketInv, DonePhase
  <2>3. CASE MessageSize <= RecordMax
    <3>1. buf_len = payload_size /\ consumed = MessageSize
      BY <2>1, <2>2, <2>3
    <3>2. \A i \in 1..payload_size : buf[i] = HeaderSize + i
      BY <2>1, <2>2, <2>3, <3>1 DEF Buffered
    <3> QED
      BY <2>2, <2>3, <3>1, <3>2 DEF Returned, Payload
  <2>4. CASE MessageSize > RecordMax
    <3> SUFFICES ASSUME msg = Payload PROVE FALSE
      BY <2>1, <2>4
    <3>1. DOMAIN msg = 1..buf_len /\ DOMAIN msg = 1..payload_size
      BY <2>2 DEF Returned, Payload
    <3>2. CASE payload_size = RecordMax
      <4>1. RecordMax \in 1..payload_size /\ RecordMax \notin 1..buf_len
        BY <2>1, <2>2, <3>2
      <4> QED
        BY <3>1, <4>1
    <3>3. CASE payload_size # RecordMax
      <4>1. buf_len = payload_size /\ consumed = MessageSize /\ 1 \in 1..payload_size
        BY <2>1, <2>2, <3>3
      <4>2. buf[1] \in Nat /\ buf[1] > RecordMax
        BY <2>1, <2>2, <2>4, <4>1 DEF Buffered
      <4>3. msg[1] = buf[1] /\ msg[1] = HeaderSize + 1
        BY <2>2, <4>1 DEF Returned, Payload
      <4> QED
        BY <2>1, <4>2, <4>3
    <3> QED
      BY <3>2, <3>3
  <2> QED
    BY <2>1, <2>3, <2>4
<1> QED
  BY <1>1, SocketInvariant, PTL

\* No cast changes the size that SSL_read is given, for every size that a uint32_t
\* holds: the sender has dropped what would not fit (ssl_socket.c:42, :75).
THEOREM SocketReadSizeKept == SocketSpec => []ReadSizeKept
<1>1. SocketInv => ReadSizeKept
  BY ReadSizeIs DEF ReadSizeKept
<1> QED
  BY <1>1, SocketInvariant, PTL

\* The receiver waits only for bytes that are to come or for the end of the sender, for
\* every record size and every message with a payload whose size an int holds
\* (ssl_socket.c:42).
THEOREM SocketNeverWaitsInVain == SocketSpec => []NeverWaitsInVain
<1>1. SocketInv => NeverWaitsInVain
  <2> SUFFICES ASSUME SocketInv, Reading, consumed = sent, sent = Written, payload_size # 0,
                      SizeFitsInt
               PROVE  FALSE
    BY DEF NeverWaitsInVain, WaitsInVain
  <2>1. Written = MessageSize /\ MessageSize \in Nat
    BY Sizes, WrittenProperties DEF SocketInv
  <2> QED
    BY <2>1, CauseOfFailure
<1> QED
  BY <1>1, SocketInvariant, PTL

\* The summands of Remaining: what is left of the message, whether the sender is there,
\* the calls to come, and the failures to come.
Sender == IF ended THEN 0 ELSE 1
Calls == CASE phase = "header" -> 2 [] phase = "payload" -> 1 [] OTHER -> 0
Failures == IF buf_len < buffer_max_size THEN buf_len + 1 ELSE 0

RemainingCounts ==
  /\ MessageSize \in Nat /\ sent \in 0..MessageSize /\ consumed \in 0..MessageSize
  /\ Sender \in 0..1 /\ Calls \in 0..2 /\ Failures \in Nat /\ Remaining \in Nat
  /\ Remaining = 2 * (MessageSize - consumed) + (MessageSize - sent)
                   + Sender + 2 * Calls + Failures

\* The summands are numbers.
LEMMA RemainingType ==
  ASSUME SocketTypeOK
  PROVE  RemainingCounts
<1>1. MessageSize \in Nat /\ buffer_max_size \in Nat /\ Written \in Nat /\ Written <= MessageSize
  BY Sizes, WrittenProperties
<1>2. sent \in 0..MessageSize /\ consumed \in 0..sent /\ buf_len \in Nat
  BY <1>1 DEF SocketTypeOK
<1>3. MessageSize - consumed \in Nat /\ MessageSize - sent \in Nat /\ consumed \in 0..MessageSize
  BY <1>1, <1>2
<1>4. Sender \in 0..1 /\ Calls \in 0..2
  BY DEF Sender, Calls
<1>5. Failures \in Nat
  BY <1>1, <1>2 DEF Failures
<1>6. Remaining = 2 * (MessageSize - consumed) + (MessageSize - sent)
                    + Sender + 2 * Calls + Failures
  BY DEF Remaining, Sender, Calls, Failures
<1>7. Remaining \in Nat
  BY <1>3, <1>4, <1>5, <1>6
<1> QED
  BY <1>1, <1>2, <1>3, <1>4, <1>5, <1>6, <1>7 DEF RemainingCounts

\* Every step of the loop leaves less to do, a failed read included: it takes one off
\* buf_len, or takes buf_len beyond the buffer.
LEMMA StepTakesOff ==
  ASSUME SocketInv, RemainingCounts, RemainingCounts', SocketNext
  PROVE  Remaining' < Remaining
<1>1. SocketTypeOK
  BY DEF SocketInv
<1>2. /\ MessageSize \in Nat /\ sent \in 0..MessageSize /\ consumed \in 0..MessageSize
      /\ Sender \in 0..1 /\ Calls \in 0..2 /\ Failures \in Nat
      /\ Remaining = 2 * (MessageSize - consumed) + (MessageSize - sent)
                       + Sender + 2 * Calls + Failures
  BY DEF RemainingCounts
<1>3. /\ sent' \in 0..MessageSize' /\ consumed' \in 0..MessageSize'
      /\ Sender' \in 0..1 /\ Calls' \in 0..2 /\ Failures' \in Nat
      /\ Remaining' = 2 * (MessageSize' - consumed') + (MessageSize' - sent')
                        + Sender' + 2 * Calls' + Failures'
  BY DEF RemainingCounts
<1>4. MessageSize' = MessageSize
  BY DEF SocketNext, Receive, SslWrite, SenderEnds, Read, ReadClosed, ReadFails, CopyFails,
         HeaderReturned, StackOverflows, PayloadReturned, MessageSize
<1>5. /\ buffer_max_size \in Nat /\ buffer_max_size > 0 /\ buffer_max_size + 1 < SizeMod
      /\ SizeMod \in Nat /\ buf_len \in 0..SizeMod - 1 /\ RecordMax \in Nat
      /\ HeaderSize \in Nat /\ HeaderSize < RecordMax
      /\ Written \in Nat /\ Written <= MessageSize /\ sent \in 0..Written
  BY <1>1, Sizes, WrittenProperties DEF SocketTypeOK
<1>6. CASE SslWrite
  <2>1. /\ sent < Written /\ sent' = RecordEnd(sent)
        /\ consumed' = consumed /\ Sender' = Sender /\ Calls' = Calls /\ Failures' = Failures
    BY <1>6 DEF SslWrite, readerVars, Sender, Calls, Failures
  <2>2. sent' \in sent + 1..Written
    BY <1>1, <1>2, <2>1, RecordEndProperties DEF SocketInv
  <2> QED
    BY <1>2, <1>3, <1>4, <1>5, <2>1, <2>2
<1>7. CASE SenderEnds
  <2>1. /\ Sender = 1 /\ Sender' = 0 /\ sent' = sent /\ consumed' = consumed
        /\ Calls' = Calls /\ Failures' = Failures
    BY <1>7 DEF SenderEnds, readerVars, Sender, Calls, Failures
  <2> QED
    BY <1>2, <1>3, <1>4, <2>1
<1>8. CASE Read
  <2> DEFINE len == Least(buffer_max_size - buf_len, RecordEnd(consumed) - consumed)
  <2>1. /\ Reading /\ consumed < sent /\ buf_len' = buf_len + len /\ consumed' = consumed + len
        /\ sent' = sent /\ Sender' = Sender /\ Calls' = Calls /\ buffer_max_size' = buffer_max_size
    <3>1. Reading /\ ReadSize = buffer_max_size - buf_len
      BY <1>8, ReadSizeIs DEF Read
    <3> QED
      BY <1>8, <3>1 DEF Read, Sender, Calls
  <2>2. buf_len < buffer_max_size /\ consumed \in Nat /\ consumed < Written
    BY <1>2, <1>5, <2>1 DEF Reading
  <2>3. RecordEnd(consumed) \in Nat /\ consumed < RecordEnd(consumed)
    <3>1. RecordEnd(consumed) \in consumed + 1..Written
      BY <1>1, <2>2, RecordEndProperties DEF SocketInv
    <3> QED
      BY <1>5, <2>2, <3>1
  <2>4. len \in Nat /\ len > 0
    BY <1>5, <2>2, <2>3 DEF Least
  <2> HIDE DEF len
  <2>5. Failures = buf_len + 1 /\ Failures' <= buf_len + len + 1
    BY <1>5, <2>1, <2>2, <2>4 DEF Failures
  <2>6. \A m, c, n, e, k, f, g, b, l \in Int : l > 0 /\ f = b + 1 /\ g <= b + l + 1 =>
          2 * (m - (c + l)) + (m - n) + e + 2 * k + g < 2 * (m - c) + (m - n) + e + 2 * k + f
    OBVIOUS
  <2>7. /\ Remaining = 2 * (MessageSize - consumed) + (MessageSize - sent) + Sender + 2 * Calls + Failures
        /\ Remaining' = 2 * (MessageSize - (consumed + len)) + (MessageSize - sent) + Sender
                          + 2 * Calls + Failures'
    BY <1>2, <1>3, <1>4, <2>1
  <2>8. /\ MessageSize \in Int /\ consumed \in Int /\ sent \in Int /\ Sender \in Int
        /\ Calls \in Int /\ Failures \in Int /\ Failures' \in Int /\ buf_len \in Int /\ len \in Int
    BY <1>2, <1>3, <1>5, <2>4
  <2> QED
    BY <2>4, <2>5, <2>6, <2>7, <2>8
<1>9. CASE ReadFails
  <2>1. /\ buf_len < buffer_max_size /\ buf_len' = (buf_len - 1) % SizeMod
        /\ sent' = sent /\ Sender' = Sender /\ consumed' = consumed
        /\ Calls' = Calls /\ buffer_max_size' = buffer_max_size
    BY <1>9 DEF ReadFails, Reading, Sender, Calls
  <2>2. buf_len' = IF buf_len = 0 THEN SizeMod - 1 ELSE buf_len - 1
    BY <1>5, <2>1, CountDown
  <2>3. Failures = buf_len + 1 /\ Failures' = buf_len
    BY <1>5, <2>1, <2>2 DEF Failures
  <2> QED
    BY <1>2, <1>3, <1>4, <1>5, <2>1, <2>3
<1>10. CASE ReadClosed \/ CopyFails \/ StackOverflows \/ PayloadReturned
  <2>1. /\ phase \in {"header", "payload"} /\ phase' \in Over
        /\ sent' = sent /\ Sender' = Sender /\ consumed' = consumed /\ Failures' = Failures
    BY <1>10 DEF ReadClosed, CopyFails, StackOverflows, PayloadReturned, Reading, Over, Sender, Failures
  <2>2. Calls' = 0 /\ Calls >= 1
    BY <2>1 DEF Calls, Over
  <2> QED
    BY <1>2, <1>3, <1>4, <2>1, <2>2
<1>11. CASE HeaderReturned
  <2>1. /\ phase = "header" /\ phase' = "payload" /\ buf_len' = 0
        /\ sent' = sent /\ Sender' = Sender /\ consumed' = consumed
    BY <1>11 DEF HeaderReturned, Sender
  <2>2. Calls = 2 /\ Calls' = 1 /\ Failures' <= 1
    BY <2>1 DEF Calls, Failures
  <2>3. \A m, c, n, e, f, g \in Int : f >= 0 /\ g <= 1 =>
          2 * (m - c) + (m - n) + e + 2 * 1 + g < 2 * (m - c) + (m - n) + e + 2 * 2 + f
    OBVIOUS
  <2>4. /\ Remaining = 2 * (MessageSize - consumed) + (MessageSize - sent) + Sender + 2 * 2 + Failures
        /\ Remaining' = 2 * (MessageSize - consumed) + (MessageSize - sent) + Sender + 2 * 1 + Failures'
    BY <1>2, <1>3, <1>4, <2>1, <2>2
  <2>5. /\ MessageSize \in Int /\ consumed \in Int /\ sent \in Int /\ Sender \in Int
        /\ Failures \in Int /\ Failures >= 0 /\ Failures' \in Int
    BY <1>2, <1>3
  <2> QED
    BY <2>2, <2>3, <2>4, <2>5
<1> QED
  BY <1>6, <1>7, <1>8, <1>9, <1>10, <1>11 DEF SocketNext, Receive

\* socket_ssl_recv and the sender together make only finitely many steps, for every record
\* size and payload: each leaves a smaller number (ssl_socket.c:35).
THEOREM SocketRemainingFalls == SocketSpec => RemainingFalls
<1>1. SocketInv => RemainingCounts
  BY RemainingType DEF SocketInv
<1>2. SocketInv /\ RemainingCounts /\ RemainingCounts' /\ [SocketNext]_socketVars
        => [Remaining' \in Nat /\ Remaining' < Remaining]_socketVars
  <2> SUFFICES ASSUME SocketInv, RemainingCounts, RemainingCounts', SocketNext
               PROVE  Remaining' \in Nat /\ Remaining' < Remaining
    OBVIOUS
  <2>1. Remaining' \in Nat
    BY DEF RemainingCounts
  <2> QED
    BY <2>1, StepTakesOff
<1> QED
  BY <1>1, <1>2, SocketInvariant, PTL DEF SocketSpec, RemainingFalls
=============================================================================
