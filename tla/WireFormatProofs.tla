-------------------------- MODULE WireFormatProofs --------------------------
(***************************************************************************)
(* Proofs about the wire format, for every base of the digits and every    *)
(* length of strings, keys and metadata.                                   *)
(***************************************************************************)
EXTENDS WireFormat, TLAPS

(* Sequences of octets. *)

\* Concatenation is associative.
LEMMA ConcatAssoc ==
  ASSUME NEW s \in Seq(Nat), NEW t \in Seq(Nat), NEW u \in Seq(Nat)
  PROVE  (s \o t) \o u = s \o (t \o u)
  OBVIOUS

\* What was written first is read first, and the rest is left.
LEMMA ReadsWritten ==
  ASSUME NEW s \in Seq(Nat), NEW rest \in Seq(Nat)
  PROVE  /\ s \o rest \in Seq(Nat)
         /\ Len(s \o rest) = Len(s) + Len(rest)
         /\ SubSeq(s \o rest, 1, Len(s)) = s
         /\ Advance(s \o rest, Len(s)) = rest
  BY DEF Advance

\* What comes first is found where it was.
LEMMA ConcatHead ==
  ASSUME NEW s \in Seq(Nat), NEW rest \in Seq(Nat), NEW i \in 1..Len(s)
  PROVE  (s \o rest)[i] = s[i]
  OBVIOUS

\* Lengths add up.
LEMMA OctetsConcat ==
  ASSUME NEW a \in Nat, NEW b \in Nat, NEW s \in Octets(a), NEW t \in Octets(b)
  PROVE  s \o t \in Octets(a + b)
  BY DEF Octets

\* Nothing is left to read after nothing more was written.
LEMMA ConcatEmpty ==
  ASSUME NEW s \in Seq(Nat)
  PROVE  s \o <<>> = s
  OBVIOUS

-----------------------------------------------------------------------------
(* Fields. *)

\* Quotient and remainder.
LEMMA Quotient ==
  ASSUME NEW n \in Nat, NEW R \in Nat \ {0}
  PROVE  /\ n = (n \div R) * R + (n % R)
         /\ n \div R \in Nat
         /\ n % R \in 0..(R - 1)
  OBVIOUS

\* Only one quotient and remainder make up a number.
LEMMA QuotientUnique ==
  ASSUME NEW n \in Nat, NEW R \in Nat \ {0}, NEW q \in Int, NEW r \in 0..(R - 1),
         n = q * R + r
  PROVE  n \div R = q /\ n % R = r
  OBVIOUS

\* Products grow with their factors.
LEMMA ProductMonotone ==
  ASSUME NEW a \in Nat, NEW b \in Nat, NEW R \in Nat, a <= b
  PROVE  a * R >= 0 /\ a * R <= b * R
<1>1. b - a \in Nat /\ (b - a) * R >= 0
  OBVIOUS
<1>2. (b - a) * R = b * R - a * R
  OBVIOUS
<1> QED
  BY <1>1, <1>2

\* Dividing twice is dividing by the product.
LEMMA QuotientTwice ==
  ASSUME NEW n \in Nat, NEW R \in Nat \ {0}, NEW S \in Nat \ {0}
  PROVE  n \div (S * R) = (n \div R) \div S
<1> DEFINE q == n \div R
           p == q \div S
<1>1. n = q * R + (n % R) /\ q \in Nat /\ n % R \in 0..(R - 1)
  BY Quotient
<1>2. q = p * S + (q % S) /\ p \in Nat /\ q % S \in 0..(S - 1)
  BY <1>1, Quotient
<1> DEFINE a == n % R
           b == q % S
<1> HIDE DEF a, b, p, q
<1>3. n = p * (S * R) + (b * R + a)
  BY <1>1, <1>2 DEF a, b
<1>4. b * R + a \in 0..(S * R - 1)
  <2>1. b \in Nat /\ S - 1 \in Nat /\ b <= S - 1
    BY <1>2 DEF b
  <2>2. b * R >= 0 /\ b * R <= (S - 1) * R
    BY <2>1, ProductMonotone
  <2>3. (S - 1) * R = S * R - R /\ S * R \in Nat
    OBVIOUS
  <2>4. a \in Nat /\ a <= R - 1
    BY <1>1 DEF a
  <2>5. b * R \in Nat
    BY <2>1
  <2> HIDE DEF a, b
  <2> QED
    BY <2>2, <2>3, <2>4, <2>5
<1>5. S * R \in Nat \ {0}
  OBVIOUS
<1>6. \A P \in Nat \ {0} : \A c \in 0..(P - 1) : n = p * P + c => n \div P = p
  BY <1>2, QuotientUnique DEF p
<1>7. n \div (S * R) = p
  BY <1>3, <1>4, <1>5, <1>6
<1> QED
  BY <1>7 DEF p, q

\* A uint32_t is four octets, and is read as it was written.
LEMMA UintWritten ==
  ASSUME NEW number \in uint32_t
  PROVE  qkd_uint32_to_stream(number) \in Seq(Nat) /\ Len(qkd_uint32_to_stream(number)) = 4
<1>1. number \in Nat /\ Radix \in Nat \ {0} /\ Radix * Radix \in Nat \ {0}
      /\ Radix * Radix * Radix \in Nat \ {0}
  BY WireAssumption DEF uint32_t, WordMod
<1>2. \A m \in Nat, R \in Nat \ {0} : m \div R \in Nat /\ m % R \in Nat
  BY Quotient
<1>3. /\ number \div (Radix * Radix * Radix) \in Nat
      /\ (number \div (Radix * Radix)) % Radix \in Nat
      /\ (number \div Radix) % Radix \in Nat
      /\ number % Radix \in Nat
  BY <1>1, <1>2
<1> QED
  BY <1>3 DEF qkd_uint32_to_stream

\* The four octets of a number are its digits to the base Radix.
LEMMA UintDigits ==
  ASSUME NEW number \in uint32_t
  PROVE  LET d == qkd_uint32_to_stream(number)
         IN ((d[1] * Radix + d[2]) * Radix + d[3]) * Radix + d[4] = number
<1>1. number \in Nat /\ Radix \in Nat \ {0} /\ Radix * Radix \in Nat \ {0}
  BY WireAssumption DEF uint32_t, WordMod
<1> DEFINE q1 == number \div Radix
           q2 == q1 \div Radix
           q3 == q2 \div Radix
<1>2. number = q1 * Radix + (number % Radix) /\ q1 \in Nat
  BY <1>1, Quotient
<1>3. q1 = q2 * Radix + (q1 % Radix) /\ q2 \in Nat
  BY <1>1, <1>2, Quotient
<1>4. q2 = q3 * Radix + (q2 % Radix) /\ q3 \in Nat
  BY <1>1, <1>3, Quotient
<1>5. number \div (Radix * Radix) = q2
  BY <1>1, QuotientTwice
<1>6. number \div (Radix * Radix * Radix) = q3
  <2>1. number \div ((Radix * Radix) * Radix) = q1 \div (Radix * Radix)
    BY <1>1, QuotientTwice
  <2>2. q1 \div (Radix * Radix) = q3
    BY <1>1, <1>2, QuotientTwice
  <2> QED
    BY <2>1, <2>2
<1> HIDE DEF q1, q2, q3
<1>7. qkd_uint32_to_stream(number) = <<q3, q2 % Radix, q1 % Radix, number % Radix>>
  BY <1>5, <1>6 DEF qkd_uint32_to_stream, q1
<1> QED
  BY <1>2, <1>3, <1>4, <1>7

\* A number is read as it was written, and no octet more.
LEMMA UintRead ==
  ASSUME NEW number \in uint32_t, NEW rest \in Seq(Nat)
  PROVE  qkd_uint32_from_stream(qkd_uint32_to_stream(number) \o rest)
           = [value |-> number, rest |-> rest]
<1> DEFINE d == qkd_uint32_to_stream(number)
<1>1. d \in Seq(Nat)
  BY UintWritten
<1>2. Len(d) = 4
  BY UintWritten
<1>3. ((d[1] * Radix + d[2]) * Radix + d[3]) * Radix + d[4] = number
  BY UintDigits
<1> HIDE DEF d
<1>4. /\ (d \o rest)[1] = d[1] /\ (d \o rest)[2] = d[2]
      /\ (d \o rest)[3] = d[3] /\ (d \o rest)[4] = d[4]
  <2>1. 1 \in 1..Len(d) /\ 2 \in 1..Len(d) /\ 3 \in 1..Len(d) /\ 4 \in 1..Len(d)
    BY <1>2
  <2> QED
    BY <1>1, <2>1, ConcatHead
<1>5. Advance(d \o rest, 4) = rest
  BY <1>1, <1>2, ReadsWritten
<1>6. qkd_uint32_from_stream(d \o rest) = [value |-> number, rest |-> rest]
  BY <1>3, <1>4, <1>5 DEF qkd_uint32_from_stream, WordSize
<1> QED
  BY <1>6 DEF d

\* An id is as many octets as a uuid_t has.
LEMMA UuidRead ==
  ASSUME NEW id \in uuid_t, NEW rest \in Seq(Nat)
  PROVE  qkd_uuid_from_stream(id \o rest) = [value |-> id, rest |-> rest]
<1>1. id \in Seq(Nat) /\ Len(id) = UuidSize
  BY DEF uuid_t, Octets
<1> QED
  BY <1>1, ReadsWritten DEF qkd_uuid_from_stream

\* Octets with their number before them.
LEMMA BytesWritten ==
  ASSUME NEW data \in qkd_bytes_t
  PROVE  /\ qkd_bytes_data_to_stream(data) \in Seq(Nat)
         /\ Len(qkd_bytes_data_to_stream(data)) = 4 + Len(data)
         /\ Len(data) \in uint32_t
         /\ qkd_bytes_data_to_stream(data) = qkd_uint32_to_stream(Len(data)) \o data
<1>1. data \in Seq(Nat) /\ Len(data) \in Nat /\ Len(data) < WordMod
  BY DEF qkd_bytes_t
<1>2. WordMod \in Nat
  BY WireAssumption DEF WordMod
<1>3. Len(data) \in uint32_t
  BY <1>1, <1>2 DEF uint32_t
<1>4. Len(data) % WordMod = Len(data)
  BY <1>1, <1>2
<1>5. /\ qkd_uint32_to_stream(Len(data)) \in Seq(Nat)
      /\ Len(qkd_uint32_to_stream(Len(data))) = 4
  BY <1>3, UintWritten
<1> QED
  BY <1>1, <1>3, <1>4, <1>5, ReadsWritten DEF qkd_bytes_data_to_stream

\* Octets with their length in front are read as they were written.
LEMMA BytesRead ==
  ASSUME NEW data \in qkd_bytes_t, NEW rest \in Seq(Nat)
  PROVE  qkd_bytes_data_from_stream(qkd_bytes_data_to_stream(data) \o rest)
           = [value |-> data, rest |-> rest]
<1> DEFINE size == qkd_uint32_to_stream(Len(data))
           stream == qkd_bytes_data_to_stream(data) \o rest
<1>1. data \in Seq(Nat) /\ Len(data) \in uint32_t
  BY BytesWritten DEF qkd_bytes_t
<1>2. size \in Seq(Nat)
  BY <1>1, UintWritten
<1>3. stream = size \o (data \o rest)
  <2>1. qkd_bytes_data_to_stream(data) = size \o data
    BY BytesWritten
  <2> HIDE DEF size
  <2>2. (size \o data) \o rest = size \o (data \o rest)
    BY <1>1, <1>2, ConcatAssoc
  <2> QED
    BY <2>1, <2>2
<1>4. data \o rest \in Seq(Nat)
  BY <1>1, ReadsWritten
<1>5. qkd_uint32_from_stream(stream) = [value |-> Len(data), rest |-> data \o rest]
  BY <1>1, <1>3, <1>4, UintRead
<1> HIDE DEF stream
<1>6. qkd_bytes_data_from_stream(stream)
        = [value |-> SubSeq(data \o rest, 1, Len(data)), rest |-> Advance(data \o rest, Len(data))]
  BY <1>5 DEF qkd_bytes_data_from_stream
<1> QED
  BY <1>1, <1>6, ReadsWritten DEF stream

\* The least member of a set is its Min.
LEMMA LeastIsMin ==
  ASSUME NEW S \in SUBSET Int, NEW x \in S, \A y \in S : x <= y
  PROVE  Min(S) = x
<1>1. \A z \in S : (\A y \in S : z <= y) => z = x
  OBVIOUS
<1> QED
  BY <1>1 DEF Min

\* Strings with the NUL that ends them: no octet before it is one.
LEMMA StrWritten ==
  ASSUME NEW str \in qkd_str_t
  PROVE  /\ qkd_str_to_stream(str) \in Seq(Nat)
         /\ Len(qkd_str_to_stream(str)) = Len(str) + 1
         /\ str \in Seq(Nat)
         /\ qkd_str_to_stream(str)[Len(str) + 1] = 0
         /\ \A i \in 1..Len(str) : qkd_str_to_stream(str)[i] = str[i] /\ str[i] \in Nat \ {0}
  BY DEF qkd_str_t, qkd_str_to_stream

\* A string is read up to the first NUL, which is the one written at its end.
LEMMA StrRead ==
  ASSUME NEW str \in qkd_str_t, NEW rest \in Seq(Nat)
  PROVE  qkd_str_from_stream(qkd_str_to_stream(str) \o rest)
           = [value |-> str, rest |-> rest]
<1> DEFINE octets == qkd_str_to_stream(str)
           stream == octets \o rest
           size == Len(str) + 1
           NULs == {i \in 1..Len(stream) : stream[i] = 0}
<1>1. octets \in Seq(Nat) /\ Len(octets) = size /\ Len(str) \in Nat
  BY StrWritten
<1>2. stream \in Seq(Nat) /\ Len(stream) = size + Len(rest) /\ Len(rest) \in Nat
  BY <1>1, ReadsWritten
<1>3. \A i \in 1..size : stream[i] = octets[i]
  BY <1>1, ConcatHead
<1>4. size \in NULs
  <2>1. size \in 1..Len(stream) /\ size \in 1..size
    BY <1>1, <1>2
  <2>2. octets[size] = 0
    BY StrWritten
  <2> QED
    BY <1>3, <2>1, <2>2
<1>5. \A i \in NULs : size <= i
  <2> SUFFICES ASSUME NEW i \in 1..Len(stream), i < size
               PROVE  stream[i] # 0
    BY <1>2
  <2>1. i \in 1..Len(str) /\ i \in 1..size
    BY <1>1, <1>2
  <2> QED
    BY <2>1, <1>3, StrWritten
<1>6. Min(NULs) = size
  <2>1. NULs \subseteq Int
    BY <1>2
  <2> HIDE DEF NULs, size
  <2> QED
    BY <1>4, <1>5, <2>1, LeastIsMin
<1>7. SelectInSeq(stream, LAMBDA octet : octet = 0) = size
  BY <1>4, <1>6 DEF SelectInSeq
<1>8. SubSeq(stream, 1, size - 1) = str
  BY <1>1, <1>2, <1>3, StrWritten
<1>9. Advance(stream, size) = rest
  BY <1>1, ReadsWritten
<1> HIDE DEF stream, size
<1>10. qkd_str_from_stream(stream) = [value |-> str, rest |-> rest]
  BY <1>7, <1>8, <1>9 DEF qkd_str_from_stream
<1> QED
  BY <1>10 DEF stream

\* Concatenation as an operator of its own: the provers take \o apart.
Cat(s, t) == s \o t

\* Joining fields is associative.
LEMMA CatAssoc ==
  ASSUME NEW s \in Seq(Nat), NEW t \in Seq(Nat), NEW u \in Seq(Nat)
  PROVE  Cat(Cat(s, t), u) = Cat(s, Cat(t, u))
  BY ConcatAssoc DEF Cat

\* Joined fields are as long as their parts.
LEMMA CatType ==
  ASSUME NEW s \in Seq(Nat), NEW t \in Seq(Nat)
  PROVE  Cat(s, t) \in Seq(Nat) /\ Len(Cat(s, t)) = Len(s) + Len(t)
  BY DEF Cat

\* Four fields in a row, grouped the way a reader meets them.
LEMMA CatFour ==
  ASSUME NEW s \in Seq(Nat), NEW t \in Seq(Nat), NEW u \in Seq(Nat), NEW v \in Seq(Nat)
  PROVE  Cat(Cat(Cat(s, t), u), v) = Cat(s, Cat(t, Cat(u, v)))
  BY CatAssoc, CatType

\* The last field is followed by nothing.
LEMMA CatEmpty ==
  ASSUME NEW s \in Seq(Nat)
  PROVE  Cat(s, <<>>) = s /\ <<>> \in Seq(Nat)
  BY DEF Cat

\* Octets of known lengths joined.
LEMMA CatOctets ==
  ASSUME NEW a \in Nat, NEW b \in Nat, NEW s \in Octets(a), NEW t \in Octets(b)
  PROVE  Cat(s, t) \in Octets(a + b)
  BY OctetsConcat DEF Cat

\* A QoS: seven numbers and a string, read in the order they were written in.
LEMMA QosWritten ==
  ASSUME NEW qos \in qkd_qos_t
  PROVE  /\ qkd_qos_to_stream(qos) \in Octets(qkd_sizeof_qos(qos))
         /\ qos.metadata_mimetype \in qkd_str_t
<1>1. /\ qos.key_chunk_size \in uint32_t /\ qos.max_bps \in uint32_t
      /\ qos.min_bps \in uint32_t /\ qos.jitter \in uint32_t /\ qos.priority \in uint32_t
      /\ qos.timeout \in uint32_t /\ qos.ttl \in uint32_t
      /\ qos.metadata_mimetype \in qkd_str_t
  BY DEF qkd_qos_t
<1> DEFINE w(number) == qkd_uint32_to_stream(number)
           n == Len(qos.metadata_mimetype) + 1
           last == qkd_str_to_stream(qos.metadata_mimetype)
           two == w(qos.key_chunk_size) \o w(qos.max_bps)
           three == two \o w(qos.min_bps)
           four == three \o w(qos.jitter)
           five == four \o w(qos.priority)
           six == five \o w(qos.timeout)
           seven == six \o w(qos.ttl)
<1>2. \A number \in uint32_t : w(number) \in Octets(4)
  BY UintWritten DEF Octets
<1>3. last \in Octets(n) /\ n \in Nat
  BY <1>1, StrWritten DEF Octets
<1>4. \A k \in Nat : \A s \in Octets(k), number \in uint32_t : s \o w(number) \in Octets(k + 4)
  BY <1>2, OctetsConcat
<1>5. qkd_qos_to_stream(qos) = seven \o last
  BY DEF qkd_qos_to_stream
<1> HIDE DEF w, last, n, two, three, four, five, six, seven
<1>6. two \in Octets(8) /\ three \in Octets(12) /\ four \in Octets(16)
  BY <1>1, <1>2, <1>4 DEF two, three, four
<1>7. five \in Octets(20) /\ six \in Octets(24) /\ seven \in Octets(28)
  BY <1>1, <1>4, <1>6 DEF five, six, seven
<1>8. seven \o last \in Octets(28 + n)
  BY <1>3, <1>7, OctetsConcat
<1>9. qkd_sizeof_qos(qos) = 28 + n
  BY <1>3 DEF qkd_sizeof_qos, qkd_sizeof_str, WordSize, n
<1> QED
  BY <1>1, <1>5, <1>8, <1>9

\* A QoS is read as it was written.
LEMMA QosRead ==
  ASSUME NEW qos \in qkd_qos_t, NEW rest \in Seq(Nat)
  PROVE  qkd_qos_from_stream(Cat(qkd_qos_to_stream(qos), rest)) = [value |-> qos, rest |-> rest]
<1>1. /\ qos.key_chunk_size \in uint32_t /\ qos.max_bps \in uint32_t
      /\ qos.min_bps \in uint32_t /\ qos.jitter \in uint32_t /\ qos.priority \in uint32_t
      /\ qos.timeout \in uint32_t /\ qos.ttl \in uint32_t
      /\ qos.metadata_mimetype \in qkd_str_t
      /\ qos = [key_chunk_size |-> qos.key_chunk_size, max_bps |-> qos.max_bps,
                min_bps |-> qos.min_bps, jitter |-> qos.jitter, priority |-> qos.priority,
                timeout |-> qos.timeout, ttl |-> qos.ttl,
                metadata_mimetype |-> qos.metadata_mimetype]
  BY DEF qkd_qos_t
<1> DEFINE w(number) == qkd_uint32_to_stream(number)
           last == qkd_str_to_stream(qos.metadata_mimetype)
           r8 == Cat(last, rest)
           r7 == Cat(w(qos.ttl), r8)
           r6 == Cat(w(qos.timeout), r7)
           r5 == Cat(w(qos.priority), r6)
           r4 == Cat(w(qos.jitter), r5)
           r3 == Cat(w(qos.min_bps), r4)
           r2 == Cat(w(qos.max_bps), r3)
           r1 == Cat(w(qos.key_chunk_size), r2)
<1>2. \A number \in uint32_t : w(number) \in Seq(Nat)
  BY UintWritten
<1>3. \A number \in uint32_t, s \in Seq(Nat) :
        /\ Cat(w(number), s) \in Seq(Nat)
        /\ qkd_uint32_from_stream(Cat(w(number), s)) = [value |-> number, rest |-> s]
  BY <1>2, UintRead, CatType DEF Cat
<1>4. last \in Seq(Nat)
  BY <1>1, StrWritten
<1>5. qkd_str_from_stream(r8) = [value |-> qos.metadata_mimetype, rest |-> rest]
  BY <1>1, StrRead DEF Cat
<1>6. qkd_qos_to_stream(qos)
        = Cat(Cat(Cat(Cat(Cat(Cat(Cat(w(qos.key_chunk_size), w(qos.max_bps)), w(qos.min_bps)),
                              w(qos.jitter)), w(qos.priority)), w(qos.timeout)), w(qos.ttl)), last)
  BY DEF qkd_qos_to_stream, Cat
<1> HIDE DEF w, last
<1>7. /\ r8 \in Seq(Nat) /\ r7 \in Seq(Nat) /\ r6 \in Seq(Nat) /\ r5 \in Seq(Nat)
      /\ r4 \in Seq(Nat) /\ r3 \in Seq(Nat) /\ r2 \in Seq(Nat)
  BY <1>1, <1>2, <1>4, CatType
<1>8. Cat(qkd_qos_to_stream(qos), rest) = r1
  <2> DEFINE three == Cat(Cat(w(qos.key_chunk_size), w(qos.max_bps)), w(qos.min_bps))
             five == Cat(Cat(three, w(qos.jitter)), w(qos.priority))
             seven == Cat(Cat(five, w(qos.timeout)), w(qos.ttl))
  <2>1. three \in Seq(Nat) /\ five \in Seq(Nat) /\ seven \in Seq(Nat)
    BY <1>1, <1>2, CatType
  <2>2. Cat(three, r4) = r1
    <3>1. /\ w(qos.key_chunk_size) \in Seq(Nat) /\ w(qos.max_bps) \in Seq(Nat)
          /\ w(qos.min_bps) \in Seq(Nat) /\ r4 \in Seq(Nat)
      BY <1>1, <1>2, <1>7
    <3> HIDE DEF r4
    <3> QED BY <3>1, CatFour
  <2>3. Cat(five, r6) = Cat(three, r4)
    <3>1. w(qos.jitter) \in Seq(Nat) /\ w(qos.priority) \in Seq(Nat) /\ r6 \in Seq(Nat)
      BY <1>1, <1>2, <1>7
    <3> HIDE DEF r6, three
    <3> QED BY <2>1, <3>1, CatFour
  <2>4. Cat(seven, r8) = Cat(five, r6)
    <3>1. w(qos.timeout) \in Seq(Nat) /\ w(qos.ttl) \in Seq(Nat) /\ r8 \in Seq(Nat)
      BY <1>1, <1>2, <1>7
    <3> HIDE DEF r8, five
    <3> QED BY <2>1, <3>1, CatFour
  <2> HIDE DEF three, five, seven, r1, r4, r6
  <2>5. Cat(Cat(seven, last), rest) = Cat(seven, r8)
    BY <1>4, <2>1, CatAssoc
  <2>6. qkd_qos_to_stream(qos) = Cat(seven, last)
    BY <1>6 DEF three, five, seven
  <2> QED
    BY <2>2, <2>3, <2>4, <2>5, <2>6
<1> HIDE DEF r1, r2, r3, r4, r5, r6, r7, r8
<1>9. /\ qkd_uint32_from_stream(r1) = [value |-> qos.key_chunk_size, rest |-> r2]
      /\ qkd_uint32_from_stream(r2) = [value |-> qos.max_bps, rest |-> r3]
      /\ qkd_uint32_from_stream(r3) = [value |-> qos.min_bps, rest |-> r4]
      /\ qkd_uint32_from_stream(r4) = [value |-> qos.jitter, rest |-> r5]
      /\ qkd_uint32_from_stream(r5) = [value |-> qos.priority, rest |-> r6]
      /\ qkd_uint32_from_stream(r6) = [value |-> qos.timeout, rest |-> r7]
      /\ qkd_uint32_from_stream(r7) = [value |-> qos.ttl, rest |-> r8]
  BY <1>1, <1>3, <1>7 DEF r1, r2, r3, r4, r5, r6, r7
<1>10. qkd_qos_from_stream(r1) = [value |-> qos, rest |-> rest]
  BY <1>1, <1>5, <1>9 DEF qkd_qos_from_stream
<1> QED
  BY <1>8, <1>10

\* The fields, each read from the front of a stream that goes on.
LEMMA FieldsRead ==
  ASSUME NEW rest \in Seq(Nat)
  PROVE  /\ \A number \in uint32_t :
              qkd_uint32_from_stream(Cat(qkd_uint32_to_stream(number), rest))
                = [value |-> number, rest |-> rest]
         /\ \A id \in uuid_t :
              qkd_uuid_from_stream(Cat(id, rest)) = [value |-> id, rest |-> rest]
         /\ \A data \in qkd_bytes_t :
              qkd_bytes_data_from_stream(Cat(qkd_bytes_data_to_stream(data), rest))
                = [value |-> data, rest |-> rest]
         /\ \A str \in qkd_str_t :
              qkd_str_from_stream(Cat(qkd_str_to_stream(str), rest))
                = [value |-> str, rest |-> rest]
         /\ \A qos \in qkd_qos_t :
              qkd_qos_from_stream(Cat(qkd_qos_to_stream(qos), rest))
                = [value |-> qos, rest |-> rest]
  BY UintRead, UuidRead, BytesRead, StrRead, QosRead DEF Cat

\* The lengths of the fields.
LEMMA FieldsWritten ==
  /\ \A number \in uint32_t : qkd_uint32_to_stream(number) \in Octets(4)
  /\ \A id \in uuid_t : id \in Octets(UuidSize)
  /\ \A data \in qkd_bytes_t : /\ qkd_bytes_data_to_stream(data) \in Octets(4 + Len(data))
                              /\ Len(data) \in Nat
  /\ \A str \in qkd_str_t : qkd_str_to_stream(str) \in Octets(Len(str) + 1) /\ Len(str) \in Nat
  /\ \A qos \in qkd_qos_t : /\ qkd_qos_to_stream(qos) \in Octets(qkd_sizeof_qos(qos))
                           /\ qkd_sizeof_qos(qos) \in Nat
<1>1. \A number \in uint32_t : qkd_uint32_to_stream(number) \in Octets(4)
  BY UintWritten DEF Octets
<1>2. \A id \in uuid_t : id \in Octets(UuidSize)
  BY DEF uuid_t
<1>3. \A data \in qkd_bytes_t : /\ qkd_bytes_data_to_stream(data) \in Octets(4 + Len(data))
                                /\ Len(data) \in Nat
  BY BytesWritten DEF Octets, qkd_bytes_t
<1>4. \A str \in qkd_str_t : /\ qkd_str_to_stream(str) \in Octets(Len(str) + 1)
                             /\ Len(str) \in Nat
  BY StrWritten DEF Octets, qkd_str_t
<1>5. \A qos \in qkd_qos_t : /\ qkd_qos_to_stream(qos) \in Octets(qkd_sizeof_qos(qos))
                             /\ qkd_sizeof_qos(qos) \in Nat
  BY QosWritten, <1>4 DEF qkd_sizeof_qos, qkd_sizeof_str, WordSize
<1> QED
  BY <1>1, <1>2, <1>3, <1>4, <1>5

\* Octets of a length are a sequence of that length.
LEMMA OctetsAreSequences ==
  ASSUME NEW n, NEW s \in Octets(n)
  PROVE  s \in Seq(Nat) /\ Len(s) = n
  BY DEF Octets

-----------------------------------------------------------------------------
(* Messages. *)

\* An OPEN_CONNECT request is read as it was written, and is as long as sizes.c says.
LEMMA OpenConnectRequestRead ==
  ASSUME NEW req \in qkd_open_connect_request_t
  PROVE  /\ qkd_open_connect_request_to_stream(req) \in Octets(qkd_sizeof_request(req))
         /\ qkd_open_connect_request_from_stream(qkd_open_connect_request_to_stream(req))
              = [value |-> req, rest |-> <<>>]
<1>1. /\ req.service = "OPEN_CONNECT"
      /\ req.source \in qkd_str_t /\ req.destination \in qkd_str_t
      /\ req.qos \in qkd_qos_t /\ req.key_stream_id \in uuid_t
      /\ req = [service |-> "OPEN_CONNECT", source |-> req.source,
                destination |-> req.destination, qos |-> req.qos,
                key_stream_id |-> req.key_stream_id]
  BY DEF qkd_open_connect_request_t
<1> DEFINE a == qkd_str_to_stream(req.source)
           b == qkd_str_to_stream(req.destination)
           c == qkd_qos_to_stream(req.qos)
           d == req.key_stream_id
           k == Len(req.source) + 1
           m == Len(req.destination) + 1
           n == qkd_sizeof_qos(req.qos)
<1>2. /\ a \in Octets(k) /\ b \in Octets(m) /\ c \in Octets(n) /\ d \in Octets(UuidSize)
      /\ k \in Nat /\ m \in Nat /\ n \in Nat /\ UuidSize \in Nat
  BY <1>1, FieldsWritten, WireAssumption
<1>3. qkd_open_connect_request_to_stream(req) = Cat(Cat(Cat(a, b), c), d)
  BY DEF qkd_open_connect_request_to_stream, Cat
<1>4. qkd_sizeof_request(req) = k + m + n + UuidSize
  BY <1>1 DEF qkd_sizeof_request, qkd_sizeof_str
<1>5. \A s \in Seq(Nat) :
        /\ qkd_str_from_stream(Cat(a, s)) = [value |-> req.source, rest |-> s]
        /\ qkd_str_from_stream(Cat(b, s)) = [value |-> req.destination, rest |-> s]
        /\ qkd_qos_from_stream(Cat(c, s)) = [value |-> req.qos, rest |-> s]
        /\ qkd_uuid_from_stream(Cat(d, s)) = [value |-> req.key_stream_id, rest |-> s]
  BY <1>1, FieldsRead
<1> HIDE DEF a, b, c, d, k, m, n
<1>6. Cat(Cat(Cat(a, b), c), d) \in Octets(k + m + n + UuidSize)
  <2>1. Cat(a, b) \in Octets(k + m) /\ k + m \in Nat
    BY <1>2, CatOctets
  <2>2. Cat(Cat(a, b), c) \in Octets(k + m + n) /\ k + m + n \in Nat
    BY <1>2, <2>1, CatOctets
  <2> QED
    BY <1>2, <2>2, CatOctets
<1>7. a \in Seq(Nat) /\ b \in Seq(Nat) /\ c \in Seq(Nat) /\ d \in Seq(Nat)
  BY <1>2, OctetsAreSequences
<1> DEFINE r4 == Cat(d, <<>>)
           r3 == Cat(c, r4)
           r2 == Cat(b, r3)
           r1 == Cat(a, r2)
<1>8. /\ Cat(Cat(Cat(a, b), c), d) = r1
      /\ r2 \in Seq(Nat) /\ r3 \in Seq(Nat) /\ r4 \in Seq(Nat) /\ <<>> \in Seq(Nat)
  BY <1>7, CatAssoc, CatType, CatEmpty
<1>9. /\ qkd_str_from_stream(r1) = [value |-> req.source, rest |-> r2]
      /\ qkd_str_from_stream(r2) = [value |-> req.destination, rest |-> r3]
      /\ qkd_qos_from_stream(r3) = [value |-> req.qos, rest |-> r4]
      /\ qkd_uuid_from_stream(r4) = [value |-> req.key_stream_id, rest |-> <<>>]
  BY <1>5, <1>8
<1> HIDE DEF r1, r2, r3, r4
<1>10. qkd_open_connect_request_from_stream(r1) = [value |-> req, rest |-> <<>>]
  BY <1>1, <1>9 DEF qkd_open_connect_request_from_stream
<1> QED
  BY <1>3, <1>4, <1>6, <1>8, <1>10

\* A GET_KEY request: its length is that of its parts, and what it is read as.
LEMMA GetKeyRequestRead ==
  ASSUME NEW req \in qkd_get_key_request_t
  PROVE  /\ qkd_get_key_request_to_stream(req) \in Octets(UuidSize + 8 + Len(req.metadata))
         /\ qkd_get_key_request_from_stream(qkd_get_key_request_to_stream(req))
              = [value |-> req, rest |-> <<>>]
<1>1. /\ req.key_stream_id \in uuid_t /\ req.index \in uint32_t /\ req.metadata \in qkd_bytes_t
      /\ req = [service |-> "GET_KEY", key_stream_id |-> req.key_stream_id,
                index |-> req.index, metadata |-> req.metadata]
  BY DEF qkd_get_key_request_t
<1> DEFINE a == req.key_stream_id
           b == qkd_uint32_to_stream(req.index)
           c == qkd_bytes_data_to_stream(req.metadata)
           n == Len(req.metadata)
<1>2. /\ a \in Octets(UuidSize) /\ b \in Octets(4) /\ c \in Octets(4 + n)
      /\ n \in Nat /\ UuidSize \in Nat
  BY <1>1, FieldsWritten, WireAssumption
<1>3. qkd_get_key_request_to_stream(req) = Cat(Cat(a, b), c)
  BY DEF qkd_get_key_request_to_stream, Cat
<1>4. \A s \in Seq(Nat) :
        /\ qkd_uuid_from_stream(Cat(a, s)) = [value |-> req.key_stream_id, rest |-> s]
        /\ qkd_uint32_from_stream(Cat(b, s)) = [value |-> req.index, rest |-> s]
        /\ qkd_bytes_data_from_stream(Cat(c, s)) = [value |-> req.metadata, rest |-> s]
  BY <1>1, FieldsRead
<1> HIDE DEF a, b, c, n
<1>5. Cat(Cat(a, b), c) \in Octets(UuidSize + 8 + n)
  <2>1. Cat(a, b) \in Octets(UuidSize + 4) /\ UuidSize + 4 \in Nat /\ 4 + n \in Nat
    BY <1>2, CatOctets
  <2>2. Cat(Cat(a, b), c) \in Octets((UuidSize + 4) + (4 + n))
    BY <1>2, <2>1, CatOctets
  <2>3. (UuidSize + 4) + (4 + n) = UuidSize + 8 + n
    BY <1>2
  <2> QED
    BY <2>2, <2>3
<1>6. a \in Seq(Nat) /\ b \in Seq(Nat) /\ c \in Seq(Nat)
  BY <1>2, OctetsAreSequences
<1> DEFINE r3 == Cat(c, <<>>)
           r2 == Cat(b, r3)
           r1 == Cat(a, r2)
<1>7. /\ Cat(Cat(a, b), c) = r1
      /\ r2 \in Seq(Nat) /\ r3 \in Seq(Nat) /\ <<>> \in Seq(Nat)
  BY <1>6, CatAssoc, CatType, CatEmpty
<1>8. /\ qkd_uuid_from_stream(r1) = [value |-> req.key_stream_id, rest |-> r2]
      /\ qkd_uint32_from_stream(r2) = [value |-> req.index, rest |-> r3]
      /\ qkd_bytes_data_from_stream(r3) = [value |-> req.metadata, rest |-> <<>>]
  BY <1>4, <1>7
<1> HIDE DEF r1, r2, r3
<1>9. qkd_get_key_request_from_stream(r1) = [value |-> req, rest |-> <<>>]
  BY <1>1, <1>8 DEF qkd_get_key_request_from_stream
<1> QED
  BY <1>3, <1>5, <1>7, <1>9 DEF n

\* A CLOSE request is an id.
LEMMA CloseRequestRead ==
  ASSUME NEW req \in qkd_close_request_t
  PROVE  /\ qkd_close_request_to_stream(req) \in Octets(UuidSize)
         /\ qkd_close_request_from_stream(qkd_close_request_to_stream(req))
              = [value |-> req, rest |-> <<>>]
<1>1. /\ req.key_stream_id \in uuid_t
      /\ req = [service |-> "CLOSE", key_stream_id |-> req.key_stream_id]
  BY DEF qkd_close_request_t
<1>2. req.key_stream_id \in Octets(UuidSize) /\ req.key_stream_id \in Seq(Nat)
  BY <1>1, FieldsWritten, OctetsAreSequences
<1>3. Cat(req.key_stream_id, <<>>) = req.key_stream_id /\ <<>> \in Seq(Nat)
  BY <1>2, CatEmpty
<1>4. qkd_uuid_from_stream(req.key_stream_id) = [value |-> req.key_stream_id, rest |-> <<>>]
  BY <1>1, <1>3, FieldsRead
<1> QED
  BY <1>1, <1>2, <1>4 DEF qkd_close_request_to_stream, qkd_close_request_from_stream

\* An OPEN_CONNECT response.
LEMMA OpenConnectResponseRead ==
  ASSUME NEW resp \in qkd_open_connect_response_t
  PROVE  /\ qkd_open_connect_response_to_stream(resp) \in Octets(qkd_sizeof_response(resp))
         /\ qkd_open_connect_response_from_stream(qkd_open_connect_response_to_stream(resp))
              = [value |-> resp, rest |-> <<>>]
<1>1. /\ resp.service = "OPEN_CONNECT"
      /\ resp.status \in uint32_t /\ resp.qos \in qkd_qos_t /\ resp.key_stream_id \in uuid_t
      /\ resp = [service |-> "OPEN_CONNECT", status |-> resp.status, qos |-> resp.qos,
                 key_stream_id |-> resp.key_stream_id]
  BY DEF qkd_open_connect_response_t
<1> DEFINE a == qkd_uint32_to_stream(resp.status)
           b == qkd_qos_to_stream(resp.qos)
           c == resp.key_stream_id
           n == qkd_sizeof_qos(resp.qos)
<1>2. /\ a \in Octets(4) /\ b \in Octets(n) /\ c \in Octets(UuidSize)
      /\ n \in Nat /\ UuidSize \in Nat
  BY <1>1, FieldsWritten, WireAssumption
<1>3. qkd_open_connect_response_to_stream(resp) = Cat(Cat(a, b), c)
  BY DEF qkd_open_connect_response_to_stream, Cat
<1>4. \A s \in Seq(Nat) :
        /\ qkd_uint32_from_stream(Cat(a, s)) = [value |-> resp.status, rest |-> s]
        /\ qkd_qos_from_stream(Cat(b, s)) = [value |-> resp.qos, rest |-> s]
        /\ qkd_uuid_from_stream(Cat(c, s)) = [value |-> resp.key_stream_id, rest |-> s]
  BY <1>1, FieldsRead
<1>5. qkd_sizeof_response(resp) = (4 + n) + UuidSize
  BY <1>1, <1>2 DEF qkd_sizeof_response, WordSize
<1> HIDE DEF a, b, c, n
<1>6. Cat(Cat(a, b), c) \in Octets((4 + n) + UuidSize)
  <2>1. Cat(a, b) \in Octets(4 + n) /\ 4 + n \in Nat
    BY <1>2, CatOctets
  <2> QED
    BY <1>2, <2>1, CatOctets
<1>7. a \in Seq(Nat) /\ b \in Seq(Nat) /\ c \in Seq(Nat)
  BY <1>2, OctetsAreSequences
<1> DEFINE r3 == Cat(c, <<>>)
           r2 == Cat(b, r3)
           r1 == Cat(a, r2)
<1>8. /\ Cat(Cat(a, b), c) = r1
      /\ r2 \in Seq(Nat) /\ r3 \in Seq(Nat) /\ <<>> \in Seq(Nat)
  BY <1>7, CatAssoc, CatType, CatEmpty
<1>9. /\ qkd_uint32_from_stream(r1) = [value |-> resp.status, rest |-> r2]
      /\ qkd_qos_from_stream(r2) = [value |-> resp.qos, rest |-> r3]
      /\ qkd_uuid_from_stream(r3) = [value |-> resp.key_stream_id, rest |-> <<>>]
  BY <1>4, <1>8
<1> HIDE DEF r1, r2, r3
<1>10. qkd_open_connect_response_from_stream(r1) = [value |-> resp, rest |-> <<>>]
  BY <1>1, <1>9 DEF qkd_open_connect_response_from_stream
<1> QED
  BY <1>3, <1>5, <1>6, <1>8, <1>10

\* A GET_KEY response.
LEMMA GetKeyResponseRead ==
  ASSUME NEW resp \in qkd_get_key_response_t
  PROVE  /\ qkd_get_key_response_to_stream(resp)
              \in Octets(16 + Len(resp.key_buffer) + Len(resp.metadata))
         /\ qkd_get_key_response_from_stream(qkd_get_key_response_to_stream(resp))
              = [value |-> resp, rest |-> <<>>]
<1>1. /\ resp.status \in uint32_t /\ resp.index \in uint32_t
      /\ resp.key_buffer \in qkd_bytes_t /\ resp.metadata \in qkd_bytes_t
      /\ resp = [service |-> "GET_KEY", status |-> resp.status, index |-> resp.index,
                 key_buffer |-> resp.key_buffer, metadata |-> resp.metadata]
  BY DEF qkd_get_key_response_t
<1> DEFINE a == qkd_uint32_to_stream(resp.status)
           b == qkd_uint32_to_stream(resp.index)
           c == qkd_bytes_data_to_stream(resp.key_buffer)
           d == qkd_bytes_data_to_stream(resp.metadata)
           m == Len(resp.key_buffer)
           n == Len(resp.metadata)
<1>2. /\ a \in Octets(4) /\ b \in Octets(4) /\ c \in Octets(4 + m) /\ d \in Octets(4 + n)
      /\ m \in Nat /\ n \in Nat
  BY <1>1, FieldsWritten
<1>3. qkd_get_key_response_to_stream(resp) = Cat(Cat(Cat(a, b), c), d)
  BY DEF qkd_get_key_response_to_stream, Cat
<1>4. \A s \in Seq(Nat) :
        /\ qkd_uint32_from_stream(Cat(a, s)) = [value |-> resp.status, rest |-> s]
        /\ qkd_uint32_from_stream(Cat(b, s)) = [value |-> resp.index, rest |-> s]
        /\ qkd_bytes_data_from_stream(Cat(c, s)) = [value |-> resp.key_buffer, rest |-> s]
        /\ qkd_bytes_data_from_stream(Cat(d, s)) = [value |-> resp.metadata, rest |-> s]
  BY <1>1, FieldsRead
<1> HIDE DEF a, b, c, d, m, n
<1>5. Cat(Cat(Cat(a, b), c), d) \in Octets(16 + m + n)
  <2>1. Cat(a, b) \in Octets(4 + 4) /\ 4 + 4 \in Nat /\ 4 + m \in Nat /\ 4 + n \in Nat
    BY <1>2, CatOctets
  <2>2. Cat(Cat(a, b), c) \in Octets((4 + 4) + (4 + m)) /\ (4 + 4) + (4 + m) \in Nat
    BY <1>2, <2>1, CatOctets
  <2>3. Cat(Cat(Cat(a, b), c), d) \in Octets(((4 + 4) + (4 + m)) + (4 + n))
    BY <1>2, <2>1, <2>2, CatOctets
  <2>4. ((4 + 4) + (4 + m)) + (4 + n) = 16 + m + n
    BY <1>2
  <2> QED
    BY <2>3, <2>4
<1>6. a \in Seq(Nat) /\ b \in Seq(Nat) /\ c \in Seq(Nat) /\ d \in Seq(Nat)
  BY <1>2, OctetsAreSequences
<1> DEFINE r4 == Cat(d, <<>>)
           r3 == Cat(c, r4)
           r2 == Cat(b, r3)
           r1 == Cat(a, r2)
<1>7. /\ Cat(Cat(Cat(a, b), c), d) = r1
      /\ r2 \in Seq(Nat) /\ r3 \in Seq(Nat) /\ r4 \in Seq(Nat) /\ <<>> \in Seq(Nat)
  BY <1>6, CatFour, CatType, CatEmpty
<1>8. /\ qkd_uint32_from_stream(r1) = [value |-> resp.status, rest |-> r2]
      /\ qkd_uint32_from_stream(r2) = [value |-> resp.index, rest |-> r3]
      /\ qkd_bytes_data_from_stream(r3) = [value |-> resp.key_buffer, rest |-> r4]
      /\ qkd_bytes_data_from_stream(r4) = [value |-> resp.metadata, rest |-> <<>>]
  BY <1>4, <1>7
<1> HIDE DEF r1, r2, r3, r4
<1>9. qkd_get_key_response_from_stream(r1) = [value |-> resp, rest |-> <<>>]
  BY <1>1, <1>8 DEF qkd_get_key_response_from_stream
<1> QED
  BY <1>3, <1>5, <1>7, <1>9 DEF m, n

\* A CLOSE response is a status.
LEMMA CloseResponseRead ==
  ASSUME NEW resp \in qkd_close_response_t
  PROVE  /\ qkd_close_response_to_stream(resp) \in Octets(4)
         /\ qkd_close_response_from_stream(qkd_close_response_to_stream(resp))
              = [value |-> resp, rest |-> <<>>]
<1>1. resp.status \in uint32_t /\ resp = [service |-> "CLOSE", status |-> resp.status]
  BY DEF qkd_close_response_t
<1> DEFINE a == qkd_uint32_to_stream(resp.status)
<1>2. a \in Octets(4) /\ a \in Seq(Nat)
  BY <1>1, FieldsWritten, OctetsAreSequences
<1>3. Cat(a, <<>>) = a /\ <<>> \in Seq(Nat)
  BY <1>2, CatEmpty
<1>4. qkd_uint32_from_stream(a) = [value |-> resp.status, rest |-> <<>>]
  BY <1>1, <1>3, FieldsRead
<1> HIDE DEF a
<1>5. qkd_close_response_from_stream(a) = [value |-> resp, rest |-> <<>>]
  BY <1>1, <1>4 DEF qkd_close_response_from_stream
<1> QED
  BY <1>2, <1>5 DEF qkd_close_response_to_stream, a

-----------------------------------------------------------------------------
(* Requests and responses. *)

\* What the servlet makes of the payload of a request (qkd_servlet,
\* serializers.c:147-234) is the request that the client was called with, and the
\* payload is read to its end: for strings, ids and metadata of any length.
THEOREM RequestsAreRead ==
  \A req \in RequestMessage :
    request_from_stream(ServiceCode[req.service], request_to_stream(req))
      = [value |-> req, rest |-> <<>>]
<1> SUFFICES ASSUME NEW req \in RequestMessage
             PROVE  request_from_stream(ServiceCode[req.service], request_to_stream(req))
                      = [value |-> req, rest |-> <<>>]
  OBVIOUS
<1>1. CASE req \in qkd_open_connect_request_t
  <2>1. req.service = "OPEN_CONNECT"
    BY <1>1 DEF qkd_open_connect_request_t
  <2> QED
    BY <1>1, <2>1, OpenConnectRequestRead DEF request_from_stream, request_to_stream, ServiceCode
<1>2. CASE req \in qkd_get_key_request_t
  <2>1. req.service = "GET_KEY"
    BY <1>2 DEF qkd_get_key_request_t
  <2> QED
    BY <1>2, <2>1, GetKeyRequestRead DEF request_from_stream, request_to_stream, ServiceCode
<1>3. CASE req \in qkd_close_request_t
  <2>1. req.service = "CLOSE"
    BY <1>3 DEF qkd_close_request_t
  <2> QED
    BY <1>3, <2>1, CloseRequestRead DEF request_from_stream, request_to_stream, ServiceCode
<1> QED
  BY <1>1, <1>2, <1>3 DEF RequestMessage

\* The same for responses (serializers.c:168-245), which the client reads by the
\* service that it asked for.
THEOREM ResponsesAreRead ==
  \A resp \in ResponseMessage :
    response_from_stream(resp.service, response_to_stream(resp)) = [value |-> resp, rest |-> <<>>]
<1> SUFFICES ASSUME NEW resp \in ResponseMessage
             PROVE  response_from_stream(resp.service, response_to_stream(resp))
                      = [value |-> resp, rest |-> <<>>]
  OBVIOUS
<1>1. CASE resp \in qkd_open_connect_response_t
  <2>1. resp.service = "OPEN_CONNECT"
    BY <1>1 DEF qkd_open_connect_response_t
  <2> QED
    BY <1>1, <2>1, OpenConnectResponseRead DEF response_from_stream, response_to_stream
<1>2. CASE resp \in qkd_get_key_response_t
  <2>1. resp.service = "GET_KEY"
    BY <1>2 DEF qkd_get_key_response_t
  <2> QED
    BY <1>2, <2>1, GetKeyResponseRead DEF response_from_stream, response_to_stream
<1>3. CASE resp \in qkd_close_response_t
  <2>1. resp.service = "CLOSE"
    BY <1>3 DEF qkd_close_response_t
  <2> QED
    BY <1>3, <2>1, CloseResponseRead DEF response_from_stream, response_to_stream
<1> QED
  BY <1>1, <1>2, <1>3 DEF ResponseMessage

-----------------------------------------------------------------------------
(* Buffers. *)

\* The least value that a word may take.
LEMMA WordModType == WordMod \in Nat /\ WordMod >= 16
<1>1. \A n \in Nat : n >= 2 => 2 * n <= Radix * n
  <2> SUFFICES ASSUME NEW n \in Nat PROVE 2 * n <= Radix * n
    OBVIOUS
  <2>1. Radix \in Nat /\ 2 <= Radix
    BY WireAssumption
  <2> QED
    BY <2>1, ProductMonotone
<1>2. Radix \in Nat /\ Radix >= 2
  BY WireAssumption
<1>3. Radix * Radix \in Nat /\ Radix * Radix >= 4
  BY <1>1, <1>2
<1>4. Radix * (Radix * Radix) \in Nat /\ Radix * (Radix * Radix) >= 8
  BY <1>1, <1>2, <1>3
<1>5. Radix * (Radix * (Radix * Radix)) \in Nat /\ Radix * (Radix * (Radix * Radix)) >= 16
  BY <1>1, <1>2, <1>4
<1>6. WordMod = Radix * (Radix * (Radix * Radix))
  BY <1>2 DEF WordMod
<1> QED
  BY <1>5, <1>6

\* A payload fits the buffer that a computed size gives it, and the header announces
\* its length, exactly if it is shorter than 2^32 octets.
Fits(payload, size) ==
  /\ Len(payload) \in Nat /\ size \in Nat
  /\ HeaderSize + Len(payload) > AllocatedSize(size) <=> Len(payload) >= WordMod
  /\ Len(payload) < WordMod => size % WordMod = Len(payload)

\* A size that is exact fits, and so does one whose parts were cut to 32 bits.
LEMMA SizeFits ==
  ASSUME NEW n \in Nat, NEW size \in Nat, NEW payload \in Octets(n),
         n < WordMod => size = n
  PROVE  Fits(payload, size)
<1>1. Len(payload) = n
  BY OctetsAreSequences
<1>2. size % WordMod \in 0..(WordMod - 1)
  BY WordModType, Quotient
<1>3. CASE n < WordMod
  <2>1. size % WordMod = n
    BY <1>3, WordModType
  <2> QED
    BY <1>1, <1>3, <2>1, WordModType DEF Fits, AllocatedSize, HeaderSize
<1>4. CASE n >= WordMod
  BY <1>1, <1>2, <1>4, WordModType DEF Fits, AllocatedSize, HeaderSize
<1> QED
  BY <1>3, <1>4, WordModType

\* Bytes that are short enough are counted exactly.
LEMMA SizeofBytes ==
  ASSUME NEW data \in qkd_bytes_t
  PROVE  /\ qkd_sizeof_bytes(data) \in Nat
         /\ 4 + Len(data) < WordMod => qkd_sizeof_bytes(data) = 4 + Len(data)
<1>1. Len(data) \in Nat
  BY FieldsWritten
<1>2. (4 + Len(data)) % WordMod \in Nat
  BY <1>1, WordModType, Quotient
<1>3. 4 + Len(data) < WordMod => (4 + Len(data)) % WordMod = 4 + Len(data)
  BY <1>1, WordModType
<1> QED
  BY <1>2, <1>3 DEF qkd_sizeof_bytes, WordSize

\* The buffer of a request holds header and payload (sizes.c, ssl_socket_client.c:47)
\* exactly if the payload is shorter than 2^32 octets: cutting the sum for the
\* metadata to 32 bits and cutting the whole again never cancel out.
THEOREM RequestsFit ==
  \A req \in RequestMessage : Fits(request_to_stream(req), qkd_sizeof_request(req))
<1> SUFFICES ASSUME NEW req \in RequestMessage
             PROVE  Fits(request_to_stream(req), qkd_sizeof_request(req))
  OBVIOUS
<1>1. UuidSize \in Nat
  BY WireAssumption
<1>2. CASE req \in qkd_open_connect_request_t
  <2>1. /\ req.service = "OPEN_CONNECT"
        /\ req.source \in qkd_str_t /\ req.destination \in qkd_str_t /\ req.qos \in qkd_qos_t
    BY <1>2 DEF qkd_open_connect_request_t
  <2>2. qkd_sizeof_request(req) \in Nat
    <3> DEFINE a == Len(req.source)
               b == Len(req.destination)
               c == qkd_sizeof_qos(req.qos)
    <3>1. a \in Nat /\ b \in Nat /\ c \in Nat
      BY <2>1, FieldsWritten
    <3>2. qkd_sizeof_request(req) = (a + 1) + (b + 1) + c + UuidSize
      BY <2>1 DEF qkd_sizeof_request, qkd_sizeof_str
    <3> HIDE DEF a, b, c
    <3> QED
      BY <1>1, <3>1, <3>2
  <2>3. request_to_stream(req) \in Octets(qkd_sizeof_request(req))
    BY <1>2, <2>1, OpenConnectRequestRead DEF request_to_stream
  <2> QED
    BY <2>2, <2>3, SizeFits
<1>3. CASE req \in qkd_get_key_request_t
  <2>1. req.service = "GET_KEY" /\ req.metadata \in qkd_bytes_t
    BY <1>3 DEF qkd_get_key_request_t
  <2> DEFINE n == Len(req.metadata)
             size == qkd_sizeof_bytes(req.metadata)
  <2>2. n \in Nat /\ size \in Nat /\ (4 + n < WordMod => size = 4 + n)
    BY <2>1, FieldsWritten, SizeofBytes
  <2>3. request_to_stream(req) \in Octets(UuidSize + 8 + n)
    BY <1>3, <2>1, GetKeyRequestRead DEF request_to_stream
  <2>4. qkd_sizeof_request(req) = UuidSize + 4 + size
    BY <2>1 DEF qkd_sizeof_request, WordSize
  <2> HIDE DEF n, size
  <2>5. /\ UuidSize + 8 + n \in Nat /\ UuidSize + 4 + size \in Nat
        /\ UuidSize + 8 + n < WordMod => UuidSize + 4 + size = UuidSize + 8 + n
    BY <1>1, <2>2, WordModType
  <2> QED
    BY <2>3, <2>4, <2>5, SizeFits
<1>4. CASE req \in qkd_close_request_t
  <2>1. req.service = "CLOSE"
    BY <1>4 DEF qkd_close_request_t
  <2>2. qkd_sizeof_request(req) = UuidSize
    BY <2>1 DEF qkd_sizeof_request
  <2>3. request_to_stream(req) \in Octets(UuidSize)
    BY <1>4, <2>1, CloseRequestRead DEF request_to_stream
  <2> QED
    BY <1>1, <2>2, <2>3, SizeFits
<1> QED
  BY <1>2, <1>3, <1>4 DEF RequestMessage

\* The same for responses (ssl_socket_server.c), which may hold a key and metadata.
THEOREM ResponsesFit ==
  \A resp \in ResponseMessage : Fits(response_to_stream(resp), qkd_sizeof_response(resp))
<1> SUFFICES ASSUME NEW resp \in ResponseMessage
             PROVE  Fits(response_to_stream(resp), qkd_sizeof_response(resp))
  OBVIOUS
<1>1. UuidSize \in Nat
  BY WireAssumption
<1>2. CASE resp \in qkd_open_connect_response_t
  <2>1. resp.service = "OPEN_CONNECT" /\ resp.qos \in qkd_qos_t
    BY <1>2 DEF qkd_open_connect_response_t
  <2>2. qkd_sizeof_response(resp) \in Nat
    BY <1>1, <2>1, FieldsWritten DEF qkd_sizeof_response, WordSize
  <2>3. response_to_stream(resp) \in Octets(qkd_sizeof_response(resp))
    BY <1>2, <2>1, OpenConnectResponseRead DEF response_to_stream
  <2> QED
    BY <2>2, <2>3, SizeFits
<1>3. CASE resp \in qkd_get_key_response_t
  <2>1. resp.service = "GET_KEY" /\ resp.key_buffer \in qkd_bytes_t /\ resp.metadata \in qkd_bytes_t
    BY <1>3 DEF qkd_get_key_response_t
  <2> DEFINE k == Len(resp.key_buffer)
             m == Len(resp.metadata)
             key == qkd_sizeof_bytes(resp.key_buffer)
             metadata == qkd_sizeof_bytes(resp.metadata)
  <2>2. /\ k \in Nat /\ key \in Nat /\ (4 + k < WordMod => key = 4 + k)
        /\ m \in Nat /\ metadata \in Nat /\ (4 + m < WordMod => metadata = 4 + m)
    BY <2>1, FieldsWritten, SizeofBytes
  <2>3. response_to_stream(resp) \in Octets(16 + k + m)
    BY <1>3, <2>1, GetKeyResponseRead DEF response_to_stream
  <2>4. qkd_sizeof_response(resp) = 4 + ((4 + key) + metadata)
    BY <2>1 DEF qkd_sizeof_response, WordSize
  <2> HIDE DEF k, m, key, metadata
  <2>5. /\ 16 + k + m \in Nat /\ 4 + ((4 + key) + metadata) \in Nat
        /\ 16 + k + m < WordMod => 4 + ((4 + key) + metadata) = 16 + k + m
    BY <2>2, WordModType
  <2> QED
    BY <2>3, <2>4, <2>5, SizeFits
<1>4. CASE resp \in qkd_close_response_t
  <2>1. resp.service = "CLOSE"
    BY <1>4 DEF qkd_close_response_t
  <2>2. qkd_sizeof_response(resp) = 4
    BY <2>1 DEF qkd_sizeof_response, WordSize
  <2>3. response_to_stream(resp) \in Octets(4)
    BY <1>4, <2>1, CloseResponseRead DEF response_to_stream
  <2> QED
    BY <2>2, <2>3, SizeFits
<1> QED
  BY <1>2, <1>3, <1>4 DEF ResponseMessage
=============================================================================
