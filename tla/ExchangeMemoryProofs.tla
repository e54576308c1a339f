------------------------ MODULE ExchangeMemoryProofs ------------------------
(***************************************************************************)
(* Proofs about the memory of clients and server: nothing is freed that is *)
(* not live, and every block that is kept is accounted for, from the       *)
(* invariant of ExchangeProofs.                                            *)
(***************************************************************************)
EXTENDS ExchangeProofs

\* The request metadata that a servlet leaves behind.
LeftBy(n, req, resp) ==
  IF req.service = "GET_KEY" /\ resp.status = Successful THEN {Block(n, "metadata")} ELSE {}

\* Calls are numbered, and runs of the server are counted.
Numbered ==
  /\ \A r \in Exchanged : /\ r.n \in Nat /\ r.n <= calls
                          /\ r.run \in Nat /\ r.run <= restarts
  /\ phase # "idle" => /\ call.n = calls /\ call.run = restarts
                       /\ \A r \in Exchanged : r.n < calls

\* The inductive invariant: during a call, too, every block is accounted for.
HeldNow ==
  heap = [client |-> HeldByClients,
          server |-> HeldByServer
                       \cup IF phase = "response" THEN LeftBy(call.n, call.request, call.answer)
                            ELSE {}]
MemoryInv == Numbered /\ HeldNow /\ NoBadFree

-----------------------------------------------------------------------------
(* Blocks. *)

\* A block of a call is told apart by the call and by what it is for, and is no block
\* of a list node.
LEMMA BlocksDiffer ==
  /\ \A n, m, a, b : Block(n, a) = Block(m, b) <=> n = m /\ a = b
  /\ \A n, a, ksid : Block(n, a) \notin NodeBlocks(ksid)
<1>1. \A n, m, a, b : Block(n, a) = Block(m, b) <=> n = m /\ a = b
  BY DEF Block
<1>2. ASSUME NEW n, NEW a, NEW ksid, Block(n, a) \in NodeBlocks(ksid)
      PROVE  FALSE
  <2>1. PICK of : Block(n, a) = [node |-> ksid, of |-> of]
    BY <1>2 DEF NodeBlocks
  <2>2. "node" \notin DOMAIN Block(n, a) /\ "node" \in DOMAIN [node |-> ksid, of |-> of]
    BY DEF Block
  <2> QED
    BY <2>1, <2>2
<1> QED
  BY <1>1, <1>2

\* Pointers that are freed one after the other, none of them twice.
Distinct(ptrs) == \A i, j \in DOMAIN ptrs : ptrs[i] = ptrs[j] => i = j

\* The blocks that lists of up to two pointers name.
LEMMA FewPointers ==
  ASSUME NEW S, NEW a \in S, NEW b \in S
  PROVE  /\ <<>> \in Seq(S) /\ ToSet(<<>>) = {} /\ Distinct(<<>>)
         /\ <<a>> \in Seq(S) /\ ToSet(<<a>>) = {a} /\ Distinct(<<a>>)
         /\ <<a, b>> \in Seq(S) /\ ToSet(<<a, b>>) = {a, b}
         /\ a # b => Distinct(<<a, b>>)
<1>1. <<>> \in Seq(S) /\ ToSet(<<>>) = {} /\ Distinct(<<>>)
  BY DEF ToSet, Distinct
<1>2. <<a>> \in Seq(S) /\ ToSet(<<a>>) = {a} /\ Distinct(<<a>>)
  BY DEF ToSet, Distinct
<1>3. /\ <<a, b>> \in Seq(S) /\ ToSet(<<a, b>>) = {a, b}
      /\ a # b => Distinct(<<a, b>>)
  BY DEF ToSet, Distinct
<1> QED
  BY <1>1, <1>2, <1>3

\* Four pointers to different blocks.
LEMMA FourPointers ==
  ASSUME NEW S, NEW a \in S, NEW b \in S, NEW c \in S, NEW d \in S,
         a # b, a # c, a # d, b # c, b # d, c # d
  PROVE  /\ <<a, b, c, d>> \in Seq(S)
         /\ ToSet(<<a, b, c, d>>) = {a, b, c, d}
         /\ Distinct(<<a, b, c, d>>)
  BY DEF ToSet, Distinct

\* Frees that follow frees: the blocks of both, each once if the two share none.
LEMMA MorePointers ==
  ASSUME NEW S, NEW s \in Seq(S), NEW t \in Seq(S)
  PROVE  /\ s \o t \in Seq(S)
         /\ ToSet(s \o t) = ToSet(s) \cup ToSet(t)
         /\ Distinct(s) /\ Distinct(t) /\ ToSet(s) \cap ToSet(t) = {} => Distinct(s \o t)
<1>1. s \o t \in Seq(S)
  OBVIOUS
<1> DEFINE st == s \o t
<1>2. /\ \A i \in DOMAIN s : i \in DOMAIN st /\ st[i] = s[i]
      /\ \A j \in DOMAIN t : Len(s) + j \in DOMAIN st /\ st[Len(s) + j] = t[j]
      /\ \A i \in DOMAIN st : i \in DOMAIN s \/ \E j \in DOMAIN t : i = Len(s) + j
  <2>1. /\ Len(s) \in Nat /\ Len(t) \in Nat
        /\ DOMAIN s = 1..Len(s) /\ DOMAIN t = 1..Len(t) /\ DOMAIN st = 1..(Len(s) + Len(t))
    OBVIOUS
  <2>2. \A i \in DOMAIN s : st[i] = s[i]
    OBVIOUS
  <2>3. ASSUME NEW j \in DOMAIN t
        PROVE  st[Len(s) + j] = t[j]
    OBVIOUS
  <2>4. ASSUME NEW i \in DOMAIN st, i \notin DOMAIN s
        PROVE  \E j \in DOMAIN t : i = Len(s) + j
    <3>1. i - Len(s) \in DOMAIN t /\ i = Len(s) + (i - Len(s))
      BY <2>1, <2>4
    <3> QED
      BY <3>1
  <2> HIDE DEF st
  <2> QED
    BY <2>1, <2>2, <2>3, <2>4
<1> HIDE DEF st
<1>3. ToSet(st) = ToSet(s) \cup ToSet(t)
  <2>1. ASSUME NEW x \in ToSet(st) PROVE x \in ToSet(s) \cup ToSet(t)
    BY <1>2 DEF ToSet
  <2>2. ASSUME NEW x \in ToSet(s) \cup ToSet(t) PROVE x \in ToSet(st)
    BY <1>2 DEF ToSet
  <2> QED
    BY <2>1, <2>2
<1>4. ASSUME Distinct(s), Distinct(t), ToSet(s) \cap ToSet(t) = {}
      PROVE  Distinct(st)
  <2>1. \A i \in DOMAIN s, j \in DOMAIN t : s[i] # t[j]
    BY <1>4 DEF ToSet
  <2>2. SUFFICES ASSUME NEW i \in DOMAIN st, NEW j \in DOMAIN st, st[i] = st[j]
                 PROVE  i = j
    BY DEF Distinct
  <2> QED
    BY <1>2, <1>4, <2>1, <2>2 DEF Distinct
<1> QED
  BY <1>1, <1>3, <1>4 DEF st

\* What a call allocates and frees, but for list nodes: buffers, and fields of messages.
FieldNames == {"source", "destination", "mimetype", "response mimetype", "key", "metadata",
               "device_info", "struct mimetype"}
BlockNames == FieldNames \cup {"header", "request_buf", "payload", "response_buf"}
BlocksOf(n) == {Block(n, of) : of \in BlockNames}

\* What is freed between the header and the two buffers.
LEMMA BetweenBuffers ==
  ASSUME NEW n, NEW names \in SUBSET FieldNames,
         NEW first \in {"header", "request_buf"}, NEW ptrs \in Seq(BlocksOf(n)), Distinct(ptrs), ToSet(ptrs) = {Block(n, of) : of \in names},
         NEW last \in Seq(BlocksOf(n)), Distinct(last),
         ToSet(last) \subseteq {Block(n, "payload"), Block(n, "response_buf")}
  PROVE  LET free == <<Block(n, first)>> \o ptrs \o last
         IN /\ ToSet(free) = {Block(n, first)} \cup ToSet(ptrs) \cup ToSet(last)
            /\ Distinct(free)
<1> DEFINE S == BlocksOf(n)
           head == <<Block(n, first)>>
           front == head \o ptrs
<1>1. head \in Seq(S) /\ ToSet(head) = {Block(n, first)} /\ Distinct(head)
  <2>1. Block(n, first) \in S
    BY DEF BlocksOf, BlockNames
  <2> QED
    BY <2>1, FewPointers
<1>2. /\ ToSet(head) \cap ToSet(ptrs) = {}
      /\ ToSet(head) \cap ToSet(last) = {}
      /\ ToSet(ptrs) \cap ToSet(last) = {}
  <2>1. /\ \A of \in names : of # first /\ of # "payload" /\ of # "response_buf"
        /\ first # "payload" /\ first # "response_buf"
    BY DEF FieldNames
  <2>2. /\ \A of \in names : /\ Block(n, of) # Block(n, first)
                            /\ Block(n, of) # Block(n, "payload")
                            /\ Block(n, of) # Block(n, "response_buf")
        /\ Block(n, first) # Block(n, "payload") /\ Block(n, first) # Block(n, "response_buf")
    BY <2>1, BlocksDiffer
  <2> QED
    BY <1>1, <2>2
<1>3. front \in Seq(S) /\ ToSet(front) = ToSet(head) \cup ToSet(ptrs) /\ Distinct(front)
  <2> HIDE DEF head
  <2> QED
    BY <1>1, <1>2, MorePointers
<1> HIDE DEF front
<1>4. ToSet(front \o last) = ToSet(front) \cup ToSet(last) /\ Distinct(front \o last)
  BY <1>2, <1>3, MorePointers
<1> QED
  BY <1>1, <1>3, <1>4 DEF front

\* A call that frees blocks of its own, each of them allocated, and each once.
FreesOwn(n, memory) ==
  /\ ToSet(memory.free) \subseteq memory.malloc
  /\ Distinct(memory.free)
  /\ \A b \in ToSet(memory.free) : \E of : b = Block(n, of)

NewBlocks(created) == UNION {NewNodeBlocks(ksid) : ksid \in created}

\* The servlet keeps the blocks of new nodes and what it leaves behind.
ServletKeeps(n, req, resp, created) ==
  LET memory == ServletMemory(n, req, resp, created)
  IN /\ FreesOwn(n, memory)
     /\ memory.malloc = NewBlocks(created) \cup ToSet(memory.free) \cup LeftBy(n, req, resp)
     /\ LeftBy(n, req, resp) \cap ToSet(memory.free) = {}

\* What qkd_servlet frees it allocated in the same run, each block once; what it leaves
\* is the node of a new stream or the metadata of a GET_KEY that succeeded.
LEMMA ServletFrees ==
  ASSUME NEW n, NEW req, req.service \in {"OPEN_CONNECT", "GET_KEY", "CLOSE"}, NEW resp, NEW created
  PROVE  ServletKeeps(n, req, resp, created)
<1> DEFINE b(of) == Block(n, of)
           S == BlocksOf(n)
           memory == ServletMemory(n, req, resp, created)
           buffers == <<b("payload"), b("response_buf")>>
<1>1. \A of \in BlockNames : b(of) \in S
  BY DEF BlocksOf
<1>2. \A of \in BlockNames : /\ <<b(of)>> \in Seq(S) /\ Distinct(<<b(of)>>) /\ ToSet(<<b(of)>>) = {b(of)}
                         /\ <<>> \in Seq(S) /\ Distinct(<<>>) /\ ToSet(<<>>) = {}
  BY <1>1, FewPointers
<1>3. /\ buffers \in Seq(S) /\ Distinct(buffers)
      /\ ToSet(buffers) = {b("payload"), b("response_buf")}
  <2>1. b("payload") \in S /\ b("response_buf") \in S /\ b("payload") # b("response_buf")
    BY <1>1, BlocksDiffer DEF BlockNames
  <2> HIDE DEF b, S
  <2> QED
    BY <2>1, FewPointers
<1>4. ASSUME NEW names \in SUBSET FieldNames,
             NEW ptrs \in Seq(S), Distinct(ptrs), ToSet(ptrs) = {b(of) : of \in names},
             memory.free = <<b("header")>> \o ptrs \o buffers
      PROVE  /\ ToSet(memory.free) = {b(of) : of \in names \cup {"header", "payload", "response_buf"}}
             /\ Distinct(memory.free)
  <2>1. /\ ToSet(memory.free) = {b("header")} \cup ToSet(ptrs) \cup ToSet(buffers)
        /\ Distinct(memory.free)
    <3> HIDE DEF memory, buffers
    <3>1. ToSet(buffers) \subseteq {Block(n, "payload"), Block(n, "response_buf")}
      BY <1>3
    <3>2. LET free == <<Block(n, "header")>> \o ptrs \o buffers
          IN /\ ToSet(free) = {Block(n, "header")} \cup ToSet(ptrs) \cup ToSet(buffers)
             /\ Distinct(free)
      BY <1>3, <1>4, <3>1, BetweenBuffers
    <3> QED
      BY <1>4, <3>2
  <2> HIDE DEF S, memory, buffers
  <2> QED
    BY <1>3, <1>4, <2>1
<1>5. ASSUME NEW names, Distinct(memory.free),
             ToSet(memory.free) = {b(of) : of \in names \cup {"header", "payload", "response_buf"}},
             memory.malloc = {b(of) : of \in names \cup {"header", "payload", "response_buf"}}
                               \cup LeftBy(n, req, resp) \cup NewBlocks(created),
             "metadata" \in names => LeftBy(n, req, resp) = {}
      PROVE  ServletKeeps(n, req, resp, created)
  <2>1. FreesOwn(n, memory)
    BY <1>5 DEF FreesOwn
  <2>2. LeftBy(n, req, resp) \cap ToSet(memory.free) = {}
    BY <1>5, BlocksDiffer DEF LeftBy
  <2> QED
    BY <1>5, <2>1, <2>2 DEF ServletKeeps
<1>6. CASE req.service = "OPEN_CONNECT"
  <2> DEFINE ptrs == <<b("source"), b("destination"), b("mimetype"), b("response mimetype")>>
             names == {"source", "destination", "mimetype", "response mimetype"}
  <2>1. /\ memory.free = <<b("header")>> \o ptrs \o buffers
        /\ memory.malloc = {b(of) : of \in names \cup {"header", "payload", "response_buf"}}
                             \cup NewBlocks(created)
    BY <1>6 DEF ServletMemory, NewBlocks
  <2>2. ptrs \in Seq(S) /\ Distinct(ptrs) /\ ToSet(ptrs) = {b(of) : of \in names}
    <3>1. \A of \in names : b(of) \in S
      BY <1>1 DEF BlockNames, FieldNames
    <3>2. \A x, y : x # y => b(x) # b(y)
      BY BlocksDiffer
    <3>3. /\ b("source") # b("destination") /\ b("source") # b("mimetype")
          /\ b("source") # b("response mimetype") /\ b("destination") # b("mimetype")
          /\ b("destination") # b("response mimetype") /\ b("mimetype") # b("response mimetype")
      BY <3>2
    <3>4. /\ b("source") \in S /\ b("destination") \in S
          /\ b("mimetype") \in S /\ b("response mimetype") \in S
      BY <3>1
    <3>5. {b(of) : of \in names}
            = {b("source"), b("destination"), b("mimetype"), b("response mimetype")}
      OBVIOUS
    <3> HIDE DEF b, S
    <3>6. /\ ptrs \in Seq(S)
          /\ ToSet(ptrs) = {b("source"), b("destination"), b("mimetype"), b("response mimetype")}
          /\ Distinct(ptrs)
      BY <3>3, <3>4, FourPointers
    <3> QED
      BY <3>5, <3>6
  <2>3. LeftBy(n, req, resp) = {}
    BY <1>6 DEF LeftBy
  <2>5. names \in SUBSET FieldNames /\ "metadata" \notin names
    BY DEF FieldNames
  <2> HIDE DEF ptrs, names, memory, S, buffers
  <2>4. /\ ToSet(memory.free) = {b(of) : of \in names \cup {"header", "payload", "response_buf"}}
        /\ Distinct(memory.free)
    BY <1>4, <2>1, <2>2, <2>5
  <2> QED
    BY <1>5, <2>1, <2>3, <2>4, <2>5
<1>7. CASE req.service = "CLOSE"
  <2>1. /\ memory.free = <<b("header")>> \o <<>> \o buffers
        /\ memory.malloc = {b("header"), b("payload"), b("response_buf")} \cup NewBlocks(created)
    BY <1>7 DEF ServletMemory, NewBlocks
  <2>2. LeftBy(n, req, resp) = {}
    BY <1>7 DEF LeftBy
  <2> HIDE DEF memory, S, buffers
  <2>3. /\ ToSet(memory.free) = {b(of) : of \in {} \cup {"header", "payload", "response_buf"}}
        /\ Distinct(memory.free)
    <3>1. <<>> \in Seq(S) /\ Distinct(<<>>) /\ ToSet(<<>>) = {b(of) : of \in {}}
      BY <1>2 DEF BlockNames
    <3> QED
      BY <1>4, <2>1, <3>1
  <2>4. {b("header"), b("payload"), b("response_buf")}
          = {b(of) : of \in {} \cup {"header", "payload", "response_buf"}}
    OBVIOUS
  <2> QED
    BY <1>5, <2>1, <2>2, <2>3, <2>4
<1>8. CASE req.service = "GET_KEY"
  <2> DEFINE key == IF resp.key_buffer # EmptyKey THEN {"key"} ELSE {}
             last == IF resp.status = Successful THEN "device_info" ELSE "metadata"
             names == key \cup {last}
             keyptr == IF key # {} THEN <<b("key")>> ELSE <<>>
             ptrs == <<>> \o keyptr \o <<b(last)>>
  <2>1. memory.free = <<b("header")>> \o ptrs \o buffers
    BY <1>8 DEF ServletMemory, free_qkd_get_key_request
  <2>2. memory.malloc = {b(of) : of \in names \cup {"header", "payload", "response_buf"}}
                          \cup LeftBy(n, req, resp) \cup NewBlocks(created)
    <3>1. memory.malloc =
            {b("header"), b("payload"), b("response_buf")} \cup {b("metadata")}
              \cup (IF resp.key_buffer # EmptyKey THEN {b("key")} ELSE {})
              \cup (IF resp.status = Successful THEN {b("device_info")} ELSE {})
              \cup NewBlocks(created)
      BY <1>8 DEF ServletMemory, NewBlocks
    <3>2. LeftBy(n, req, resp) = IF resp.status = Successful THEN {b("metadata")} ELSE {}
      BY <1>8 DEF LeftBy
    <3>3. {b(of) : of \in key} = IF resp.key_buffer # EmptyKey THEN {b("key")} ELSE {}
      OBVIOUS
    <3> HIDE DEF b, key, memory
    <3>4. {b(of) : of \in names \cup {"header", "payload", "response_buf"}}
            = {b(of) : of \in key} \cup {b(last), b("header"), b("payload"), b("response_buf")}
      OBVIOUS
    <3> QED
      BY <3>1, <3>2, <3>3, <3>4
  <2>3. "metadata" \in names => LeftBy(n, req, resp) = {}
    BY DEF LeftBy
  <2>4. keyptr \in Seq(S) /\ Distinct(keyptr) /\ ToSet(keyptr) = {b(of) : of \in key}
    <3>1. "key" \in BlockNames
      BY DEF BlockNames, FieldNames
    <3>2. CASE resp.key_buffer # EmptyKey
      <4>1. keyptr = <<b("key")>> /\ {b(of) : of \in key} = {b("key")}
        BY <3>2
      <4> QED
        BY <1>2, <3>1, <4>1
    <3>3. CASE resp.key_buffer = EmptyKey
      <4>1. keyptr = <<>> /\ {b(of) : of \in key} = {}
        BY <3>3
      <4> QED
        BY <1>2, <3>1, <4>1
    <3> QED
      BY <3>2, <3>3
  <2>5. {b(of) : of \in key} \cap {b(last)} = {}
    BY BlocksDiffer
  <2>6. ptrs \in Seq(S) /\ Distinct(ptrs) /\ ToSet(ptrs) = {b(of) : of \in names}
    <3>1. last \in BlockNames
      BY DEF BlockNames, FieldNames
    <3> HIDE DEF keyptr, key, last, S, b
    <3> DEFINE lastptr == <<b(last)>>
    <3>2. lastptr \in Seq(S) /\ Distinct(lastptr) /\ ToSet(lastptr) = {b(last)}
      BY <1>2, <3>1
    <3>3. <<>> \o keyptr = keyptr
      BY <2>4
    <3>4. {b(of) : of \in names} = {b(of) : of \in key} \cup {b(last)}
      OBVIOUS
    <3>5. ptrs = keyptr \o lastptr
      BY <3>3
    <3> HIDE DEF lastptr, ptrs
    <3>6. /\ keyptr \o lastptr \in Seq(S) /\ Distinct(keyptr \o lastptr)
          /\ ToSet(keyptr \o lastptr) = ToSet(keyptr) \cup ToSet(lastptr)
      BY <2>4, <2>5, <3>2, MorePointers
    <3> QED
      BY <2>4, <3>2, <3>4, <3>5, <3>6
  <2>7. names \in SUBSET FieldNames
    BY DEF FieldNames
  <2> HIDE DEF ptrs, names, memory, S, buffers
  <2>8. /\ ToSet(memory.free) = {b(of) : of \in names \cup {"header", "payload", "response_buf"}}
        /\ Distinct(memory.free)
    BY <1>4, <2>1, <2>6, <2>7
  <2> QED
    BY <1>5, <2>2, <2>3, <2>8
<1> QED
  BY <1>6, <1>7, <1>8

\* The client keeps the TLS context, the session, the header and what the application
\* was given.
ClientKeeps(n, req, by) ==
  LET memory == ClientMemory(n, req, by)
      kept == {Block(n, of) : of \in HeldOfCall(req, by)}
  IN /\ FreesOwn(n, memory)
     /\ memory.malloc = kept \cup ToSet(memory.free)
     /\ kept \cap ToSet(memory.free) = {}

\* What a call frees on the client side it allocated itself, each block once; what it
\* leaves is HeldOfCall.
LEMMA ClientFrees ==
  ASSUME NEW n, NEW req, req.service \in {"OPEN_CONNECT", "GET_KEY", "CLOSE"}, NEW by
  PROVE  ClientKeeps(n, req, by)
<1> DEFINE b(of) == Block(n, of)
           open == req.service = "OPEN_CONNECT"
           memory == ClientMemory(n, req, by)
           names == IF open THEN {"struct mimetype"} ELSE {}
           ptrs == IF open THEN <<b("struct mimetype")>> ELSE <<>>
           fields == CASE open -> {"response mimetype", "qos mimetype"}
                       [] req.service = "GET_KEY" -> {"key_buffer", "metadata"}
                       [] req.service = "CLOSE" -> {}
           texts == ApiTexts(req, by)
           S == BlocksOf(n)
<1>1. \A of \in BlockNames : /\ <<b(of)>> \in Seq(S) /\ Distinct(<<b(of)>>)
                             /\ ToSet(<<b(of)>>) = {b(of)}
                             /\ <<>> \in Seq(S) /\ Distinct(<<>>) /\ ToSet(<<>>) = {}
  <2>1. \A of \in BlockNames : b(of) \in S
    BY DEF BlocksOf
  <2> QED
    BY <2>1, FewPointers
<1>2. "payload" \in BlockNames /\ "struct mimetype" \in BlockNames
  BY DEF BlockNames, FieldNames
<1>3. ptrs \in Seq(S) /\ Distinct(ptrs) /\ ToSet(ptrs) = {b(of) : of \in names}
  <2>1. CASE open
    <3>1. ptrs = <<b("struct mimetype")>> /\ {b(of) : of \in names} = {b("struct mimetype")}
      BY <2>1
    <3> QED
      BY <1>1, <1>2, <3>1
  <2>2. CASE ~open
    <3>1. ptrs = <<>> /\ {b(of) : of \in names} = {}
      BY <2>2
    <3> QED
      BY <1>1, <1>2, <3>1
  <2> QED
    BY <2>1, <2>2
<1>4. names \in SUBSET FieldNames
  BY DEF FieldNames
<1>5. memory.free = <<b("request_buf")>> \o ptrs \o <<b("payload")>>
  BY DEF ClientMemory
<1>6. /\ ToSet(memory.free) = {b(of) : of \in names \cup {"request_buf", "payload"}}
      /\ Distinct(memory.free)
  <2> DEFINE last == <<b("payload")>>
  <2>1. last \in Seq(S) /\ Distinct(last) /\ ToSet(last) = {Block(n, "payload")}
    BY <1>1, <1>2
  <2> HIDE DEF last, ptrs, memory, names
  <2>2. LET free == <<Block(n, "request_buf")>> \o ptrs \o last
        IN /\ ToSet(free) = {Block(n, "request_buf")} \cup ToSet(ptrs) \cup ToSet(last)
           /\ Distinct(free)
    BY <1>3, <1>4, <2>1, BetweenBuffers
  <2>3. /\ ToSet(memory.free) = {b("request_buf")} \cup ToSet(ptrs) \cup ToSet(last)
        /\ Distinct(memory.free)
    BY <1>5, <2>2 DEF last
  <2> QED
    BY <1>3, <2>1, <2>3
<1>7. HeldOfCall(req, by) = {"ctx", "ssl_socket", "header"} \cup fields \cup texts
  BY DEF HeldOfCall
<1>8. memory.malloc = {b(of) : of \in names \cup {"request_buf", "payload"}}
                        \cup {b(of) : of \in {"ctx", "ssl_socket", "header"} \cup fields \cup texts}
  <2>1. memory.malloc = {b("request_buf"), b("ctx"), b("ssl_socket"), b("header"), b("payload")} \cup
                   (CASE open -> {b("struct mimetype"), b("response mimetype"), b("qos mimetype")}
                      [] req.service = "GET_KEY" -> {b("key_buffer"), b("metadata")}
                      [] req.service = "CLOSE" -> {})
                   \cup {b(text) : text \in texts}
    BY DEF ClientMemory
  <2>2. CASE open
    <3>1. fields = {"response mimetype", "qos mimetype"}
      BY <2>2
    <3> HIDE DEF b, texts, memory, fields
    <3> QED
      BY <2>1, <2>2, <3>1
  <2>3. CASE req.service = "GET_KEY"
    <3>1. fields = {"key_buffer", "metadata"} /\ ~open
      BY <2>3
    <3> HIDE DEF b, texts, memory, fields
    <3> QED
      BY <2>1, <2>3, <3>1
  <2>4. CASE req.service = "CLOSE"
    <3>1. fields = {} /\ ~open
      BY <2>4
    <3> HIDE DEF b, texts, memory, fields
    <3> QED
      BY <2>1, <2>4, <3>1
  <2> QED
    BY <2>2, <2>3, <2>4
<1>9. \A of \in {"ctx", "ssl_socket", "header"} \cup fields \cup texts : of \notin names \cup {"request_buf", "payload"}
  <2>1. fields \subseteq {"response mimetype", "qos mimetype", "key_buffer", "metadata"}
    OBVIOUS
  <2>2. texts \subseteq {"id text", "nil id text"}
    BY DEF ApiTexts
  <2> HIDE DEF fields, texts
  <2> QED
    BY <2>1, <2>2
<1> HIDE DEF memory, fields, texts, names
<1>10. FreesOwn(n, memory)
  BY <1>6, <1>8 DEF FreesOwn
<1>11. {b(of) : of \in {"ctx", "ssl_socket", "header"} \cup fields \cup texts} \cap ToSet(memory.free) = {}
  BY <1>6, <1>9, BlocksDiffer
<1> QED
  BY <1>6, <1>7, <1>8, <1>10, <1>11 DEF ClientKeeps, memory

-----------------------------------------------------------------------------
(* The invariant and the theorems. *)

\* Blocks of the call in progress are none of those that are held from before.
LEMMA OldBlocks ==
  ASSUME Numbered, phase # "idle", NEW b \in HeldByServer \cup HeldByClients, NEW of
  PROVE  b # Block(call.n, of)
<1>1. ASSUME NEW r \in Exchanged, NEW a
      PROVE  Block(r.n, a) # Block(call.n, of)
  <2>1. r.n # call.n
    BY DEF Numbered
  <2> QED
    BY <2>1, BlocksDiffer
<1>2. CASE \E ksid : b \in NodeBlocks(ksid)
  BY <1>2, BlocksDiffer
<1>3. CASE \E r \in Exchanged : \E a : b = Block(r.n, a)
  BY <1>1, <1>3
<1>4. b \in HeldByServer =>
        \/ \E ksid : b \in NodeBlocks(ksid)
        \/ \E r \in Exchanged : b = Block(r.n, "metadata")
  <2> DEFINE nodes == ListBlocks(ksid_info_linked_list)
             kept == {Block(r.n, "metadata") :
                        r \in {x \in GetKeys : x.response.status = Successful /\ x.run = restarts}}
  <2>1. HeldByServer = nodes \cup kept
    BY DEF HeldByServer
  <2>2. b \in kept => \E r \in Exchanged : b = Block(r.n, "metadata")
    BY DEF GetKeys
  <2>3. b \in nodes => \E ksid : b \in NodeBlocks(ksid)
    BY DEF ListBlocks
  <2> HIDE DEF nodes, kept
  <2> QED
    BY <2>1, <2>2, <2>3
<1>5. b \in HeldByClients => \E r \in Exchanged : \E a : b = Block(r.n, a)
  BY DEF HeldByClients
<1> QED
  BY <1>2, <1>3, <1>4, <1>5

\* The list has the nodes it had, and those that were created.
LEMMA NodesKept ==
  ASSUME KmsInv, NEW req \in Request, HandleRequest(req)
  PROVE  LET created == {m.key_stream_id : m \in minted' \ minted}
         IN ListBlocks(ksid_info_linked_list')
              = ListBlocks(ksid_info_linked_list) \cup NewBlocks(created)
<1> DEFINE list == ksid_info_linked_list
           created == {m.key_stream_id : m \in minted' \ minted}
<1>1. list \in Seq(Node)
  BY DEF KmsInv, KmsTypeOK
<1>2. ASSUME list' = list, minted' = minted
      PROVE  created = {} /\ NewBlocks(created) = {}
  BY <1>2 DEF NewBlocks
<1>3. CASE OpenNamed(req) \/ OpenJoined(req) \/ qkd_close(req)
  BY <1>2, <1>3 DEF OpenNamed, OpenJoined, qkd_close
<1>4. CASE qkd_get_key(req)
  <2>1. SameStreams
    BY <1>4, GetKeySame DEF KmsInv
  <2>2. created = {} /\ NewBlocks(created) = {}
    BY <2>1 DEF SameStreams, NewBlocks
  <2>3. \A i \in DOMAIN list : i \in DOMAIN list' /\ list'[i].key_stream_id = list[i].key_stream_id
    BY <2>1 DEF SameStreams
  <2>4. DOMAIN list' = DOMAIN list
    BY <2>1 DEF SameStreams
  <2>5. ListBlocks(list') = ListBlocks(list)
    BY <2>3, <2>4 DEF ListBlocks, ToSet
  <2> QED
    BY <2>2, <2>5
<1>5. CASE OpenCreated(req)
  <2>1. PICK ksid : /\ NewStream(req, ksid)
                    /\ list' = Append(list, NewNode(req, ksid))
    BY <1>5 DEF OpenCreated, Inserted
  <2> DEFINE new == [key_stream_id |-> ksid, pair |-> req.pair, qos |-> req.qos, run |-> restarts]
  <2>2. minted' = minted \cup {new} /\ ksid \notin MintedIds /\ new.key_stream_id = ksid
    BY <2>1 DEF NewStream
  <2> HIDE DEF new
  <2>3. new \notin minted
    BY <2>2 DEF MintedIds
  <2>4. created = {ksid}
    BY <2>2, <2>3
  <2>5. NewBlocks(created) = NodeBlocks(ksid)
    BY <2>4 DEF NewBlocks, NewNodeBlocks
  <2> DEFINE node0 == NewNode(req, ksid)
  <2>6. node0.key_stream_id = ksid
    BY DEF NewNode
  <2> HIDE DEF node0
  <2>7. ToSet(list') = ToSet(list) \cup {node0}
    <3>1. /\ DOMAIN list' = DOMAIN list \cup {Len(list) + 1}
          /\ \A i \in DOMAIN list : list'[i] = list[i]
          /\ list'[Len(list) + 1] = node0
      BY <1>1, <2>1 DEF node0
    <3> QED
      BY <3>1 DEF ToSet
  <2>8. ListBlocks(list') = ListBlocks(list) \cup NodeBlocks(ksid)
    <3> HIDE DEF list
    <3> QED
      BY <2>6, <2>7 DEF ListBlocks
  <2> QED
    BY <2>5, <2>8
<1> QED
  BY <1>3, <1>4, <1>5 DEF HandleRequest, qkd_open_connect

\* Writing a message frees nothing.
LEMMA MishapsFreeNothing ==
  ASSUME NEW who, NEW msg, NEW payload, NEW size, NEW e \in Mishap(who, msg, payload, size)
  PROVE  e[2] # "bad free"
<1>1. PICK why \in {"abort", "overrun", "oversize"} : e = <<who, why>>
  BY DEF Mishap
<1> QED
  BY <1>1

\* The answer has the status that the handler gave.
LEMMA AnswerStatus ==
  ASSUME NEW req \in AppRequest, NEW resp \in Response, resp.service = req.service
  PROVE  req.service = "GET_KEY" => ResponseStruct(req, resp).status = resp.status
<1> SUFFICES ASSUME req.service = "GET_KEY"
             PROVE  ResponseStruct(req, resp).status = resp.status
  OBVIOUS
<1>1. resp \in GetKeyResponse
  BY DEF Response, OpenConnectResponse, GetKeyResponse, CloseResponse
<1> QED
  BY <1>1 DEF ResponseStruct, GetKeyResponse

\* The servlet frees what it allocated, but for new nodes and the metadata of a
\* GET_KEY that succeeds.
LEMMA MemoryServe ==
  ASSUME Inv, MemoryInv, Serve
  PROVE  MemoryInv'
<1> DEFINE req == call.request
           answer == ResponseStruct(req, response')
           created == {m.key_stream_id : m \in minted' \ minted}
           memory == ServletMemory(call.n, req, response', created)
           kept == NewBlocks(created) \cup LeftBy(call.n, req, response')
           mishap == Mishap("server", answer, response_to_stream(answer),
                            qkd_sizeof_response(answer))
<1>1. /\ phase = "request" /\ phase' = "response" /\ Sound
      /\ call'.request = req /\ call'.answer = answer /\ call'.run = call.run /\ call'.n = call.n
      /\ \E key_info \in KeyInfoOctets(req) : HandleRequest(HandlerArguments(req, key_info))
      /\ heap' = HeapAfter("server", memory)
      /\ ended' = ended \cup mishap \cup BadFree("server", memory)
      /\ UNCHANGED <<calls, returned>>
  BY ServeReads DEF ServeStep, Served
<1>2. req \in AppRequest /\ KmsInv
  BY <1>1 DEF Inv, RequestInv
<1>3. PICK key_info \in KeyInfoOctets(req) : HandleRequest(HandlerArguments(req, key_info))
  BY <1>1
<1>4. /\ HandlerArguments(req, key_info) \in Request
      /\ HandlerArguments(req, key_info).service = req.service
  BY <1>2, HandlerArgumentsType
<1>5. response' \in Response /\ response'.service = req.service
  BY <1>2, <1>3, <1>4, HandlerAnswers
<1>6. restarts' = restarts
  BY <1>3 DEF HandleRequest, qkd_open_connect, qkd_get_key, qkd_close
<1>7. ListBlocks(ksid_info_linked_list') = ListBlocks(ksid_info_linked_list) \cup NewBlocks(created)
  BY <1>2, <1>3, <1>4, NodesKept
<1>8. LeftBy(call'.n, call'.request, call'.answer) = LeftBy(call.n, req, response')
  BY <1>1, <1>2, <1>5, AnswerStatus DEF LeftBy
<1>9. ServletKeeps(call.n, req, response', created)
  <2>1. req.service \in {"OPEN_CONNECT", "GET_KEY", "CLOSE"}
    BY <1>2, RequestServices DEF AppRequest
  <2> QED
    BY <2>1, ServletFrees
<1> HIDE DEF created, memory, mishap, answer, req
<1>10. /\ FreesOwn(call.n, memory)
       /\ memory.malloc = kept \cup ToSet(memory.free)
       /\ kept \cap ToSet(memory.free) = {}
  <2>1. /\ FreesOwn(call.n, memory)
        /\ memory.malloc = NewBlocks(created) \cup ToSet(memory.free)
                             \cup LeftBy(call.n, req, response')
        /\ LeftBy(call.n, req, response') \cap ToSet(memory.free) = {}
    BY <1>9 DEF ServletKeeps, memory
  <2>2. NewBlocks(created) \cap ToSet(memory.free) = {}
    BY <2>1, BlocksDiffer DEF FreesOwn, NewBlocks, NewNodeBlocks
  <2> QED
    BY <2>1, <2>2
<1>11. heap = [client |-> HeldByClients, server |-> HeldByServer]
  BY <1>1 DEF MemoryInv, HeldNow
<1>12. /\ BadFree("server", memory) = {}
       /\ (heap["server"] \cup memory.malloc) \ ToSet(memory.free) = HeldByServer \cup kept
  <2> HIDE DEF kept
  <2>1. heap["server"] = HeldByServer
    BY <1>11
  <2>2. \A b \in HeldByServer : \A of : b # Block(call.n, of)
    BY <1>1, OldBlocks DEF MemoryInv
  <2>3. /\ FreesLive(HeldByServer \cup memory.malloc, memory.free)
        /\ (HeldByServer \cup memory.malloc) \ ToSet(memory.free) = HeldByServer \cup kept
    <3>1. FreesLive(HeldByServer \cup memory.malloc, memory.free)
      BY <1>10 DEF FreesOwn, FreesLive, Distinct
    <3>2. \A b \in HeldByServer : b \notin ToSet(memory.free)
      BY <1>10, <2>2 DEF FreesOwn
    <3> QED
      BY <1>10, <3>1, <3>2
  <2> QED
    BY <2>1, <2>3 DEF BadFree
<1>13. HeldByClients' = HeldByClients
  BY <1>1 DEF HeldByClients, Exchanged
<1>14. HeldByServer' = HeldByServer \cup NewBlocks(created)
  BY <1>1, <1>6, <1>7 DEF HeldByServer, GetKeys, Exchanged
<1>15. heap' = [client |-> HeldByClients, server |-> HeldByServer \cup kept]
  <2>1. heap' = [heap EXCEPT !["server"] = HeldByServer \cup kept]
    BY <1>1, <1>12 DEF HeapAfter
  <2> QED
    BY <1>11, <2>1
<1>16. HeldNow'
  <2>1. HeldByServer \cup kept = HeldByServer' \cup LeftBy(call'.n, call'.request, call'.answer)
    BY <1>8, <1>14
  <2> QED
    BY <1>1, <1>13, <1>15, <2>1 DEF HeldNow
<1>17. Numbered'
  BY <1>1, <1>6 DEF MemoryInv, Numbered, Exchanged
<1>18. NoBadFree'
  <2>1. \A e \in ended' : e[2] # "bad free"
    <3>1. \A e \in mishap : e[2] # "bad free"
      BY MishapsFreeNothing DEF mishap
    <3>2. ASSUME NEW e \in ended PROVE e[2] # "bad free"
      <4>1. e = <<"client", "abort">>
        BY <1>1 DEF Sound
      <4> QED
        BY <4>1
    <3> QED
      BY <1>1, <1>12, <3>1, <3>2
  <2> QED
    BY <2>1 DEF NoBadFree
<1> QED
  BY <1>16, <1>17, <1>18 DEF MemoryInv

\* The client frees what it allocated, but for the header and what is returned.
LEMMA MemoryReturn ==
  ASSUME Inv, MemoryInv, Return
  PROVE  MemoryInv'
<1> DEFINE req == call.request
           r0 == Returned([value |-> call.answer, rest |-> <<>>])
           memory == ClientMemory(call.n, req, call.by)
           kept == {Block(call.n, of) : of \in HeldOfCall(req, call.by)}
<1>1. /\ phase = "response" /\ phase' = "idle" /\ Sound
      /\ returned' = returned \cup {r0}
      /\ heap' = HeapAfter("client", memory)
      /\ \E overrun \in {{<<"client", "sindex">>}, {}} :
           ended' = ended \cup BadFree("client", memory) \cup overrun
      /\ calls' = calls /\ restarts' = restarts
      /\ ksid_info_linked_list' = ksid_info_linked_list
  BY ReturnReads DEF kmsVars
<1>2. /\ "answer" \in DOMAIN r0
      /\ r0.n = call.n /\ r0.run = call.run /\ r0.by = call.by /\ r0.request = req
      /\ r0.response = call.answer
  BY DEF Returned
<1>3. req.service \in {"OPEN_CONNECT", "GET_KEY", "CLOSE"}
  BY <1>1, RequestServices DEF Inv, RequestInv, AppRequest
<1>4. /\ FreesOwn(call.n, memory)
      /\ memory.malloc = kept \cup ToSet(memory.free)
      /\ kept \cap ToSet(memory.free) = {}
  <2>1. ClientKeeps(call.n, req, call.by)
    BY <1>3, ClientFrees
  <2> QED
    BY <2>1 DEF ClientKeeps
<1> HIDE DEF r0, memory, req
<1>5. /\ heap["client"] = HeldByClients
      /\ heap = [client |-> HeldByClients,
                 server |-> HeldByServer \cup LeftBy(call.n, req, call.answer)]
  BY <1>1 DEF MemoryInv, HeldNow, req
<1>6. /\ BadFree("client", memory) = {}
      /\ (heap["client"] \cup memory.malloc) \ ToSet(memory.free) = HeldByClients \cup kept
  <2> HIDE DEF kept
  <2>1. \A b \in HeldByClients : \A of : b # Block(call.n, of)
    BY <1>1, OldBlocks DEF MemoryInv
  <2>2. /\ FreesLive(HeldByClients \cup memory.malloc, memory.free)
        /\ (HeldByClients \cup memory.malloc) \ ToSet(memory.free) = HeldByClients \cup kept
    <3>1. FreesLive(HeldByClients \cup memory.malloc, memory.free)
      BY <1>4 DEF FreesOwn, FreesLive, Distinct
    <3>2. \A b \in HeldByClients : b \notin ToSet(memory.free)
      BY <1>4, <2>1 DEF FreesOwn
    <3> QED
      BY <1>4, <3>1, <3>2
  <2> QED
    BY <1>5, <2>2 DEF BadFree
<1>7. Exchanged' = Exchanged \cup {r0}
  BY <1>1, <1>2 DEF Exchanged
<1>8. HeldByClients' = HeldByClients \cup kept
  <2>1. {{Block(r.n, of) : of \in HeldOfCall(r.request, r.by)} : r \in Exchanged \cup {r0}}
          = {{Block(r.n, of) : of \in HeldOfCall(r.request, r.by)} : r \in Exchanged} \cup {kept}
    BY <1>2
  <2> HIDE DEF kept
  <2> QED
    BY <1>7, <2>1 DEF HeldByClients
<1>9. HeldByServer' = HeldByServer \cup LeftBy(call.n, req, call.answer)
  <2> DEFINE Left(R) == {x \in R : /\ x.request.service = "GET_KEY"
                                   /\ x.response.status = Successful /\ x.run = restarts}
  <2>1. HeldByServer = ListBlocks(ksid_info_linked_list)
                         \cup {Block(r.n, "metadata") : r \in Left(Exchanged)}
    BY DEF HeldByServer, GetKeys
  <2>2. HeldByServer' = ListBlocks(ksid_info_linked_list)
                          \cup {Block(r.n, "metadata") : r \in Left(Exchanged \cup {r0})}
    BY <1>1, <1>7 DEF HeldByServer, GetKeys
  <2>3. call.run = restarts
    BY <1>1 DEF MemoryInv, Numbered
  <2>4. CASE req.service = "GET_KEY" /\ call.answer.status = Successful
    <3>1. Left(Exchanged \cup {r0}) = Left(Exchanged) \cup {r0}
      BY <1>2, <2>3, <2>4
    <3>2. {Block(r.n, "metadata") : r \in Left(Exchanged \cup {r0})}
            = {Block(r.n, "metadata") : r \in Left(Exchanged)} \cup {Block(call.n, "metadata")}
      <4> HIDE DEF Left
      <4> QED
        BY <1>2, <3>1
    <3>3. LeftBy(call.n, req, call.answer) = {Block(call.n, "metadata")}
      BY <2>4 DEF LeftBy
    <3> QED
      BY <2>1, <2>2, <3>2, <3>3
  <2>5. CASE ~(req.service = "GET_KEY" /\ call.answer.status = Successful)
    <3>1. Left(Exchanged \cup {r0}) = Left(Exchanged)
      BY <1>2, <2>5
    <3>2. LeftBy(call.n, req, call.answer) = {}
      BY <2>5 DEF LeftBy
    <3> QED
      BY <2>1, <2>2, <3>1, <3>2
  <2> QED
    BY <2>4, <2>5
<1> HIDE DEF kept
<1>10. heap' = [client |-> HeldByClients',
                server |-> HeldByServer']
  <2>1. heap' = [heap EXCEPT !["client"] = HeldByClients \cup kept]
    BY <1>1, <1>6 DEF HeapAfter
  <2> DEFINE server == HeldByServer \cup LeftBy(call.n, req, call.answer)
             client == HeldByClients \cup kept
  <2>2. heap' = [client |-> client, server |-> server]
    <3>1. heap = [client |-> HeldByClients, server |-> server]
      BY <1>5
    <3>2. heap' = [heap EXCEPT !["client"] = client]
      BY <2>1
    <3> HIDE DEF server, client
    <3> QED
      BY <3>1, <3>2
  <2> QED
    BY <1>8, <1>9, <2>2
<1>11. HeldNow'
  BY <1>1, <1>10 DEF HeldNow
<1>12. Numbered'
  <2>1. call.n = calls /\ call.run = restarts /\ calls \in Nat /\ restarts \in Nat
    BY <1>1 DEF MemoryInv, Numbered, Inv, ScriptInv, KmsInv, KmsTypeOK
  <2> QED
    BY <1>1, <1>2, <1>7, <2>1 DEF MemoryInv, Numbered
<1>13. NoBadFree'
  <2>1. ASSUME NEW e \in ended' PROVE e[2] # "bad free"
    <3>1. e = <<"client", "abort">> \/ e = <<"client", "sindex">>
      BY <1>1, <1>6 DEF Sound
    <3>2. ASSUME NEW why \in {"abort", "sindex"}, e = <<"client", why>>
          PROVE  e[2] # "bad free"
      BY <3>2
    <3> QED
      BY <3>1, <3>2
  <2> QED
    BY <2>1 DEF NoBadFree
<1> QED
  BY <1>11, <1>12, <1>13 DEF MemoryInv

\* A step that leaves memory, returned calls and streams alone.
LEMMA MemoryKept ==
  ASSUME MemoryInv, phase' # "response", phase # "response",
         UNCHANGED <<heap, ksid_info_linked_list, restarts>>, Exchanged' = Exchanged
  PROVE  HeldNow'
<1>1. HeldByClients' = HeldByClients /\ HeldByServer' = HeldByServer
  BY DEF HeldByClients, HeldByServer, GetKeys
<1> QED
  BY <1>1 DEF MemoryInv, HeldNow

\* MemoryInv is an invariant.
THEOREM ExchangeMemoryInvariant == Spec => []MemoryInv
<1>1. Init => MemoryInv
  <2> SUFFICES ASSUME Init PROVE MemoryInv
    OBVIOUS
  <2>1. Exchanged = {} /\ GetKeys = {}
    BY DEF Init, Exchanged, GetKeys
  <2>2. ToSet(ksid_info_linked_list) = {}
    BY DEF Init, KmsInit, ToSet
  <2>3. HeldByServer = {} /\ HeldByClients = {}
    BY <2>1, <2>2 DEF HeldByServer, HeldByClients, ListBlocks
  <2>4. HeldNow
    BY <2>3 DEF Init, HeldNow
  <2>5. Numbered /\ NoBadFree
    BY <2>1 DEF Init, Numbered, NoBadFree
  <2> QED
    BY <2>4, <2>5 DEF MemoryInv
<1>2. Inv /\ MemoryInv /\ [Next]_vars => MemoryInv'
  <2> SUFFICES ASSUME Inv, MemoryInv, [Next]_vars PROVE MemoryInv'
    OBVIOUS
  <2>1. calls \in Nat /\ restarts \in Nat
    BY DEF Inv, ScriptInv, KmsInv, KmsTypeOK
  <2>2. \A r \in Exchanged : /\ r.n \in Nat /\ r.n <= calls /\ r.n < calls + 1
                             /\ r.run \in Nat /\ r.run <= restarts
    BY <2>1 DEF MemoryInv, Numbered
  <2>3. Sound => \A e \in ended : e[2] # "bad free"
    <3> SUFFICES ASSUME Sound, NEW e \in ended PROVE e[2] # "bad free"
      OBVIOUS
    <3>1. e = <<"client", "abort">>
      BY DEF Sound
    <3> QED
      BY <3>1
  <2>4. CASE Serve
    BY <2>4, MemoryServe
  <2>5. CASE Return
    BY <2>5, MemoryReturn
  <2>6. CASE \E by, file, req : LibraryCall(by, file, req)
    <3>1. PICK by, file, req : LibraryCall(by, file, req)
      BY <2>6
    <3> DEFINE mishap == Mishap("client", req, request_to_stream(req), qkd_sizeof_request(req))
    <3>2. /\ phase = "idle" /\ Sound /\ calls' = calls + 1
          /\ call' = Called(by, file, req)
          /\ ended' = ended \cup mishap
          /\ phase' = "request" \/ phase' = phase
          /\ UNCHANGED <<returned, heap, ksid_info_linked_list, restarts>>
      BY <3>1 DEF LibraryCall, kmsVars
    <3>3. call'.n = calls' /\ call'.run = restarts'
      BY <3>2 DEF Called
    <3>4. Exchanged' = Exchanged
      BY <3>2 DEF Exchanged
    <3>5. HeldNow'
      BY <3>2, <3>4, MemoryKept
    <3>6. Numbered'
      BY <2>1, <2>2, <3>2, <3>3, <3>4 DEF Numbered
    <3>7. \A e \in mishap : e[2] # "bad free"
      BY MishapsFreeNothing
    <3> HIDE DEF mishap
    <3>8. NoBadFree'
      BY <2>3, <3>2, <3>7 DEF NoBadFree
    <3> QED
      BY <3>5, <3>6, <3>8 DEF MemoryInv
  <2>7. ASSUME ApiReturns, Exchanged' = Exchanged
        PROVE  HeldNow' /\ Numbered'
    <3>1. /\ phase = "idle" /\ phase' = "idle" /\ calls' = calls + 1
          /\ UNCHANGED <<heap, ksid_info_linked_list, restarts>>
      BY <2>7 DEF ApiReturns, kmsVars
    <3>2. HeldNow'
      BY <2>7, <3>1, MemoryKept
    <3>3. Numbered'
      BY <2>1, <2>2, <2>7, <3>1 DEF Numbered
    <3> QED
      BY <3>2, <3>3
  <2>8. CASE ApiOpenConnectUnparsable
    <3>1. ApiReturns /\ Exchanged' = Exchanged
      BY <2>8 DEF ApiOpenConnectUnparsable, Exchanged
    <3>2. NoBadFree'
      <4>1. ended' = ended \/ ended' = ended \cup {<<"client", "bad free">>}
        BY <2>8 DEF ApiOpenConnectUnparsable
      <4>2. phase' = "idle" /\ Sound /\ \A r \in Exchanged' : r.n < calls'
        BY <2>1, <2>2, <3>1 DEF ApiReturns
      <4>3. ASSUME NEW e \in ended', e[2] = "bad free"
            PROVE  e[1] = "client"
        <5>1. e = <<"client", "bad free">>
          BY <2>3, <4>1, <4>2, <4>3
        <5> QED
          BY <5>1
      <4> QED
        BY <4>2, <4>3 DEF NoBadFree
    <3> QED
      BY <2>7, <3>1, <3>2 DEF MemoryInv
  <2>9. CASE ApiGetKeyUnparsable
    <3>1. ApiReturns /\ Exchanged' = Exchanged /\ ended' = ended
      BY <2>9 DEF ApiGetKeyUnparsable, Exchanged
    <3>2. NoBadFree'
      BY <2>3, <3>1 DEF NoBadFree, ApiReturns
    <3> QED
      BY <2>7, <3>1, <3>2 DEF MemoryInv
  <2>10. CASE RestartServer
    <3>1. /\ phase = "idle" /\ phase' = phase /\ calls' = calls /\ ended' = ended /\ Sound
          /\ restarts' = restarts + 1
          /\ heap' = [heap EXCEPT !["server"] = {}]
          /\ ksid_info_linked_list' = <<>>
          /\ Exchanged' = Exchanged /\ GetKeys' = GetKeys /\ GetKeys \subseteq Exchanged
      BY <2>10 DEF RestartServer, Restart, Exchanged, GetKeys
    <3>2. HeldByServer' = {}
      <4>1. ToSet(ksid_info_linked_list') = {}
        BY <3>1 DEF ToSet
      <4>2. \A r \in GetKeys' : r.run # restarts'
        BY <2>1, <2>2, <3>1
      <4> QED
        BY <4>1, <4>2 DEF HeldByServer, ListBlocks
    <3>3. HeldByClients' = HeldByClients
      BY <3>1 DEF HeldByClients
    <3>4. HeldNow'
      BY <3>1, <3>2, <3>3 DEF MemoryInv, HeldNow
    <3>5. Numbered'
      BY <2>1, <2>2, <3>1 DEF Numbered
    <3>6. NoBadFree'
      BY <2>3, <3>1 DEF NoBadFree
    <3> QED
      BY <3>4, <3>5, <3>6 DEF MemoryInv
  <2>11. CASE UNCHANGED vars
    <3>1. /\ UNCHANGED <<phase, call, calls, returned, heap, ended, ksid_info_linked_list, restarts>>
          /\ Exchanged' = Exchanged /\ GetKeys' = GetKeys
      BY <2>11 DEF vars, exchangeVars, kmsVars, Exchanged, GetKeys
    <3>2. HeldByServer' = HeldByServer /\ HeldByClients' = HeldByClients
      BY <3>1 DEF HeldByServer, HeldByClients
    <3> QED
      BY <3>1, <3>2 DEF MemoryInv, HeldNow, Numbered, NoBadFree
  <2> QED
    BY <2>4, <2>5, <2>6, <2>8, <2>9, <2>10, <2>11, StepKinds
<1> QED
  BY <1>1, <1>2, ExchangeInvariant, PTL DEF Spec

\* A call that goes to the server frees only blocks it has allocated, and each once,
\* on success and on failure (memory_free_utils.c:38).
THEOREM ExchangeNoBadFree == Spec => []NoBadFree
<1>1. MemoryInv => NoBadFree
  BY DEF MemoryInv
<1> QED
  BY <1>1, ExchangeMemoryInvariant, PTL

\* Between calls every block is accounted for, however many calls and restarts there
\* were.
THEOREM ExchangeMemoryAccounted == Spec => []MemoryAccounted
<1>1. MemoryInv => MemoryAccounted
  BY DEF MemoryInv, HeldNow, MemoryAccounted
<1> QED
  BY <1>1, ExchangeMemoryInvariant, PTL
=============================================================================
