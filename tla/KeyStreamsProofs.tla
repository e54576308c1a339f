-------------------------- MODULE KeyStreamsProofs --------------------------
(***************************************************************************)
(* Proofs about the key management server, for every set of pairs, QoS,    *)
(* indices and ids and any number of streams and restarts.                 *)
(***************************************************************************)
EXTENDS KeyStreams, WellFoundedInduction, TLAPS

\* A non-empty set of natural numbers has a least element, which Min returns.
LEMMA MinIsMember ==
  ASSUME NEW S \in SUBSET Nat, S # {}
  PROVE  Min(S) \in S
<1>1. PICK x \in S : \A y \in S : ~(<<y, x>> \in OpToRel(<, Nat))
  BY NatLessThanWellFounded, WFMin, Zenon
<1>2. \A y \in S : ~(y < x)
  BY <1>1 DEF OpToRel
<1>3. \A y \in S : x <= y
  BY <1>2
<1> QED
  BY <1>3 DEF Min

\* The node at which a search of the list stops is a node that matches.
LEMMA SearchFindsMatch ==
  ASSUME KmsTypeOK
  PROVE  /\ \A pair : NodesOfPair(pair) # {} =>
              LET i == Min(NodesOfPair(pair))
              IN i \in DOMAIN ksid_info_linked_list /\ ksid_info_linked_list[i].pair = pair
         /\ \A ksid : NodesOfKsid(ksid) # {} =>
              LET i == Min(NodesOfKsid(ksid))
              IN /\ i \in DOMAIN ksid_info_linked_list
                 /\ ksid_info_linked_list[i].key_stream_id = ksid
<1>1. DOMAIN ksid_info_linked_list \in SUBSET Nat
  BY DEF KmsTypeOK
<1>2. ASSUME NEW pair, NodesOfPair(pair) # {}
      PROVE  Min(NodesOfPair(pair)) \in NodesOfPair(pair)
  BY <1>1, <1>2, MinIsMember DEF NodesOfPair
<1>3. ASSUME NEW ksid, NodesOfKsid(ksid) # {}
      PROVE  Min(NodesOfKsid(ksid)) \in NodesOfKsid(ksid)
  BY <1>1, <1>3, MinIsMember DEF NodesOfKsid
<1> QED
  BY <1>2, <1>3 DEF NodesOfPair, NodesOfKsid

\* Drawing a key counts, and changes nothing else of a node.
LEMMA DrawnNode ==
  ASSUME NEW node \in Node
  PROVE  /\ Drawn(node) \in Node
         /\ Drawn(node).key_stream_id = node.key_stream_id
         /\ Drawn(node).pair = node.pair
         /\ Drawn(node).qos = node.qos
         /\ Drawn(node) = [node EXCEPT !.current_index = Incremented(@)]
<1>1. Incremented(node.current_index) \in -IntMax - 1..IntMax
  BY BoundsAssumption DEF Incremented, Node
<1> QED
  BY <1>1 DEF Drawn, Node

\* What the generators return is a key: empty, or of the size and seed asked for.
LEMMA GeneratedKeyProperties ==
  ASSUME NEW pair \in Pair, NEW qos \in Qos, NEW stream,
         stream.pair = pair, stream.qos = qos,
         NEW req \in GetKeyRequest, NEW allocated \in BOOLEAN
  PROVE  LET key == GeneratedKey(stream, req, allocated)
         IN /\ key \in Key
            /\ key = EmptyKey \/ /\ key.size = qos.key_chunk_size
                                 /\ key.seed = Seed(pair, req.index)
<1>1. req.index \in Index /\ qos.key_chunk_size \in ChunkSize
  BY DEF GetKeyRequest, Qos
<1>2. Seed(pair, req.index) \in {Seed(p, i) : p \in Pair, i \in Index}
  BY <1>1
<1> DEFINE seed == Seed(pair, req.index)
           Made(form) == [size |-> qos.key_chunk_size, seed |-> seed, form |-> form]
<1>3. GeneratedKey(stream, req, allocated) \in {EmptyKey, Made("whole"), Made("half")}
  BY DEF GeneratedKey, gen_pseudorandom_key, gen_oblivious_pseudorandom_key
<1> HIDE DEF seed
<1>4. \A form \in KeyForms : Made(form) \in Key
  BY <1>1, <1>2 DEF Key, seed
<1>5. \A form : Made(form).size = qos.key_chunk_size /\ Made(form).seed = seed
  OBVIOUS
<1> HIDE DEF Made
<1>6. EmptyKey \in Key
  BY DEF Key
<1> QED
  BY <1>3, <1>4, <1>5, <1>6 DEF KeyForms, seed

-----------------------------------------------------------------------------
(* The inductive invariant.  OneStreamPerPair and MintedOnce are not         *)
(* inductive by themselves: that a fresh id is not in the list, and that a   *)
(* pair without a node has no stream of this run, are ListIsThisRun; that    *)
(* ListIsThisRun holds after a restart is RunsSoFar.                         *)

RunsSoFar == \A m \in minted : m.run <= restarts

KmsInv == KmsTypeOK /\ OneStreamPerPair /\ MintedOnce /\ ListIsThisRun /\ RunsSoFar

\* Every node is a stream of this run, and every stream of this run is a node.
LEMMA ListIsThisRunSplit ==
  ListIsThisRun <=>
    /\ \A i \in DOMAIN ksid_info_linked_list :
         [key_stream_id |-> ksid_info_linked_list[i].key_stream_id,
          pair |-> ksid_info_linked_list[i].pair,
          qos |-> ksid_info_linked_list[i].qos,
          run |-> restarts] \in minted
    /\ \A m \in minted : m.run = restarts =>
         \E i \in DOMAIN ksid_info_linked_list :
           m = [key_stream_id |-> ksid_info_linked_list[i].key_stream_id,
                pair |-> ksid_info_linked_list[i].pair,
                qos |-> ksid_info_linked_list[i].qos,
                run |-> restarts]
  BY DEF ListIsThisRun

\* OPEN_CONNECT keeps the types.
LEMMA OpenConnectType ==
  ASSUME KmsTypeOK, NEW req \in Request, qkd_open_connect(req)
  PROVE  KmsTypeOK'
<1> USE DEF KmsTypeOK
<1>1. req.service = "OPEN_CONNECT" /\ UNCHANGED restarts
  BY DEF qkd_open_connect
<1>2. req \in OpenConnectRequest
  BY <1>1 DEF Request, GetKeyRequest, CloseRequest, OpenConnectRequest
<1>3. req.pair \in Pair /\ req.qos \in Qos /\ req.key_stream_id \in Ksid
  BY <1>2 DEF OpenConnectRequest
<1>4. \A ksid \in Ksid : OpenConnectAnswer(req, ksid) \in Response
  BY <1>3 DEF OpenConnectAnswer, Response, OpenConnectResponse
<1>5. CASE OpenNamed(req)
  BY <1>1, <1>3, <1>4, <1>5 DEF OpenNamed
<1>6. CASE OpenJoined(req)
  <2> DEFINE i == Min(NodesOfPair(req.pair))
  <2>1. i \in DOMAIN ksid_info_linked_list
    BY <1>6, SearchFindsMatch DEF OpenJoined
  <2>2. ksid_info_linked_list[i] \in Node
    BY <2>1
  <2>3. ksid_info_linked_list[i].key_stream_id \in Ksid
    BY <2>2 DEF Node, Ksid
  <2> QED
    BY <1>1, <1>4, <1>6, <2>3 DEF OpenJoined
<1>7. CASE OpenCreated(req)
  <2>1. PICK ksid \in Uuid :
          /\ NewStream(req, ksid)
          /\ ksid_info_linked_list' = Append(ksid_info_linked_list, NewNode(req, ksid))
    BY <1>7 DEF OpenCreated, IsNew, Inserted
  <2>2. NewNode(req, ksid) \in Node
    BY <1>3, BoundsAssumption DEF NewNode, Node
  <2>3. [key_stream_id |-> ksid, pair |-> req.pair, qos |-> req.qos, run |-> restarts] \in Minted
    BY <1>3 DEF Minted
  <2>4. ksid_info_linked_list' \in Seq(Node)
    BY <2>1, <2>2
  <2>5. response' \in Response
    BY <1>4, <2>1 DEF NewStream, Ksid
  <2>6. minted' \subseteq Minted
    BY <2>1, <2>3 DEF NewStream
  <2> QED
    BY <1>1, <2>4, <2>5, <2>6
<1> QED
  BY <1>5, <1>6, <1>7 DEF qkd_open_connect

\* GET_KEY keeps the types.
LEMMA GetKeyType ==
  ASSUME KmsTypeOK, NEW req \in Request, qkd_get_key(req)
  PROVE  KmsTypeOK'
<1> USE DEF KmsTypeOK
<1>1. req.service = "GET_KEY" /\ UNCHANGED <<minted, restarts>>
  BY DEF qkd_get_key
<1>2. req \in GetKeyRequest
  BY <1>1 DEF Request, GetKeyRequest, CloseRequest, OpenConnectRequest
<1>3. req.index \in Index /\ req.metadata \in KeyInfo /\ req.key_stream_id \in Ksid
  BY <1>2 DEF GetKeyRequest
<1>4. ASSUME NEW status \in {Successful, GkPeerNotConnected}, NEW key \in Key,
             NEW metadata \in KeyInfo \cup {DeviceInfo}
      PROVE  GetKeyAnswer(req, status, key, metadata) \in Response
  BY <1>3 DEF GetKeyAnswer, Response, GetKeyResponse
<1>5. CASE GetKeyUnknown(req)
  <2>1. EmptyKey \in Key
    BY DEF Key
  <2> QED
    BY <1>1, <1>3, <1>4, <1>5, <2>1 DEF GetKeyUnknown, UnknownStatus
<1>6. CASE GetKeyServed(req)
  <2> DEFINE i == Min(NodesOfKsid(req.key_stream_id))
             node == ksid_info_linked_list[i]
  <2>1. i \in DOMAIN ksid_info_linked_list
    BY <1>6, SearchFindsMatch DEF GetKeyServed, IndexedRequest
  <2>2. node \in Node
    BY <2>1
  <2>3. PICK allocated \in BOOLEAN :
          /\ response' = GetKeyAnswer(req, Successful, GeneratedKey(node, req, allocated), DeviceInfo)
          /\ ksid_info_linked_list' = [ksid_info_linked_list EXCEPT ![i] = Drawn(@)]
    BY <1>6 DEF GetKeyServed, IndexedRequest
  <2>4. GeneratedKey(node, req, allocated) \in Key
    <3>1. node.pair \in Pair /\ node.qos \in Qos
      BY <2>2 DEF Node
    <3> HIDE DEF node
    <3> QED
      BY <1>2, <3>1, GeneratedKeyProperties
  <2>5. response' \in Response
    BY <1>4, <2>3, <2>4
  <2>6. Drawn(node) \in Node
    BY <2>2, DrawnNode
  <2>7. ksid_info_linked_list' \in Seq(Node)
    BY <2>1, <2>3, <2>6
  <2> QED
    BY <1>1, <2>5, <2>7
<1> QED
  BY <1>5, <1>6 DEF qkd_get_key

\* A handler keeps the types.
LEMMA HandleType ==
  ASSUME KmsTypeOK, NEW req \in Request, HandleRequest(req)
  PROVE  KmsTypeOK'
<1>1. CASE qkd_close(req)
  BY <1>1 DEF KmsTypeOK, qkd_close, Response, CloseResponse
<1> QED
  BY <1>1, OpenConnectType, GetKeyType DEF HandleRequest

\* Steps that keep the id, pair and QoS of every node and create nothing.
SameStreams ==
  /\ UNCHANGED <<minted, restarts>>
  /\ DOMAIN ksid_info_linked_list' = DOMAIN ksid_info_linked_list
  /\ \A i \in DOMAIN ksid_info_linked_list :
       /\ ksid_info_linked_list'[i].key_stream_id = ksid_info_linked_list[i].key_stream_id
       /\ ksid_info_linked_list'[i].pair = ksid_info_linked_list[i].pair
       /\ ksid_info_linked_list'[i].qos = ksid_info_linked_list[i].qos

\* A step that leaves list and history alone keeps the invariant.
LEMMA SameStreamsSafe ==
  ASSUME KmsInv, SameStreams, KmsTypeOK'
  PROVE  KmsInv'
<1>1. OneStreamPerPair'
  BY DEF KmsInv, SameStreams, OneStreamPerPair
<1>2. MintedOnce' /\ RunsSoFar'
  BY DEF KmsInv, SameStreams, MintedOnce, RunsSoFar
<1>3. ListIsThisRun'
  BY DEF KmsInv, SameStreams, ListIsThisRun
<1> QED
  BY <1>1, <1>2, <1>3 DEF KmsInv

\* Every GET_KEY keeps the streams.
LEMMA GetKeySame ==
  ASSUME KmsTypeOK, NEW req \in Request, qkd_get_key(req)
  PROVE  SameStreams
<1>1. CASE GetKeyUnknown(req)
  BY <1>1 DEF qkd_get_key, GetKeyUnknown, SameStreams
<1>2. CASE GetKeyServed(req)
  <2> DEFINE i == Min(NodesOfKsid(req.key_stream_id))
  <2>1. i \in DOMAIN ksid_info_linked_list
    BY <1>2, SearchFindsMatch DEF GetKeyServed, IndexedRequest
  <2>2. ksid_info_linked_list' = [ksid_info_linked_list EXCEPT ![i] = Drawn(@)]
    BY <1>2 DEF GetKeyServed, IndexedRequest
  <2>3. ksid_info_linked_list[i] \in Node
    BY <2>1 DEF KmsTypeOK
  <2> HIDE DEF i
  <2> QED
    BY <2>1, <2>2, <2>3, DrawnNode DEF qkd_get_key, SameStreams
<1> QED
  BY <1>1, <1>2 DEF qkd_get_key

\* A new stream: its id is in no node and no history, its pair in no node.
LEMMA CreatedSafe ==
  ASSUME KmsInv, NEW req, OpenCreated(req), KmsTypeOK', UNCHANGED restarts
  PROVE  KmsInv'
<1> DEFINE list == ksid_info_linked_list
           Stream(l, i) == [key_stream_id |-> l[i].key_stream_id, pair |-> l[i].pair,
                            qos |-> l[i].qos, run |-> restarts]
<1>1. PICK ksid \in Uuid :
        /\ NewStream(req, ksid)
        /\ list' = Append(list, NewNode(req, ksid))
  BY DEF OpenCreated, IsNew, Inserted
<1> DEFINE last == Len(list) + 1
           new == [key_stream_id |-> ksid, pair |-> req.pair, qos |-> req.qos, run |-> restarts]
<1>2. /\ list \in Seq(Node) /\ minted \subseteq Minted
      /\ ksid \notin MintedIds
      /\ minted' = minted \cup {new}
  BY <1>1 DEF KmsInv, KmsTypeOK, NewStream
<1>3. /\ DOMAIN list = 1..Len(list)
      /\ DOMAIN list' = 1..last
      /\ \A i \in DOMAIN list : list'[i] = list[i]
      /\ list'[last] = NewNode(req, ksid)
      /\ last \notin DOMAIN list
      /\ DOMAIN list' = DOMAIN list \cup {last}
  BY <1>1, <1>2
<1>4. /\ list'[last].key_stream_id = ksid
      /\ list'[last].pair = req.pair
      /\ list'[last].qos = req.qos
  BY <1>3 DEF NewNode
<1>5. \A i \in DOMAIN list : Stream(list, i) \in minted
  BY ListIsThisRunSplit DEF KmsInv
<1>6. \A m \in minted : m.run = restarts => \E i \in DOMAIN list : m = Stream(list, i)
  BY ListIsThisRunSplit DEF KmsInv
<1>7. \A i \in DOMAIN list : list[i].key_stream_id # ksid
  <2> SUFFICES ASSUME NEW i \in DOMAIN list, list[i].key_stream_id = ksid PROVE FALSE
    OBVIOUS
  <2>1. Stream(list, i) \in minted /\ Stream(list, i).key_stream_id = ksid
    BY <1>5
  <2> QED
    BY <1>2, <2>1 DEF MintedIds
<1>8. \A i \in DOMAIN list : list[i].pair # req.pair
  BY DEF OpenCreated, IsNew, NodesOfPair
<1>9. OneStreamPerPair'
  <2> SUFFICES ASSUME NEW i \in DOMAIN list', NEW j \in DOMAIN list',
                      \/ list'[i].pair = list'[j].pair
                      \/ list'[i].key_stream_id = list'[j].key_stream_id
               PROVE  i = j
    BY DEF OneStreamPerPair
  <2>1. CASE i \in DOMAIN list /\ j \in DOMAIN list
    BY <1>3, <2>1 DEF KmsInv, OneStreamPerPair
  <2>2. CASE i = last \/ j = last
    BY <1>3, <1>4, <1>7, <1>8, <2>2
  <2> QED
    BY <1>3, <2>1, <2>2
<1>10. \A m \in minted : m.key_stream_id # ksid
  BY <1>2 DEF MintedIds
<1>11. \A m \in minted : m.run = restarts => m.pair # req.pair
  <2> SUFFICES ASSUME NEW m \in minted, m.run = restarts PROVE m.pair # req.pair
    OBVIOUS
  <2>1. PICK i \in DOMAIN list : m = Stream(list, i)
    BY <1>6
  <2> QED
    BY <1>8, <2>1
<1>12. MintedOnce'
  <2> SUFFICES ASSUME NEW m \in minted', NEW n \in minted',
                      \/ m.key_stream_id = n.key_stream_id
                      \/ m.pair = n.pair /\ m.run = n.run
               PROVE  m = n
    BY DEF MintedOnce
  <2>1. CASE m \in minted /\ n \in minted
    BY <2>1 DEF KmsInv, MintedOnce
  <2>2. CASE m = new \/ n = new
    BY <1>2, <1>10, <1>11, <2>2
  <2> QED
    BY <1>2, <2>1, <2>2
<1>13. RunsSoFar'
  BY <1>2 DEF KmsInv, KmsTypeOK, RunsSoFar
<1>14. \A i \in DOMAIN list : Stream(list', i) = Stream(list, i)
  BY <1>3
<1>15. Stream(list', last) = new
  BY <1>4
<1>16. {Stream(list', i) : i \in DOMAIN list'} = {m \in minted' : m.run = restarts}
  <2>1. ASSUME NEW i \in DOMAIN list'
        PROVE  Stream(list', i) \in minted' /\ Stream(list', i).run = restarts
    BY <1>2, <1>3, <1>5, <1>14, <1>15
  <2>2. ASSUME NEW m \in minted', m.run = restarts
        PROVE  \E i \in DOMAIN list' : m = Stream(list', i)
    <3>1. CASE m \in minted
      <4>1. PICK i \in DOMAIN list : m = Stream(list, i)
        BY <1>6, <2>2, <3>1
      <4>2. i \in DOMAIN list' /\ m = Stream(list', i)
        BY <1>3, <1>14, <4>1
      <4> QED
        BY <4>2
    <3>2. CASE m = new
      BY <1>3, <1>15, <3>2
    <3> QED
      BY <1>2, <2>2, <3>1, <3>2
  <2> HIDE DEF Stream
  <2> QED
    BY <2>1, <2>2
<1>17. ListIsThisRun'
  BY <1>16 DEF ListIsThisRun
<1> QED
  BY <1>9, <1>12, <1>13, <1>17 DEF KmsInv

\* Every handler preserves the invariant.
LEMMA HandleSafe ==
  ASSUME KmsInv, NEW req \in Request, HandleRequest(req)
  PROVE  KmsInv'
<1>1. KmsTypeOK /\ KmsTypeOK'
  BY HandleType DEF KmsInv
<1>2. CASE qkd_open_connect(req)
  <2>1. CASE OpenNamed(req) \/ OpenJoined(req)
    <3>1. SameStreams
      BY <1>2, <2>1 DEF qkd_open_connect, OpenNamed, OpenJoined, SameStreams
    <3> QED
      BY <1>1, <3>1, SameStreamsSafe
  <2>2. CASE OpenCreated(req)
    BY <1>1, <1>2, <2>2, CreatedSafe DEF qkd_open_connect
  <2> QED
    BY <1>2, <2>1, <2>2 DEF qkd_open_connect
<1>3. CASE qkd_get_key(req)
  BY <1>1, <1>3, GetKeySame, SameStreamsSafe
<1>4. CASE qkd_close(req)
  <2>1. SameStreams
    BY <1>4 DEF qkd_close, SameStreams
  <2> QED
    BY <1>1, <2>1, SameStreamsSafe
<1> QED
  BY <1>2, <1>3, <1>4 DEF HandleRequest

\* The end of the process keeps everything but what a live list would tell.
LEMMA LoseMemorySafe ==
  ASSUME KmsTypeOK, MintedOnce, RunsSoFar, LoseMemory
  PROVE  KmsTypeOK' /\ MintedOnce' /\ RunsSoFar'
  BY DEF LoseMemory, KmsTypeOK, MintedOnce, RunsSoFar

\* A restart begins a run of which no stream is minted yet.
LEMMA RestartSafe ==
  ASSUME KmsTypeOK, MintedOnce, RunsSoFar, Restart
  PROVE  KmsInv'
<1>1. KmsTypeOK' /\ MintedOnce' /\ OneStreamPerPair'
  BY BoundsAssumption DEF Restart, KmsTypeOK, MintedOnce, OneStreamPerPair
<1>2. \A m \in minted' : m.run < restarts'
  BY DEF Restart, KmsTypeOK, RunsSoFar, Minted
<1>3. RunsSoFar' /\ {m \in minted' : m.run = restarts'} = {}
  BY <1>1, <1>2 DEF RunsSoFar, KmsTypeOK, Minted
<1>4. DOMAIN ksid_info_linked_list' = {}
  BY DEF Restart
<1>5. ListIsThisRun'
  BY <1>3, <1>4 DEF ListIsThisRun
<1> QED
  BY <1>1, <1>3, <1>5 DEF KmsInv

\* The requests of KmsNext are requests.
LEMMA RequestsOfNext ==
  ASSUME KmsTypeOK, KmsNext
  PROVE  (\E req \in Request : HandleRequest(req)) \/ Restart
<1>1. KnownKsid \subseteq Ksid
  BY DEF KmsTypeOK, KnownKsid, MintedIds, Minted, Ksid
<1>2. CASE ServeOpenConnect
  BY <1>1, <1>2 DEF ServeOpenConnect, HandleRequest, Request, OpenConnectRequest
<1>3. CASE ServeGetKey
  BY <1>1, <1>3 DEF ServeGetKey, HandleRequest, Request, GetKeyRequest
<1>4. CASE ServeClose
  BY <1>1, <1>4 DEF ServeClose, HandleRequest, Request, CloseRequest
<1> QED
  BY <1>2, <1>3, <1>4 DEF KmsNext

\* KmsInv is an invariant of the key management server.
THEOREM KmsInvariant == KmsSpec => []KmsInv
<1>1. KmsInit => KmsInv
  <2> SUFFICES ASSUME KmsInit PROVE KmsInv
    OBVIOUS
  <2>1. KmsTypeOK
    BY BoundsAssumption DEF KmsInit, KmsTypeOK
  <2>2. OneStreamPerPair /\ MintedOnce /\ RunsSoFar /\ ListIsThisRun
    BY DEF KmsInit, OneStreamPerPair, MintedOnce, RunsSoFar, ListIsThisRun
  <2> QED
    BY <2>1, <2>2 DEF KmsInv
<1>2. KmsInv /\ [KmsNext]_kmsVars => KmsInv'
  <2> SUFFICES ASSUME KmsInv, [KmsNext]_kmsVars PROVE KmsInv'
    OBVIOUS
  <2>1. CASE KmsNext
    BY <2>1, RequestsOfNext, HandleSafe, RestartSafe DEF KmsInv
  <2>2. CASE UNCHANGED kmsVars
    BY <2>2 DEF kmsVars, KmsInv, KmsTypeOK, OneStreamPerPair, MintedOnce, RunsSoFar,
               ListIsThisRun
  <2> QED
    BY <2>1, <2>2
<1> QED
  BY <1>1, <1>2, PTL DEF KmsSpec

\* The list, the out-parameters and the history have their types.
THEOREM KmsTypeCorrect == KmsSpec => []KmsTypeOK
<1>1. KmsInv => KmsTypeOK
  BY DEF KmsInv
<1> QED
  BY <1>1, KmsInvariant, PTL

\* Two applications that open one pair meet on one stream: the list holds no
\* pair and no id twice, however many streams, requests and restarts there are.
THEOREM KmsOneStreamPerPair == KmsSpec => []OneStreamPerPair
<1>1. KmsInv => OneStreamPerPair
  BY DEF KmsInv
<1> QED
  BY <1>1, KmsInvariant, PTL

\* A key stream id names one pair and one QoS for ever, and a pair has one id in
\* each run of the server.
THEOREM KmsMintedOnce == KmsSpec => []MintedOnce
<1>1. KmsInv => MintedOnce
  BY DEF KmsInv
<1> QED
  BY <1>1, KmsInvariant, PTL

\* No stream is lost from the list while the server runs.
THEOREM KmsListIsThisRun == KmsSpec => []ListIsThisRun
<1>1. KmsInv => ListIsThisRun
  BY DEF KmsInv
<1> QED
  BY <1>1, KmsInvariant, PTL

\* One node is counted.
Counted == \E i \in DOMAIN ksid_info_linked_list :
  ksid_info_linked_list' = [ksid_info_linked_list EXCEPT ![i].current_index = Incremented(@)]

\* Nothing is counted.
Kept ==
  \/ ksid_info_linked_list' = ksid_info_linked_list
  \/ /\ Len(ksid_info_linked_list') = Len(ksid_info_linked_list) + 1
     /\ \A i \in DOMAIN ksid_info_linked_list :
          ksid_info_linked_list'[i] = ksid_info_linked_list[i]

\* A handler counts one node if it hands out a key, and otherwise keeps all of them.
LEMMA HandleGrows ==
  ASSUME KmsTypeOK, NEW req \in Request, HandleRequest(req)
  PROVE  IF response'.service = "GET_KEY" /\ response'.status = Successful THEN Counted ELSE Kept
<1>1. ksid_info_linked_list \in Seq(Node)
  BY DEF KmsTypeOK
<1>2. CASE qkd_open_connect(req)
  <2>1. response'.service # "GET_KEY"
    BY <1>2 DEF qkd_open_connect, OpenNamed, OpenJoined, OpenCreated, NewStream, OpenConnectAnswer
  <2>2. CASE OpenCreated(req)
    <3>1. PICK node : ksid_info_linked_list' = Append(ksid_info_linked_list, node)
      BY <2>2 DEF OpenCreated, IsNew, Inserted
    <3> QED
      BY <1>1, <2>1, <3>1 DEF Kept
  <2> QED
    BY <1>2, <2>1, <2>2 DEF qkd_open_connect, OpenNamed, OpenJoined, Kept
<1>3. CASE qkd_get_key(req) /\ GetKeyUnknown(req)
  <2>1. response'.status # Successful
    BY <1>3 DEF GetKeyUnknown, GetKeyAnswer, UnknownStatus, GkPeerNotConnected, Successful
  <2> QED
    BY <1>3, <2>1 DEF GetKeyUnknown, Kept
<1>4. CASE qkd_get_key(req) /\ GetKeyServed(req)
  <2> DEFINE i == Min(NodesOfKsid(req.key_stream_id))
  <2>1. i \in DOMAIN ksid_info_linked_list
    BY <1>4, SearchFindsMatch DEF GetKeyServed
  <2>2. /\ ksid_info_linked_list' = [ksid_info_linked_list EXCEPT ![i] = Drawn(@)]
        /\ response'.service = "GET_KEY" /\ response'.status = Successful
    BY <1>4 DEF GetKeyServed, GetKeyAnswer
  <2> HIDE DEF i
  <2>3. Drawn(ksid_info_linked_list[i])
          = [ksid_info_linked_list[i] EXCEPT !.current_index = Incremented(@)]
    BY DEF Drawn
  <2> QED
    BY <1>1, <2>1, <2>2, <2>3 DEF Counted
<1>5. CASE qkd_close(req)
  <2>1. response'.service # "GET_KEY"
    BY <1>5 DEF qkd_close
  <2> QED
    BY <1>5, <2>1 DEF qkd_close, Kept
<1> QED
  BY <1>2, <1>3, <1>4, <1>5 DEF HandleRequest, qkd_get_key

\* While the server runs, every key handed out is counted on exactly one node, by one,
\* with the wraparound of an int of any width, and nothing else changes a node.
THEOREM KmsStreamsOnlyGrow == KmsSpec => StreamsOnlyGrow
<1> DEFINE Grows ==
      restarts' = restarts =>
        IF response'.service = "GET_KEY" /\ response'.status = Successful THEN Counted ELSE Kept
<1>1. KmsInv /\ [KmsNext]_kmsVars => [Grows]_kmsVars
  <2> SUFFICES ASSUME KmsInv, KmsNext PROVE Grows
    OBVIOUS
  <2>1. CASE Restart
    BY <2>1 DEF Restart, KmsInv, KmsTypeOK
  <2>2. CASE \E req \in Request : HandleRequest(req)
    BY <2>2, HandleGrows DEF KmsInv
  <2> QED
    BY <2>1, <2>2, RequestsOfNext DEF KmsInv
<1>2. (KmsSpec => []KmsInv) /\ (KmsSpec => [][KmsNext]_kmsVars)
  BY KmsInvariant, PTL DEF KmsSpec
<1>3. KmsSpec => [][Grows]_kmsVars
  BY <1>1, <1>2, PTL
<1> QED
  BY <1>3 DEF StreamsOnlyGrow, Counted, Kept
=============================================================================
