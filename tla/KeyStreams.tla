----------------------------- MODULE KeyStreams -----------------------------
(***************************************************************************)
(* The key management server of server_example.c: the linked list of key   *)
(* streams and the three handlers the servlet calls, qkd_open_connect,     *)
(* qkd_get_key and qkd_close.  The server has one thread, so a handler is  *)
(* one step.  Its out-parameters are the variable response.                *)
(***************************************************************************)
EXTENDS Models

CONSTANTS
  IntMax,          \* INT_MAX
  MaxRestarts      \* bound: restarts of the server process

ASSUME BoundsAssumption == IntMax \in Nat /\ MaxRestarts \in Nat

VARIABLES
  ksid_info_linked_list,  \* the server's list of streams, oldest first
  response,               \* out-parameters of the handler that ran last
  minted,                 \* history: the streams created in any run of the server
  restarts                \* how often the server process was started again

kmsVars == <<ksid_info_linked_list, response, minted, restarts>>

\* qkd_ksid_info_t.
Node == [key_stream_id : Uuid, pair : Pair, qos : Qos, current_index : -IntMax - 1..IntMax]
Minted == [key_stream_id : Uuid, pair : Pair, qos : Qos, run : Nat]

MintedIds == {m.key_stream_id : m \in minted}

\* The list nodes that the two searches stop at; the code takes the first.
NodesOfPair(pair) ==
  {i \in DOMAIN ksid_info_linked_list : ksid_info_linked_list[i].pair = pair}
NodesOfKsid(ksid) ==
  {i \in DOMAIN ksid_info_linked_list : ksid_info_linked_list[i].key_stream_id = ksid}

-----------------------------------------------------------------------------
\* An application that brings a key stream id is told that it succeeded;
\* nothing is looked up and nothing is stored.
OpenNamed(req) ==
  /\ req.key_stream_id # NilUuid
  /\ response' = OpenConnectAnswer(req, req.key_stream_id)
  /\ UNCHANGED <<ksid_info_linked_list, minted>>

\* Mutant: the second application changes the QoS of the stream it joins.
OpenJoinedUpdatesQos(req) ==
  /\ req.key_stream_id = NilUuid
  /\ NodesOfPair(req.pair) # {}
  /\ LET i == Min(NodesOfPair(req.pair))
     IN /\ response' = OpenConnectAnswer(req, ksid_info_linked_list[i].key_stream_id)
        /\ ksid_info_linked_list' = [ksid_info_linked_list EXCEPT ![i].qos = req.qos]
  /\ UNCHANGED minted

\* A pair that already has a stream gets the id of that stream.
OpenJoined(req) ==
  /\ req.key_stream_id = NilUuid
  /\ NodesOfPair(req.pair) # {}
  /\ response' = OpenConnectAnswer(req,
                   ksid_info_linked_list[Min(NodesOfPair(req.pair))].key_stream_id)
  /\ UNCHANGED <<ksid_info_linked_list, minted>>

\* Mutant: the ids of a run are drawn as those of the run before were.
NewStreamSeeded(req, ksid) ==
  /\ ksid \in Uuid \ {m.key_stream_id : m \in {n \in minted : n.run = restarts}}
  /\ minted' = minted \cup {[key_stream_id |-> ksid, pair |-> req.pair,
                             qos |-> req.qos, run |-> restarts]}
  /\ response' = OpenConnectAnswer(req, ksid)

\* A stream that gets an id the server has never given before.  (Random UUIDs
\* are taken to differ.)
NewStream(req, ksid) ==
  /\ ksid \in Uuid \ MintedIds
  /\ minted' = minted \cup {[key_stream_id |-> ksid, pair |-> req.pair,
                             qos |-> req.qos, run |-> restarts]}
  /\ response' = OpenConnectAnswer(req, ksid)

NewNode(req, ksid) ==
  [key_stream_id |-> ksid, pair |-> req.pair, qos |-> req.qos, current_index |-> 0]

\* Mutant: the search does not return when it finds the pair.
IsNewAlways(pair) == TRUE

\* The search ran to the end of the list.
IsNew(pair) == NodesOfPair(pair) = {}

\* Mutant: the new node replaces the list head instead of following its end.
InsertedAtHead(node) == <<node>>

Inserted(node) == Append(ksid_info_linked_list, node)

\* A new pair gets a new stream at the end of the list.
OpenCreated(req) ==
  /\ req.key_stream_id = NilUuid
  /\ IsNew(req.pair)
  /\ \E ksid \in Uuid :
       /\ NewStream(req, ksid)
       /\ ksid_info_linked_list' = Inserted(NewNode(req, ksid))

qkd_open_connect(req) ==
  /\ req.service = "OPEN_CONNECT"
  /\ OpenNamed(req) \/ OpenJoined(req) \/ OpenCreated(req)
  /\ UNCHANGED restarts

-----------------------------------------------------------------------------
\* Mutant: the status of another failure.
UnknownStatusOther == 1

UnknownStatus == GkPeerNotConnected

GetKeyUnknown(req) ==
  /\ NodesOfKsid(req.key_stream_id) = {}
  /\ response' = GetKeyAnswer(req, UnknownStatus, EmptyKey, req.metadata)
  /\ UNCHANGED ksid_info_linked_list

\* current_index++ of an int.  The build has no option that traps an overflow, and
\* nothing reads the count, so that it wraps around.
Incremented(n) == IF n = IntMax THEN -IntMax - 1 ELSE n + 1

\* Mutant: the first key is counted and no other.
DrawnOnce(node) == [node EXCEPT !.current_index = 1]

\* One more key was drawn from a stream.
Drawn(node) == [node EXCEPT !.current_index = Incremented(@)]

\* Mutant: the stream's own counter takes the place of the index asked for.
CountedRequest(node, req) == [req EXCEPT !.index = node.current_index]

\* The request as the generator sees it: *index is the one asked for.
IndexedRequest(node, req) == req

\* A NULL from malloc is not told apart from a key: the status is Successful.
GetKeyServed(req) ==
  /\ NodesOfKsid(req.key_stream_id) # {}
  /\ LET i == Min(NodesOfKsid(req.key_stream_id))
         node == ksid_info_linked_list[i]
     IN \E allocated \in IF MallocMayFail THEN BOOLEAN ELSE {TRUE} :
          /\ response' = GetKeyAnswer(req, Successful,
               GeneratedKey(node, IndexedRequest(node, req), allocated), DeviceInfo)
          /\ ksid_info_linked_list' = [ksid_info_linked_list EXCEPT ![i] = Drawn(@)]

qkd_get_key(req) ==
  /\ req.service = "GET_KEY"
  /\ GetKeyUnknown(req) \/ GetKeyServed(req)
  /\ UNCHANGED <<minted, restarts>>

\* qkd_close looks at nothing and changes nothing.
qkd_close(req) ==
  /\ req.service = "CLOSE"
  /\ response' = [service |-> "CLOSE", status |-> Successful]
  /\ UNCHANGED <<ksid_info_linked_list, minted, restarts>>

HandleRequest(req) == qkd_open_connect(req) \/ qkd_get_key(req) \/ qkd_close(req)

-----------------------------------------------------------------------------
\* The list lives in the memory of the process: the end of the process loses
\* it, and main starts again from an empty one.
LoseMemory ==
  /\ ksid_info_linked_list' = <<>>
  /\ response' = NoResponse
  /\ UNCHANGED <<minted, restarts>>

Restart ==
  /\ restarts < MaxRestarts
  /\ ksid_info_linked_list' = <<>>
  /\ response' = NoResponse
  /\ restarts' = restarts + 1
  /\ UNCHANGED minted

KmsInit ==
  /\ ksid_info_linked_list = <<>>
  /\ response = NoResponse
  /\ minted = {}
  /\ restarts = 0

\* The requests of applications: they name a stream by an id that the server
\* minted, by one of their own, or by none.
KnownKsid == MintedIds \cup AppUuid \cup {NilUuid}

ServeOpenConnect ==
  \E pair \in Pair, qos \in Qos, ksid \in KnownKsid :
    qkd_open_connect([service |-> "OPEN_CONNECT", pair |-> pair, qos |-> qos,
                      key_stream_id |-> ksid])
ServeGetKey ==
  \E ksid \in KnownKsid, index \in Index, metadata \in KeyInfo :
    qkd_get_key([service |-> "GET_KEY", key_stream_id |-> ksid, index |-> index,
                 metadata |-> metadata])
ServeClose ==
  \E ksid \in KnownKsid : qkd_close([service |-> "CLOSE", key_stream_id |-> ksid])

KmsNext == ServeOpenConnect \/ ServeGetKey \/ ServeClose \/ Restart

KmsSpec == KmsInit /\ [][KmsNext]_kmsVars
-----------------------------------------------------------------------------
\* Type invariant of the list, the out-parameters and the history.
KmsTypeOK ==
  /\ ksid_info_linked_list \in Seq(Node)
  /\ response \in Response \cup {NoResponse}
  /\ minted \subseteq Minted
  /\ restarts \in 0..MaxRestarts

\* Two applications that open the same pair meet on one stream: the list never
\* holds two streams of one pair, nor one key stream id twice, so that taking
\* the first node that matches (server_example.c:113-122, 160-165) is taking
\* the only one.
OneStreamPerPair ==
  \A i, j \in DOMAIN ksid_info_linked_list :
    (\/ ksid_info_linked_list[i].pair = ksid_info_linked_list[j].pair
     \/ ksid_info_linked_list[i].key_stream_id = ksid_info_linked_list[j].key_stream_id)
      => i = j

\* A key stream id names one pair and one QoS for ever, across restarts too;
\* within a run of the server a pair is given only one id.
MintedOnce ==
  \A m, n \in minted :
    (\/ m.key_stream_id = n.key_stream_id
     \/ m.pair = n.pair /\ m.run = n.run) => m = n

\* The list is what was created since the server started: appending at the end
\* (server_example.c:136-148) drops no stream, and a GET_KEY that rewrites a
\* node keeps its id, pair and QoS.
ListIsThisRun ==
  {[key_stream_id |-> ksid_info_linked_list[i].key_stream_id,
    pair |-> ksid_info_linked_list[i].pair,
    qos |-> ksid_info_linked_list[i].qos,
    run |-> restarts] : i \in DOMAIN ksid_info_linked_list}
  = {m \in minted : m.run = restarts}

\* Every key is counted on one stream: while the server runs, a GET_KEY that
\* succeeds adds one to the current_index of exactly one node (which wraps around
\* after INT_MAX, server_example.c:200), and anything else leaves all nodes as they
\* are, or appends one.
StreamsOnlyGrow ==
  [][restarts' = restarts =>
       LET list == ksid_info_linked_list
       IN IF response'.service = "GET_KEY" /\ response'.status = Successful
          THEN \E i \in DOMAIN list :
                 list' = [list EXCEPT ![i].current_index = Incremented(@)]
          ELSE \/ list' = list
               \/ /\ Len(list') = Len(list) + 1
                  /\ \A i \in DOMAIN list : list'[i] = list[i]]_kmsVars
=============================================================================
