------------------------ MODULE QkdRefinementProofs ------------------------
(***************************************************************************)
(* The clients, the TLS server and the linked list implement KeyService:   *)
(* the refinement mapping of QkdRefinement takes initial states to initial *)
(* states and every step to a step of KeyService or to none.               *)
(***************************************************************************)
EXTENDS QkdRefinement, QkdServiceProofs

\* KeyService and QkdService speak of the same requests, responses and keys.
LEMMA SameModels ==
  /\ Service!Request = Request
  /\ Service!NoRequest = NoRequest
  /\ Service!NoResponse = NoResponse
  /\ Service!Successful = Successful
  /\ Service!GkPeerNotConnected = GkPeerNotConnected
  /\ Service!EmptyKey = EmptyKey
  /\ Service!DeviceInfo = DeviceInfo
  /\ \A req, ksid : Service!OpenConnectAnswer(req, ksid) = OpenConnectAnswer(req, ksid)
  /\ \A req, status, key, metadata :
       Service!GetKeyAnswer(req, status, key, metadata) = GetKeyAnswer(req, status, key, metadata)
  /\ \A stream, req, allocated :
       Service!GeneratedKey(stream, req, allocated) = GeneratedKey(stream, req, allocated)
<1>1. Service!Request = Request
  BY DEF Service!Request, Service!OpenConnectRequest, Service!GetKeyRequest, Service!CloseRequest,
         Service!Qos, Service!Ksid, Request, OpenConnectRequest, GetKeyRequest, CloseRequest, Qos, Ksid
<1>2. /\ Service!NoRequest = NoRequest /\ Service!NoResponse = NoResponse
      /\ Service!Successful = Successful /\ Service!GkPeerNotConnected = GkPeerNotConnected
      /\ Service!EmptyKey = EmptyKey /\ Service!DeviceInfo = DeviceInfo
  BY DEF Service!NoRequest, Service!NoResponse, Service!Successful, Service!GkPeerNotConnected,
         Service!EmptyKey, Service!DeviceInfo, NoRequest, NoResponse, Successful,
         GkPeerNotConnected, EmptyKey, DeviceInfo
<1>3. /\ \A req, ksid : Service!OpenConnectAnswer(req, ksid) = OpenConnectAnswer(req, ksid)
      /\ \A req, status, key, metadata :
           Service!GetKeyAnswer(req, status, key, metadata) = GetKeyAnswer(req, status, key, metadata)
  BY <1>2 DEF Service!OpenConnectAnswer, Service!GetKeyAnswer, OpenConnectAnswer, GetKeyAnswer
<1>4. ASSUME NEW pair, NEW index PROVE Service!Seed(pair, index) = Seed(pair, index)
  BY DEF Service!Seed, Seed
<1>5. ASSUME NEW stream, NEW req, NEW allocated
      PROVE  Service!GeneratedKey(stream, req, allocated) = GeneratedKey(stream, req, allocated)
  BY <1>2, <1>4
     DEF Service!GeneratedKey, Service!gen_pseudorandom_key, Service!gen_oblivious_pseudorandom_key,
         GeneratedKey, gen_pseudorandom_key, gen_oblivious_pseudorandom_key
<1> QED
  BY <1>1, <1>2, <1>3, <1>5

-----------------------------------------------------------------------------
(* The steps of KeyService, in terms of the mapping. *)

\* A step that no application can tell from none.
LEMMA Unseen ==
  ASSUME UNCHANGED <<LiveStreams, MintedIds, Statuses, call, Answers, results>>
  PROVE  UNCHANGED Service!serviceVars
  BY DEF Service!serviceVars

\* A client that becomes active with a new request has asked.
LEMMA AskStep ==
  ASSUME NEW c \in Client, NEW req \in AnyRequest, Statuses[c] = "idle",
         call' = [call EXCEPT ![c] = req],
         Statuses' = [Statuses EXCEPT ![c] = "pending"],
         UNCHANGED <<LiveStreams, MintedIds, Answers, results>>
  PROVE  Service!Next
<1>1. Service!Ask(c)
  BY SameModels DEF Service!Ask, Service!OtherRequest, AnyRequest, OtherRequest
<1> QED
  BY <1>1 DEF Service!Next

\* A client with an answer that becomes idle has returned from its call.
LEMMA ReturnStep ==
  ASSUME NEW c \in Client, Statuses[c] = "answered",
         results' = results \cup {[client |-> c, request |-> call[c], response |-> Answers[c]]},
         call' = [call EXCEPT ![c] = NoRequest],
         Statuses' = [Statuses EXCEPT ![c] = "idle"],
         Answers' = [Answers EXCEPT ![c] = NoResponse],
         UNCHANGED <<LiveStreams, MintedIds>>
  PROVE  Service!Next
<1>1. Service!Return(c)
  BY SameModels DEF Service!Return
<1> QED
  BY <1>1 DEF Service!Next

\* A client leaves, with its request behind if that was sent; or the request that
\* it left behind is dropped.
LEMMA LeaveStep ==
  ASSUME NEW c \in Client,
         \/ Statuses[c] # "gone" /\ Statuses' = [Statuses EXCEPT ![c] = "gone"]
         \/ Statuses[c] = "pending" /\ Statuses' = [Statuses EXCEPT ![c] = "orphaned"],
         Answers' = [Answers EXCEPT ![c] = NoResponse],
         UNCHANGED <<LiveStreams, MintedIds, call, results>>
  PROVE  Service!Next
<1>1. Service!Leave(c)
  BY SameModels DEF Service!Leave
<1> QED
  BY <1>1 DEF Service!Next

\* No streams are left, and some requests of clients that are gone with them.
LEMMA LoseStep ==
  ASSUME LiveStreams' = <<>>,
         Statuses' = [c \in Client |-> IF Statuses[c] = "orphaned" THEN "gone" ELSE Statuses[c]],
         UNCHANGED <<MintedIds, call, Answers, results>>
  PROVE  Service!Next
  BY DEF Service!Next, Service!LoseStreams

-----------------------------------------------------------------------------
(* The list as a function of pairs. *)

\* The streams are the nodes of the list, by their pairs.
LiveTable ==
  /\ DOMAIN LiveStreams = {ksid_info_linked_list[i].pair : i \in DOMAIN ksid_info_linked_list}
  /\ \A i \in DOMAIN ksid_info_linked_list :
       LiveStreams[ksid_info_linked_list[i].pair] =
         [key_stream_id |-> ksid_info_linked_list[i].key_stream_id,
          qos |-> ksid_info_linked_list[i].qos]

\* Since a pair has one node, the function has the entry of every node.
LEMMA Live == KmsInv => LiveTable
<1> SUFFICES ASSUME KmsInv PROVE LiveTable
  OBVIOUS
<1>1. DOMAIN LiveStreams = {ksid_info_linked_list[i].pair : i \in DOMAIN ksid_info_linked_list}
  BY DEF LiveStreams
<1>2. ASSUME NEW i \in DOMAIN ksid_info_linked_list
      PROVE  StreamOf(ksid_info_linked_list[i].pair) =
               [key_stream_id |-> ksid_info_linked_list[i].key_stream_id,
                qos |-> ksid_info_linked_list[i].qos]
  <2> DEFINE pair == ksid_info_linked_list[i].pair
             j == CHOOSE k \in NodesOfPair(pair) : TRUE
  <2>1. i \in NodesOfPair(pair)
    BY DEF NodesOfPair
  <2>2. j \in NodesOfPair(pair)
    BY <2>1
  <2>3. j \in DOMAIN ksid_info_linked_list /\ ksid_info_linked_list[j].pair = pair
    BY <2>2 DEF NodesOfPair
  <2>4. j = i
    BY <2>3 DEF KmsInv, OneStreamPerPair
  <2> QED
    BY <2>4 DEF StreamOf
<1>3. ASSUME NEW i \in DOMAIN ksid_info_linked_list
      PROVE  LiveStreams[ksid_info_linked_list[i].pair] = StreamOf(ksid_info_linked_list[i].pair)
  BY DEF LiveStreams
<1> QED
  BY <1>1, <1>2, <1>3 DEF LiveTable

\* The same after a step.
LEMMA LiveAfter == KmsInv' => LiveTable'
  BY Live, PTL

\* Streams that have all their entries in common are the same function.
LEMMA LiveIsFunction ==
  /\ LiveStreams = [pair \in DOMAIN LiveStreams |-> LiveStreams[pair]]
  /\ LiveStreams' = [pair \in DOMAIN LiveStreams' |-> LiveStreams'[pair]]
  BY DEF LiveStreams

\* A step that keeps the id, pair and QoS of every node keeps the streams.
LEMMA SameStreamsLive ==
  ASSUME KmsInv, KmsInv', SameStreams
  PROVE  LiveStreams' = LiveStreams /\ MintedIds' = MintedIds
<1>1. MintedIds' = MintedIds
  BY DEF SameStreams, MintedIds
<1>2. LiveTable /\ LiveTable'
  BY Live, LiveAfter
<1>3. DOMAIN LiveStreams' = DOMAIN LiveStreams
  <2>1. \A pair : pair \in DOMAIN LiveStreams' <=> pair \in DOMAIN LiveStreams
    BY <1>2 DEF LiveTable, SameStreams
  <2> QED
    BY <2>1
<1>4. ASSUME NEW pair \in DOMAIN LiveStreams PROVE LiveStreams'[pair] = LiveStreams[pair]
  <2>1. PICK i \in DOMAIN ksid_info_linked_list : pair = ksid_info_linked_list[i].pair
    BY <1>2 DEF LiveTable
  <2>2. /\ i \in DOMAIN ksid_info_linked_list' /\ pair = ksid_info_linked_list'[i].pair
        /\ ksid_info_linked_list'[i].key_stream_id = ksid_info_linked_list[i].key_stream_id
        /\ ksid_info_linked_list'[i].qos = ksid_info_linked_list[i].qos
    BY <2>1 DEF SameStreams
  <2> QED
    BY <1>2, <2>1, <2>2 DEF LiveTable
<1> QED
  BY <1>1, <1>3, <1>4, LiveIsFunction

\* An empty list is no stream.
LEMMA NoStreams ==
  ASSUME ksid_info_linked_list' = <<>>
  PROVE  LiveStreams' = <<>>
<1>1. DOMAIN LiveStreams' = {}
  BY DEF LiveStreams
<1>2. DOMAIN LiveStreams' = {} => LiveStreams' = <<>>
  BY LiveIsFunction
<1> QED
  BY <1>1, <1>2

\* A new node is a new entry.
LEMMA CreatedLive ==
  ASSUME KmsInv, KmsInv', NEW req, NEW ksid \in Uuid, NewStream(req, ksid), IsNew(req.pair),
         ksid_info_linked_list' = Inserted(NewNode(req, ksid))
  PROVE  /\ LiveStreams' = Service!Extend(req.pair, [key_stream_id |-> ksid, qos |-> req.qos])
         /\ MintedIds' = MintedIds \cup {ksid}
         /\ req.pair \notin DOMAIN LiveStreams
<1> DEFINE list == ksid_info_linked_list
           last == Len(list) + 1
           stream == [key_stream_id |-> ksid, qos |-> req.qos]
<1>1. MintedIds' = MintedIds \cup {ksid}
  <2> DEFINE new == [key_stream_id |-> ksid, pair |-> req.pair, qos |-> req.qos, run |-> restarts]
  <2>1. minted' = minted \cup {new} /\ new.key_stream_id = ksid
    BY DEF NewStream
  <2> HIDE DEF new
  <2>2. \A k : k \in MintedIds' <=> k \in MintedIds \cup {ksid}
    BY <2>1 DEF MintedIds
  <2> QED
    BY <2>2
<1>2. LiveTable /\ LiveTable'
  BY Live, LiveAfter
<1>3. list \in Seq(Node) /\ list' = Append(list, NewNode(req, ksid))
  BY DEF KmsInv, KmsTypeOK, Inserted
<1>4. /\ DOMAIN list' = DOMAIN list \cup {last}
      /\ \A i \in DOMAIN list : list'[i] = list[i]
      /\ list'[last] = NewNode(req, ksid)
  BY <1>3
<1>5. /\ list'[last].pair = req.pair /\ list'[last].key_stream_id = ksid
      /\ list'[last].qos = req.qos
  BY <1>4 DEF NewNode
<1>6. \A i \in DOMAIN list : list[i].pair # req.pair
  BY DEF IsNew, NodesOfPair
<1>7. req.pair \notin DOMAIN LiveStreams
  BY <1>2, <1>6 DEF LiveTable
<1> HIDE DEF last
<1>8. DOMAIN LiveStreams' = DOMAIN LiveStreams \cup {req.pair}
  <2>1. \A pair : pair \in DOMAIN LiveStreams' <=> pair \in DOMAIN LiveStreams \cup {req.pair}
    BY <1>2, <1>4, <1>5 DEF LiveTable
  <2> QED
    BY <2>1
<1>9. LiveStreams'[req.pair] = stream
  BY <1>2, <1>4, <1>5 DEF LiveTable
<1>10. ASSUME NEW pair \in DOMAIN LiveStreams PROVE LiveStreams'[pair] = LiveStreams[pair]
  <2>1. PICK i \in DOMAIN list : pair = list[i].pair
    BY <1>2 DEF LiveTable
  <2>2. i \in DOMAIN list' /\ list'[i] = list[i]
    BY <1>4, <2>1
  <2>3. LiveStreams[pair] = [key_stream_id |-> list[i].key_stream_id, qos |-> list[i].qos]
    BY <1>2, <2>1 DEF LiveTable
  <2>4. LiveStreams'[list'[i].pair] =
          [key_stream_id |-> list'[i].key_stream_id, qos |-> list'[i].qos]
    BY <1>2, <2>2 DEF LiveTable
  <2> QED
    BY <2>1, <2>2, <2>3, <2>4
<1>11. LiveStreams' = Service!Extend(req.pair, stream)
  BY <1>7, <1>8, <1>9, <1>10, LiveIsFunction DEF Service!Extend
<1> QED
  BY <1>1, <1>7, <1>11

-----------------------------------------------------------------------------
(* What a step changes of the applications' view of a client. *)

\* A step that the application of this client cannot see.
SameView(c) == StatusOf(c)' = StatusOf(c) /\ AnswerOf(c)' = AnswerOf(c)

\* Who neither moves nor has data moved looks the same.
LEMMA KeptView ==
  ASSUME NEW c \in Client, pc'[c] = pc[c], c2s'[c] = c2s[c], s2c'[c] = s2c[c],
         (server_pc = "respond" /\ peer = c) <=> (server_pc' = "respond" /\ peer' = c),
         response' = response
  PROVE  SameView(c)
  BY DEF SameView, StatusOf, AnswerOf, Handled

\* A client that is still waiting looks the same wherever it waits.
LEMMA WaitingView ==
  ASSUME NEW c \in Client, pc[c] \notin {"idle"} \cup Gone, pc'[c] \notin {"idle"} \cup Gone,
         s2c'[c] = s2c[c],
         (server_pc = "respond" /\ peer = c) <=> (server_pc' = "respond" /\ peer' = c),
         response' = response
  PROVE  SameView(c)
  BY DEF SameView, StatusOf, AnswerOf, Handled

\* If every client looks the same, so does the whole of them.
LEMMA NobodyChanges ==
  ASSUME \A c \in Client : SameView(c)
  PROVE  UNCHANGED <<Statuses, Answers>>
  BY DEF SameView, Statuses, Answers

\* If all clients but one look the same, only that one's entries change.
LEMMA OneChanges ==
  ASSUME NEW c \in Client, \A d \in Client \ {c} : SameView(d)
  PROVE  /\ Statuses[c] = StatusOf(c) /\ Statuses' = [Statuses EXCEPT ![c] = StatusOf(c)']
         /\ Answers[c] = AnswerOf(c) /\ Answers' = [Answers EXCEPT ![c] = AnswerOf(c)']
  BY DEF SameView, Statuses, Answers

\* A step that leaves the list alone keeps the streams.
LEMMA StreamsKept ==
  ASSUME UNCHANGED <<ksid_info_linked_list, minted>>
  PROVE  UNCHANGED <<LiveStreams, MintedIds>>
  BY DEF LiveStreams, StreamOf, NodesOfPair, MintedIds

-----------------------------------------------------------------------------
(* The steps of the clients. *)

\* A call begins (interfaces.c): the application has asked.
LEMMA CallRefines ==
  ASSUME Inv, NEW c \in Client, NEW req \in AnyRequest, Call(c, req)
  PROVE  Service!Next
<1> USE DEF Call, Goto, serverVars, kmsVars
<1>1. s2c[c] = <<>> /\ ~(server_pc = "respond" /\ peer = c)
  BY DEF Inv, AllData, DataInv, ServerInv, Gone
<1>2. \A d \in Client \ {c} : SameView(d)
  BY KeptView DEF Inv, TypeOK
<1>3. StatusOf(c) = "idle" /\ AnswerOf(c) = NoResponse
  BY DEF StatusOf, AnswerOf
<1>4. StatusOf(c)' = "pending"
  BY <1>1 DEF Inv, TypeOK, StatusOf, Handled, Gone
<1>5. AnswerOf(c)' = NoResponse
  BY <1>4 DEF AnswerOf
<1>6. Statuses[c] = "idle" /\ Statuses' = [Statuses EXCEPT ![c] = "pending"]
  BY <1>2, <1>3, <1>4, OneChanges
<1>7. Answers' = Answers
  BY <1>2, <1>3, <1>5, NobodyChanges, OneChanges DEF Answers
<1> QED
  BY <1>6, <1>7, AskStep, StreamsKept

\* A client process ends: it leaves, with its request behind if it was sent.
LEMMA EndRefines ==
  ASSUME Inv, NEW c \in Client, pc[c] \notin Gone, NEW label \in Gone, Goto(c, label),
         UNCHANGED c2s \/ c2s' = [c2s EXCEPT ![c] = <<>>],
         UNCHANGED <<call, calls, fds, results, conn, s2c, backlog, serverVars, kmsVars>>
  PROVE  Service!Next
<1> USE DEF Goto, serverVars, kmsVars
<1>1. \A d \in Client \ {c} : SameView(d)
  BY KeptView DEF Inv, TypeOK
<1>2. StatusOf(c)' = IF c2s'[c] = <<>> THEN "gone" ELSE "orphaned"
  BY DEF Inv, TypeOK, StatusOf, Gone
<1>3. AnswerOf(c)' = NoResponse
  BY <1>2 DEF AnswerOf
<1>4. StatusOf(c) # "gone"
  BY DEF StatusOf
<1>5. ASSUME c2s'[c] # <<>> PROVE StatusOf(c) = "pending"
  <2>1. c2s[c] # <<>>
    BY <1>5 DEF Inv, TypeOK
  <2>2. pc[c] = "recv" /\ s2c[c] = <<>> /\ ~(server_pc = "respond" /\ peer = c)
    BY <2>1 DEF Inv, AllData, DataInv, ServerInv
  <2> QED
    BY <2>2 DEF StatusOf, Handled, Gone
<1> QED
  BY <1>1, <1>2, <1>3, <1>4, <1>5, OneChanges, LeaveStep, StreamsKept

\* A call returns.
LEMMA RecvRefines ==
  ASSUME Inv, NEW c \in Client, Recv(c)
  PROVE  Service!Next
<1> USE DEF Recv, Goto, serverVars, kmsVars
<1>1. \A d \in Client \ {c} : SameView(d)
  BY KeptView DEF Inv, TypeOK
<1>2. StatusOf(c) = "answered" /\ AnswerOf(c) = Head(s2c[c])
  BY DEF StatusOf, AnswerOf, Handled, Gone
<1>3. StatusOf(c)' = "idle" /\ AnswerOf(c)' = NoResponse
  BY DEF Inv, TypeOK, StatusOf, AnswerOf
<1>4. /\ Statuses[c] = "answered" /\ Statuses' = [Statuses EXCEPT ![c] = "idle"]
      /\ Answers[c] = Head(s2c[c]) /\ Answers' = [Answers EXCEPT ![c] = NoResponse]
  BY <1>1, <1>2, <1>3, OneChanges
<1> QED
  BY <1>4, ReturnStep, StreamsKept

\* A client waits on, somewhere else in the library.
LEMMA WaitRefines ==
  ASSUME Inv, NEW c \in Client, NEW label \in Busy \cup {"stalled"}, Goto(c, label),
         pc[c] \in Busy,
         UNCHANGED c2s \/ c2s' = [c2s EXCEPT ![c] = <<call[c]>>],
         UNCHANGED <<call, results, s2c, serverVars, kmsVars>>
  PROVE  UNCHANGED Service!serviceVars
<1> USE DEF Goto, serverVars, kmsVars
<1>1. \A d \in Client \ {c} : SameView(d)
  BY KeptView DEF Inv, TypeOK
<1>2. SameView(c)
  BY WaitingView DEF Inv, TypeOK, Busy, Gone
<1> QED
  BY <1>1, <1>2, NobodyChanges, StreamsKept, Unseen

\* Every step of a client is one step of KeyService, or none.
LEMMA ClientRefines ==
  ASSUME Inv, NEW c \in Client, ClientStep(c) \/ Kill(c) \/ Stall(c)
  PROVE  Service!Next \/ UNCHANGED Service!serviceVars
<1>1. CASE ConnectFails(c) \/ ContextFails(c) \/ SslConnectFails(c) \/ RecvFails(c) \/ Kill(c)
  <2>1. PICK label \in Gone : Goto(c, label)
    BY <1>1 DEF ConnectFails, ContextFails, SslConnectFails, RecvFails, Kill, Gone
  <2>2. /\ UNCHANGED c2s \/ c2s' = [c2s EXCEPT ![c] = <<>>]
        /\ pc[c] \notin Gone
        /\ UNCHANGED <<call, calls, fds, results, conn, s2c, backlog, serverVars, kmsVars>>
    BY <1>1 DEF ConnectFails, ContextFails, SslConnectFails, RecvFails, Kill, Gone
  <2> QED
    BY <2>1, <2>2, EndRefines
<1>2. CASE Send(c)
  <2>1. UNCHANGED <<call, calls, fds, results, conn, s2c, backlog, serverVars, kmsVars>>
    BY <1>2 DEF Send
  <2>2. CASE Goto(c, "crashed") /\ UNCHANGED c2s
    BY <1>2, <2>1, <2>2, EndRefines DEF Send, Gone
  <2>3. CASE ~(Goto(c, "crashed") /\ UNCHANGED c2s)
    <3>1. /\ pc[c] \in Busy /\ Goto(c, "recv")
          /\ UNCHANGED c2s \/ c2s' = [c2s EXCEPT ![c] = <<call[c]>>]
      BY <1>2, <2>3 DEF Send, Busy
    <3> QED
      BY <2>1, <3>1, WaitRefines DEF Busy
  <2> QED
    BY <2>2, <2>3
<1>3. CASE Connect(c) \/ SslConnectEarly(c) \/ Stall(c)
  <2>1. PICK label \in Busy \cup {"stalled"} : Goto(c, label)
    BY <1>3 DEF Connect, SslConnectEarly, Stall, Busy
  <2>2. pc[c] \in Busy /\ UNCHANGED <<call, results, c2s, s2c, serverVars, kmsVars>>
    BY <1>3 DEF Connect, SslConnectEarly, Stall, Busy
  <2> QED
    BY <2>1, <2>2, WaitRefines
<1> QED
  BY <1>1, <1>2, <1>3, RecvRefines DEF ClientStep

-----------------------------------------------------------------------------
(* The steps of the server. *)

\* The process ends, or is started again: the streams are lost, and with them
\* the requests of the clients that are gone.
LEMMA LoseRefines ==
  ASSUME Inv, server_pc = "respond" => pc[peer] \in Gone,
         server_pc' # "respond", ksid_info_linked_list' = <<>>,
         \A c \in Client : c2s'[c] = <<>>,
         UNCHANGED <<pc, call, results, s2c, minted>>
  PROVE  Service!Next
<1>1. ASSUME NEW c \in Client
      PROVE  /\ StatusOf(c)' = IF StatusOf(c) = "orphaned" THEN "gone" ELSE StatusOf(c)
             /\ AnswerOf(c)' = AnswerOf(c)
  <2>1. CASE pc[c] \in {"idle"} \cup Gone
    BY <2>1 DEF StatusOf, AnswerOf, Gone
  <2>2. CASE pc[c] \notin {"idle"} \cup Gone
    <3>1. Handled(c) <=> s2c[c] # <<>>
      BY <2>2 DEF Handled
    <3>2. Handled(c)' <=> s2c[c] # <<>>
      BY DEF Handled
    <3> QED
      BY <2>2, <3>1, <3>2 DEF StatusOf, AnswerOf
  <2> QED
    BY <2>1, <2>2
<1>2. Statuses' = [c \in Client |-> IF Statuses[c] = "orphaned" THEN "gone" ELSE Statuses[c]]
  BY <1>1 DEF Statuses
<1>3. Answers' = Answers
  BY <1>1 DEF Answers
<1>4. MintedIds' = MintedIds
  BY DEF MintedIds
<1> QED
  BY <1>2, <1>3, <1>4, LoseStep, NoStreams

\* The server process ends (ssl_socket.c): its streams are lost.
LEMMA ServerEndsRefines ==
  ASSUME Inv, server_pc = "respond" => pc[peer] \in Gone, NEW why \in Down, ServerEnds(why)
  PROVE  Service!Next
  BY LoseRefines DEF ServerEnds, LoseMemory, clientVars, Down

\* A server is started with an empty list.
LEMMA RestartRefines ==
  ASSUME Inv, RestartServer
  PROVE  Service!Next
<1>1. \A c \in Client : c2s[c] = <<>>
  BY ServiceAssumption DEF Inv, AllData, DataInv, OneConnection, RestartServer, Listening
<1>2. server_pc # "respond"
  BY DEF RestartServer, Listening, Down
<1> QED
  BY <1>1, <1>2, LoseRefines DEF RestartServer, Restart, clientVars

\* The server reads the request of a client that is gone, or closes the connection
\* of one: a request left behind is dropped.
LEMMA DropRefines ==
  ASSUME Inv, NEW c \in Client, peer = c, server_pc # "respond", server_pc' # "respond",
         UNCHANGED c2s \/ c2s' = [c2s EXCEPT ![c] = <<>>],
         UNCHANGED <<clientVars, s2c, kmsVars>>
  PROVE  Service!Next \/ UNCHANGED Service!serviceVars
<1> USE DEF clientVars, kmsVars
<1>1. \A d \in Client \ {c} : SameView(d)
  BY KeptView DEF Inv, TypeOK
<1>2. CASE SameView(c)
  BY <1>1, <1>2, NobodyChanges, StreamsKept, Unseen
<1>3. CASE ~SameView(c)
  <2>1. pc[c] \in Gone
    BY <1>3, WaitingView DEF SameView, StatusOf, AnswerOf
  <2>2. c2s[c] # <<>> /\ c2s'[c] = <<>>
    BY <1>3, KeptView DEF Inv, TypeOK
  <2>3. StatusOf(c) # "gone" /\ StatusOf(c)' = "gone" /\ AnswerOf(c)' = NoResponse
    BY <2>1, <2>2 DEF StatusOf, AnswerOf, Gone
  <2> QED
    BY <1>1, <2>3, OneChanges, LeaveStep, StreamsKept
<1> QED
  BY <1>2, <1>3

\* The response is written to a client that waits, or to nobody.
LEMMA RespondRefines ==
  ASSUME Inv, NEW c \in Client, peer = c, server_pc = "respond", server_pc' = "shutdown",
         \/ s2c' = [s2c EXCEPT ![c] = Append(@, response)]
         \/ pc[c] \in Gone /\ UNCHANGED s2c,
         UNCHANGED <<clientVars, c2s, ksid_info_linked_list, minted>>
  PROVE  UNCHANGED Service!serviceVars
<1> USE DEF clientVars
<1>1. s2c[c] = <<>> /\ pc[c] \in {"recv"} \cup Gone
  BY DEF Inv, ServerInv
<1>2. \A d \in Client \ {c} : s2c'[d] = s2c[d]
  BY DEF Inv, TypeOK
<1>3. \A d \in Client \ {c} : SameView(d)
  BY <1>2 DEF SameView, StatusOf, AnswerOf, Handled
<1>4. ASSUME pc[c] \in Gone PROVE SameView(c)
  BY <1>4 DEF SameView, StatusOf, AnswerOf, Gone
<1>5. ASSUME pc[c] = "recv", s2c' = [s2c EXCEPT ![c] = Append(@, response)]
      PROVE  SameView(c)
  <2>1. s2c'[c] = <<response>>
    BY <1>1, <1>5 DEF Inv, TypeOK
  <2>2. s2c'[c] # <<>> /\ Head(s2c'[c]) = response
    BY <2>1
  <2>3. StatusOf(c) = "answered" /\ AnswerOf(c) = response
    BY <1>1, <1>5 DEF StatusOf, AnswerOf, Handled, Gone
  <2>4. StatusOf(c)' = "answered" /\ AnswerOf(c)' = response
    BY <1>5, <2>2 DEF StatusOf, AnswerOf, Handled, Gone
  <2> QED
    BY <2>3, <2>4 DEF SameView
<1>6. SameView(c)
  BY <1>1, <1>4, <1>5
<1> QED
  BY <1>3, <1>6, NobodyChanges, StreamsKept, Unseen

\* The connection is taken off the queue, and its handshake succeeds or fails.
LEMMA HandshakeRefines ==
  ASSUME Inv, Accept \/ SslAccept
  PROVE  UNCHANGED Service!serviceVars
<1>1. /\ server_pc # "respond" /\ server_pc' # "respond"
      /\ UNCHANGED <<call, results, c2s, s2c, kmsVars>>
  BY DEF Accept, SslAccept, clientVars
<1>2. \A c \in Client : \/ pc'[c] = pc[c]
                        \/ pc[c] = "handshake" /\ pc'[c] = "send"
  BY DEF Inv, TypeOK, Accept, SslAccept, Goto, clientVars
<1>3. \A c \in Client : SameView(c)
  BY <1>1, <1>2, KeptView, WaitingView DEF kmsVars, Gone
<1> QED
  BY <1>1, <1>3, NobodyChanges, StreamsKept, Unseen DEF kmsVars

\* Serving a request changes the applications' view of the client that made it,
\* which now has its answer, or is gone.
LEMMA HandledView ==
  ASSUME Inv, Handle, NEW c \in Client, peer = c
  PROVE  /\ c \in Trusted /\ Statuses[c] \in {"pending", "orphaned"}
         /\ Service!Answer(c, response')
<1> USE DEF Handle, clientVars
<1>1. /\ conn[c] = "open" /\ pc[c] \in {"recv"} \cup Gone
      /\ c2s[c] # <<>> /\ s2c[c] = <<>> /\ c2s' = [c2s EXCEPT ![c] = <<>>]
  BY HandlesOwnRequest
<1>2. c \in Trusted
  BY <1>1 DEF Inv, AllTrusted, TrustInv
<1>3. \A d \in Client \ {c} : SameView(d)
  BY <1>1 DEF Inv, TypeOK, SameView, StatusOf, AnswerOf, Handled
<1>4. c2s'[c] = <<>>
  BY <1>1 DEF Inv, TypeOK
<1>5. CASE pc[c] = "recv"
  <2>1. StatusOf(c) = "pending"
    BY <1>1, <1>5 DEF StatusOf, Handled, Gone
  <2>2. StatusOf(c)' = "answered" /\ AnswerOf(c)' = response'
    BY <1>1, <1>5 DEF StatusOf, AnswerOf, Handled, Gone
  <2> QED
    BY <1>2, <1>3, <2>1, <2>2, OneChanges DEF Service!Answer
<1>6. CASE pc[c] \in Gone
  <2>1. StatusOf(c) = "orphaned" /\ AnswerOf(c) = NoResponse
    BY <1>1, <1>6 DEF StatusOf, AnswerOf, Gone
  <2>2. StatusOf(c)' = "gone" /\ AnswerOf(c)' = NoResponse
    BY <1>4, <1>6 DEF StatusOf, AnswerOf, Gone
  <2>3. Answers' = Answers
    BY <1>3, <2>1, <2>2 DEF Answers, SameView
  <2> QED
    BY <1>2, <1>3, <2>1, <2>2, <2>3, OneChanges DEF Service!Answer
<1> QED
  BY <1>1, <1>5, <1>6

\* The handler of an OPEN_CONNECT does what KeyService does, by the function of
\* pairs where the code searches its list.
LEMMA OpenConnectRefines ==
  ASSUME KmsInv, KmsInv', NEW c \in Client, NEW req \in Request, qkd_open_connect(req),
         Service!Answer(c, response')
  PROVE  Service!ServeOpenConnect(c, req)
<1> USE SameModels
<1>1. req.service = "OPEN_CONNECT"
  BY DEF qkd_open_connect
<1>2. CASE OpenNamed(req)
  BY <1>1, <1>2, StreamsKept DEF OpenNamed, Service!ServeOpenConnect
<1>3. CASE OpenJoined(req)
  <2> DEFINE i == Min(NodesOfPair(req.pair))
  <2>1. i \in DOMAIN ksid_info_linked_list /\ ksid_info_linked_list[i].pair = req.pair
    BY <1>3, SearchFindsMatch DEF OpenJoined, KmsInv
  <2>2. response' = OpenConnectAnswer(req, ksid_info_linked_list[i].key_stream_id)
    BY <1>3 DEF OpenJoined
  <2> HIDE DEF i
  <2>3. /\ req.pair \in DOMAIN LiveStreams
        /\ LiveStreams[req.pair] = [key_stream_id |-> ksid_info_linked_list[i].key_stream_id,
                                    qos |-> ksid_info_linked_list[i].qos]
    BY <2>1, Live DEF LiveTable
  <2>4. LiveStreams[req.pair].key_stream_id = ksid_info_linked_list[i].key_stream_id
    BY <2>3
  <2> QED
    BY <1>1, <1>3, <2>2, <2>3, <2>4, StreamsKept DEF OpenJoined, Service!ServeOpenConnect
<1>4. CASE OpenCreated(req)
  <2>1. PICK ksid \in Uuid :
          /\ NewStream(req, ksid)
          /\ ksid_info_linked_list' = Inserted(NewNode(req, ksid))
    BY <1>4 DEF OpenCreated
  <2>2. /\ LiveStreams' = Service!Extend(req.pair, [key_stream_id |-> ksid, qos |-> req.qos])
        /\ MintedIds' = MintedIds \cup {ksid}
        /\ req.pair \notin DOMAIN LiveStreams
    BY <1>4, <2>1, CreatedLive DEF OpenCreated
  <2>3. ksid \in Uuid \ MintedIds /\ response' = OpenConnectAnswer(req, ksid)
    BY <2>1 DEF NewStream
  <2>4. req.key_stream_id = NilUuid
    BY <1>4 DEF OpenCreated
  <2> QED
    BY <1>1, <2>2, <2>3, <2>4 DEF Service!ServeOpenConnect
<1> QED
  BY <1>2, <1>3, <1>4 DEF qkd_open_connect

\* The handler of a GET_KEY gives the key of the pair and QoS of the stream that
\* the id names, whatever current_index the list holds.
LEMMA GetKeyRefines ==
  ASSUME KmsInv, KmsInv', NEW c \in Client, NEW req \in Request, qkd_get_key(req),
         Service!Answer(c, response')
  PROVE  Service!ServeGetKey(c, req)
<1> USE SameModels
<1>1. req.service = "GET_KEY" /\ KmsTypeOK
  BY DEF qkd_get_key, KmsInv
<1>2. UNCHANGED <<LiveStreams, MintedIds>>
  BY <1>1, GetKeySame, SameStreamsLive
<1>3. LiveTable
  BY Live
<1>4. CASE GetKeyUnknown(req)
  <2>1. \A i \in DOMAIN ksid_info_linked_list :
          ksid_info_linked_list[i].key_stream_id # req.key_stream_id
    BY <1>4 DEF GetKeyUnknown, NodesOfKsid
  <2>2. ASSUME NEW pair \in DOMAIN LiveStreams
        PROVE  LiveStreams[pair].key_stream_id # req.key_stream_id
    <3>1. PICK i \in DOMAIN ksid_info_linked_list : pair = ksid_info_linked_list[i].pair
      BY <1>3 DEF LiveTable
    <3>2. LiveStreams[pair] = [key_stream_id |-> ksid_info_linked_list[i].key_stream_id,
                               qos |-> ksid_info_linked_list[i].qos]
      BY <1>3, <3>1 DEF LiveTable
    <3>3. LiveStreams[pair].key_stream_id = ksid_info_linked_list[i].key_stream_id
      BY ONLY <3>2
    <3> QED
      BY <2>1, <3>3
  <2>3. response' = GetKeyAnswer(req, GkPeerNotConnected, EmptyKey, req.metadata)
    BY <1>4 DEF GetKeyUnknown, UnknownStatus
  <2> QED
    BY <1>1, <1>2, <2>2, <2>3 DEF Service!ServeGetKey
<1>5. CASE GetKeyServed(req)
  <2> DEFINE i == Min(NodesOfKsid(req.key_stream_id))
             node == ksid_info_linked_list[i]
  <2>1. i \in DOMAIN ksid_info_linked_list /\ node.key_stream_id = req.key_stream_id
    BY <1>1, <1>5, SearchFindsMatch DEF GetKeyServed
  <2>2. PICK allocated \in IF MallocMayFail THEN BOOLEAN ELSE {TRUE} :
          response' = GetKeyAnswer(req, Successful, GeneratedKey(node, req, allocated), DeviceInfo)
    BY <1>5 DEF GetKeyServed, IndexedRequest
  <2> HIDE DEF i
  <2>3. /\ node.pair \in DOMAIN LiveStreams
        /\ LiveStreams[node.pair] = [key_stream_id |-> node.key_stream_id, qos |-> node.qos]
    BY <1>3, <2>1 DEF LiveTable
  <2> HIDE DEF node
  <2> DEFINE stream == [pair |-> node.pair, qos |-> LiveStreams[node.pair].qos]
  <2>4. LiveStreams[node.pair].key_stream_id = req.key_stream_id
    BY <2>1, <2>3
  <2>5. stream.pair = node.pair /\ stream.qos = node.qos
    BY <2>3
  <2> HIDE DEF stream
  <2>6. GeneratedKey(stream, req, allocated) = GeneratedKey(node, req, allocated)
    BY <2>5 DEF GeneratedKey
  <2>7. Service!Answer(c, GetKeyAnswer(req, Successful, GeneratedKey(stream, req, allocated), DeviceInfo))
    BY <2>2, <2>6
  <2> QED
    BY <1>1, <1>2, <2>3, <2>4, <2>7 DEF Service!ServeGetKey, stream
<1> QED
  BY <1>4, <1>5 DEF qkd_get_key

\* A request is served at the instant its handler runs.
LEMMA HandleRefines ==
  ASSUME Inv, Inv', Handle
  PROVE  Service!Next
<1>1. PICK c \in Client : peer = c
  BY HandlesOwnRequest
<1> DEFINE req == call[c]
<1>2. KmsInv /\ req \in Request /\ HandleRequest(req)
  BY <1>1, HandlesOwnRequest
<1>3. KmsInv'
  BY <1>2, HandleSafe
<1>4. /\ c \in Trusted /\ Statuses[c] \in {"pending", "orphaned"}
      /\ Service!Answer(c, response')
  BY <1>1, HandledView
<1>5. UNCHANGED <<call, results>>
  BY DEF Handle, clientVars
<1>6. CASE qkd_open_connect(req)
  BY <1>2, <1>3, <1>4, <1>5, <1>6, OpenConnectRefines DEF Service!Serve, Service!Next
<1>7. CASE qkd_get_key(req)
  BY <1>2, <1>3, <1>4, <1>5, <1>7, GetKeyRefines DEF Service!Serve, Service!Next
<1>8. CASE qkd_close(req)
  <2>1. Service!ServeClose(c, req)
    BY <1>4, <1>8, SameModels, StreamsKept DEF qkd_close, Service!ServeClose
  <2> QED
    BY <1>4, <1>5, <2>1 DEF Service!Serve, Service!Next
<1> QED
  BY <1>2, <1>6, <1>7, <1>8 DEF HandleRequest

\* Every step of the server is one step of KeyService, or none.
LEMMA ServerRefines ==
  ASSUME Inv, Inv', ServerStep
  PROVE  Service!Next \/ UNCHANGED Service!serviceVars
<1>1. CASE SslAcceptFails \/ RecvHeader \/ RecvCloseServer \/ Shutdown
  <2>1. PICK c \in Client : peer = c
    BY <1>1, PeerIsClient DEF SslAcceptFails, RecvHeader, RecvCloseServer, Shutdown
  <2>2. /\ server_pc # "respond" /\ server_pc' # "respond"
        /\ UNCHANGED <<clientVars, s2c, kmsVars>>
    BY <1>1 DEF SslAcceptFails, RecvHeader, RecvCloseServer, Shutdown
  <2>3. CASE RecvCloseServer
    <3>1. c2s[c] = <<call[c]>>
      BY <2>1, <2>3 DEF RecvCloseServer, Inv, AllData, DataInv
    <3>2. c2s' = [c2s EXCEPT ![c] = <<>>]
      BY <2>1, <2>3, <3>1 DEF RecvCloseServer
    <3> QED
      BY <2>1, <2>2, <3>2, DropRefines
  <2>4. CASE ~RecvCloseServer
    <3>1. UNCHANGED c2s \/ c2s' = [c2s EXCEPT ![c] = <<>>]
      BY <1>1, <2>1, <2>4 DEF SslAcceptFails, RecvHeader, Shutdown
    <3> QED
      BY <2>1, <2>2, <3>1, DropRefines
  <2> QED
    BY <2>3, <2>4
<1>2. CASE RecvHeaderFails \/ RecvPayloadFails \/ HandleUnknown \/ ShutdownLast \/ ShutdownBroken
  <2>1. server_pc # "respond" /\ \E why \in Down : ServerEnds(why)
    BY <1>2 DEF RecvHeaderFails, RecvPayloadFails, AwaitsPayload, HandleUnknown, ShutdownLast,
               ShutdownBroken, Down
  <2> QED
    BY <2>1, ServerEndsRefines
<1>3. CASE Respond
  BY <1>3, PeerIsClient, RespondRefines DEF Respond
<1>4. CASE RespondToNobody
  <2>1. CASE ServerEnds("crashed")
    BY <1>4, <2>1, ServerEndsRefines DEF RespondToNobody, Down
  <2>2. CASE ~ServerEnds("crashed")
    BY <1>4, <2>2, PeerIsClient, RespondRefines DEF RespondToNobody
  <2> QED
    BY <2>1, <2>2
<1> QED
  BY <1>1, <1>2, <1>3, <1>4, HandshakeRefines, HandleRefines DEF ServerStep

-----------------------------------------------------------------------------
\* Every call is atomic and served at most once, by the streams that are alive at
\* that instant, for any number of clients, calls, crashes and restarts: the
\* detailed specification implements KeyService.
THEOREM ServiceImplementsKeyService == Spec => ImplementsKeyService
<1>1. Init => Service!Init
  <2> SUFFICES ASSUME Init PROVE Service!Init
    OBVIOUS
  <2> USE DEF Init, KmsInit
  <2>1. LiveStreams = <<>>
    <3>1. DOMAIN LiveStreams = {}
      BY DEF LiveStreams
    <3>2. DOMAIN LiveStreams = {} => LiveStreams = <<>>
      BY LiveIsFunction
    <3> QED
      BY <3>1, <3>2
  <2>2. MintedIds = {}
    BY DEF MintedIds
  <2>3. Statuses = [c \in Client |-> "idle"] /\ Answers = [c \in Client |-> NoResponse]
    BY DEF Statuses, Answers, StatusOf, AnswerOf
  <2> QED
    BY <2>1, <2>2, <2>3, SameModels DEF Service!Init
<1>2. Inv /\ Inv' /\ [Next]_vars => [Service!Next]_(Service!serviceVars)
  <2> SUFFICES ASSUME Inv, Inv', [Next]_vars
               PROVE  Service!Next \/ UNCHANGED Service!serviceVars
    OBVIOUS
  <2>1. CASE \E c \in Client : AppStep(c)
    BY <2>1, AppStepCalls, CallRefines
  <2>2. CASE \E c \in Client : ClientStep(c) \/ Kill(c) \/ Stall(c)
    BY <2>2, ClientRefines
  <2>3. CASE ServerStep
    BY <2>3, ServerRefines
  <2>4. CASE RestartServer
    BY <2>4, RestartRefines
  <2>5. CASE Quiescent \/ UNCHANGED vars
    <3> USE DEF vars, clientVars, serverVars, kmsVars
    <3>1. UNCHANGED vars
      BY <2>5 DEF Quiescent
    <3>2. \A c \in Client : SameView(c)
      BY <3>1, KeptView
    <3> QED
      BY <3>1, <3>2, NobodyChanges, StreamsKept, Unseen
  <2> QED
    BY <2>1, <2>2, <2>3, <2>4, <2>5 DEF Next
<1>3. Spec => Service!Spec
  BY <1>1, <1>2, ServiceInvariant, PTL DEF Spec, Service!Spec
<1> QED
  BY <1>3 DEF ImplementsKeyService
=============================================================================
