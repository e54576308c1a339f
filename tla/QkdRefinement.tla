--------------------------- MODULE QkdRefinement ---------------------------
(***************************************************************************)
(* The clients, the TLS server and the linked list implement KeyService.   *)
(***************************************************************************)
EXTENDS QkdService

\* The list seen as a function of pairs.
StreamOf(pair) ==
  LET node == ksid_info_linked_list[CHOOSE i \in NodesOfPair(pair) : TRUE]
  IN [key_stream_id |-> node.key_stream_id, qos |-> node.qos]

LiveStreams ==
  [pair \in {ksid_info_linked_list[i].pair : i \in DOMAIN ksid_info_linked_list}
     |-> StreamOf(pair)]

\* A call is answered from the moment its handler ran.
Handled(c) == s2c[c] # <<>> \/ (server_pc = "respond" /\ peer = c)

StatusOf(c) ==
  IF pc[c] = "idle" THEN "idle"
  ELSE IF pc[c] \in Gone THEN IF c2s[c] = <<>> THEN "gone" ELSE "orphaned"
  ELSE IF Handled(c) THEN "answered" ELSE "pending"

AnswerOf(c) ==
  IF StatusOf(c) # "answered" THEN NoResponse
  ELSE IF s2c[c] # <<>> THEN Head(s2c[c])
  ELSE response

Statuses == [c \in Client |-> StatusOf(c)]
Answers == [c \in Client |-> AnswerOf(c)]

Service == INSTANCE KeyService WITH
  streams  <- LiveStreams,
  given    <- MintedIds,
  status   <- Statuses,
  request  <- call,
  answer   <- Answers,
  returned <- results

\* Every call is atomic and is served at most once, by the streams that are
\* alive at that instant: the interleaving of clients, accept queue, servlet and
\* crashes shows applications nothing that KeyService does not.
ImplementsKeyService == Service!Spec
=============================================================================
