---------------------------- MODULE MCQkdService ----------------------------
(***************************************************************************)
(* Small instances of QkdService.                                          *)
(***************************************************************************)
EXTENDS QkdRefinement, QkdClaims, Bitwise, TLC

CONSTANTS k1, k2, app, a, b, c, d, none

AB == [source |-> 1, destination |-> 2]
BA == [source |-> 2, destination |-> 1]
OnePair == {AB}
TwoPairs == {AB, BA}
SymmetricKey == {[key_type |-> "symmetric", key_role |-> "default"]}
ObliviousKey == {[key_type |-> "oblivious", key_role |-> "sender"],
                 [key_type |-> "oblivious", key_role |-> "receiver"]}
TwoUuids == {k1, k2}
OneAppUuid == {app}
NoAppUuid == {}
BothClients == {a, b}
FourClients == {a, b, c, d}
MCIssuer == {"CA", "other CA"}

\* Nobody verifies anybody, as in server_example.c and client_example.c; and a
\* server that does, with a good client, one that names its certificate and not
\* its key, one with the wrong key, and one that trusts another CA.
OpenTls == [cert |-> "CA", key |-> "match", ca |-> "NULL", max_proto |-> 0]
StrictTls == [OpenTls EXCEPT !.ca = "CA"]
AllOpen == [x \in BothClients |-> OpenTls]
MixedTls == a :> StrictTls @@ b :> [StrictTls EXCEPT !.key = "NULL"]
              @@ c :> [StrictTls EXCEPT !.key = "mismatch"] @@ d :> [StrictTls EXCEPT !.ca = "other CA"]
MCSimpleHash(uri) == IF uri = 1 THEN 5 ELSE 6
MCXor32(x, y) == x ^^ y
AcceptMinusOne == {-1}
AcceptEither == {0, -1}

\* Sound for invariants while all clients have the same set-up.
Symmetry == Permutations(TwoUuids) \cup Permutations(BothClients)
=============================================================================
