---------------------------- MODULE MCKeyStreams ----------------------------
(***************************************************************************)
(* A small instance of KeyStreams.  Hashes are bit patterns, so that the   *)
(* exclusive or of the seed is the real one.                               *)
(***************************************************************************)
EXTENDS KeyStreams, Bitwise, TLC

CONSTANTS k1, k2, k3, k4, app

\* Two applications, in both directions.
MCPair == {[source |-> 1, destination |-> 2], [source |-> 2, destination |-> 1]}
MCKeyInfo == {[key_type |-> "symmetric", key_role |-> "default"],
              [key_type |-> "oblivious", key_role |-> "sender"],
              [key_type |-> "oblivious", key_role |-> "receiver"]}
MCUuid == {k1, k2, k3, k4}
MCAppUuid == {app}
MCSimpleHash(uri) == IF uri = 1 THEN 5 ELSE 6
MCXor32(a, b) == a ^^ b

UuidSymmetry == Permutations(MCUuid)
=============================================================================
