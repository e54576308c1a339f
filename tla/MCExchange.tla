----------------------------- MODULE MCExchange -----------------------------
(***************************************************************************)
(* A small instance of Exchange: numbers to the base 4, so that 2^32 is    *)
(* 256, ids of two octets, and records of 120 octets.                      *)
(***************************************************************************)
EXTENDS Exchange, Bitwise

Alice == <<97>>
Bob == <<98, 98>>
AB == [source |-> Alice, destination |-> Bob]
MCPair == {AB, [source |-> Bob, destination |-> <<>>]}
MCUuid == {<<1, 2>>, <<3, 0>>}
NoAppUuid == {}
MCNilUuid == <<0, 0>>
MCKeyInfo == [key_type : KeyTypes, key_role : KeyRoles]

\* Keys of no octets, of a few, and of so many that the size of the response
\* wraps around; mimetypes of no octets, of the greatest length, and too long.
Mimetype(length) == [i \in 1..length |-> 106]
MCQos(chunk, length) ==
  [key_chunk_size |-> chunk, max_bps |-> 200, min_bps |-> 7, jitter |-> 1, priority |-> 2,
   timeout |-> 3, ttl |-> 255, metadata_mimetype |-> Mimetype(length)]
MCAppQos == {MCQos(0, 0), MCQos(3, 3), MCQos(253, 1), MCQos(2, 4)}

\* Too short, well formed, and too long for the payload to stay below 256 octets.
MCAppMetadata == {<<>>, <<1>>, <<1, 16>>, <<1, 17>>, [i \in 1..250 |-> 0]}

MCRand(seed, i) == (seed * 37 + i * 91 + 5) % 32768
MCOr8(x, y) == x | y
MCAnd8(x, y) == x & y
MCXor32(x, y) == x ^^ y
MCJson == <<106>>
MCDeviceInfo == <<123, 125, 0>>
MCStray == {0, 16}
=============================================================================
