------------------------------ MODULE KeyOctets ------------------------------
(***************************************************************************)
(* The octets behind the keys of Models: the hash and the key generators   *)
(* of server_example.c, and the file that write_key_to_file.c makes of a   *)
(* GET_KEY response.                                                       *)
(***************************************************************************)
EXTENDS Models, WireFormat

CONSTANTS
  Rand(_, _),            \* Rand(seed, i): the i-th rand() after srand(seed)
  Or8(_, _), And8(_, _)  \* bitwise or and bitwise and of octets

Bit(octet, b) == (octet \div 2^b) % 2

\* 170 is every second bit of an octet from the highest on, 85 the others.
ASSUME OctetsAssumption ==
  /\ \A key \in Key : \A i \in 1..key.size : Rand(key.seed, i) \in Nat
  /\ \A octet \in 0..255 :
       /\ Or8(octet, 170) \in Nat /\ And8(octet, 85) \in Nat
       /\ \A b \in 0..7 :
            /\ Bit(Or8(octet, 170), b) = IF b % 2 = 1 THEN 1 ELSE Bit(octet, b)
            /\ Bit(And8(octet, 85), b) = IF b % 2 = 1 THEN 0 ELSE Bit(octet, b)

\* (hash << 5) + hash + c for each octet, in 32 bits.
simple_hash_octets(uri) == FoldLeft(LAMBDA hash, c : (33 * hash + c) % WordMod, 0, uri)

\* Mutant: the shift is forgotten, so that all octets hold the second bit of a pair.
ReceiverOctetUnshifted(i, octet) == IF i % 2 = 0 THEN Or8(octet, 170) ELSE And8(octet, 85)

\* Octet i of the receiver of an oblivious key, counted from 0: pairs of a choice
\* bit, which is 1 on even octets and 0 on odd ones, and the bit it chooses.
ReceiverOctet(i, octet) == IF i % 2 = 0 THEN Or8(octet, 170) ELSE And8(octet \div 2, 85)

\* The octets of a key [size, seed, form] of Models.
OctetsOf(key) ==
  [i \in 1..key.size |->
     LET octet == Rand(key.seed, i) % 256
     IN IF key.form = "half" THEN ReceiverOctet(i - 1, octet) ELSE octet]

\* The first two octets of the metadata as a qkd_key_info_t.  The server asks
\* only whether the type is symmetric and whether the role is that of a sender.
KeyInfoOf(octets) ==
  [key_type |-> IF octets[1] = 0 THEN "symmetric" ELSE "oblivious",
   key_role |-> CASE octets[2] = 16 -> "sender"
                  [] octets[2] = 17 -> "receiver"
                  [] octets[2] = 1 -> "error"
                  [] OTHER -> "default"]

-----------------------------------------------------------------------------
(* The key file. *)

number_of_digits[n \in Nat] == IF n < 10 THEN 1 ELSE 1 + number_of_digits[n \div 10]

\* Mutant: no room for the NUL.
SindexSizeWithoutNul == number_of_digits[WordMod - 1]

\* char sindex[11]: as many digits as a uint32_t can have, and a NUL.
SindexSize == number_of_digits[WordMod - 1] + 1

Decimal[n \in Nat] == IF n < 10 THEN <<n>> ELSE Append(Decimal[n \div 10], n % 10)

Minus == 10
Stray == 11     \* the NUL of sindex, or what was in it before

\* sprintf with %d takes the index for a signed number.
SprintfIndex(index) ==
  IF index < WordMod \div 2 THEN Decimal[index] ELSE <<Minus>> \o Decimal[WordMod - index]

SindexOverrun(index) == Len(SprintfIndex(index)) + 1 > SindexSize

\* What is appended to the file: as many characters of sindex as the unsigned
\* index has digits, then the bits of the key.
write_key_to_file_bit_format(resp) ==
  [index |-> [i \in 1..number_of_digits[resp.index] |->
                IF i <= Len(SprintfIndex(resp.index)) THEN SprintfIndex(resp.index)[i]
                                                      ELSE Stray],
   key |-> [b \in 1..(8 * Len(resp.key_buffer)) |->
              Bit(resp.key_buffer[(b - 1) \div 8 + 1], 7 - ((b - 1) % 8))]]
=============================================================================
