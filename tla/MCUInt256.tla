----------------------------- MODULE MCUInt256 -----------------------------
(***************************************************************************)
(* The functions of uint256.c used together, as its callers do: the left   *)
(* operand is read from a string, multiplied with the right one, and the   *)
(* product is written as a string.                                         *)
(***************************************************************************)
EXTENDS UInt256, UInt256Hex

CONSTANT MaxLength   \* bound: characters of a string

VARIABLES hex,    \* the string given to uint256_create_from_hex
          text,   \* what uint256_format_as_hex makes of the product
          stage   \* "parse", "multiply" or "done"

allVars == <<mulVars, hex, text, stage>>

ASSUME LengthAssumption == MaxLength \in Nat
ASSUME ChunkAssumption == HexBase ^ ChunkDigits = Base

FullLength == [1..Digits -> Digit]
Strings == UNION {[1..n -> Digit \cup {Other}] : n \in 0..MaxLength}

(* All operands, and all strings, but not all of both. *)
MCInit ==
  /\ \/ hex \in FullLength /\ right \in Operands
     \/ hex \in Strings \ FullLength /\ right = uint256_create_from_u64(1)
  /\ left = uint256_create_from_u64(0) /\ product = left /\ i = 0
  /\ text = <<>> /\ stage = "parse"

Parse ==
  /\ stage = "parse" /\ stage' = "multiply"
  /\ left' = uint256_create_from_hex(hex)
  /\ UNCHANGED <<right, product, i, hex, text>>

Multiply == stage = "multiply" /\ uint256_mul /\ UNCHANGED <<hex, text, stage>>

Format ==
  /\ stage = "multiply" /\ i = 4 * Bits
  /\ stage' = "done" /\ text' = uint256_format_as_hex(product)
  /\ UNCHANGED <<mulVars, hex>>

MCSpec == MCInit /\ [][Parse \/ Multiply \/ Format]_allVars

-----------------------------------------------------------------------------
(* Whatever its length, a string of digits is read as the number it stands *)
(* for, or as its last digits when it has more than a value holds          *)
(* (uint256_create_from_hex); the product is written with no zero in front *)
(* but the only digit of 0, and reads back as the same value               *)
(* (uint256_format_as_hex).                                                *)
RoundTrip ==
  /\ stage = "multiply" /\ Other \notin {hex[k] : k \in DOMAIN hex} =>
       Value(left) = NumberOf(hex) % Modulus
  /\ stage = "done" =>
       /\ text # <<>> /\ (text[1] = 0 => Len(text) = 1)
       /\ uint256_create_from_hex(text) = product

(* Operands for which uint256_leftshift loses nothing: of two bits, so     *)
(* that no carry reaches a third chunk, or shifted by half a chunk at most.*)
NarrowRight == right[0] < 4 /\ \A k \in 1..3 : right[k] = 0
HalfLeft == /\ left[0] < 2 ^ (Bits \div 2 + 1)
            /\ \A k \in 1..3 : left[k] = 0 /\ right[k] = 0

(* The part of "Compute the product" (uint256.h 45) that the code keeps:   *)
(* for these operands the sum of the shifted values is the product of the  *)
(* bits read so far.                                                       *)
NarrowProduct == NarrowRight \/ HalfLeft => ProductSoFar
=============================================================================
