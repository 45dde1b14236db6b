------------------------------ MODULE UInt256 ------------------------------
(***************************************************************************)
(* The arithmetic of uint256.c.  A value is four chunks of Bits bits, the  *)
(* least significant first; all arithmetic on chunks is modulo Base.  The  *)
(* loops over the four chunks are written out, the loop of uint256_mul     *)
(* over the bits of its left operand is the state machine at the end.      *)
(***************************************************************************)
EXTENDS Integers

CONSTANTS Bits,     \* bits of a chunk: 64
          Base,     \* 2^Bits
          Operands  \* the values that may be multiplied

ASSUME BitsAssumption == Bits \in Nat \ {0}
ASSUME BaseAssumption == Base \in Nat \ {0, 1}
ASSUME BasePower == Base = 2 ^ Bits
(* Doubling, of all the powers that are shifted by. *)
ASSUME PowersDouble == \A n \in 0..(4 * Bits - 1) : 2 ^ (n + 1) = 2 * 2 ^ n

Chunk == 0..(Base - 1)
UInt == [0..3 -> Chunk]
ASSUME OperandsAssumption == Operands \subseteq UInt

(* the number a value stands for *)
Value(v) == v[0] + Base * (v[1] + Base * (v[2] + Base * v[3]))
Modulus == Base * (Base * (Base * Base))

uint256_create(a, b, c, d) ==
  [k \in 0..3 |-> CASE k = 0 -> a [] k = 1 -> b [] k = 2 -> c [] k = 3 -> d]
uint256_create_from_u64(val) == uint256_create(val, 0, 0, 0)

-----------------------------------------------------------------------------
Plus(a, b) == (a + b) % Base

\* Mutant: the carry that comes in is forgotten.
check_overflowTwo(top, bot, carry) == IF Plus(top, bot) < top THEN 1 ELSE 0

check_overflow(top, bot, carry) ==
  IF Plus(top, bot) < top \/ Plus(Plus(top, bot), carry) < Plus(top, bot) THEN 1 ELSE 0

uint256_add(left, right) ==
  LET sum(k, carry) == Plus(Plus(left[k], right[k]), carry)
      next(k, carry) == check_overflow(left[k], right[k], carry)
      c1 == next(0, 0)
      c2 == next(1, c1)
      c3 == next(2, c2)
  IN  uint256_create(sum(0, 0), sum(1, c1), sum(2, c2), sum(3, c3))

Inverted(num) == [k \in 0..3 |-> Base - 1 - num[k]]

\* Mutant: the bits are inverted and nothing is added.
negateOnes(num) == Inverted(num)

negate(num) == uint256_add(Inverted(num), uint256_create_from_u64(1))

uint256_sub(left, right) == uint256_add(left, negate(right))

-----------------------------------------------------------------------------
shift_n_chunks(num, n) == [k \in 0..3 |-> IF k >= n THEN num[k - n] ELSE 0]

Shl(a, n) == (a * 2 ^ n) % Base
Shr(a, n) == a \div 2 ^ n

uint256_bit_is_set(val, index) == Shr(val[index \div Bits], index % Bits) % 2 = 1

\* Mutant: the carry of the lowest chunk is not taken.
uint256_leftshiftNoCarry(val, shift) ==
  [k \in 0..3 |-> Shl(shift_n_chunks(val, shift \div Bits)[k], shift % Bits)]

(* The carry into a chunk is taken from the chunk below it after that one  *)
(* has been shifted, except for the carry out of the lowest one.  A loop   *)
(* from num_chunks + 1 to 3, so a function of the chunk.                   *)
uint256_leftshift(val, shift) ==
  LET num_chunks == shift \div Bits
      tmp == shift % Bits
      new_val == shift_n_chunks(val, num_chunks)
      shifted[k \in 0..3] ==
        IF k < num_chunks THEN 0
        ELSE IF k = num_chunks THEN Shl(new_val[k], tmp)
        ELSE LET right == Shr(IF k = num_chunks + 1 THEN new_val[k - 1] ELSE shifted[k - 1],
                              Bits - tmp)
             IN  Plus(Shl(new_val[k], tmp), right)
  IN  IF tmp = 0 THEN new_val ELSE shifted

-----------------------------------------------------------------------------
VARIABLES left, right,     \* the operands
          product, i       \* the variables of uint256_mul

mulVars == <<left, right, product, i>>

MulInit ==
  /\ left \in Operands /\ right \in Operands
  /\ product = uint256_create_from_u64(0)
  /\ i = 0

(* one iteration of the loop of uint256_mul *)
uint256_mul ==
  /\ i < 4 * Bits
  /\ product' = IF uint256_bit_is_set(left, i)
                  THEN uint256_add(product, uint256_leftshift(right, i))
                  ELSE product
  /\ i' = i + 1
  /\ UNCHANGED <<left, right>>

MulSpec == MulInit /\ [][uint256_mul]_mulVars

(* Sums wrap around once, and nowhere but at the top: no carry between the *)
(* chunks is lost or made up, for any operands and with any carry pattern. *)
AddIsExact ==
  LET s == Value(uint256_add(left, right))
  IN  s \in {Value(left) + Value(right), Value(left) + Value(right) - Modulus}

(* A difference is the integer difference, or a Modulus above it.          *)
SubIsExact ==
  LET d == Value(uint256_sub(left, right))
  IN  d \in {Value(left) - Value(right), Value(left) - Value(right) + Modulus}

(* The product of the bits of left read so far.                            *)
ProductSoFar == Value(product) = ((Value(left) % 2 ^ i) * Value(right)) % Modulus

(* uint256.h: "Compute the product of two UInt256 values."                 *)
MulIsExact == i = 4 * Bits => Value(product) = (Value(left) * Value(right)) % Modulus
=============================================================================
