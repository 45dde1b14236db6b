---------------------------- MODULE CacheAddress ----------------------------
(***************************************************************************)
(* How csf_assign03/cachesimfuncs.cpp cuts a memory address into tag,      *)
(* index and offset: shifts of an unsigned of WordBits bits, with the      *)
(* field widths taken from log2 of the sizes.                              *)
(***************************************************************************)
EXTENDS Integers

CONSTANTS
  WordBits   \* 32 in the program: the bits of an unsigned

Unsigned == 0 .. 2^WordBits - 1

(* Shifts by 0 .. WordBits-1; the callers stay in that range as long as    *)
(* fewer than WordBits bits are used for index and offset.                 *)
ShiftLeft(a, n) == (a * 2^n) % 2^WordBits
ShiftRight(a, n) == a \div 2^n

(* unsigned x = log2(n) drops the fraction. *)
Log2(n) == CHOOSE k \in 0..WordBits : 2^k <= n /\ n < 2^(k+1)

get_tag(a, bytesperblock, numsets) ==
  ShiftRight(a, Log2(bytesperblock) + Log2(numsets))

(* Mutant: the tag bits are not shifted out of the index first. *)
get_index_unmasked(a, bytesperblock, numsets) ==
  ShiftRight(a, WordBits - Log2(numsets))

(* The single-set case is separate: a shift by WordBits is undefined. *)
get_index(a, bytesperblock, numsets) ==
  IF numsets = 1 THEN 0
  ELSE ShiftRight(ShiftLeft(a, WordBits - (Log2(bytesperblock) + Log2(numsets))),
                  WordBits - Log2(numsets))

-----------------------------------------------------------------------------
PowersOfTwo == {2^k : k \in 0 .. WordBits-1}

(* Doubling, of all the powers that are shifted by. *)
PowersDouble == \A n \in 0 .. WordBits-1 : 2^(n+1) = 2 * 2^n

(* The memory is cut into blocks of bytesperblock bytes which are dealt to *)
(* the sets in turn, and the tag tells apart the blocks of one set: tag    *)
(* and index together name the block of an address, no more and no less.   *)
NamesBlock(a, bytesperblock, numsets) ==
  LET tag == get_tag(a, bytesperblock, numsets)
      index == get_index(a, bytesperblock, numsets)
  IN  /\ index \in 0 .. numsets-1
      /\ tag * numsets + index = a \div bytesperblock
=============================================================================
