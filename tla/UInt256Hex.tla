----------------------------- MODULE UInt256Hex -----------------------------
(***************************************************************************)
(* The conversions of uint256.c between a value and its hex digits.  A     *)
(* string is a sequence of digits, most significant first, in which Other  *)
(* stands for any character strtoul stops at.                              *)
(***************************************************************************)
EXTENDS Integers, Sequences

CONSTANTS HexBase,         \* 16
          ChunkDigits,     \* digits of a chunk: 16
          Other            \* a character that is no digit

Digit == 0..(HexBase - 1)
Digits == 4 * ChunkDigits

ASSUME HexAssumption ==
  /\ HexBase \in Nat \ {0, 1} /\ ChunkDigits \in Nat \ {0}
  /\ Other \notin Digit

(* The powers a digit is multiplied with. *)
ASSUME HexPowers ==
  /\ HexBase ^ 0 = 1
  /\ \A n \in 0..(Digits - 1) : HexBase ^ (n + 1) = HexBase * HexBase ^ n

(* the number that has been read after each digit, and after the last one *)
NumberOf(digits) ==
  LET number[n \in 0..Len(digits)] ==
        IF n = 0 THEN 0 ELSE number[n - 1] * HexBase + digits[n]
  IN  number[Len(digits)]

(* the digits before the first other character *)
strtoul(s) ==
  LET end == CHOOSE n \in 0..Len(s) :
               /\ n = Len(s) \/ s[n + 1] = Other
               /\ \A k \in 1..n : s[k] # Other
  IN  NumberOf(SubSeq(s, 1, end))

\* Mutant: a long string keeps its first digits.
hexcopyHead(h) ==
  IF Len(h) < Digits THEN [k \in 1..(Digits - Len(h)) |-> 0] \o h ELSE SubSeq(h, 1, Digits)

(* short strings are padded with zeros, of long ones the last digits are kept *)
hexcopy(h) ==
  IF Len(h) < Digits THEN [k \in 1..(Digits - Len(h)) |-> 0] \o h
                     ELSE SubSeq(h, Len(h) - Digits + 1, Len(h))

uint256_create_from_hex(h) ==
  [arrind \in 0..3 |->
     strtoul(SubSeq(hexcopy(h), (3 - arrind) * ChunkDigits + 1, (4 - arrind) * ChunkDigits))]

LeadingZeros(h) ==
  CHOOSE n \in 0..Len(h) : /\ n = Len(h) \/ h[n + 1] # 0
                           /\ \A k \in 1..n : h[k] = 0

leadingzeroindex(h) == IF LeadingZeros(h) = Len(h) THEN Len(h) - 1 ELSE LeadingZeros(h)

uint256_format_as_hex(v) ==
  LET all == [k \in 1..Digits |->
                LET chunk == 3 - (k - 1) \div ChunkDigits
                    place == ChunkDigits - 1 - ((k - 1) % ChunkDigits)
                IN  (v[chunk] \div HexBase ^ place) % HexBase]
  IN  SubSeq(all, leadingzeroindex(all) + 1, Digits)
=============================================================================
