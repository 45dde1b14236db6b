--------------------------- MODULE HexDumpProofs ---------------------------
(***************************************************************************)
(* What is proved of the two hexdump programs (MCHexDump), for every base, *)
(* line size, number of digits of an offset, mask, set of inputs and bound *)
(* on the reads that fail: that each of them dumps its input, and that the *)
(* program in assembly implements the one in C (but for its fairness).     *)
(*                                                                         *)
(* Stage is where the C program would be; in the terms of Stage each step  *)
(* of either program is one of the C program (Step) or none (Still), so    *)
(* the invariant and the refinement are proved once for both programs.     *)
(* The invariant, DumpInv, says of each line what DumpIsFaithful says, and *)
(* in the middle of a line which of its bytes are already there.  That a   *)
(* line can be found by its offset needs offsets that are formatted alike  *)
(* to be equal (FormatInjective), and that a mask is the same as a         *)
(* remainder needs CutFormat; both are about digits, place by place.       *)
(***************************************************************************)
EXTENDS MCHexDump, SequenceTheorems, WellFoundedInduction, TLAPS

-----------------------------------------------------------------------------
(* Powers of the base and the digits of an offset. *)

(* Induction over the numbers up to N, for sets: < is well founded.        *)
LEMMA CountUp ==
  ASSUME NEW S, NEW M \in Nat, 0 \in S,
         \A n \in 0..(M - 1) : n \in S => n + 1 \in S
  PROVE  0..M \subseteq S
<1> DEFINE R == OpToRel(<, Nat)
           T == {n \in 0..M : n \notin S}
<1>1. IsWellFoundedOn(R, Nat)
  BY NatLessThanWellFounded
<1>2. \A x, y \in Nat : <<y, x>> \in R <=> y < x
  BY DEF OpToRel
<1> HIDE DEF R
<1>3. ASSUME T # {} PROVE FALSE
  <2>1. PICK m \in T : \A y \in T : ~(<<y, m>> \in R)
    <3>1. T \subseteq Nat
      OBVIOUS
    <3> HIDE DEF T
    <3> QED  BY <1>1, <1>3, <3>1, WFMin
  <2>2. m # 0 /\ m - 1 \in 0..(M - 1) /\ m - 1 < m /\ m \in Nat
    OBVIOUS
  <2>3. m - 1 \notin T
    <3>1. m - 1 \in Nat
      BY <2>2
    <3>2. <<m - 1, m>> \in R
      BY <1>2, <2>2, <3>1
    <3> HIDE DEF T
    <3> QED  BY <2>1, <3>2
  <2>4. m - 1 \in S
    BY <2>2, <2>3
  <2>5. (m - 1) + 1 \in S
    BY <2>2, <2>4
  <2> QED
    BY <2>1, <2>5
<1> QED
  BY <1>3

(* What there is to know of the powers of b, as the numbers p[n].          *)
LEMMA PowersOf ==
  ASSUME NEW b \in Nat \ {0}, NEW M \in Nat, NEW p, p[0] = 1,
         \A n \in 0..(M - 1) : p[n + 1] = b * p[n]
  PROVE  /\ \A n \in 0..M : p[n] \in Nat \ {0}
         /\ \A m \in 0..M : \A n \in 0..(M - m) : p[m + n] = p[m] * p[n]
         /\ \A m, n \in 0..M : m <= n => p[m] <= p[n]
<1>1. \A n \in 0..M : p[n] \in Nat \ {0}
  <2> DEFINE S == {n \in 0..M : p[n] \in Nat \ {0}}
  <2>1. 0 \in S
    OBVIOUS
  <2>2. ASSUME NEW n \in 0..(M - 1), n \in S PROVE n + 1 \in S
    <3>1. p[n + 1] = b * p[n] /\ p[n] \in Nat \ {0}
      BY <2>2
    <3>2. \A x \in Nat \ {0} : b * x \in Nat \ {0}
      OBVIOUS
    <3> QED  BY <3>1, <3>2
  <2>3. 0..M \subseteq S
    <3> HIDE DEF S
    <3> QED  BY <2>1, <2>2, CountUp
  <2> QED  BY <2>3
<1>2. ASSUME NEW m \in 0..M PROVE \A n \in 0..(M - m) : p[m + n] = p[m] * p[n]
  <2> DEFINE S == {n \in 0..(M - m) : p[m + n] = p[m] * p[n]}
  <2>1. 0 \in S
    BY <1>1
  <2>2. ASSUME NEW n \in 0..((M - m) - 1), n \in S PROVE n + 1 \in S
    <3>1. p[n + 1] = b * p[n] /\ p[(m + n) + 1] = b * p[m + n]
      OBVIOUS
    <3>2. p[m + n] = p[m] * p[n] /\ p[m] \in Nat /\ p[n] \in Nat
      BY <1>1, <2>2
    <3>3. \A x, y \in Nat : b * (x * y) = x * (b * y)
      OBVIOUS
    <3>4. p[(m + n) + 1] = p[m] * p[n + 1]
      BY <3>1, <3>2, <3>3
    <3>5. m + (n + 1) = (m + n) + 1
      OBVIOUS
    <3> QED  BY <3>4, <3>5
  <2>3. 0..(M - m) \subseteq S
    <3> HIDE DEF S
    <3> QED  BY <2>1, <2>2, CountUp
  <2> QED  BY <2>3
<1>3. ASSUME NEW m \in 0..M, NEW n \in 0..M, m <= n PROVE p[m] <= p[n]
  <2>1. n - m \in 0..(M - m) /\ m + (n - m) = n
    BY <1>3
  <2>2. p[n] = p[m] * p[n - m] /\ p[m] \in Nat \ {0} /\ p[n - m] \in Nat \ {0}
    BY <1>1, <1>2, <2>1
  <2>3. \A x, y \in Nat \ {0} : x <= x * y
    OBVIOUS
  <2> QED  BY <2>2, <2>3
<1> QED
  BY <1>1, <1>2, <1>3

-----------------------------------------------------------------------------
(* What the assumptions say, in the terms of either program. *)
LEMMA ConstantsAre ==
  /\ Base \in Nat /\ Base > 1 /\ OffsetDigits \in Nat /\ OffsetDigits > 0
  /\ ShownDigits \in 1..OffsetDigits
  /\ LineSize \in Nat /\ LineSize > 0
  /\ \A j, m \in 1..Base : sHexDigits[j] = sHexDigits[m] => j = m
  /\ CMain!HexBase = Base /\ CProgram!HexBase = Base
  /\ CMain!Byte = 0..(Base * Base - 1) /\ CProgram!Byte = 0..(Base * Base - 1)
  /\ Printable \subseteq CMain!Byte /\ Dot \in CMain!Byte
  /\ Inputs \subseteq Seq(CMain!Byte)
  /\ 0 \in CMain!Byte /\ CMain!Byte \subseteq Nat
<1>1. CMain!HexBase = Base /\ CProgram!HexBase = Base
  BY DEF CMain!HexBase, CProgram!HexBase, Base
<1>2. CMain!HexAssumption /\ ShownDigits \in 1..OffsetDigits
  BY HexdumpAssumption
<1>3. /\ Base \in Nat \ {0, 1} /\ LineSize \in Nat \ {0} /\ OffsetDigits \in Nat \ {0}
      /\ \A j, m \in 1..Base : sHexDigits[j] = sHexDigits[m] => j = m
      /\ Printable \subseteq CMain!Byte /\ Dot \in Printable
      /\ Inputs \subseteq Seq(CMain!Byte)
  BY <1>1, <1>2 DEF CMain!HexAssumption
<1>4. CMain!Byte = 0..(Base * Base - 1) /\ CProgram!Byte = 0..(Base * Base - 1)
  BY <1>1 DEF CMain!Byte, CProgram!Byte
<1>5. Base * Base - 1 \in Nat
  <2>1. \A b \in Nat : b > 1 => b * b > 1 /\ b * b \in Nat
    BY Z3
  <2> QED
    BY <1>3, <2>1
<1>6. 0 \in CMain!Byte /\ CMain!Byte \subseteq Nat
  BY <1>4, <1>5
<1> QED
  BY <1>1, <1>2, <1>3, <1>4, <1>6

(* The powers of the base that an offset is divided by. *)
LEMMA PowersOfBase ==
  /\ Base ^ 0 = 1
  /\ \A n \in 0..(OffsetDigits - 1) : Base ^ (n + 1) = Base * Base ^ n
  /\ \A n \in 0..OffsetDigits : Base ^ n \in Nat \ {0}
  /\ \A m \in 0..OffsetDigits : \A n \in 0..(OffsetDigits - m) : Base ^ (m + n) = Base ^ m * Base ^ n
  /\ \A m, n \in 0..OffsetDigits : m <= n => Base ^ m <= Base ^ n
<1> DEFINE p == [n \in 0..OffsetDigits |-> Base ^ n]
<1>1. OffsetDigits \in Nat /\ Base \in Nat \ {0}
  BY ConstantsAre
<1>2. \A n \in 0..OffsetDigits : p[n] = Base ^ n
  OBVIOUS
<1>3. Base ^ 0 = 1 /\ \A n \in 0..(OffsetDigits - 1) : Base ^ (n + 1) = Base * Base ^ n
  BY HexdumpAssumption, ConstantsAre DEF CMain!PowersMultiply
<1> HIDE DEF p
<1>4. p[0] = 1
  BY <1>1, <1>2, <1>3
<1>5. ASSUME NEW n \in 0..(OffsetDigits - 1) PROVE p[n + 1] = Base * p[n]
  <2>1. n \in 0..OffsetDigits /\ n + 1 \in 0..OffsetDigits
    BY <1>1
  <2> QED
    BY <1>2, <1>3, <2>1
<1>6. /\ \A n \in 0..OffsetDigits : p[n] \in Nat \ {0}
      /\ \A m \in 0..OffsetDigits : \A n \in 0..(OffsetDigits - m) : p[m + n] = p[m] * p[n]
      /\ \A m, n \in 0..OffsetDigits : m <= n => p[m] <= p[n]
  BY <1>1, <1>4, <1>5, PowersOf
<1>7. \A m \in 0..OffsetDigits : \A n \in 0..(OffsetDigits - m) :
        m + n \in 0..OffsetDigits /\ n \in 0..OffsetDigits
  BY <1>1
<1> QED
  BY <1>2, <1>3, <1>6, <1>7, Zenon

(* One digit of a number. *)
DigitAt(n, place) == (n \div Base ^ place) % Base

(* A digit is one, at every place. *)
LEMMA DigitRange ==
  ASSUME NEW n \in Nat, NEW place \in 0..OffsetDigits
  PROVE  DigitAt(n, place) \in 0..(Base - 1) /\ n \div Base ^ place \in Nat
<1> DEFINE p == Base ^ place
<1>1. p \in Nat \ {0} /\ Base \in Nat \ {0}
  BY PowersOfBase, ConstantsAre
<1> HIDE DEF p
<1>2. n \div p \in Nat /\ \A x \in Nat : x % Base \in 0..(Base - 1)
  BY <1>1
<1>3. (n \div p) % Base \in 0..(Base - 1)
  BY <1>2
<1> QED
  BY <1>2, <1>3 DEF DigitAt, p

(* hex_format_offset writes the digits of a number, the first one first. *)
LEMMA FormatIs ==
  ASSUME NEW n \in Nat
  PROVE  /\ DOMAIN hex_format_offset(n) = 1..OffsetDigits
         /\ hex_format_offset(n) = [m \in 1..OffsetDigits |-> hex_format_offset(n)[m]]
         /\ \A m \in 1..OffsetDigits :
              hex_format_offset(n)[m] = sHexDigits[DigitAt(n, OffsetDigits - m) + 1]
  BY DEF hex_format_offset, DigitAt

(* Numbers that are formatted alike are the same up to the digits of an    *)
(* offset: their quotients by the powers of Base agree, from the highest.  *)
LEMMA FormatInjective ==
  ASSUME NEW a \in Nat, NEW b \in Nat, a < Base ^ OffsetDigits, b < Base ^ OffsetDigits,
         hex_format_offset(a) = hex_format_offset(b)
  PROVE  a = b
<1> DEFINE M == OffsetDigits
           S == {n \in 0..M : a \div Base ^ (M - n) = b \div Base ^ (M - n)}
<1>1. M \in Nat /\ Base \in Nat \ {0} /\ Base > 1
  BY ConstantsAre
<1>2. \A m \in 1..M : DigitAt(a, M - m) = DigitAt(b, M - m)
  <2> SUFFICES ASSUME NEW m \in 1..M PROVE DigitAt(a, M - m) = DigitAt(b, M - m)
    OBVIOUS
  <2>1. M - m \in 0..M
    BY <1>1
  <2>2. DigitAt(a, M - m) \in 0..(Base - 1) /\ DigitAt(b, M - m) \in 0..(Base - 1)
    BY <2>1, DigitRange
  <2>3. sHexDigits[DigitAt(a, M - m) + 1] = sHexDigits[DigitAt(b, M - m) + 1]
    BY FormatIs
  <2>4. DigitAt(a, M - m) + 1 \in 1..Base /\ DigitAt(b, M - m) + 1 \in 1..Base
    BY <1>1, <2>2
  <2>5. DigitAt(a, M - m) + 1 = DigitAt(b, M - m) + 1
    BY <2>3, <2>4, ConstantsAre
  <2> QED
    BY <2>2, <2>5
<1>3. 0 \in S
  <2>1. M - 0 = M
    BY <1>1
  <2> DEFINE p == Base ^ M
  <2>2. p \in Nat \ {0} /\ a < p /\ b < p
    BY <1>1, PowersOfBase
  <2>3. a \div p = 0 /\ b \div p = 0
    <3> HIDE DEF p
    <3> QED
      BY <2>2
  <2> QED
    BY <1>1, <2>1, <2>3
<1>4. ASSUME NEW n \in 0..(M - 1), n \in S PROVE n + 1 \in S
  <2> DEFINE m == M - (n + 1)
             p == Base ^ m
             x == a \div p
             y == b \div p
  <2>1. m \in 0..(M - 1) /\ m + 1 = M - n /\ n + 1 \in 1..M /\ m \in 0..M /\ n + 1 \in 0..M
    BY <1>1
  <2>2. Base ^ (m + 1) = Base * p /\ p \in Nat \ {0}
    BY <2>1, PowersOfBase
  <2>3. a \div (Base * p) = b \div (Base * p)
    BY <1>4, <2>1, <2>2
  <2>4. x % Base = y % Base
    BY <1>2, <2>1 DEF DigitAt
  <2>5. x = y
    <3> HIDE DEF p
    <3>1. a \div (Base * p) = x \div Base /\ b \div (Base * p) = y \div Base
      <4>1. \A c \in Nat : c \div (Base * p) = (c \div p) \div Base
        BY <1>1, <2>2
      <4> QED
        BY <4>1
    <3>2. x \in Nat /\ y \in Nat
      BY <2>2
    <3> HIDE DEF x, y
    <3>3. x = (x \div Base) * Base + (x % Base) /\ y = (y \div Base) * Base + (y % Base)
      BY <1>1, <3>2
    <3> QED
      BY <2>3, <2>4, <3>1, <3>3
  <2> QED
    BY <2>1, <2>5
<1>5. 0..M \subseteq S
  <2> HIDE DEF S, M
  <2> QED
    BY <1>1, <1>3, <1>4, CountUp
<1>6. M \in 0..M /\ M - M = 0 /\ Base ^ 0 = 1 /\ a \div 1 = a /\ b \div 1 = b
  BY <1>1, PowersOfBase
<1> QED
  BY <1>5, <1>6

(* The digits that are cut off an offset are those masked out of its number. *)
LEMMA CutFormat ==
  ASSUME NEW n \in Nat
  PROVE  [m \in DOMAIN hex_format_offset(n) |->
            IF m <= OffsetDigits - ShownDigits THEN sHexDigits[1] ELSE hex_format_offset(n)[m]]
         = hex_format_offset(n % Base ^ ShownDigits)
<1> DEFINE O == OffsetDigits
           S == ShownDigits
           P == Base ^ S
           r == n % P
<1>1. O \in Nat /\ S \in 1..O /\ S \in 0..O /\ Base \in Nat \ {0} /\ P \in Nat \ {0}
  BY ConstantsAre, PowersOfBase
<1>2. r \in 0..(P - 1) /\ r \in Nat
  <2> HIDE DEF P
  <2> QED
    BY <1>1
<1>3. ASSUME NEW m \in 1..O, m <= O - S PROVE DigitAt(r, O - m) = 0
  <2> DEFINE p == Base ^ (O - m)
  <2>1. O - m \in 0..O /\ S <= O - m
    BY <1>1, <1>3
  <2>2. P <= p /\ p \in Nat \ {0}
    BY <1>1, <2>1, PowersOfBase
  <2>3. r \div p = 0
    <3> HIDE DEF p, P, r
    <3> QED
      BY <1>1, <1>2, <2>2
  <2>4. 0 % Base = 0
    BY <1>1
  <2> QED
    BY <2>3, <2>4 DEF DigitAt
<1>4. ASSUME NEW m \in 1..O, ~(m <= O - S) PROVE DigitAt(r, O - m) = DigitAt(n, O - m)
  <2> DEFINE d == O - m
             e == S - d - 1
             p == Base ^ d
             q == Base ^ e
             z == n \div P
             x == r \div p
  <2>1. d \in 0..O /\ e \in 0..O /\ e \in 0..(O - 1) /\ e + 1 \in 0..(O - d) /\ d + (e + 1) = S
    BY <1>1, <1>4
  <2>2. p \in Nat \ {0} /\ q \in Nat \ {0} /\ Base ^ (e + 1) = Base * q
    BY <2>1, PowersOfBase
  <2>3. P = p * (Base * q)
    BY <2>1, <2>2, PowersOfBase
  <2>4. n = z * P + r /\ z \in Nat
    <3> HIDE DEF P
    <3> QED
      BY <1>1
  <2> HIDE DEF z, r, P, p, q
  <2>5. x \in Nat /\ r = x * p + (r % p) /\ (r % p) \in 0..(p - 1)
    BY <1>2, <2>2
  <2> HIDE DEF x
  <2> DEFINE w == z * q
  <2>6. n = (x + w * Base) * p + (r % p) /\ w \in Nat
    <3>1. z * (p * (Base * q)) = ((z * q) * Base) * p /\ w \in Nat
      BY <1>1, <2>2, <2>4
    <3>2. (x + w * Base) * p = x * p + (w * Base) * p
      BY <1>1, <2>2, <2>5, <3>1
    <3>3. x * p \in Nat /\ (w * Base) * p \in Nat
      BY <1>1, <2>2, <2>5, <3>1
    <3> QED
      BY <2>3, <2>4, <2>5, <3>1, <3>2, <3>3
  <2> HIDE DEF w
  <2>7. n \div p = x + w * Base
    <3> DEFINE y == x + w * Base
               f == r % p
    <3>1. y \in Nat /\ f \in 0..(p - 1) /\ n = y * p + f
      BY <1>1, <2>5, <2>6
    <3> HIDE DEF y, f
    <3>2. n \div p = y
      BY <2>2, <3>1
    <3> QED
      BY <3>2 DEF y
  <2>8. (x + w * Base) % Base = x % Base
    <3> DEFINE y == x \div Base
               f == x % Base
    <3>1. y \in Nat /\ f \in 0..(Base - 1) /\ x = y * Base + f
      BY <1>1, <2>5
    <3> HIDE DEF y, f
    <3>2. x + w * Base = (y + w) * Base + f /\ y + w \in Nat
      BY <1>1, <2>6, <3>1
    <3>3. \A c \in Nat : ((c * Base + f) % Base) = f
      BY <1>1, <3>1
    <3> QED
      BY <3>2, <3>3 DEF f
  <2>9. DigitAt(n, d) = (x + w * Base) % Base /\ DigitAt(r, d) = x % Base
    BY <2>7 DEF DigitAt, p, x
  <2> QED
    BY <2>8, <2>9
<1> HIDE DEF r
<1>5. \A m \in 1..O : hex_format_offset(r)[m]
                        = IF m <= O - S THEN sHexDigits[1] ELSE hex_format_offset(n)[m]
  <2> SUFFICES ASSUME NEW m \in 1..O
               PROVE hex_format_offset(r)[m]
                       = IF m <= O - S THEN sHexDigits[1] ELSE hex_format_offset(n)[m]
    OBVIOUS
  <2>1. /\ hex_format_offset(r)[m] = sHexDigits[DigitAt(r, O - m) + 1]
        /\ hex_format_offset(n)[m] = sHexDigits[DigitAt(n, O - m) + 1]
    BY <1>2, FormatIs
  <2>2. CASE m <= O - S
    <3>1. DigitAt(r, O - m) = 0 /\ 0 + 1 = 1
      BY <1>3, <2>2
    <3> QED
      BY <2>1, <2>2, <3>1
  <2>3. CASE ~(m <= O - S)
    <3>1. DigitAt(r, O - m) = DigitAt(n, O - m)
      BY <1>4, <2>3
    <3> QED
      BY <2>1, <2>3, <3>1
  <2> QED
    BY <2>2, <2>3
<1>6. /\ hex_format_offset(r) = [m \in 1..O |-> hex_format_offset(r)[m]]
      /\ DOMAIN hex_format_offset(n) = 1..O
  BY <1>2, FormatIs
<1>7. hex_format_offset(r) = [m \in DOMAIN hex_format_offset(n) |->
         IF m <= O - S THEN sHexDigits[1] ELSE hex_format_offset(n)[m]]
  BY <1>5, <1>6
<1> QED
  BY <1>7 DEF r

-----------------------------------------------------------------------------
(* Either program in the terms of the C program. *)

(* Where the C program would be, and how many digits of an offset it would *)
(* show: Main is the C program at work on the variables of either one.     *)
Stage ==
  IF program = "C" THEN pc
  ELSE CASE pc = "read" -> "read"
         [] pc = "LwhileLoop" -> (IF ebx = 0 THEN "done" ELSE "offset")
         [] pc = "ret" -> "done"
         [] OTHER -> "byte"
Seen == IF program = "C" THEN OffsetDigits ELSE ShownDigits

Main == INSTANCE HexDump WITH HexChars <- sHexDigits, ShownDigits <- OffsetDigits,
          counter <- ebx, offset <- r12, i <- r14, pc <- Stage

WriteShown ==
  /\ Stage = "offset" /\ Stage' = "byte"
  /\ line' = [NoLine EXCEPT !.offset = hex_format_offset(r12 % Base ^ Seen)]
  /\ r14' = 0
  /\ UNCHANGED <<input, pos, data_buf, ebx, r12, printable, out, errors>>

Step == \/ Main!hex_read \/ Main!hex_readFails \/ WriteShown
        \/ Main!Pad \/ Main!WriteByte \/ Main!WriteText

Still == UNCHANGED <<input, pos, Stage, data_buf, ebx, r12, r14, printable, line, out, errors>>

(* Where each program is. *)
Where ==
  \/ program = "C" /\ pc \in {"read", "offset", "byte", "done"}
  \/ /\ program = "asm"
     /\ \/ pc \in {"read", "LwhileLoop", "ret"}
        \/ pc = "LloopTop" /\ r14 < LineSize
        \/ pc = "LshortLine" /\ r14 < LineSize /\ ebx <= r14
        \/ pc = "LloopCond" /\ r14 <= LineSize
        \/ pc = "LprintAndRead" /\ r14 = LineSize

(* The instances format alike. *)
LEMMA CFormats ==
  ASSUME NEW n
  PROVE  /\ CMain!hex_format_offset(n) = hex_format_offset(n)
         /\ CProgram!hex_format_offset(n) = hex_format_offset(n)
         /\ Main!hex_format_offset(n) = hex_format_offset(n)
         /\ CMain!hex_format_byte_as_hex(n) = hex_format_byte_as_hex(n)
         /\ CProgram!hex_format_byte_as_hex(n) = hex_format_byte_as_hex(n)
         /\ Main!hex_format_byte_as_hex(n) = hex_format_byte_as_hex(n)
         /\ CMain!hex_to_printable(n) = hex_to_printable(n)
         /\ CProgram!hex_to_printable(n) = hex_to_printable(n)
         /\ Main!hex_to_printable(n) = hex_to_printable(n)
         /\ CMain!CString(n) = hex_write_string(n)
         /\ CProgram!CString(n) = hex_write_string(n)
         /\ Main!CString(n) = hex_write_string(n)
<1>1. /\ CMain!hex_format_offset(n) = hex_format_offset(n)
      /\ CProgram!hex_format_offset(n) = hex_format_offset(n)
      /\ Main!hex_format_offset(n) = hex_format_offset(n)
  BY DEF hex_format_offset, Base, CMain!hex_format_offset, CMain!int_to_hexchar, CMain!HexBase,
         CProgram!hex_format_offset, CProgram!int_to_hexchar, CProgram!HexBase,
         Main!hex_format_offset, Main!int_to_hexchar, Main!HexBase
<1>2. /\ CMain!hex_format_byte_as_hex(n) = hex_format_byte_as_hex(n)
      /\ CProgram!hex_format_byte_as_hex(n) = hex_format_byte_as_hex(n)
      /\ Main!hex_format_byte_as_hex(n) = hex_format_byte_as_hex(n)
  BY DEF hex_format_byte_as_hex, Base,
         CMain!hex_format_byte_as_hex, CMain!int_to_hexchar, CMain!HexBase,
         CProgram!hex_format_byte_as_hex, CProgram!int_to_hexchar, CProgram!HexBase,
         Main!hex_format_byte_as_hex, Main!int_to_hexchar, Main!HexBase
<1>3. /\ CMain!hex_to_printable(n) = hex_to_printable(n)
      /\ CProgram!hex_to_printable(n) = hex_to_printable(n)
      /\ Main!hex_to_printable(n) = hex_to_printable(n)
  BY DEF hex_to_printable, CMain!hex_to_printable, CProgram!hex_to_printable, Main!hex_to_printable
<1>4. /\ CMain!CString(n) = hex_write_string(n)
      /\ CProgram!CString(n) = hex_write_string(n)
      /\ Main!CString(n) = hex_write_string(n)
  BY DEF hex_write_string, Nul, CMain!CString, CMain!Nul, CProgram!CString, CProgram!Nul,
         Main!CString, Main!Nul
<1> QED
  BY <1>1, <1>2, <1>3, <1>4

(* The instances have the same constants. *)
LEMMA CConstants ==
  /\ CMain!NoLine = NoLine /\ CProgram!NoLine = NoLine /\ Main!NoLine = NoLine
  /\ CMain!Index = Index /\ CProgram!Index = Index /\ Main!Index = Index
  /\ CMain!Nul = Nul /\ CProgram!Nul = Nul /\ Main!Nul = Nul
  /\ CMain!UnsignedMod = DWord /\ CProgram!UnsignedMod = DWord /\ Main!UnsignedMod = DWord
  /\ \A a, b : /\ CMain!Lesser(a, b) = Lesser(a, b) /\ CProgram!Lesser(a, b) = Lesser(a, b)
               /\ Main!Lesser(a, b) = Lesser(a, b)
  /\ \A n : CProgram!Shown(n) = n % Base ^ ShownDigits /\ CMain!Shown(n) = n % Base ^ OffsetDigits
BY DEF NoLine, CMain!NoLine, CProgram!NoLine, Main!NoLine, Index, CMain!Index, CProgram!Index,
       Main!Index, Nul, CMain!Nul, CProgram!Nul, Main!Nul, DWord, Base,
       CMain!UnsignedMod, CProgram!UnsignedMod, Main!UnsignedMod,
       CMain!HexBase, CProgram!HexBase, Main!HexBase,
       Lesser, CMain!Lesser, CProgram!Lesser, Main!Lesser, CProgram!Shown, CMain!Shown

(* Every step of the C program is a step of Main. *)
LEMMA CSteps ==
  ASSUME program = "C", program' = program, CMain!Next
  PROVE  Step
<1>1. Stage = pc /\ Stage' = pc' /\ Seen = OffsetDigits
  BY DEF Stage, Seen
<1>2. CASE CMain!hex_read
  <2>1. Main!hex_read
    BY <1>1, <1>2, CConstants, Zenon DEF CMain!hex_read, Main!hex_read
  <2> QED
    BY <2>1 DEF Step
<1>3. CASE CMain!hex_readFails
  <2>1. Main!hex_readFails
    BY <1>1, <1>3, CConstants, Zenon DEF CMain!hex_readFails, Main!hex_readFails
  <2> QED
    BY <2>1 DEF Step
<1>4. CASE CMain!WriteOffset
  <2>1. WriteShown
    BY <1>1, <1>4, CConstants, CFormats, Zenon DEF CMain!WriteOffset, WriteShown
  <2> QED
    BY <2>1 DEF Step
<1>5. CASE CMain!Pad
  <2>1. Main!Pad
    BY <1>1, <1>5, CConstants, Zenon DEF CMain!Pad, Main!Pad
  <2> QED
    BY <2>1 DEF Step
<1>6. CASE CMain!WriteByte
  <2>1. Main!WriteByte
    BY <1>1, <1>6, CConstants, CFormats, Zenon DEF CMain!WriteByte, Main!WriteByte
  <2> QED
    BY <2>1 DEF Step
<1>7. CASE CMain!WriteText
  <2>1. Main!WriteText
    BY <1>1, <1>7, CConstants, CFormats, Zenon DEF CMain!WriteText, Main!WriteText
  <2> QED
    BY <2>1 DEF Step
<1> QED
  BY <1>2, <1>3, <1>4, <1>5, <1>6, <1>7 DEF CMain!Next

(* Every step of the assembly is a step of Main, or none. *)
LEMMA AsmSteps ==
  ASSUME program = "asm", program' = program, Where, Next, ebx \in Nat, r14 \in Nat
  PROVE  Step \/ Still
<1>0. program # "C" /\ program' # "C" /\ Seen = ShownDigits
  BY DEF Seen
<1>s. /\ Stage = CASE pc = "read" -> "read"
                   [] pc = "LwhileLoop" -> (IF ebx = 0 THEN "done" ELSE "offset")
                   [] pc = "ret" -> "done"
                   [] OTHER -> "byte"
      /\ Stage' = CASE pc' = "read" -> "read"
                    [] pc' = "LwhileLoop" -> (IF ebx' = 0 THEN "done" ELSE "offset")
                    [] pc' = "ret" -> "done"
                    [] OTHER -> "byte"
  BY <1>0 DEF Stage
<1>d. DWord - 1 # 0
  BY PowersOfBase, ConstantsAre DEF DWord
<1>1. CASE hex_read
  <2>1. PICK n \in 0..Lesser(LineSize, Len(input) - pos) :
           /\ n = 0 => pos = Len(input)
           /\ data_buf' = [j \in Index |-> IF j < n THEN input[pos + j + 1] ELSE data_buf[j]]
           /\ ebx' = n
           /\ pos' = pos + n
    BY <1>1 DEF hex_read
  <2>2. Stage = "read" /\ Stage' = IF n = 0 THEN "done" ELSE "offset"
    BY <1>1, <1>s, <2>1 DEF hex_read
  <2>3. UNCHANGED <<input, r12, r14, printable, line, out, errors>>
    BY <1>1 DEF hex_read
  <2>4. Main!hex_read
    BY <2>1, <2>2, <2>3, CConstants, Zenon DEF Main!hex_read
  <2> QED
    BY <2>4 DEF Step
<1>2. CASE hex_readFails
  <2>1. Stage = "read" /\ Stage' = "offset"
    BY <1>2, <1>s, <1>d DEF hex_readFails
  <2>2. Main!hex_readFails
    BY <1>2, <2>1, CConstants, Zenon DEF hex_readFails, Main!hex_readFails
  <2> QED
    BY <2>2 DEF Step
<1>3. CASE Leave
  <2>1. Stage = "done" /\ Stage' = "done"
    BY <1>3, <1>s DEF Leave
  <2> QED
    BY <1>3, <2>1 DEF Leave, Still
<1>4. CASE LwhileLoop
  <2>1. Stage = "offset" /\ Stage' = "byte"
    BY <1>4, <1>s DEF LwhileLoop
  <2>2. WriteShown
    BY <1>4, <1>0, <2>1, Zenon DEF LwhileLoop, WriteShown, Masked
  <2> QED
    BY <2>2 DEF Step
<1>5. CASE LloopTop
  <2>1. Stage = "byte" /\ Stage' = "byte" /\ r14 < LineSize
    BY <1>5, <1>s DEF LloopTop, Where
  <2>2. CASE ebx <= r14
    BY <1>5, <2>1, <2>2 DEF LloopTop, Still
  <2>3. CASE ~(ebx <= r14)
    <3>1. r14 < ebx
      BY <2>3
    <3>2. Main!WriteByte
      BY <1>5, <2>1, <2>3, <3>1, CConstants, CFormats, Zenon DEF LloopTop, Main!WriteByte
    <3> QED
      BY <3>2 DEF Step
  <2> QED
    BY <2>2, <2>3
<1>6. CASE LshortLine
  <2>1. Stage = "byte" /\ Stage' = "byte" /\ r14 < LineSize /\ r14 >= ebx
    BY <1>6, <1>s DEF LshortLine, Where
  <2>2. Main!Pad
    BY <1>6, <2>1, CConstants, Zenon DEF LshortLine, Main!Pad
  <2> QED
    BY <2>2 DEF Step
<1>7. CASE LloopCond
  <2>1. Stage = "byte" /\ Stage' = "byte"
    BY <1>7, <1>s DEF LloopCond
  <2> QED
    BY <1>7, <2>1 DEF LloopCond, Still
<1>8. CASE LprintAndRead
  <2>1. Stage = "byte" /\ Stage' = "read" /\ r14 = LineSize
    BY <1>8, <1>s DEF LprintAndRead, Where
  <2>2. Main!WriteText
    BY <1>8, <2>1, CConstants, CFormats, Zenon DEF LprintAndRead, Main!WriteText
  <2> QED
    BY <2>2 DEF Step
<1> QED
  BY <1>1, <1>2, <1>3, <1>4, <1>5, <1>6, <1>7, <1>8 DEF Next

-----------------------------------------------------------------------------
(* Types. *)

Byte == 0..(Base * Base - 1)
Offsets == {<<>>} \cup {hex_format_offset(n) : n \in Nat}
Pairs == {hex_format_byte_as_hex(b) : b \in Byte}
LineType == [offset : Offsets, hex : Seq(Pairs), text : Seq(Byte \cup {Nul})]

Typed ==
  /\ input \in Inputs /\ pos \in 0..Len(input)
  /\ data_buf \in [Index -> Byte] /\ printable \in [Index -> Byte \cup {Nul}]
  /\ ebx \in Nat /\ r12 \in 0..(DWord - 1) /\ r14 \in 0..LineSize
  /\ line \in LineType /\ out \in Seq(LineType) /\ errors \in Nat

(* An unsigned has as many values as an offset has formats. *)
LEMMA DWordIs == DWord \in Nat /\ DWord > 0 /\ DWord - 1 \in Nat /\ DWord = Base ^ OffsetDigits
  BY ConstantsAre, PowersOfBase DEF DWord

(* A byte that is shown is a byte. *)
LEMMA ByteIs ==
  /\ Byte = CMain!Byte /\ 0 \in Byte /\ Byte \subseteq Nat
  /\ Inputs \subseteq Seq(Byte) /\ \A n : hex_to_printable(n) \in Byte
<1>1. Byte = CMain!Byte
  BY ConstantsAre DEF Byte
<1> QED
  BY <1>1, ConstantsAre DEF hex_to_printable

(* A line that has not been begun is a line. *)
LEMMA NoLineType == NoLine \in LineType
  BY DEF NoLine, LineType, Offsets

(* Both programs start with the right types. *)
LEMMA TypedInit == MCInit => Typed /\ Where
<1> SUFFICES ASSUME MCInit PROVE Typed /\ Where
  OBVIOUS
<1>1. /\ 0 \in 0..Len(input) /\ 0 \in 0..(DWord - 1) /\ 0 \in 0..LineSize /\ 0 \in Nat
      /\ <<>> \in Seq(LineType)
  <2>1. input \in Inputs
    BY DEF MCInit, Init, CMain!Init
  <2>2. Len(input) \in Nat
    BY <2>1, ByteIs
  <2> QED
    BY <2>2, DWordIs, ConstantsAre
<1>2. CASE program = "C" /\ CMain!Init
  <2>1. /\ input \in Inputs /\ pos = 0 /\ pc = "read" /\ data_buf \in [Index -> Byte]
        /\ ebx = 0 /\ r12 = 0 /\ r14 = 0 /\ printable = [k \in Index |-> Nul]
        /\ line = NoLine /\ out = <<>> /\ errors = 0
    BY <1>2, CConstants, ByteIs, Zenon DEF CMain!Init
  <2>2. printable \in [Index -> Byte \cup {Nul}]
    BY <2>1
  <2> QED
    BY <1>1, <1>2, <2>1, <2>2, NoLineType DEF Typed, Where
<1>3. CASE program = "asm" /\ Init
  <2>1. /\ input \in Inputs /\ pos = 0 /\ pc = "read" /\ data_buf = [k \in Index |-> 0]
        /\ ebx = 0 /\ r12 = 0 /\ r14 = 0 /\ printable = [k \in Index |-> Nul]
        /\ line = NoLine /\ out = <<>> /\ errors = 0
    BY <1>3 DEF Init
  <2>2. printable \in [Index -> Byte \cup {Nul}] /\ data_buf \in [Index -> Byte]
    BY <2>1, ByteIs
  <2> QED
    BY <1>1, <1>3, <2>1, <2>2, NoLineType DEF Typed, Where
<1> QED
  BY <1>2, <1>3 DEF MCInit

(* The bytes that a read() returns are bytes of the input. *)
LEMMA ReadType ==
  ASSUME Typed, NEW n \in 0..Lesser(LineSize, Len(input) - pos)
  PROVE  /\ n \in 0..LineSize /\ n \in 0..(Len(input) - pos) /\ pos + n \in 0..Len(input)
         /\ \A j \in Index : j < n => pos + j + 1 \in 1..Len(input) /\ input[pos + j + 1] \in Byte
<1>1. input \in Seq(Byte) /\ Len(input) \in Nat /\ pos \in 0..Len(input)
  BY ByteIs DEF Typed
<1>2. n \in 0..LineSize /\ n \in 0..(Len(input) - pos)
  BY <1>1, ConstantsAre DEF Lesser
<1>3. \A j \in Index : j < n => pos + j + 1 \in 1..Len(input)
  BY <1>1, <1>2, ConstantsAre DEF Index
<1> QED
  BY <1>1, <1>2, <1>3

(* A text that is written is made of what it is taken from. *)
LEMMA PieceType ==
  ASSUME NEW s \in [Index -> Byte \cup {Nul}]
  PROVE  hex_write_string(s) \in Seq(Byte \cup {Nul})
<1> DEFINE P(n) == /\ n = LineSize \/ s[n] = Nul
                   /\ \A k \in 0..(n - 1) : s[k] # Nul
           S == {n \in 0..LineSize : \A k \in 0..(n - 1) : s[k] # Nul}
           end == CHOOSE n \in 0..LineSize : P(n)
<1>1. \E n \in 0..LineSize : P(n)
  <2> SUFFICES ASSUME \A n \in 0..LineSize : ~P(n) PROVE FALSE
    OBVIOUS
  <2>1. 0 \in S
    BY ConstantsAre
  <2>2. ASSUME NEW n \in 0..(LineSize - 1), n \in S PROVE n + 1 \in S
    <3>1. s[n] # Nul
      BY <2>2, ConstantsAre
    <3>2. \A k \in 0..((n + 1) - 1) : k \in 0..(n - 1) \/ k = n
      BY ConstantsAre
    <3>3. n + 1 \in 0..LineSize
      BY ConstantsAre
    <3> QED
      BY <2>2, <3>1, <3>2, <3>3
  <2>3. LineSize \in S
    <3>1. LineSize \in Nat /\ LineSize \in 0..LineSize
      BY ConstantsAre
    <3> HIDE DEF S
    <3>2. 0..LineSize \subseteq S
      BY <2>1, <2>2, <3>1, CountUp
    <3> QED
      BY <3>1, <3>2
  <2> QED
    BY <2>3, ConstantsAre
<1>2. end \in 0..LineSize
  <2> HIDE DEF P
  <2> QED
    BY <1>1
<1>3. hex_write_string(s) = [m \in 1..end |-> s[m - 1]]
  BY DEF hex_write_string
<1> HIDE DEF end
<1>4. \A m \in 1..end : m - 1 \in Index
  BY <1>2, ConstantsAre DEF Index
<1>5. end \in Nat
  BY <1>2, ConstantsAre
<1>6. [m \in 1..end |-> s[m - 1]] \in [1..end -> Byte \cup {Nul}]
  BY <1>4
<1> QED
  BY <1>3, <1>5, <1>6

(* No step of the C program changes a type. *)
LEMMA TypedStep ==
  ASSUME Typed, Step
  PROVE  Typed'
<1> USE ConstantsAre
<1>0. input' = input /\ input \in Inputs
  BY DEF Typed, Step, Main!hex_read, Main!hex_readFails, WriteShown, Main!Pad, Main!WriteByte,
         Main!WriteText
<1>1. CASE Main!hex_read
  <2>1. PICK n \in 0..Lesser(LineSize, Len(input) - pos) :
           /\ n = 0 => pos = Len(input)
           /\ data_buf' = [j \in Index |-> IF j < n THEN input[pos + j + 1] ELSE data_buf[j]]
           /\ ebx' = n
           /\ pos' = pos + n
    BY <1>1, CConstants, Zenon DEF Main!hex_read
  <2>2. UNCHANGED <<r12, r14, printable, line, out, errors>>
    BY <1>1 DEF Main!hex_read
  <2>3. ebx' \in Nat /\ pos' \in 0..Len(input)
    BY <2>1, ReadType
  <2>4. data_buf' \in [Index -> Byte]
    <3>1. \A j \in Index : j < n => input[pos + j + 1] \in Byte
      BY ReadType
    <3>2. \A j \in Index : data_buf[j] \in Byte
      BY DEF Typed
    <3> QED
      BY <2>1, <3>1, <3>2
  <2> QED
    BY <1>0, <2>2, <2>3, <2>4 DEF Typed
<1>2. CASE Main!hex_readFails
  <2>1. ebx' = DWord - 1 /\ errors' = errors + 1
    BY <1>2, CConstants DEF Main!hex_readFails
  <2>2. UNCHANGED <<pos, data_buf, r12, r14, printable, line, out>>
    BY <1>2 DEF Main!hex_readFails
  <2> QED
    BY <1>0, <2>1, <2>2, DWordIs DEF Typed
<1>3. CASE WriteShown
  <2>1. line' \in LineType
    <3> DEFINE p == Base ^ Seen
    <3>0. Seen \in 0..OffsetDigits
      BY DEF Seen
    <3>1. p \in Nat \ {0}
      BY <3>0, PowersOfBase
    <3>2. r12 \in Nat
      BY DWordIs DEF Typed
    <3> HIDE DEF p
    <3>3. r12 % p \in Nat
      BY <3>1, <3>2
    <3>4. line' = [NoLine EXCEPT !.offset = hex_format_offset(r12 % p)]
      BY <1>3 DEF WriteShown, p
    <3> DEFINE f == hex_format_offset(r12 % p)
    <3>5. f \in Offsets
      BY <3>3 DEF Offsets
    <3> HIDE DEF f
    <3>6. line' = [offset |-> f, hex |-> <<>>, text |-> <<>>]
      BY <3>4 DEF NoLine, f
    <3>7. <<>> \in Seq(Pairs) /\ <<>> \in Seq(Byte \cup {Nul})
      OBVIOUS
    <3> QED
      BY <3>5, <3>6, <3>7 DEF LineType
  <2> QED
    BY <1>0, <1>3, <2>1 DEF Typed, WriteShown
<1>4. CASE Main!Pad
  <2>1. printable' = [printable EXCEPT ![r14] = Nul] /\ r14' = r14 + 1 /\ r14 < LineSize
    BY <1>4, CConstants DEF Main!Pad
  <2>2. printable' \in [Index -> Byte \cup {Nul}]
    BY <2>1 DEF Typed
  <2>3. r14' \in 0..LineSize
    BY <2>1 DEF Typed
  <2> QED
    BY <1>0, <1>4, <2>2, <2>3 DEF Typed, Main!Pad
<1>5. CASE Main!WriteByte
  <2>1. /\ line' = [line EXCEPT !.hex = Append(@, hex_format_byte_as_hex(data_buf[r14]))]
        /\ printable' = [printable EXCEPT ![r14] = hex_to_printable(data_buf[r14])]
        /\ r14' = r14 + 1 /\ r14 < LineSize
    BY <1>5, CFormats, Zenon DEF Main!WriteByte
  <2>2. r14 \in Index /\ r14' \in 0..LineSize
    BY <2>1 DEF Typed, Index
  <2>3. printable' \in [Index -> Byte \cup {Nul}]
    BY <2>1, <2>2, ByteIs DEF Typed
  <2>4. hex_format_byte_as_hex(data_buf[r14]) \in Pairs
    <3>1. data_buf[r14] \in Byte
      BY <2>2 DEF Typed
    <3> QED
      BY <3>1 DEF Pairs
  <2>5. line' \in LineType
    <3> DEFINE x == hex_format_byte_as_hex(data_buf[r14])
    <3>1. x \in Pairs /\ line' = [line EXCEPT !.hex = Append(@, x)]
      BY <2>1, <2>4
    <3> HIDE DEF x
    <3>2. /\ line.offset \in Offsets /\ line.hex \in Seq(Pairs) /\ line.text \in Seq(Byte \cup {Nul})
          /\ line = [offset |-> line.offset, hex |-> line.hex, text |-> line.text]
      BY DEF Typed, LineType
    <3>3. Append(line.hex, x) \in Seq(Pairs)
      BY <3>1, <3>2
    <3>4. line' = [offset |-> line.offset, hex |-> Append(line.hex, x), text |-> line.text]
      BY <3>1, <3>2
    <3> QED
      BY <3>2, <3>3, <3>4 DEF LineType
  <2> QED
    BY <1>0, <1>5, <2>2, <2>3, <2>5 DEF Typed, Main!WriteByte
<1>6. CASE Main!WriteText
  <2>1. /\ out' = Append(out, [line EXCEPT !.text = hex_write_string(printable)])
        /\ line' = NoLine /\ r12' = (r12 + ebx) % DWord
    BY <1>6, CFormats, CConstants, Zenon DEF Main!WriteText
  <2>2. [line EXCEPT !.text = hex_write_string(printable)] \in LineType
    <3>1. hex_write_string(printable) \in Seq(Byte \cup {Nul})
      BY PieceType DEF Typed
    <3> QED
      BY <3>1 DEF Typed, LineType
  <2>3. out' \in Seq(LineType)
    BY <2>1, <2>2 DEF Typed
  <2>4. r12' \in 0..(DWord - 1)
    <3>1. r12 + ebx \in Nat
      BY DWordIs DEF Typed
    <3>2. \A n \in Nat : n % DWord \in 0..(DWord - 1)
      BY DWordIs
    <3> QED
      BY <2>1, <3>1, <3>2
  <2> QED
    BY <1>0, <1>6, <2>1, <2>3, <2>4, NoLineType DEF Typed, Main!WriteText
<1> QED
  BY <1>1, <1>2, <1>3, <1>4, <1>5, <1>6 DEF Step

(* A step of either program is one of the C program or none. *)
LEMMA WhereStep ==
  ASSUME Typed, Where, MCNext
  PROVE  Where' /\ (Step \/ Still)
<1>1. program' = program /\ r14 \in Nat /\ ebx \in Nat
  BY ConstantsAre DEF MCNext, Typed
<1>2. CASE program = "C" /\ CMain!Next
  <2>1. Step
    BY <1>1, <1>2, CSteps
  <2>2. pc' \in {"read", "offset", "byte", "done"}
    BY <1>2, Zenon DEF Where, CMain!Next, CMain!hex_read, CMain!hex_readFails, CMain!WriteOffset,
              CMain!Pad, CMain!WriteByte, CMain!WriteText
  <2> QED
    BY <1>1, <1>2, <2>1, <2>2 DEF Where
<1>3. CASE program = "asm" /\ Next
  <2>1. Step \/ Still
    BY <1>1, <1>3, AsmSteps
  <2>2. r14 \in 0..LineSize
    BY DEF Typed
  <2>3. Where'
    <3>1. CASE hex_read
      BY <1>1, <1>3, <3>1 DEF hex_read, Where
    <3>2. CASE hex_readFails
      BY <1>1, <1>3, <3>2 DEF hex_readFails, Where
    <3>3. CASE Leave
      BY <1>1, <1>3, <3>3 DEF Leave, Where
    <3>4. CASE LwhileLoop
      BY <1>1, <1>3, <3>4, ConstantsAre DEF LwhileLoop, Where
    <3>5. CASE LloopTop
      BY <1>1, <1>3, <3>5, ConstantsAre DEF LloopTop, Where
    <3>6. CASE LshortLine
      BY <1>1, <1>3, <3>6, ConstantsAre DEF LshortLine, Where
    <3>7. CASE LloopCond
      BY <1>1, <1>3, <2>2, <3>7, ConstantsAre DEF LloopCond, Where
    <3>8. CASE LprintAndRead
      BY <1>1, <1>3, <3>8 DEF LprintAndRead, Where
    <3> QED
      BY <1>3, <3>1, <3>2, <3>3, <3>4, <3>5, <3>6, <3>7, <3>8 DEF Next
  <2> QED
    BY <2>1, <2>3
<1> QED
  BY <1>2, <1>3 DEF MCNext

-----------------------------------------------------------------------------
(* The dump, line by line. *)

(* What HexDump!Shows and HexDump!LineStart say, for either program. *)
LineShows(l, from) ==
  /\ l.offset = hex_format_offset(from)
  /\ \A m \in 1..Len(l.hex) :
       /\ from + m <= Len(input)
       /\ l.hex[m] = hex_format_byte_as_hex(input[from + m])
  /\ l.text = [m \in 1..Len(l.hex) |-> hex_to_printable(input[from + m])]
StartOf(l) == CHOOSE p \in 0..(Len(input) - 1) : hex_format_offset(p) = l.offset
Starts(n) == IF n = 1 THEN 0 ELSE StartOf(out[n - 1]) + Len(out[n - 1].hex)

(* A dump that says what it should: no read() has failed, and the input is *)
(* not longer than the digits of an offset reach.                          *)
Good == errors = 0 /\ Len(input) <= Base ^ Seen

Dumped ==
  /\ \A n \in 1..Len(out) : Starts(n) \in 0..(Len(input) - 1) /\ LineShows(out[n], Starts(n))
  /\ Stage \in {"read", "done"} => Starts(Len(out) + 1) = pos /\ r12 = pos % DWord
  /\ Stage = "done" => pos = Len(input)
  /\ Stage \in {"offset", "byte"} =>
       /\ Starts(Len(out) + 1) = r12 /\ ebx \in 1..LineSize /\ r12 + ebx = pos
       /\ \A j \in 0..(ebx - 1) : data_buf[j] = input[r12 + j + 1]
  /\ Stage = "byte" =>
       /\ line.offset = hex_format_offset(r12) /\ Len(line.hex) = Lesser(r14, ebx)
       /\ \A m \in 1..Len(line.hex) : line.hex[m] = hex_format_byte_as_hex(input[r12 + m])
       /\ \A j \in 0..(r14 - 1) :
            printable[j] = IF j < ebx THEN hex_to_printable(input[r12 + j + 1]) ELSE Nul

(* The numbers stay in the range that an offset reaches. *)
LEMMA Reach ==
  ASSUME Typed, Good
  PROVE  /\ Len(input) \in Nat /\ Len(input) <= DWord /\ pos \in Nat /\ pos <= Len(input)
         /\ r12 \in Nat /\ r12 < DWord /\ ebx \in Nat
         /\ Base ^ Seen \in Nat \ {0} /\ Len(input) <= Base ^ Seen
<1>1. input \in Seq(Byte)
  BY ByteIs DEF Typed
<1>2. Seen \in 0..OffsetDigits /\ OffsetDigits \in 0..OffsetDigits /\ Seen <= OffsetDigits
  BY ConstantsAre DEF Seen
<1>3. Base ^ Seen <= Base ^ OffsetDigits /\ Base ^ Seen \in Nat \ {0} /\ Base ^ OffsetDigits \in Nat
  BY <1>2, PowersOfBase
<1> QED
  BY <1>1, <1>3, DWordIs DEF Typed, Good

(* The text of a line ends where its bytes end. *)
LEMMA TextIs ==
  ASSUME NEW s \in [Index -> Byte \cup {Nul}], NEW c \in 0..LineSize,
         \A j \in 0..(c - 1) : s[j] \in Byte,
         c < LineSize => s[c] = Nul
  PROVE  hex_write_string(s) = [m \in 1..c |-> s[m - 1]]
<1> DEFINE P(n) == /\ n = LineSize \/ s[n] = Nul
                   /\ \A k \in 0..(n - 1) : s[k] # Nul
           end == CHOOSE n \in 0..LineSize : P(n)
<1>1. Nul \notin Byte
  BY ByteIs DEF Nul
<1>2. P(c)
  BY <1>1, ConstantsAre
<1>3. end \in 0..LineSize /\ P(end)
  <2> HIDE DEF P
  <2> QED
    BY <1>2
<1>4. hex_write_string(s) = [m \in 1..end |-> s[m - 1]]
  BY DEF hex_write_string
<1> HIDE DEF end
<1>5. ~(end < c)
  BY <1>1, <1>3, ConstantsAre
<1>6. ~(c < end)
  BY <1>3, ConstantsAre
<1>7. end = c
  BY <1>3, <1>5, <1>6, ConstantsAre
<1> QED
  BY <1>4, <1>7

(* hex_read begins a line at the byte after the last one shown. *)
LEMMA DumpedRead ==
  ASSUME Typed, Good, Dumped, Main!hex_read
  PROVE  Dumped'
<1>1. PICK n \in 0..Lesser(LineSize, Len(input) - pos) :
         /\ n = 0 => pos = Len(input)
         /\ data_buf' = [j \in Index |-> IF j < n THEN input[pos + j + 1] ELSE data_buf[j]]
         /\ ebx' = n
         /\ pos' = pos + n
         /\ Stage' = IF n = 0 THEN "done" ELSE "offset"
  BY CConstants, Zenon DEF Main!hex_read
<1>2. /\ Stage = "read" /\ UNCHANGED <<input, r12, r14, printable, line, out, errors>>
  BY DEF Main!hex_read
<1>3. /\ n \in 0..LineSize /\ n \in 0..(Len(input) - pos)
  BY <1>1, ReadType
<1>4. Starts(Len(out) + 1) = pos /\ r12 = pos % DWord
  BY <1>2 DEF Dumped
<1>5. \A m : Starts(m)' = Starts(m)
  BY <1>2 DEF Starts, StartOf
<1>6. \A m \in 1..Len(out') : Starts(m)' \in 0..(Len(input') - 1) /\ LineShows(out[m], Starts(m))'
  BY <1>2, <1>5 DEF Dumped, LineShows
<1>7. CASE n = 0
  <2>1. Stage' = "done" /\ pos' = pos /\ pos = Len(input)
    BY <1>1, <1>7, Reach
  <2> QED
    BY <1>2, <1>4, <1>5, <1>6, <2>1 DEF Dumped
<1>8. CASE n # 0
  <2>1. Stage' = "offset" /\ n \in 1..LineSize /\ pos < Len(input)
    <3>1. Stage' = "offset"
      BY <1>1, <1>8
    <3>2. n \in 1..LineSize
      BY <1>3, <1>8, ConstantsAre
    <3>3. pos < Len(input)
      BY <1>3, <1>8, Reach
    <3> QED
      BY <3>1, <3>2, <3>3
  <2>2. pos % DWord = pos
    BY <2>1, Reach, DWordIs
  <2>3. r12' = pos /\ Starts(Len(out) + 1)' = r12' /\ ebx' \in 1..LineSize /\ r12' + ebx' = pos'
    BY <1>1, <1>2, <1>4, <1>5, <2>1, <2>2
  <2>4. \A j \in 0..(n - 1) : j \in Index /\ j < n
    BY <1>3, ConstantsAre DEF Index
  <2>5. \A j \in 0..(ebx' - 1) : data_buf'[j] = input'[r12' + j + 1]
    BY <1>1, <1>2, <2>3, <2>4
  <2> QED
    BY <1>2, <1>6, <2>1, <2>3, <2>5 DEF Dumped
<1> QED
  BY <1>7, <1>8

(* The offset of a line is that of its first byte. *)
LEMMA DumpedOffset ==
  ASSUME Typed, Good, Dumped, WriteShown
  PROVE  Dumped'
<1>1. /\ Stage = "offset" /\ Stage' = "byte" /\ r14' = 0
      /\ line' = [NoLine EXCEPT !.offset = hex_format_offset(r12 % Base ^ Seen)]
      /\ UNCHANGED <<input, pos, data_buf, ebx, r12, printable, out, errors>>
  BY DEF WriteShown
<1>2. /\ Starts(Len(out) + 1) = r12 /\ ebx \in 1..LineSize /\ r12 + ebx = pos
      /\ \A j \in 0..(ebx - 1) : data_buf[j] = input[r12 + j + 1]
  BY <1>1 DEF Dumped
<1>3. r12 % Base ^ Seen = r12
  <2> DEFINE p == Base ^ Seen
  <2>1. r12 < p /\ r12 \in Nat /\ p \in Nat \ {0}
    BY <1>2, Reach, ConstantsAre
  <2> HIDE DEF p
  <2>2. r12 % p = r12
    BY <2>1
  <2> QED
    BY <2>2 DEF p
<1>4. line' = [offset |-> hex_format_offset(r12), hex |-> <<>>, text |-> <<>>]
  BY <1>1, <1>3 DEF NoLine
<1>5. Len(line'.hex) = 0 /\ line'.offset = hex_format_offset(r12) /\ Lesser(0, ebx) = 0
  BY <1>2, <1>4, ConstantsAre DEF Lesser
<1>6. \A m : Starts(m)' = Starts(m)
  BY <1>1 DEF Starts, StartOf
<1>7. \A m \in 1..Len(out') : Starts(m)' \in 0..(Len(input') - 1) /\ LineShows(out[m], Starts(m))'
  BY <1>1, <1>6 DEF Dumped, LineShows
<1> QED
  BY <1>1, <1>2, <1>5, <1>6, <1>7 DEF Dumped, Lesser

(* Past the bytes of a short line nothing is shown. *)
LEMMA DumpedPad ==
  ASSUME Typed, Good, Dumped, Main!Pad
  PROVE  Dumped'
<1>1. /\ Stage = "byte" /\ Stage' = "byte" /\ r14 < LineSize /\ r14 >= ebx
      /\ printable' = [printable EXCEPT ![r14] = Nul] /\ r14' = r14 + 1
      /\ UNCHANGED <<input, pos, data_buf, ebx, r12, line, out, errors>>
  BY CConstants DEF Main!Pad
<1>2. /\ Starts(Len(out) + 1) = r12 /\ ebx \in 1..LineSize /\ r12 + ebx = pos
      /\ \A j \in 0..(ebx - 1) : data_buf[j] = input[r12 + j + 1]
      /\ line.offset = hex_format_offset(r12) /\ Len(line.hex) = Lesser(r14, ebx)
      /\ \A m \in 1..Len(line.hex) : line.hex[m] = hex_format_byte_as_hex(input[r12 + m])
      /\ \A j \in 0..(r14 - 1) :
           printable[j] = IF j < ebx THEN hex_to_printable(input[r12 + j + 1]) ELSE Nul
  BY <1>1 DEF Dumped
<1>3. r14 \in Nat /\ ebx \in Nat /\ r14 \in Index /\ DOMAIN printable = Index /\ LineSize \in Nat
  BY <1>1, ConstantsAre DEF Typed, Index
<1>4. Lesser(r14 + 1, ebx) = Lesser(r14, ebx)
  BY <1>1, <1>3 DEF Lesser
<1>5. \A j \in 0..((r14 + 1) - 1) :
        printable'[j] = IF j < ebx THEN hex_to_printable(input[r12 + j + 1]) ELSE Nul
  <2> SUFFICES ASSUME NEW j \in 0..((r14 + 1) - 1)
               PROVE printable'[j] = IF j < ebx THEN hex_to_printable(input[r12 + j + 1]) ELSE Nul
    OBVIOUS
  <2>1. CASE j = r14
    BY <1>1, <1>3, <2>1
  <2>2. CASE j # r14
    <3>1. j \in 0..(r14 - 1) /\ j \in Index
      BY <1>1, <1>3, <2>2 DEF Index
    <3> QED
      BY <1>1, <1>2, <1>3, <2>2, <3>1
  <2> QED
    BY <2>1, <2>2
<1>6. \A m : Starts(m)' = Starts(m)
  BY <1>1 DEF Starts, StartOf
<1>7. \A m \in 1..Len(out') : Starts(m)' \in 0..(Len(input') - 1) /\ LineShows(out[m], Starts(m))'
  BY <1>1, <1>6 DEF Dumped, LineShows
<1> QED
  BY <1>1, <1>2, <1>4, <1>5, <1>6, <1>7 DEF Dumped, Lesser

(* A byte is added to hex and to text. *)
LEMMA DumpedByte ==
  ASSUME Typed, Good, Dumped, Main!WriteByte
  PROVE  Dumped'
<1>1. /\ Stage = "byte" /\ Stage' = "byte" /\ r14 < LineSize /\ r14 < ebx
      /\ line' = [line EXCEPT !.hex = Append(@, hex_format_byte_as_hex(data_buf[r14]))]
      /\ printable' = [printable EXCEPT ![r14] = hex_to_printable(data_buf[r14])]
      /\ r14' = r14 + 1
      /\ UNCHANGED <<input, pos, data_buf, ebx, r12, out, errors>>
  BY CFormats, Zenon DEF Main!WriteByte
<1>2. /\ Starts(Len(out) + 1) = r12 /\ ebx \in 1..LineSize /\ r12 + ebx = pos
      /\ \A j \in 0..(ebx - 1) : data_buf[j] = input[r12 + j + 1]
      /\ line.offset = hex_format_offset(r12) /\ Len(line.hex) = Lesser(r14, ebx)
      /\ \A m \in 1..Len(line.hex) : line.hex[m] = hex_format_byte_as_hex(input[r12 + m])
      /\ \A j \in 0..(r14 - 1) :
           printable[j] = IF j < ebx THEN hex_to_printable(input[r12 + j + 1]) ELSE Nul
  BY <1>1 DEF Dumped
<1>3. r14 \in Nat /\ ebx \in Nat /\ r14 \in Index /\ DOMAIN printable = Index /\ LineSize \in Nat
  BY <1>1, ConstantsAre DEF Typed, Index
<1>4. Lesser(r14 + 1, ebx) = r14 + 1 /\ Lesser(r14, ebx) = r14
  BY <1>1, <1>3 DEF Lesser
<1>5. data_buf[r14] = input[r12 + r14 + 1]
  BY <1>1, <1>2, <1>3
<1>6. \A j \in 0..((r14 + 1) - 1) :
        printable'[j] = IF j < ebx THEN hex_to_printable(input[r12 + j + 1]) ELSE Nul
  <2> SUFFICES ASSUME NEW j \in 0..((r14 + 1) - 1)
               PROVE printable'[j] = IF j < ebx THEN hex_to_printable(input[r12 + j + 1]) ELSE Nul
    OBVIOUS
  <2>1. CASE j = r14
    BY <1>1, <1>3, <1>5, <2>1
  <2>2. CASE j # r14
    <3>1. j \in 0..(r14 - 1) /\ j \in Index
      BY <1>1, <1>3, <2>2 DEF Index
    <3> QED
      BY <1>1, <1>2, <1>3, <2>2, <3>1
  <2> QED
    BY <2>1, <2>2
<1>7. /\ line'.offset = line.offset /\ line'.hex = Append(line.hex, hex_format_byte_as_hex(data_buf[r14]))
      /\ line.hex \in Seq(Pairs)
  BY <1>1 DEF Typed, LineType
<1>8. /\ Len(line'.hex) = r14 + 1
      /\ \A m \in 1..Len(line'.hex) : line'.hex[m] = hex_format_byte_as_hex(input[r12 + m])
  <2> DEFINE x == hex_format_byte_as_hex(data_buf[r14])
             h == line.hex
  <2>1. h \in Seq(Pairs) /\ Len(h) = r14 /\ line'.hex = Append(h, x)
        /\ \A m \in 1..r14 : h[m] = hex_format_byte_as_hex(input[r12 + m])
    BY <1>2, <1>4, <1>7
  <2>2. r12 + r14 + 1 = r12 + (r14 + 1)
    BY <1>3, Reach
  <2>3. x = hex_format_byte_as_hex(input[r12 + (r14 + 1)])
    BY <1>5, <2>2
  <2> HIDE DEF x, h
  <2>4. Len(Append(h, x)) = r14 + 1
    BY <1>3, <2>1
  <2>5. \A m \in 1..(r14 + 1) : Append(h, x)[m] = IF m = r14 + 1 THEN x ELSE h[m]
    BY <1>3, <2>1
  <2>6. \A m \in 1..(r14 + 1) : m = r14 + 1 \/ m \in 1..r14
    BY <1>3
  <2> QED
    BY <2>1, <2>3, <2>4, <2>5, <2>6
<1>9. \A m : Starts(m)' = Starts(m)
  BY <1>1 DEF Starts, StartOf
<1>10. \A m \in 1..Len(out') : Starts(m)' \in 0..(Len(input') - 1) /\ LineShows(out[m], Starts(m))'
  BY <1>1, <1>9 DEF Dumped, LineShows
<1> QED
  BY <1>1, <1>2, <1>4, <1>6, <1>7, <1>8, <1>9, <1>10 DEF Dumped, Lesser

(* Where a line starts, after a step. *)
LEMMA StartsNext ==
  ASSUME NEW m, input' = input
  PROVE  Starts(m)' = IF m = 1 THEN 0 ELSE StartOf(out'[m - 1]) + Len(out'[m - 1].hex)
<1>1. Starts(m)' = IF m = 1 THEN 0
                   ELSE (CHOOSE p \in 0..(Len(input') - 1) :
                           hex_format_offset(p) = out'[m - 1].offset) + Len(out'[m - 1].hex)
  BY DEF Starts, StartOf, hex_format_offset, Base
<1> QED
  BY <1>1 DEF StartOf

(* A finished line says what a line should. *)
LEMMA DumpedText ==
  ASSUME Typed, Good, Dumped, Main!WriteText
  PROVE  Dumped'
<1>1. /\ Stage = "byte" /\ Stage' = "read" /\ r14 = LineSize
      /\ out' = Append(out, [line EXCEPT !.text = hex_write_string(printable)])
      /\ r12' = (r12 + ebx) % DWord
      /\ UNCHANGED <<input, pos, data_buf, ebx, r14, printable, errors>>
  BY CFormats, CConstants, Zenon DEF Main!WriteText
<1>2. /\ Starts(Len(out) + 1) = r12 /\ ebx \in 1..LineSize /\ r12 + ebx = pos
      /\ line.offset = hex_format_offset(r12) /\ Len(line.hex) = Lesser(r14, ebx)
      /\ \A m \in 1..Len(line.hex) : line.hex[m] = hex_format_byte_as_hex(input[r12 + m])
      /\ \A j \in 0..(r14 - 1) :
           printable[j] = IF j < ebx THEN hex_to_printable(input[r12 + j + 1]) ELSE Nul
  BY <1>1 DEF Dumped
<1> DEFINE l == [line EXCEPT !.text = hex_write_string(printable)]
<1>n. PICK N \in Nat : N = Len(out)
  BY DEF Typed
<1>3. ebx \in Nat /\ ebx <= LineSize /\ Len(line.hex) = ebx /\ r12 \in Nat /\ LineSize \in Nat
  BY <1>1, <1>2, Reach, ConstantsAre DEF Lesser
<1>4. hex_write_string(printable) = [m \in 1..ebx |-> printable[m - 1]]
  <2>1. \A j \in 0..(ebx - 1) : printable[j] \in Byte
    <3> SUFFICES ASSUME NEW j \in 0..(ebx - 1) PROVE printable[j] \in Byte
      OBVIOUS
    <3>1. j \in 0..(r14 - 1) /\ j < ebx
      BY <1>1, <1>3
    <3> QED
      BY <1>2, <3>1, ByteIs
  <2>2. ebx < LineSize => printable[ebx] = Nul
    <3>1. ebx < LineSize => ebx \in 0..(r14 - 1) /\ ~(ebx < ebx)
      BY <1>1, <1>3
    <3> QED
      BY <1>2, <3>1
  <2>3. printable \in [Index -> Byte \cup {Nul}] /\ ebx \in 0..LineSize
    BY <1>3 DEF Typed
  <2> QED
    BY <2>1, <2>2, <2>3, TextIs
<1>5. /\ l.offset = hex_format_offset(r12) /\ l.hex = line.hex /\ l.text = hex_write_string(printable)
  BY <1>2 DEF Typed, LineType
<1>6. \A m \in 1..ebx : printable[m - 1] = hex_to_printable(input[r12 + m])
  <2> SUFFICES ASSUME NEW m \in 1..ebx PROVE printable[m - 1] = hex_to_printable(input[r12 + m])
    OBVIOUS
  <2>1. m - 1 \in 0..(r14 - 1) /\ m - 1 < ebx /\ r12 + (m - 1) + 1 = r12 + m
    BY <1>1, <1>3
  <2> QED
    BY <1>2, <2>1
<1>7. LineShows(l, r12)
  <2>1. \A m \in 1..Len(l.hex) : r12 + m <= Len(input)
    BY <1>2, <1>3, <1>5, Reach
  <2>2. l.text = [m \in 1..Len(l.hex) |-> hex_to_printable(input[r12 + m])]
    BY <1>3, <1>4, <1>5, <1>6
  <2> HIDE DEF l
  <2> QED
    BY <1>2, <1>5, <2>1, <2>2 DEF LineShows
<1>8. r12 \in 0..(Len(input) - 1) /\ Len(input) \in Nat
  BY <1>2, <1>3, Reach
<1>9. StartOf(l) = r12
  <2>1. \A p \in 0..(Len(input) - 1) : hex_format_offset(p) = hex_format_offset(r12) => p = r12
    <3> SUFFICES ASSUME NEW p \in 0..(Len(input) - 1), hex_format_offset(p) = hex_format_offset(r12)
                 PROVE  p = r12
      OBVIOUS
    <3> DEFINE q == Base ^ OffsetDigits
    <3>1. p \in Nat /\ p < q /\ r12 < q
      BY <1>8, Reach, DWordIs
    <3> HIDE DEF q
    <3> QED
      BY <1>3, <3>1, FormatInjective DEF q
  <2> HIDE DEF l
  <2> QED
    BY <1>5, <1>8, <2>1 DEF StartOf
<1>10. N \in Nat /\ Len(out') = N + 1 /\ out'[N + 1] = l /\ \A m \in 1..N : out'[m] = out[m]
  <2>1. out \in Seq(LineType) /\ out' = Append(out, l) /\ N = Len(out)
    BY <1>1, <1>n DEF Typed
  <2> HIDE DEF l
  <2> QED
    BY <2>1
<1>12. \A m \in 1..(N + 1) : Starts(m)' = Starts(m)
  <2> SUFFICES ASSUME NEW m \in 1..(N + 1) PROVE Starts(m)' = Starts(m)
    OBVIOUS
  <2>1. m # 1 => m - 1 \in 1..N
    BY <1>10
  <2>2. m # 1 => out'[m - 1] = out[m - 1]
    BY <1>10, <2>1
  <2> QED
    BY <1>1, <2>2, StartsNext DEF Starts
<1>13. Starts(N + 2)' = pos
  <2>1. N + 2 # 1 /\ (N + 2) - 1 = N + 1
    BY <1>10
  <2>2. Starts(N + 2)' = StartOf(l) + Len(l.hex)
    <3> HIDE DEF l
    <3> QED
      BY <1>1, <1>10, <2>1, StartsNext
  <2> HIDE DEF l
  <2> QED
    BY <1>2, <1>3, <1>5, <1>9, <2>2
<1>14. \A m \in 1..Len(out') : Starts(m)' \in 0..(Len(input') - 1) /\ LineShows(out[m], Starts(m))'
  <2> SUFFICES ASSUME NEW m \in 1..(N + 1)
               PROVE  Starts(m)' \in 0..(Len(input') - 1) /\ LineShows(out[m], Starts(m))'
    BY <1>10
  <2>1. CASE m \in 1..N
    <3>1. out'[m] = out[m] /\ Starts(m)' = Starts(m) /\ input' = input
      BY <1>1, <1>10, <1>12, <2>1
    <3>2. Starts(m) \in 0..(Len(input) - 1) /\ LineShows(out[m], Starts(m))
      BY <1>n, <2>1 DEF Dumped
    <3> QED
      BY <3>1, <3>2 DEF LineShows
  <2>2. CASE m = N + 1
    <3>1. out'[m] = l /\ Starts(m)' = r12 /\ input' = input
      BY <1>1, <1>2, <1>n, <1>10, <1>12, <2>2
    <3> HIDE DEF l
    <3> QED
      BY <1>7, <1>8, <3>1 DEF LineShows
  <2> QED
    BY <1>10, <2>1, <2>2
<1>15. Starts(Len(out) + 1)' = pos' /\ r12' = pos' % DWord
  <2>1. Len(out') + 1 = N + 2 /\ Starts(Len(out) + 1)' = Starts(N + 2)'
    <3>1. Len(out') + 1 = N + 2
      BY <1>10
    <3> QED
      BY <3>1 DEF Starts
  <2> QED
    BY <1>1, <1>2, <1>13, <2>1
<1> QED
  BY <1>1, <1>14, <1>15 DEF Dumped

-----------------------------------------------------------------------------
(* The invariant, and what follows from it. *)

(* A read that has failed stays so. *)
LEMMA GoodBefore ==
  ASSUME Typed, Step, program' = program, Good'
  PROVE  Good /\ ~Main!hex_readFails
<1>1. Seen' = Seen
  BY DEF Seen
<1>2. input' = input /\ (errors' = errors \/ (Main!hex_readFails /\ errors' = errors + 1))
  BY DEF Step, Main!hex_read, Main!hex_readFails, WriteShown, Main!Pad, Main!WriteByte,
         Main!WriteText
<1>3. errors \in Nat
  BY DEF Typed
<1>4. Main!hex_readFails => errors' = errors + 1
  BY DEF Main!hex_readFails
<1> QED
  BY <1>1, <1>2, <1>3, <1>4 DEF Good

(* Nothing has been dumped at first. *)
LEMMA DumpedInit == MCInit => (Good => Dumped)
<1> SUFFICES ASSUME MCInit, Good PROVE Dumped
  OBVIOUS
<1>1. pos = 0 /\ pc = "read" /\ r12 = 0 /\ out = <<>>
  BY DEF MCInit, Init, CMain!Init
<1>2. Stage = "read"
  BY <1>1 DEF Stage
<1>3. Len(out) = 0 /\ Starts(Len(out) + 1) = 0
  BY <1>1 DEF Starts
<1>4. 0 % DWord = 0
  BY DWordIs
<1> QED
  BY <1>1, <1>2, <1>3, <1>4 DEF Dumped

(* No step of either program leaves a wrong line. *)
LEMMA DumpedStep ==
  ASSUME Typed, Where, MCNext, Good => Dumped
  PROVE  Good' => Dumped'
<1> SUFFICES ASSUME Good' PROVE Dumped'
  OBVIOUS
<1>1. program' = program
  BY DEF MCNext
<1>2. CASE Step
  <2>1. Good /\ ~Main!hex_readFails
    BY <1>1, <1>2, GoodBefore
  <2>2. Dumped
    BY <2>1
  <2> QED
    BY <1>2, <2>1, <2>2, DumpedRead, DumpedOffset, DumpedPad, DumpedByte, DumpedText DEF Step
<1>3. CASE Still
  <2>1. Good
    BY <1>1, <1>3 DEF Still, Good, Seen
  <2>2. \A m : Starts(m)' = Starts(m)
    BY <1>3 DEF Still, Starts, StartOf
  <2>3. \A m \in 1..Len(out') : Starts(m)' \in 0..(Len(input') - 1) /\ LineShows(out[m], Starts(m))'
    BY <1>3, <2>1, <2>2 DEF Still, Dumped, LineShows
  <2>4. Starts(Len(out) + 1)' = Starts(Len(out) + 1)
    BY <1>3 DEF Still, Starts, StartOf
  <2> QED
    BY <1>3, <2>1, <2>3, <2>4 DEF Still, Dumped
<1> QED
  BY <1>2, <1>3, WhereStep

(* The inductive invariant. *)
DumpInv == Typed /\ Where /\ (Good => Dumped)

(* DumpInv is inductive. *)
LEMMA DumpInvStep == DumpInv /\ [MCNext]_allVars => DumpInv'
<1> SUFFICES ASSUME DumpInv, [MCNext]_allVars PROVE DumpInv'
  OBVIOUS
<1>1. CASE MCNext
  <2>1. Where' /\ (Step \/ Still)
    BY <1>1, WhereStep DEF DumpInv
  <2>2. Typed'
    <3>1. CASE Step
      BY <3>1, TypedStep DEF DumpInv
    <3>2. CASE Still
      BY <3>2 DEF DumpInv, Still, Typed
    <3> QED
      BY <2>1, <3>1, <3>2
  <2>3. Good' => Dumped'
    BY <1>1, DumpedStep DEF DumpInv
  <2> QED
    BY <2>1, <2>2, <2>3 DEF DumpInv
<1>2. CASE UNCHANGED allVars
  <2>1. /\ UNCHANGED <<input, pos, pc, data_buf, printable, ebx, r12, r14, line, out, errors>>
        /\ program' = program
    BY <1>2 DEF allVars, vars
  <2>2. Stage' = Stage /\ Seen' = Seen /\ Still
    BY <2>1 DEF Stage, Seen, Still
  <2>3. Typed' /\ Where'
    BY <2>1 DEF DumpInv, Typed, Where
  <2>4. \A m : Starts(m)' = Starts(m)
    BY <2>1 DEF Starts, StartOf
  <2>5. Starts(Len(out) + 1)' = Starts(Len(out) + 1) /\ (Good' => Good)
    BY <2>1, <2>2 DEF Starts, StartOf, Good
  <2>6. ASSUME Good' PROVE Dumped'
    <3>1. Dumped
      BY <2>5, <2>6 DEF DumpInv
    <3>2. \A m \in 1..Len(out') : Starts(m)' \in 0..(Len(input') - 1) /\ LineShows(out[m], Starts(m))'
      BY <2>1, <2>4, <3>1 DEF Dumped, LineShows
    <3> QED
      BY <2>1, <2>2, <2>5, <3>1, <3>2 DEF Dumped
  <2> QED
    BY <2>3, <2>6 DEF DumpInv
<1> QED
  BY <1>1, <1>2

(* The invariant holds. *)
LEMMA DumpInvHolds == MCSpec => []DumpInv
<1>1. MCInit => DumpInv
  BY TypedInit, DumpedInit DEF DumpInv
<1> QED
  BY <1>1, DumpInvStep, PTL DEF MCSpec

CutOf(o) == [m \in DOMAIN o |-> IF m <= OffsetDigits - ShownDigits THEN sHexDigits[1] ELSE o[m]]
OutBar == [n \in DOMAIN out |-> Cut(out[n])]

(* Cut changes the offset of a line only. *)
LEMMA CutIs ==
  ASSUME NEW l \in LineType
  PROVE  /\ Cut(l) = [offset |-> CutOf(l.offset), hex |-> l.hex, text |-> l.text]
         /\ Cut(l).offset = CutOf(l.offset) /\ Cut(l).hex = l.hex /\ Cut(l).text = l.text
  BY DEF Cut, CutOf, LineType

(* What a reader of a dump sees, in the terms of either instance. *)
LEMMA CDump ==
  ASSUME DumpInv, program = "C"
  PROVE  CMain!DumpIsFaithful
<1> SUFFICES ASSUME errors = 0, Len(input) <= CMain!HexBase ^ OffsetDigits
             PROVE  /\ \A n \in 1..Len(out) : CMain!Shows(out[n], CMain!LineStart(n))
                    /\ pc = "done" => CMain!LineStart(Len(out) + 1) = Len(input)
  BY DEF CMain!DumpIsFaithful
<1>1. Good /\ Typed /\ Dumped /\ Stage = pc
  BY ConstantsAre DEF DumpInv, Good, Seen, Stage
<1>2. \A n : CMain!LineStart(n) = Starts(n)
  BY DEF CMain!LineStart, CMain!OffsetOf, Starts, StartOf, CMain!hex_format_offset,
         CMain!int_to_hexchar, CMain!HexBase, hex_format_offset, Base
<1>3. \A l, from : LineShows(l, from) => CMain!Shows(l, from)
  BY CFormats DEF CMain!Shows, LineShows
<1> QED
  BY <1>1, <1>2, <1>3 DEF Dumped

(* The same for the assembly: what its mask cuts is 0 in such an offset. *)
LEMMA AsmDump ==
  ASSUME DumpInv, program = "asm"
  PROVE  CProgram!DumpIsFaithful
<1>1. Stage = CASE pc = "read" -> "read"
                [] pc = "LwhileLoop" -> (IF ebx = 0 THEN "done" ELSE "offset")
                [] pc = "ret" -> "done"
                [] OTHER -> "byte"
  BY DEF Stage
<1> SUFFICES ASSUME errors = 0, Len(input) <= CProgram!HexBase ^ ShownDigits
             PROVE  /\ \A n \in 1..Len(OutBar) : CProgram!Shows(OutBar[n], CProgram!LineStart(n))
                    /\ Stage = "done" => CProgram!LineStart(Len(OutBar) + 1) = Len(input)
  BY <1>1 DEF CProgram!DumpIsFaithful, OutBar, Stage
<1>2. Good /\ Typed /\ Dumped /\ Seen = ShownDigits
  BY ConstantsAre DEF DumpInv, Good, Seen
<1>3. out \in Seq(LineType) /\ Len(out) \in Nat /\ DOMAIN OutBar = 1..Len(out)
      /\ \A n \in 1..Len(out) : out[n] \in LineType /\ OutBar[n] = Cut(out[n])
  BY <1>2 DEF Typed, OutBar
<1>4. Len(OutBar) = Len(out)
  BY <1>3
<1>5. \A n \in 1..Len(out) : OutBar[n].hex = out[n].hex /\ OutBar[n].text = out[n].text
                             /\ OutBar[n].offset = out[n].offset
  <2> SUFFICES ASSUME NEW n \in 1..Len(out)
               PROVE  OutBar[n].hex = out[n].hex /\ OutBar[n].text = out[n].text
                      /\ OutBar[n].offset = out[n].offset
    OBVIOUS
  <2> DEFINE s == Starts(n)
             p == Base ^ ShownDigits
  <2>1. s \in Nat /\ s < Len(input) /\ Len(input) <= p /\ p \in Nat \ {0} /\ Len(input) \in Nat
        /\ out[n].offset = hex_format_offset(s)
    <3>1. s \in 0..(Len(input) - 1) /\ LineShows(out[n], s)
      BY <1>2 DEF Dumped
    <3>2. Len(input) \in Nat /\ Len(input) <= p /\ p \in Nat \ {0}
      BY <1>2, Reach
    <3> HIDE DEF s, p
    <3> QED
      BY <3>1, <3>2 DEF LineShows
  <2>2. s % p = s
    <3> HIDE DEF s, p
    <3> QED
      BY <2>1
  <2>3. CutOf(hex_format_offset(s)) = hex_format_offset(s % p)
    <3>1. s \in Nat
      BY <2>1
    <3> HIDE DEF s
    <3> QED
      BY <3>1, CutFormat DEF CutOf
  <2> HIDE DEF s, p
  <2> QED
    BY <1>3, <2>1, <2>2, <2>3, CutIs
<1>6. \A n \in 1..(Len(out) + 1) : CProgram!LineStart(n) = Starts(n)
  <2> SUFFICES ASSUME NEW n \in 1..(Len(out) + 1) PROVE CProgram!LineStart(n) = Starts(n)
    OBVIOUS
  <2>1. CProgram!LineStart(n) =
          IF n = 1 THEN 0
          ELSE (CHOOSE p \in 0..(Len(input) - 1) : hex_format_offset(p) = OutBar[n - 1].offset)
               + Len(OutBar[n - 1].hex)
    BY DEF CProgram!LineStart, CProgram!OffsetOf, OutBar, CProgram!hex_format_offset,
           CProgram!int_to_hexchar, CProgram!HexBase, hex_format_offset, Base
  <2>2. n # 1 => n - 1 \in 1..Len(out)
    BY <1>3
  <2>3. n # 1 => OutBar[n - 1].offset = out[n - 1].offset /\ OutBar[n - 1].hex = out[n - 1].hex
    BY <1>5, <2>2
  <2> QED
    BY <2>1, <2>3 DEF Starts, StartOf
<1>7. \A n \in 1..Len(out) : CProgram!Shows(OutBar[n], CProgram!LineStart(n))
  <2> SUFFICES ASSUME NEW n \in 1..Len(out)
               PROVE  CProgram!Shows(OutBar[n], CProgram!LineStart(n))
    OBVIOUS
  <2>1. CProgram!LineStart(n) = Starts(n) /\ LineShows(out[n], Starts(n))
    BY <1>2, <1>3, <1>6 DEF Dumped
  <2>2. OutBar[n].hex = out[n].hex /\ OutBar[n].text = out[n].text
        /\ OutBar[n].offset = out[n].offset
    BY <1>5
  <2>3. \A l, from : LineShows(l, from) =>
          /\ l.offset = CProgram!hex_format_offset(from)
          /\ \A m \in 1..Len(l.hex) :
               /\ from + m <= Len(input)
               /\ l.hex[m] = CProgram!hex_format_byte_as_hex(input[from + m])
          /\ l.text = [m \in 1..Len(l.hex) |-> CProgram!hex_to_printable(input[from + m])]
    BY CFormats DEF LineShows
  <2> QED
    BY <2>1, <2>2, <2>3 DEF CProgram!Shows
<1>8. Stage = "done" => CProgram!LineStart(Len(OutBar) + 1) = Len(input)
  BY <1>2, <1>3, <1>4, <1>6 DEF Dumped
<1> QED
  BY <1>4, <1>7, <1>8

(* Each program dumps its input, for every value of the constants: however *)
(* the reads are cut, a line is about the bytes at its offset and starts   *)
(* where the line before it has ended, hex and text show the same bytes,   *)
(* and when the program ends the whole input has been shown, unless a      *)
(* read() has failed or the input is longer than offsets reach             *)
(* (c_hexmain.c 23-47, asm_hexmain.S 25-107).                              *)
THEOREM DumpsFaithfully == MCSpec => []DumpIsFaithful
<1>1. DumpInv => DumpIsFaithful
  <2> SUFFICES ASSUME DumpInv PROVE DumpIsFaithful
    OBVIOUS
  <2>1. program = "C" \/ program = "asm"
    BY DEF DumpInv, Where
  <2>2. program = "asm" => program # "C"
    OBVIOUS
  <2> QED
    BY <2>1, <2>2, CDump, AsmDump DEF DumpIsFaithful
<1> QED
  BY <1>1, DumpInvHolds, PTL

-----------------------------------------------------------------------------
(* The refinement. *)

(* A line that has not been begun has nothing to cut. *)
LEMMA CutNoLine == Cut(NoLine) = NoLine
<1>1. CutOf(<<>>) = <<>>
  BY DEF CutOf
<1> QED
  BY <1>1, CutIs, NoLineType DEF NoLine

(* A line added to the dump is added to what the C program wrote. *)
LEMMA OutBarAppends ==
  ASSUME out \in Seq(LineType), NEW l \in LineType, out' = Append(out, l)
  PROVE  OutBar' = Append(OutBar, Cut(l))
<1> DEFINE N == Len(out)
<1>1. N \in Nat /\ DOMAIN out = 1..N /\ DOMAIN out' = 1..(N + 1) /\ out'[N + 1] = l
      /\ \A n \in 1..N : out'[n] = out[n]
  OBVIOUS
<1>2. OutBar' = [n \in DOMAIN out' |-> Cut(out'[n])]
  BY DEF OutBar, Cut
<1>3. OutBar = [n \in 1..N |-> Cut(out[n])]
  BY <1>1 DEF OutBar
<1> HIDE DEF N
<1>4. Append(OutBar, Cut(l)) = [n \in 1..(N + 1) |-> IF n = N + 1 THEN Cut(l) ELSE OutBar[n]]
  <2>1. Len(OutBar) = N
    BY <1>1, <1>3
  <2> QED
    BY <1>1, <1>3, <2>1
<1>5. \A n \in 1..(N + 1) : Cut(out'[n]) = IF n = N + 1 THEN Cut(l) ELSE OutBar[n]
  BY <1>1, <1>3
<1> QED
  BY <1>1, <1>2, <1>4, <1>5

(* Both programs start as the C program does. *)
LEMMA RefInit == MCInit => CProgram!Init
<1> SUFFICES ASSUME MCInit PROVE CProgram!Init
  OBVIOUS
<1>1. /\ input \in Inputs /\ pos = 0 /\ pc = "read" /\ ebx = 0 /\ r12 = 0 /\ r14 = 0
      /\ line = NoLine /\ out = <<>> /\ errors = 0
      /\ printable = [m \in Index |-> Nul]
  BY CConstants, Zenon DEF MCInit, Init, CMain!Init
<1>2. data_buf \in [Index -> Byte]
  BY TypedInit DEF Typed
<1>3. CProgram!Byte = Byte
  BY ConstantsAre DEF Byte
<1>4. Cut(line) = NoLine
  BY <1>1, CutNoLine
<1>5. OutBar = <<>>
  BY <1>1 DEF OutBar
<1>6. Stage = "read"
  BY <1>1 DEF Stage
<1>7. printable = [m \in CProgram!Index |-> CProgram!Nul]
  BY <1>1, CConstants
<1> QED
  BY <1>1, <1>2, <1>3, <1>4, <1>5, <1>6, <1>7, CConstants DEF CProgram!Init, OutBar, Stage

(* hex_read is that of the C program. *)
LEMMA RefRead ==
  ASSUME Main!hex_read
  PROVE  CProgram!hex_read
<1>1. OutBar' = OutBar /\ Cut(line)' = Cut(line)
  BY DEF Main!hex_read, OutBar, Cut
<1>2. /\ Stage = "read"
      /\ \E n \in 0..Lesser(LineSize, Len(input) - pos) :
           /\ n = 0 => pos = Len(input)
           /\ data_buf' = [j \in Index |-> IF j < n THEN input[pos + j + 1] ELSE data_buf[j]]
           /\ ebx' = n
           /\ pos' = pos + n
           /\ Stage' = IF n = 0 THEN "done" ELSE "offset"
      /\ UNCHANGED <<input, r12, r14, printable, errors>>
  BY CConstants, Zenon DEF Main!hex_read
<1> QED
  BY <1>1, <1>2, CConstants, Zenon DEF CProgram!hex_read, OutBar, Stage

(* So is a read() that fails. *)
LEMMA RefReadFails ==
  ASSUME Main!hex_readFails
  PROVE  CProgram!hex_readFails
<1>1. OutBar' = OutBar /\ Cut(line)' = Cut(line)
  BY DEF Main!hex_readFails, OutBar, Cut
<1>2. /\ Stage = "read" /\ errors < MaxErrors /\ ebx' = DWord - 1 /\ errors' = errors + 1
      /\ Stage' = "offset"
      /\ UNCHANGED <<input, pos, data_buf, r12, r14, printable>>
  BY CConstants, Zenon DEF Main!hex_readFails
<1> QED
  BY <1>1, <1>2, CConstants, Zenon DEF CProgram!hex_readFails, OutBar, Stage

(* Masking an offset (asm_hexmain.S 37) is what Cut does to it. *)
LEMMA RefOffset ==
  ASSUME Typed, WriteShown
  PROVE  CProgram!WriteOffset
<1> DEFINE s == r12 % Base ^ Seen
           p == Base ^ ShownDigits
<1>0. r12 \in Nat /\ r12 < Base ^ OffsetDigits /\ p \in Nat \ {0} /\ Base ^ OffsetDigits \in Nat \ {0}
      /\ ShownDigits \in 0..OffsetDigits /\ (Seen = OffsetDigits \/ Seen = ShownDigits)
  <2>1. ShownDigits \in 0..OffsetDigits /\ OffsetDigits \in 0..OffsetDigits
    BY ConstantsAre
  <2> QED
    BY <2>1, DWordIs, PowersOfBase DEF Typed, Seen
<1>1. s \in Nat /\ s % p = r12 % p
  <2>1. CASE Seen = OffsetDigits
    <3> DEFINE q == Base ^ OffsetDigits
    <3>1. q \in Nat \ {0} /\ r12 < q /\ r12 \in Nat
      BY <1>0
    <3> HIDE DEF q
    <3>2. r12 % q = r12
      BY <3>1
    <3> QED
      BY <1>0, <2>1, <3>2 DEF q
  <2>2. CASE Seen = ShownDigits
    <3>1. s = r12 % p
      BY <2>2
    <3>2. \A x \in Nat : (x % p) \in Nat /\ (x % p) % p = x % p
      <4>1. p \in Nat \ {0}
        BY <1>0
      <4> HIDE DEF p
      <4>2. \A x \in Nat : (x % p) \in Nat /\ (x % p) < p
        BY <4>1
      <4>3. \A y \in Nat : y < p => y % p = y
        BY <4>1
      <4> QED
        BY <4>2, <4>3
    <3> HIDE DEF s, p
    <3> QED
      BY <1>0, <3>1, <3>2
  <2> QED
    BY <1>0, <2>1, <2>2
<1>2. /\ Stage = "offset" /\ Stage' = "byte" /\ r14' = 0
      /\ line' = [NoLine EXCEPT !.offset = hex_format_offset(s)]
      /\ UNCHANGED <<input, pos, data_buf, ebx, r12, printable, out, errors>>
  BY DEF WriteShown
<1>3. CutOf(hex_format_offset(s)) = hex_format_offset(r12 % p)
  <2>1. CutOf(hex_format_offset(s)) = hex_format_offset(s % p)
    <3>1. s \in Nat
      BY <1>1
    <3> HIDE DEF s
    <3> QED
      BY <3>1, CutFormat DEF CutOf
  <2> HIDE DEF s, p
  <2> QED
    BY <1>1, <2>1
<1>4. Cut(line') = [NoLine EXCEPT !.offset = hex_format_offset(r12 % p)]
  <2> HIDE DEF s, p
  <2>1. line' = [offset |-> hex_format_offset(s), hex |-> <<>>, text |-> <<>>]
    BY <1>2 DEF NoLine
  <2>2. line' \in LineType
    <3>1. hex_format_offset(s) \in Offsets
      BY <1>1 DEF Offsets
    <3> QED
      BY <2>1, <3>1 DEF LineType
  <2>3. Cut(line') = [offset |-> CutOf(line'.offset), hex |-> line'.hex, text |-> line'.text]
    BY <2>2, CutIs
  <2>4. Cut(line') = [offset |-> hex_format_offset(r12 % p), hex |-> <<>>, text |-> <<>>]
    BY <1>3, <2>1, <2>3
  <2> QED
    BY <2>4 DEF NoLine
<1>5. OutBar' = OutBar
  BY <1>2 DEF OutBar, Cut
<1>6. CProgram!Shown(r12) = r12 % p
  BY CConstants
<1>7. Cut(line)' = [CProgram!NoLine EXCEPT !.offset = CProgram!hex_format_offset(CProgram!Shown(r12))]
  <2> HIDE DEF p
  <2>1. CProgram!hex_format_offset(r12 % p) = hex_format_offset(r12 % p)
    BY CFormats
  <2>2. Cut(line)' = Cut(line')
    BY DEF Cut
  <2> QED
    BY <1>4, <1>6, <2>1, <2>2, CConstants
<1> HIDE DEF s, p
<1> QED
  BY <1>2, <1>5, <1>7 DEF CProgram!WriteOffset, OutBar, Stage

(* The padding of a short line is that of the C program. *)
LEMMA RefPad ==
  ASSUME Main!Pad
  PROVE  CProgram!Pad
<1>1. OutBar' = OutBar /\ Cut(line)' = Cut(line)
  BY DEF Main!Pad, OutBar, Cut
<1>2. /\ Stage = "byte" /\ r14 < LineSize /\ r14 >= ebx
      /\ printable' = [printable EXCEPT ![r14] = Nul] /\ r14' = r14 + 1
      /\ UNCHANGED <<input, pos, Stage, data_buf, ebx, r12, errors>>
  BY CConstants, Zenon DEF Main!Pad
<1> QED
  BY <1>1, <1>2, CConstants, Zenon DEF CProgram!Pad, OutBar, Stage

(* So is a byte of a line. *)
LEMMA RefByte ==
  ASSUME Typed, Main!WriteByte
  PROVE  CProgram!WriteByte
<1>1. /\ Stage = "byte" /\ r14 < LineSize /\ r14 < ebx
      /\ line' = [line EXCEPT !.hex = Append(@, hex_format_byte_as_hex(data_buf[r14]))]
      /\ printable' = [printable EXCEPT ![r14] = hex_to_printable(data_buf[r14])]
      /\ r14' = r14 + 1
      /\ UNCHANGED <<input, pos, Stage, data_buf, ebx, r12, out, errors>>
  BY CFormats, Zenon DEF Main!WriteByte
<1>2. OutBar' = OutBar
  BY <1>1 DEF OutBar, Cut
<1>3. Cut(line)' = [Cut(line) EXCEPT !.hex = Append(@, hex_format_byte_as_hex(data_buf[r14]))]
  <2> DEFINE x == hex_format_byte_as_hex(data_buf[r14])
  <2>1. line \in LineType
    BY DEF Typed
  <2>2. line' = [offset |-> line.offset, hex |-> Append(line.hex, x), text |-> line.text]
    BY <1>1, <2>1 DEF LineType
  <2> HIDE DEF x
  <2>3. Cut(line') = [offset |-> CutOf(line.offset), hex |-> Append(line.hex, x), text |-> line.text]
    <3>1. line' \in LineType
      BY TypedStep DEF Step, Typed
    <3>2. Cut(line') = [offset |-> CutOf(line'.offset), hex |-> line'.hex, text |-> line'.text]
      BY <3>1, CutIs
    <3> QED
      BY <2>2, <3>2
  <2>4. Cut(line)' = Cut(line')
    BY DEF Cut
  <2>5. Cut(line) = [offset |-> CutOf(line.offset), hex |-> line.hex, text |-> line.text]
    BY <2>1, CutIs
  <2>6. [Cut(line) EXCEPT !.hex = Append(@, x)]
          = [offset |-> CutOf(line.offset), hex |-> Append(line.hex, x), text |-> line.text]
    BY <2>5
  <2> QED
    BY <2>3, <2>4, <2>6 DEF x
<1> QED
  BY <1>1, <1>2, <1>3, CFormats, Zenon DEF CProgram!WriteByte, OutBar, Stage

(* So is the end of a line. *)
LEMMA RefText ==
  ASSUME Typed, Main!WriteText
  PROVE  CProgram!WriteText
<1>1. /\ Stage = "byte" /\ r14 = LineSize
      /\ out' = Append(out, [line EXCEPT !.text = hex_write_string(printable)])
      /\ line' = NoLine
      /\ r12' = (r12 + ebx) % DWord
      /\ Stage' = "read"
      /\ UNCHANGED <<input, pos, data_buf, ebx, r14, printable, errors>>
  BY CFormats, CConstants, Zenon DEF Main!WriteText
<1> DEFINE t == hex_write_string(printable)
           l == [line EXCEPT !.text = t]
<1>2. line \in LineType /\ out \in Seq(LineType) /\ t \in Seq(Byte \cup {Nul})
  BY PieceType DEF Typed
<1> HIDE DEF t
<1>3. l = [offset |-> line.offset, hex |-> line.hex, text |-> t] /\ l \in LineType
  <2>1. /\ line = [offset |-> line.offset, hex |-> line.hex, text |-> line.text]
        /\ line.offset \in Offsets /\ line.hex \in Seq(Pairs)
    BY <1>2 DEF LineType
  <2>2. l = [offset |-> line.offset, hex |-> line.hex, text |-> t]
    BY <2>1
  <2>3. [offset |-> line.offset, hex |-> line.hex, text |-> t] \in LineType
    BY <1>2, <2>1 DEF LineType
  <2> HIDE DEF l
  <2> QED
    BY <2>2, <2>3
<1>4. Cut(l) = [Cut(line) EXCEPT !.text = t]
  <2>1. Cut(line) = [offset |-> CutOf(line.offset), hex |-> line.hex, text |-> line.text]
    BY <1>2, CutIs
  <2>2. [Cut(line) EXCEPT !.text = t]
          = [offset |-> CutOf(line.offset), hex |-> line.hex, text |-> t]
    BY <2>1
  <2>3. Cut(l) = [offset |-> CutOf(l.offset), hex |-> l.hex, text |-> l.text]
    BY <1>3, CutIs
  <2>4. l.offset = line.offset /\ l.hex = line.hex /\ l.text = t
    BY <1>3
  <2> HIDE DEF l
  <2> QED
    BY <2>2, <2>3, <2>4
<1>5. out' = Append(out, l)
  BY <1>1 DEF t
<1>6. OutBar' = Append(OutBar, [Cut(line) EXCEPT !.text = CProgram!CString(printable)])
  <2>1. t = CProgram!CString(printable)
    BY CFormats DEF t
  <2>2. OutBar' = Append(OutBar, Cut(l))
    <3> HIDE DEF l
    <3> QED
      BY <1>2, <1>3, <1>5, OutBarAppends
  <2> HIDE DEF l
  <2> QED
    BY <1>4, <2>1, <2>2
<1>7. Cut(line)' = CProgram!NoLine
  <2>1. Cut(line)' = Cut(NoLine)
    BY <1>1 DEF Cut, NoLine
  <2> QED
    BY <2>1, CutNoLine, CConstants
<1> HIDE DEF l
<1> QED
  BY <1>1, <1>6, <1>7, CConstants, Zenon DEF CProgram!WriteText, OutBar, Stage

(* A jump changes nothing that the C program has. *)
LEMMA RefStill ==
  ASSUME Still
  PROVE  UNCHANGED CProgram!vars
<1>1. OutBar' = OutBar /\ Cut(line)' = Cut(line)
  BY DEF Still, OutBar, Cut
<1>2. Stage' = Stage /\ UNCHANGED <<input, pos, data_buf, ebx, r12, r14, printable, errors>>
  BY DEF Still
<1> QED
  BY <1>1, <1>2, Zenon DEF CProgram!vars, OutBar, Stage

(* The program in assembly writes what the program in C writes, line by    *)
(* line, but for the upper digits of an offset, which it masks out: each   *)
(* of its steps is a step of the C program or leaves its variables alone.  *)
(* SameAsC (asm_hexmain.S 25-107), but for the fairness.                   *)
THEOREM AssemblyImplementsC == MCSpec => CProgram!Spec
<1>1. DumpInv /\ [MCNext]_allVars => [CProgram!Next]_(CProgram!vars)
  <2> SUFFICES ASSUME DumpInv, [MCNext]_allVars PROVE [CProgram!Next]_(CProgram!vars)
    OBVIOUS
  <2>1. CASE Step
    <3>1. Typed
      BY DEF DumpInv
    <3>2. CProgram!Next
      BY <2>1, <3>1, RefRead, RefReadFails, RefOffset, RefPad, RefByte, RefText
         DEF Step, CProgram!Next
    <3> QED
      BY <3>2
  <2>2. CASE Still
    BY <2>2, RefStill
  <2>3. Step \/ Still
    <3>1. CASE MCNext
      BY <3>1, WhereStep DEF DumpInv
    <3>2. CASE UNCHANGED allVars
      BY <3>2 DEF allVars, vars, Still, Stage
    <3> QED
      BY <3>1, <3>2
  <2> QED
    BY <2>1, <2>2, <2>3
<1> QED
  BY <1>1, RefInit, DumpInvHolds, PTL DEF MCSpec, CProgram!Spec
=============================================================================
