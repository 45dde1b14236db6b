------------------------------ MODULE HexDump ------------------------------
(***************************************************************************)
(* The hexdump program in C: c_hexmain.c and the functions of              *)
(* c_hexfuncs.c.  It reads up to LineSize bytes of standard input at a     *)
(* time and writes a line for them: their offset, the bytes in hex, the    *)
(* bytes as text.  A read() may return fewer bytes than are asked for, or  *)
(* fail.  A hex digit is a string, a character of text a byte; the layout  *)
(* of a line is left out.                                                  *)
(***************************************************************************)
EXTENDS Integers, Sequences

CONSTANTS HexChars,      \* the hex digits in order; 16 of them in the code
          LineSize,      \* bytes in a line: 16
          OffsetDigits,  \* digits of an offset: 8, so all the digits of an unsigned
          ShownDigits,   \* of those the last ones, which are not always 0: all 8
          Printable,     \* the bytes that are shown as they are: 32..126
          Dot,           \* '.', which stands for the others
          Inputs,        \* what standard input may hold
          MaxErrors      \* bound on the number of read() calls that fail

HexBase == Len(HexChars)
UnsignedMod == HexBase ^ OffsetDigits
Byte == 0..(HexBase * HexBase - 1)

HexAssumption ==
  /\ ShownDigits \in 1..OffsetDigits
  /\ HexBase \in Nat \ {0, 1} /\ LineSize \in Nat \ {0} /\ OffsetDigits \in Nat \ {0}
  /\ \A j, k \in 1..HexBase : HexChars[j] = HexChars[k] => j = k
  /\ Printable \subseteq Byte /\ Dot \in Printable
  /\ Inputs \subseteq Seq(Byte)
  /\ MaxErrors \in Nat

(* the powers an offset is divided by *)
PowersMultiply ==
  /\ HexBase ^ 0 = 1
  /\ \A n \in 0..(OffsetDigits - 1) : HexBase ^ (n + 1) = HexBase * HexBase ^ n

VARIABLES input,       \* standard input
          pos,         \* how many of its bytes have been read
          pc,          \* "read", "offset", "byte" or "done"
          data_buf, counter, offset, i, printable,       \* the variables of main
          line,        \* the part of a line that has been written
          out,         \* the lines that have been written
          errors       \* how many calls of read() have failed

vars == <<input, pos, pc, data_buf, counter, offset, i, printable, line, out, errors>>

Index == 0..(LineSize - 1)
Nul == -1   \* the byte that ends a string, in no string
NoLine == [offset |-> <<>>, hex |-> <<>>, text |-> <<>>]

-----------------------------------------------------------------------------
int_to_hexchar(dec) == HexChars[dec + 1]

hex_format_offset(n) ==
  [k \in 1..OffsetDigits |-> int_to_hexchar((n \div HexBase ^ (OffsetDigits - k)) % HexBase)]

(* what is left of an offset for the program to show: all of it *)
Shown(n) == n % HexBase ^ ShownDigits

hex_format_byte_as_hex(byteval) ==
  <<int_to_hexchar(byteval \div HexBase), int_to_hexchar(byteval % HexBase)>>

hex_to_printable(byteval) == IF byteval \in Printable THEN byteval ELSE Dot

(* hex_write_string stops at the first Nul *)
CString(s) ==
  LET end == CHOOSE n \in 0..LineSize :
               /\ n = LineSize \/ s[n] = Nul
               /\ \A k \in 0..(n - 1) : s[k] # Nul
  IN  [k \in 1..end |-> s[k - 1]]

-----------------------------------------------------------------------------
Init ==
  /\ input \in Inputs
  /\ pos = 0
  /\ pc = "read"
  /\ data_buf \in [Index -> Byte]     \* uninitialized
  /\ counter = 0 /\ offset = 0 /\ i = 0
  /\ printable = [k \in Index |-> Nul]
  /\ line = NoLine /\ out = <<>>
  /\ errors = 0

Lesser(a, b) == IF a < b THEN a ELSE b

(* read() returns some bytes, and 0 only at the end of the input *)
hex_read ==
  /\ pc = "read"
  /\ \E k \in 0..Lesser(LineSize, Len(input) - pos) :
       /\ k = 0 => pos = Len(input)
       /\ data_buf' = [j \in Index |-> IF j < k THEN input[pos + j + 1] ELSE data_buf[j]]
       /\ counter' = k
       /\ pos' = pos + k
       /\ pc' = IF k = 0 THEN "done" ELSE "offset"
  /\ UNCHANGED <<input, offset, i, printable, line, out, errors>>

(* read() fails: its -1 is returned as an unsigned *)
hex_readFails ==
  /\ pc = "read" /\ errors < MaxErrors
  /\ counter' = UnsignedMod - 1
  /\ errors' = errors + 1
  /\ pc' = "offset"
  /\ UNCHANGED <<input, pos, data_buf, offset, i, printable, line, out>>

WriteOffset ==
  /\ pc = "offset"
  /\ line' = [NoLine EXCEPT !.offset = hex_format_offset(Shown(offset))]
  /\ i' = 0
  /\ pc' = "byte"
  /\ UNCHANGED <<input, pos, data_buf, counter, offset, printable, out, errors>>

\* Mutant: the text is not ended where the bytes of a short line end.
PadStale ==
  /\ pc = "byte" /\ i < LineSize /\ i >= counter
  /\ i' = i + 1
  /\ UNCHANGED <<input, pos, pc, data_buf, counter, offset, printable, line, out, errors>>

(* the two cases of the loop over i: past the bytes, and at one of them *)
Pad ==
  /\ pc = "byte" /\ i < LineSize /\ i >= counter
  /\ printable' = [printable EXCEPT ![i] = Nul]
  /\ i' = i + 1
  /\ UNCHANGED <<input, pos, pc, data_buf, counter, offset, line, out, errors>>

WriteByte ==
  /\ pc = "byte" /\ i < LineSize /\ i < counter
  /\ line' = [line EXCEPT !.hex = Append(@, hex_format_byte_as_hex(data_buf[i]))]
  /\ printable' = [printable EXCEPT ![i] = hex_to_printable(data_buf[i])]
  /\ i' = i + 1
  /\ UNCHANGED <<input, pos, pc, data_buf, counter, offset, out, errors>>

(* the text and the newline, then the offset of the next line *)
WriteText ==
  /\ pc = "byte" /\ i = LineSize
  /\ out' = Append(out, [line EXCEPT !.text = CString(printable)])
  /\ line' = NoLine
  /\ offset' = (offset + counter) % UnsignedMod
  /\ pc' = "read"
  /\ UNCHANGED <<input, pos, data_buf, counter, i, printable, errors>>

Next == hex_read \/ hex_readFails \/ WriteOffset \/ Pad \/ WriteByte \/ WriteText

Spec == Init /\ [][Next]_vars
(* standard input ends, or more of it arrives; read() does not fail for ever *)
FairSpec == Spec /\ WF_vars(Next) /\ WF_vars(hex_read)

-----------------------------------------------------------------------------
(* What a reader of the dump sees: a line is about the bytes at its offset, *)
(* and starts where the line before it has ended, however the reads were   *)
(* cut; hex and text show the same bytes; and in the end the whole input   *)
(* (c_hexmain.c 23-47).  It is so unless a read() has failed, and for the  *)
(* inputs whose offsets have no more digits than are shown.                *)
OffsetOf(n) == CHOOSE p \in 0..(Len(input) - 1) : hex_format_offset(p) = out[n].offset
LineStart(n) == IF n = 1 THEN 0 ELSE OffsetOf(n - 1) + Len(out[n - 1].hex)
Shows(l, from) ==
  /\ l.offset = hex_format_offset(from)
  /\ \A k \in 1..Len(l.hex) :
       /\ from + k <= Len(input)
       /\ l.hex[k] = hex_format_byte_as_hex(input[from + k])
  /\ l.text = [k \in 1..Len(l.hex) |-> hex_to_printable(input[from + k])]

DumpIsFaithful == errors = 0 /\ Len(input) <= HexBase ^ ShownDigits =>
  /\ \A n \in 1..Len(out) : Shows(out[n], LineStart(n))
  /\ pc = "done" => LineStart(Len(out) + 1) = Len(input)

(* hex_read returns the number of characters read, so between two lines    *)
(* the offset is the number of bytes read so far.                          *)
OffsetIsPosition == pc = "read" => offset = pos % UnsignedMod

(* The program ends.                                                       *)
Ends == <>(pc = "done")
=============================================================================
