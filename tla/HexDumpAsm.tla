----------------------------- MODULE HexDumpAsm -----------------------------
(***************************************************************************)
(* The hexdump program in x86-64 assembly: asm_hexmain.S and               *)
(* asm_hexfuncs.S, register by register: %ebx holds the count, %r12d the   *)
(* offset, %r14 the index in the line.  %r13 and %r15 only hold the        *)
(* addresses of data_buf and printable, which is so because the read() and *)
(* write() of libc keep %rsi.  The comments of the assembly name the lines *)
(* of c_hexmain.c it stands for: it is shown to implement HexDump.         *)
(***************************************************************************)
EXTENDS Integers, Sequences

CONSTANTS sHexDigits,     \* the digits in order: 16 of them
          LineSize,       \* 16
          OffsetDigits,   \* 8
          ShownDigits,    \* digits left by the mask $0xffff: 4
          Printable, Dot, Inputs, MaxErrors

VARIABLES input, pos, pc, data_buf, printable, ebx, r12, r14, line, out, errors

vars == <<input, pos, pc, data_buf, printable, ebx, r12, r14, line, out, errors>>

Base == Len(sHexDigits)
DWord == Base ^ OffsetDigits
Index == 0..(LineSize - 1)
Nul == -1   \* the byte that ends a string, in no string
NoLine == [offset |-> <<>>, hex |-> <<>>, text |-> <<>>]

-----------------------------------------------------------------------------
(* each digit is the low four bits of the offset, shifted right digit by digit *)
hex_format_offset(rdi) ==
  [at \in 1..OffsetDigits |-> sHexDigits[((rdi \div Base ^ (OffsetDigits - at)) % Base) + 1]]

hex_format_byte_as_hex(rdi) == <<sHexDigits[(rdi \div Base) + 1], sHexDigits[(rdi % Base) + 1]>>

hex_to_printable(di) == IF di \in Printable THEN di ELSE Dot

(* the characters before the first one that is 0 *)
hex_write_string(rsi) ==
  LET end == CHOOSE n \in 0..LineSize : /\ n = LineSize \/ rsi[n] = Nul
                                        /\ \A k \in 0..(n - 1) : rsi[k] # Nul
  IN  [at \in 1..end |-> rsi[at - 1]]

Init ==
  /\ input \in Inputs
  /\ pos = 0 /\ pc = "read"
  /\ data_buf = [k \in Index |-> 0]
  /\ printable = [k \in Index |-> Nul]
  /\ ebx = 0 /\ r12 = 0 /\ r14 = 0
  /\ line = NoLine /\ out = <<>> /\ errors = 0

Lesser(a, b) == IF a < b THEN a ELSE b

hex_read ==
  /\ pc = "read"
  /\ \E k \in 0..Lesser(LineSize, Len(input) - pos) :
       /\ k = 0 => pos = Len(input)
       /\ data_buf' = [j \in Index |-> IF j < k THEN input[pos + j + 1] ELSE data_buf[j]]
       /\ ebx' = k
       /\ pos' = pos + k
  /\ pc' = "LwhileLoop"
  /\ UNCHANGED <<input, printable, r12, r14, line, out, errors>>

(* the -1 of a read() that fails, in %eax *)
hex_readFails ==
  /\ pc = "read" /\ errors < MaxErrors
  /\ ebx' = DWord - 1
  /\ errors' = errors + 1
  /\ pc' = "LwhileLoop"
  /\ UNCHANGED <<input, pos, data_buf, printable, r12, r14, line, out>>

Leave ==
  /\ pc = "LwhileLoop" /\ ebx = 0
  /\ pc' = "ret"
  /\ UNCHANGED <<input, pos, data_buf, printable, ebx, r12, r14, line, out, errors>>

Masked(rdi) == rdi % Base ^ ShownDigits

LwhileLoop ==
  /\ pc = "LwhileLoop" /\ ebx # 0
  /\ line' = [NoLine EXCEPT !.offset = hex_format_offset(Masked(r12))]
  /\ r14' = 0
  /\ pc' = "LloopTop"
  /\ UNCHANGED <<input, pos, data_buf, printable, ebx, r12, out, errors>>

\* Mutant: the jump is taken when the count is below the index only.
LloopTopLate ==
  /\ pc = "LloopTop"
  /\ IF ebx < r14
       THEN pc' = "LshortLine" /\ UNCHANGED <<printable, r14, line>>
       ELSE /\ line' = [line EXCEPT !.hex = Append(@, hex_format_byte_as_hex(data_buf[r14]))]
            /\ printable' = [printable EXCEPT ![r14] = hex_to_printable(data_buf[r14])]
            /\ r14' = r14 + 1
            /\ pc' = "LloopCond"
  /\ UNCHANGED <<input, pos, data_buf, ebx, r12, out, errors>>

(* jbe compares without sign, as the C program does *)
LloopTop ==
  /\ pc = "LloopTop"
  /\ IF ebx <= r14
       THEN pc' = "LshortLine" /\ UNCHANGED <<printable, r14, line>>
       ELSE /\ line' = [line EXCEPT !.hex = Append(@, hex_format_byte_as_hex(data_buf[r14]))]
            /\ printable' = [printable EXCEPT ![r14] = hex_to_printable(data_buf[r14])]
            /\ r14' = r14 + 1
            /\ pc' = "LloopCond"
  /\ UNCHANGED <<input, pos, data_buf, ebx, r12, out, errors>>

\* Mutant: the index is not incremented on the short line.
LshortLineStays ==
  /\ pc = "LshortLine"
  /\ printable' = [printable EXCEPT ![r14] = Nul]
  /\ pc' = "LloopCond"
  /\ UNCHANGED <<input, pos, data_buf, ebx, r12, r14, line, out, errors>>

LshortLine ==
  /\ pc = "LshortLine"
  /\ printable' = [printable EXCEPT ![r14] = Nul]
  /\ r14' = r14 + 1
  /\ pc' = "LloopCond"
  /\ UNCHANGED <<input, pos, data_buf, ebx, r12, line, out, errors>>

LloopCond ==
  /\ pc = "LloopCond"
  /\ pc' = IF r14 < LineSize THEN "LloopTop" ELSE "LprintAndRead"
  /\ UNCHANGED <<input, pos, data_buf, printable, ebx, r12, r14, line, out, errors>>

LprintAndRead ==
  /\ pc = "LprintAndRead"
  /\ out' = Append(out, [line EXCEPT !.text = hex_write_string(printable)])
  /\ line' = NoLine
  /\ r12' = (r12 + ebx) % DWord
  /\ pc' = "read"
  /\ UNCHANGED <<input, pos, data_buf, printable, ebx, r14, errors>>

Next == hex_read \/ hex_readFails \/ Leave \/ LwhileLoop \/ LloopTop \/ LshortLine
        \/ LloopCond \/ LprintAndRead

FairSpec == Init /\ [][Next]_vars /\ WF_vars(Next) /\ WF_vars(hex_read)
=============================================================================
