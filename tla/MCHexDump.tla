----------------------------- MODULE MCHexDump -----------------------------
(***************************************************************************)
(* The two hexdump programs of csf_assign02, one of which runs: that in C  *)
(* or that in assembly, whose comments name the lines of c_hexmain.c they  *)
(* stand for.  The registers hold the variables of main, so both use the   *)
(* variables of HexDumpAsm.  Two hex digits, so bytes 0..3.                *)
(***************************************************************************)
EXTENDS HexDumpAsm

VARIABLE program   \* "C" or "asm"

allVars == <<vars, program>>

CMain == INSTANCE HexDump WITH HexChars <- sHexDigits, ShownDigits <- OffsetDigits,
           counter <- ebx, offset <- r12, i <- r14

ASSUME HexdumpAssumption ==
  CMain!HexAssumption /\ CMain!PowersMultiply /\ ShownDigits \in 1..OffsetDigits

MCHexDigits == <<"0", "1">>
(* short inputs, and one that is longer than the mask has offsets for *)
MCInputs == UNION {[1..n -> {0, 1, 3}] : n \in 0..3} \cup {<<0, 1, 2, 3>>, <<0, 1, 2, 3, 3, 2>>}

MCInit == \/ program = "C" /\ CMain!Init
          \/ program = "asm" /\ Init

MCNext ==
  /\ \/ program = "C" /\ CMain!Next
     \/ program = "asm" /\ Next
  /\ UNCHANGED program

MCRead == \/ program = "C" /\ CMain!hex_read /\ UNCHANGED program
          \/ program = "asm" /\ hex_read /\ UNCHANGED program

MCSpec == /\ MCInit /\ [][MCNext]_allVars
          /\ WF_allVars(MCNext)
          /\ WF_allVars(MCRead)

-----------------------------------------------------------------------------
(* A line up to the digits of its offset that the assembly masks out. *)
Cut(l) == [l EXCEPT !.offset =
  [k \in DOMAIN @ |-> IF k <= OffsetDigits - ShownDigits THEN sHexDigits[1] ELSE @[k]]]

CProgram == INSTANCE HexDump WITH HexChars <- sHexDigits,
  counter <- ebx, offset <- r12, i <- r14,
  line <- Cut(line), out <- [n \in DOMAIN out |-> Cut(out[n])],
  pc <- IF program = "C" THEN pc
        ELSE CASE pc = "read" -> "read"
               [] pc = "LwhileLoop" -> (IF ebx = 0 THEN "done" ELSE "offset")
               [] pc = "ret" -> "done"
               [] OTHER -> "byte"

(* The assembly implements the C program: for every input, cut into reads  *)
(* in every way, with read errors, it writes the same lines (but for the   *)
(* upper digits of an offset, which asm_hexmain.S 37 masks out), and ends  *)
(* when the C program ends.                                                *)
SameAsC == CProgram!FairSpec

(* Each program dumps its input (HexDump!DumpIsFaithful): that in C with   *)
(* all the digits of an offset, that in assembly up to its mask.           *)
DumpIsFaithful ==
  IF program = "C" THEN CMain!DumpIsFaithful ELSE CProgram!DumpIsFaithful

(* Each ends, also after read errors, which no program tests for: the      *)
(* count of 2^32 - 1 must not keep the loops from ending.                  *)
Ends == <>(pc \in {"done", "ret"})

(* hexfuncs.h 8: hex_read "returns the number of characters read".  So     *)
(* between two lines the offset of the C program is the number of bytes    *)
(* read so far.  (False: a read error counts as 2^32 - 1 bytes.)           *)
OffsetIsPosition == program = "C" => CMain!OffsetIsPosition
=============================================================================
