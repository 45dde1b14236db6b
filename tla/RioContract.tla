---------------------------- MODULE RioContract ----------------------------
(***************************************************************************)
(* What a caller of the Rio package may rely on: each call hands over the  *)
(* next piece of the stream.  A line ends at its newline, at maxlen - 1    *)
(* bytes or at the end of the stream; a block has n bytes unless the       *)
(* stream ends.  A call that fails hands over nothing, and swallows less   *)
(* than the piece it was asked for.  A size that is no int, in the two     *)
(* functions that take it for one, cuts the piece anywhere; and a block of *)
(* such a size may be the last thing the program asks for.  The stream     *)
(* grows until it ends.                                                    *)
(***************************************************************************)
EXTENDS Integers, Sequences

CONSTANTS Newline, Calls, IntMax

VARIABLES stream, ended, taken, call, ret, piece

vars == <<stream, ended, taken, call, ret, piece>>

Idle == [op |-> "idle", size |-> 0]
Killed == [op |-> "killed", size |-> 0]

Init ==
  /\ stream = <<>> /\ ended = FALSE
  /\ taken = 0 /\ call = Idle /\ ret = 0 /\ piece = <<>>

NoInt == call.op \in {"line", "bytes"} /\ call.size > IntMax
IsAll(k) == ended /\ taken + k = Len(stream)
NoNewline(k) == \A i \in 1..k : stream[taken + i] # Newline

(* A line of size 0, like one of size 1, is empty. *)
IsLine(k) ==
  /\ k < call.size \/ k = 0
  /\ NoNewline(k - 1)
  /\ k + 1 >= call.size \/ IsAll(k) \/ NoInt \/ (k > 0 /\ stream[taken + k] = Newline)

IsBlock(k) ==
  /\ k <= call.size
  /\ k = call.size \/ IsAll(k) \/ NoInt

Start(c) ==
  /\ call = Idle
  /\ call' = c /\ piece' = <<>>
  /\ UNCHANGED <<stream, ended, taken, ret>>

Finish(k) ==
  /\ call \notin {Idle, Killed}
  /\ IF call.op = "line" THEN IsLine(k) ELSE IsBlock(k)
  /\ piece' = [i \in 1..k |-> stream[taken + i]]
  /\ ret' = k /\ taken' = taken + k /\ call' = Idle
  /\ UNCHANGED <<stream, ended>>

(* the k bytes do not make up a line or a block *)
Fail(k) ==
  /\ call \notin {Idle, Killed}
  /\ IF call.op = "line" THEN k + 1 < call.size /\ NoNewline(k) ELSE k < call.size
  /\ ret' = -1 /\ taken' = taken + k /\ call' = Idle
  /\ UNCHANGED <<stream, ended, piece>>

Break ==
  /\ call.op = "bytes" /\ NoInt
  /\ call' = Killed
  /\ UNCHANGED <<stream, ended, taken, ret, piece>>

(* The other end sends more bytes, or closes. *)
Arrive ==
  /\ ~ended /\ ended' \in BOOLEAN
  /\ Len(stream') >= Len(stream) /\ SubSeq(stream', 1, Len(stream)) = stream
  /\ UNCHANGED <<taken, call, ret, piece>>

Next ==
  \/ Arrive
  \/ \E c \in Calls : Start(c)
  \/ \E k \in 0..(Len(stream) - taken) : Finish(k) \/ Fail(k)
  \/ Break

Spec == Init /\ [][Next]_vars
=============================================================================
