------------------------------ MODULE Receiver ------------------------------
(***************************************************************************)
(* receiver.cpp: it logs in, joins its room, and writes deliveries for     *)
(* this room to std::cout as they come, for ever.  It never flushes        *)
(* std::cout, nor does it exit from its loop: on a terminal what it has    *)
(* written appears with the next newline, elsewhere when the buffer fills. *)
(***************************************************************************)
EXTENDS Connection

CONSTANTS Room,      \* the room of its command line
          MaxShown   \* bound: messages displayed

VARIABLES
  pc,          \* "start", the request that waits for its answer, "loop", "ended"
  asked,       \* number of requests sent
  shown,       \* what it has written to std::cout: the number and the text of each message
  tty,         \* whether std::cout is a terminal, found out at the first output
  flushed,     \* how many of them have left the buffer
  code         \* the exit code

local == <<pc, asked, shown, tty, flushed, code>>
output == <<shown, tty, flushed>>
vars == <<conn, local>>

Init ==
  /\ ConnInit /\ pc = "start" /\ asked = 0 /\ code = -1
  /\ shown = <<>> /\ tty = FALSE /\ flushed = 0

ExitWith(c) == code' = c /\ pc' = "ended"

OpenFails ==
  /\ pc = "start" /\ ~is_open
  /\ connect /\ m_fd' < 0
  /\ ExitWith(1)
  /\ UNCHANGED <<asked, output>>

Connects ==
  /\ pc = "start" /\ ~is_open
  /\ connect /\ m_fd' >= 0
  /\ UNCHANGED local

Ask(tag, data) ==
  /\ send(Message(tag, data, 1, asked + 1))
  /\ asked' = asked + 1 /\ pc' = tag

Login ==
  /\ pc = "start" /\ is_open
  /\ Ask("rlogin", <<>>)
  /\ UNCHANGED <<output, code>>

Refused ==
  /\ pc \in {"rlogin", "joining"}
  /\ \E msg \in Receivable : msg.tag # "ok" /\ receive(msg)
  /\ ExitWith(1)
  /\ UNCHANGED <<asked, output>>

LoggedIn ==
  /\ pc = "rlogin"
  /\ \E msg \in Receivable : msg.tag = "ok" /\ receive(msg)
  /\ pc' = "join"
  /\ UNCHANGED <<asked, output, code>>

Join ==
  /\ pc = "join"
  /\ send(Message("join", <<Room>>, 1, asked + 1))
  /\ asked' = asked + 1 /\ pc' = "joining"
  /\ UNCHANGED <<output, code>>

Joined ==
  /\ pc = "joining"
  /\ \E msg \in Receivable : msg.tag = "ok" /\ receive(msg)
  /\ pc' = "loop"
  /\ UNCHANGED <<asked, output, code>>

\* Mutants: deliveries for every room are displayed; or none.
DisplayAnyRoom(msg) ==
  IF msg.tag = "delivery" /\ msg.data # <<>>
    THEN shown' = Append(shown, <<msg.of, <<msg.data[2][1]>>>>) ELSE UNCHANGED shown
DisplayNever(msg) == UNCHANGED shown

(* The data of a delivery is the room and the text; the sender's name,     *)
(* which is between them and is displayed with it, is left out.  The text  *)
(* is read up to the next colon.                                           *)
Display(msg) ==
  IF msg.tag = "delivery" /\ msg.data # <<>> /\ msg.data[1] = Room
    THEN shown' = Append(shown, <<msg.of, <<msg.data[2][1]>>>>) ELSE UNCHANGED shown

(* A text without a colon is written with its newline, one with a colon,   *)
(* or a line without its end, is not.                                      *)
EndsLine(msg) == Len(msg.data[2]) = 1 /\ msg.data[2] # <<"part">>

(* What becomes of the buffer of std::cout: on a terminal a newline writes *)
(* out all of it; what else is written may fill it.                        *)
Flush(msg) ==
  IF shown' = shown THEN UNCHANGED <<tty, flushed>>
  ELSE /\ tty' \in IF shown = <<>> THEN BOOLEAN ELSE {tty}
       /\ flushed' \in IF tty' /\ EndsLine(msg) THEN {Len(shown')} ELSE flushed..Len(shown')

Loop ==
  /\ pc = "loop" /\ Len(shown) < MaxShown
  /\ \E msg \in Receivable : receive(msg) /\ Display(msg) /\ Flush(msg)
  /\ UNCHANGED <<pc, asked, code>>

Destroy ==
  /\ pc = "ended" /\ is_open
  /\ m_fd' = -1
  /\ code' \in {code, 0}
  /\ UNCHANGED <<outgoing, incoming, peer, frame, pc, asked, output>>

BrokenPipe ==
  /\ peer = "closed"
  /\ (pc = "start" /\ is_open) \/ pc = "join"
  /\ pc' = "killed"
  /\ UNCHANGED <<conn, asked, output, code>>

Steps == OpenFails \/ Connects \/ Login \/ Refused \/ LoggedIn \/ Join \/ Joined \/ Loop \/ Destroy
Next == Steps \/ BrokenPipe

AtEof == peer = "closed" /\ incoming = <<>>
Stopped == pc \in {"ended", "killed"}
=============================================================================
