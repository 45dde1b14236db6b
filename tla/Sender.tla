------------------------------- MODULE Sender -------------------------------
(***************************************************************************)
(* sender.cpp: it logs in, and sends one request for each command it       *)
(* reads, waiting for the answer before it reads the next one.             *)
(***************************************************************************)
EXTENDS Connection

CONSTANTS Rooms, Texts,   \* rooms, and texts: the parts between their colons, and a size
          MaxCommands     \* bound: commands on standard input

VARIABLES
  pc,          \* "start", the kind of request that waits for its answer, "loop", "ended"
  room_name,
  asked,       \* number of requests sent
  acks,        \* the requests that the sender holds to be granted
  code         \* the exit code

local == <<pc, room_name, asked, acks, code>>
vars == <<conn, local>>

Init ==
  /\ ConnInit
  /\ pc = "start" /\ room_name = "" /\ asked = 0 /\ acks = {} /\ code = -1

ExitWith(c) == code' = c /\ pc' = "ended"

OpenFails ==
  /\ pc = "start" /\ ~is_open
  /\ connect /\ m_fd' < 0
  /\ ExitWith(1)
  /\ UNCHANGED <<room_name, asked, acks>>

Connects ==
  /\ pc = "start" /\ ~is_open
  /\ connect /\ m_fd' >= 0
  /\ UNCHANGED local

(* A request is sent, and its answer is waited for whatever send says.     *)
Ask(tag, data, size) ==
  /\ send(Message(tag, data, size, asked + 1))
  /\ asked' = asked + 1 /\ pc' = tag

Login ==
  /\ pc = "start" /\ is_open
  /\ Ask("slogin", <<>>, 1)
  /\ UNCHANGED <<room_name, acks, code>>

(* A line with a command; the login was a request as well.  An empty line, *)
(* or a word that begins with '/' and is no command, changes nothing.      *)
ReadLine == pc = "loop" /\ asked <= MaxCommands

Join ==
  /\ ReadLine
  /\ \E r \in Rooms : room_name' = r /\ Ask("join", <<r>>, 1)
  /\ UNCHANGED <<acks, code>>

Leave ==
  /\ ReadLine
  /\ Ask("leave", <<room_name>>, 1)
  /\ UNCHANGED <<room_name, acks, code>>

Quit ==
  /\ ReadLine
  /\ Ask("quit", <<room_name>>, 1)
  /\ UNCHANGED <<room_name, acks, code>>

SendAll ==
  /\ ReadLine
  /\ \E text \in Texts : Ask("sendall", text.parts, text.size)
  /\ UNCHANGED <<room_name, acks, code>>

EndOfInput ==
  /\ pc = "loop"
  /\ ExitWith(0)
  /\ UNCHANGED <<conn, room_name, asked, acks>>

-----------------------------------------------------------------------------
\* Mutants: the sender does not wait for the answer to a sendall; or waits for ok.
AnswerSendAllLater ==
  \/ /\ pc = "sendall" /\ pc' = "loop"
     /\ UNCHANGED <<conn, acks, room_name, asked, code>>
  \/ /\ pc \in {"slogin", "join", "leave"}
     /\ \E msg \in Receivable :
          /\ receive(msg)
          /\ acks' = IF msg.tag = "ok" THEN acks \cup {asked} ELSE acks
          /\ IF pc # "leave" /\ msg.tag # "ok" THEN ExitWith(1)
             ELSE pc' = "loop" /\ UNCHANGED code
     /\ UNCHANGED <<room_name, asked>>
AnswerUntilOk ==
  /\ pc \in {"slogin", "join", "leave", "sendall"}
  /\ \E msg \in Receivable :
       /\ receive(msg)
       /\ acks' = IF msg.tag = "ok" THEN acks \cup {asked} ELSE acks
       /\ pc' = (IF msg.tag = "ok" THEN "loop" ELSE pc) /\ UNCHANGED code
  /\ UNCHANGED <<room_name, asked>>

(* Only the tag of the answer is looked at.  A login or a join that is not *)
(* ok ends the program.                                                    *)
Answer ==
  /\ pc \in {"slogin", "join", "leave", "sendall"}
  /\ \E msg \in Receivable :
       /\ receive(msg)
       /\ acks' = IF msg.tag = "ok" THEN acks \cup {asked} ELSE acks
       /\ IF pc \in {"slogin", "join"} /\ msg.tag # "ok" THEN ExitWith(1)
          ELSE pc' = "loop" /\ UNCHANGED code
  /\ UNCHANGED <<room_name, asked>>

AnswerQuit ==
  /\ pc = "quit"
  /\ \E msg \in Receivable :
       /\ receive(msg)
       /\ acks' = IF msg.tag = "ok" THEN acks \cup {asked} ELSE acks
       /\ ExitWith(CASE msg.tag = "err" -> 1 [] msg.tag = "ok" -> 0 [] OTHER -> 2)
  /\ UNCHANGED <<room_name, asked>>

(* The destructor closes the socket when main returns; a failing Close     *)
(* calls unix_error, which exits with 0.                                   *)
Destroy ==
  /\ pc = "ended" /\ is_open
  /\ m_fd' = -1
  /\ code' \in {code, 0}
  /\ UNCHANGED <<outgoing, incoming, peer, frame,
                 pc, room_name, asked, acks>>

(* Writing to a connection that the server has closed may raise SIGPIPE.   *)
BrokenPipe ==
  /\ peer = "closed"
  /\ (pc = "start" /\ is_open) \/ ReadLine
  /\ pc' = "killed"
  /\ UNCHANGED <<conn, room_name, asked, acks, code>>

Steps == OpenFails \/ Connects \/ Login \/ Join \/ Leave \/ Quit \/ SendAll
         \/ EndOfInput \/ Answer \/ AnswerQuit \/ Destroy
Next == Steps \/ BrokenPipe

AtEof == peer = "closed" /\ incoming = <<>>
Stopped == pc \in {"ended", "killed"}

(* message.h: "An encoded message may have at most this many characters".  *)
SentFits == \A i \in 1..Len(outgoing) : outgoing[i].size <= MAX_LEN
=============================================================================
