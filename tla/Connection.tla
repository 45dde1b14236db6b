----------------------------- MODULE Connection -----------------------------
(***************************************************************************)
(* One Connection of a client to the server (connection.cpp) and the two   *)
(* directions of its socket.  What arrives is kept as the lines that       *)
(* rio_readlineb will cut it into: at a newline, and after MAX_LEN - 1     *)
(* characters at the latest.  A message has a tag, a text, a size in       *)
(* characters with its newline, and the number of the request it is or     *)
(* answers.  Left out is m_last_result, set from the bytes sent or         *)
(* received, which neither client looks at.                                *)
(***************************************************************************)
EXTENDS Naturals, Integers, Sequences

CONSTANT MAX_LEN   \* Message::MAX_LEN, 255

VARIABLES
  m_fd,            \* -1, or 3 while it is open
  outgoing,        \* messages on their way to the server
  incoming,        \* lines on their way to the client
  peer,            \* whether the server has its end open
  frame            \* what the stack holds where receive has its buffer

conn == <<m_fd, outgoing, incoming, peer, frame>>

Message(tag, data, size, of) == [tag |-> tag, data |-> data, size |-> size, of |-> of]
Garbage == Message("?", <<>>, 0, 0)

ConnInit ==
  /\ m_fd = -1
  /\ outgoing = <<>> /\ incoming = <<>> /\ peer = "open" /\ frame = Garbage

(* A message as the lines receive reads.  One that is too long comes in    *)
(* pieces: the first has "part" of its text, if it has a text; what is     *)
(* behind may look like any message, as the text may say anything.  A      *)
(* piece without ':' is all tag, one of a single character is the newline. *)
Pieces(m) == (m.size + MAX_LEN - 2) \div (MAX_LEN - 1)
Truncated(data) == IF Len(data) = 2 THEN <<data[1], <<"part">>>> ELSE data
FirstPiece(m) == Message(m.tag, Truncated(m.data), MAX_LEN - 1, m.of)
LaterPieces(m, size) ==
  {Message("rest", <<>>, size, m.of)}
  \cup {Message(tag, data, size, m.of) :
          tag \in IF size = 1 THEN {} ELSE {"ok", "err", "delivery"}, data \in {<<>>, m.data}}

rio_readlineb_lines(m) ==
  IF m.size < MAX_LEN THEN {<<m>>}
  ELSE LET n == Pieces(m)
           last == m.size - (n - 1) * (MAX_LEN - 1)
           later == LaterPieces(m, MAX_LEN - 1) \cup LaterPieces(m, last)
       IN  {lines \in [1..n -> {FirstPiece(m)} \cup later] :
              /\ lines[1] = FirstPiece(m)
              /\ \A i \in 2..n : lines[i] \in LaterPieces(m, IF i = n THEN last ELSE MAX_LEN - 1)}

-----------------------------------------------------------------------------
connect ==
  /\ m_fd' \in {-1, 3}
  /\ UNCHANGED <<outgoing, incoming, peer, frame>>

is_open == m_fd >= 0

(* A connection that the server has closed may take the bytes or not.      *)
send(msg) ==
  /\ \/ outgoing' = Append(outgoing, msg)
     \/ peer = "closed" /\ UNCHANGED outgoing
  /\ UNCHANGED <<m_fd, incoming, peer, frame>>

(* a line has arrived, and msg is what is in it *)
receiveLine(msg) ==
  /\ incoming # <<>>
  /\ msg = Head(incoming)
  /\ incoming' = Tail(incoming) /\ frame' = msg
  /\ UNCHANGED <<m_fd, outgoing, peer>>

(* The end of the connection, or an error (-1, which counts as an invalid  *)
(* message): the buffer is parsed all the same.  Nothing has been written  *)
(* to it; it holds the line of the last call, or what other calls have     *)
(* left there.                                                             *)
receiveNothing(msg) ==
  /\ peer = "closed" /\ incoming = <<>>
  /\ msg \in {frame, Garbage}
  /\ frame' = msg
  /\ UNCHANGED <<m_fd, outgoing, incoming, peer>>

receive(msg) == receiveLine(msg) \/ receiveNothing(msg)

(* what receive may return now *)
Receivable == IF incoming # <<>> THEN {Head(incoming)} ELSE {frame, Garbage}

-----------------------------------------------------------------------------
(* The server's end (external).                                            *)
Deliver(m) ==
  /\ peer = "open"
  /\ \E lines \in rio_readlineb_lines(m) : incoming' = incoming \o lines
  /\ UNCHANGED <<m_fd, peer, frame>>

(* a line without its end: cut in its tag, in the room of a delivery, or   *)
(* behind it, where "part" stands for what is left, perhaps nothing        *)
Cut(m) == {[m EXCEPT !.tag = "?"], [m EXCEPT !.data = <<>>]}
          \cup (IF Len(m.data) = 2 THEN {[m EXCEPT !.data[2] = <<"part">>]} ELSE {})

(* The server closes its end or crashes: the last line still on its way    *)
(* may be cut.                                                             *)
PeerCloses ==
  /\ peer = "open" /\ peer' = "closed"
  /\ \/ UNCHANGED incoming
     \/ /\ incoming # <<>>
        /\ \E m \in Cut(incoming[Len(incoming)]) : incoming' = [incoming EXCEPT ![Len(incoming)] = m]
  /\ UNCHANGED <<m_fd, outgoing, frame>>
=============================================================================
