-------------------------------- MODULE Chat --------------------------------
(***************************************************************************)
(* A sender and a receiver, each with its connection, and the server       *)
(* between them.  The server is external: what is modelled of it is what   *)
(* the clients rely on, and that it may refuse a request, deliver messages *)
(* of any room, and close a connection at any time.                        *)
(***************************************************************************)
EXTENDS Naturals, Integers, Sequences

CONSTANTS MAX_LEN, Rooms, Room, Texts, MaxCommands, MaxShown,
          AnswerSizes,  \* the sizes an answer may have
          DeliveryMore, \* by how much a delivery, with room and sender, is longer than its request
          Closes        \* whether the server may close a connection

ASSUME ChatAssumption ==
  /\ MAX_LEN \in Nat \ {0, 1}
  /\ Room \in Rooms /\ "" \notin Rooms
  /\ MaxCommands \in Nat /\ MaxShown \in Nat /\ DeliveryMore \in Nat

VARIABLES
  s_fd, s_outgoing, s_incoming, s_peer, s_frame,
  s_pc, room_name, s_asked, acks, s_code,
  r_fd, r_outgoing, r_incoming, r_peer, r_frame,
  r_pc, r_asked, shown, tty, flushed, r_code,
  in_room,     \* server: the room of the sender, "" without one
  listening,   \* server: whether the receiver has joined its room
  granted,     \* server: the requests of the sender it has answered with ok
  delivered    \* server: what it has delivered of the receiver's room

S == INSTANCE Sender WITH
       m_fd <- s_fd, outgoing <- s_outgoing,
       incoming <- s_incoming, peer <- s_peer, frame <- s_frame,
       pc <- s_pc, asked <- s_asked, code <- s_code
R == INSTANCE Receiver WITH
       m_fd <- r_fd, outgoing <- r_outgoing,
       incoming <- r_incoming, peer <- r_peer, frame <- r_frame,
       pc <- r_pc, asked <- r_asked, code <- r_code

s_conn == <<s_fd, s_outgoing, s_incoming, s_peer, s_frame>>
s_local == <<s_pc, room_name, s_asked, acks, s_code>>
r_conn == <<r_fd, r_outgoing, r_incoming, r_peer, r_frame>>
r_local == <<r_pc, r_asked, shown, tty, flushed, r_code>>
server == <<in_room, listening, granted, delivered>>
vars == <<s_conn, s_local, r_conn, r_local, server>>

Init ==
  /\ S!Init /\ R!Init
  /\ in_room = "" /\ listening = FALSE /\ granted = {} /\ delivered = <<>>

(* Joining and logging in may be refused; what needs a room is granted in  *)
(* a room only, and refused at will.                                       *)
MayGrant(req) == req.tag \in {"leave", "sendall"} => in_room # ""

Forward(req) ==
  \/ /\ listening /\ r_peer = "open"
     /\ R!Deliver(S!Message("delivery", <<in_room, req.data>>, req.size + DeliveryMore,
                          req.of))
     /\ UNCHANGED r_outgoing
     /\ delivered' = IF in_room = Room THEN Append(delivered, <<req.of, req.data>>) ELSE delivered
  \/ /\ ~(listening /\ r_peer = "open" /\ in_room = Room)
     /\ UNCHANGED <<r_conn, delivered>>

AnswerSender ==
  /\ s_outgoing # <<>> /\ s_peer = "open"
  /\ s_outgoing' = Tail(s_outgoing)
  /\ LET req == Head(s_outgoing)
         Reply(tag) == \E size \in AnswerSizes : S!Deliver(S!Message(tag, <<>>, size, req.of))
     IN  \/ /\ Reply("err")
            /\ UNCHANGED <<in_room, granted, delivered, r_conn>>
         \/ /\ MayGrant(req) /\ Reply("ok")
            /\ granted' = granted \cup {req.of}
            /\ in_room' = CASE req.tag = "join" -> req.data[1]
                            [] req.tag = "leave" -> ""
                            [] OTHER -> in_room
            /\ IF req.tag = "sendall" THEN Forward(req) ELSE UNCHANGED <<r_conn, delivered>>
  /\ UNCHANGED <<s_local, r_local, listening>>

AnswerReceiver ==
  /\ r_outgoing # <<>> /\ r_peer = "open"
  /\ r_outgoing' = Tail(r_outgoing)
  /\ LET req == Head(r_outgoing)
     IN  \E tag \in {"ok", "err"}, size \in AnswerSizes :
           /\ R!Deliver(R!Message(tag, <<>>, size, req.of))
           /\ listening' = (req.tag = "join" /\ tag = "ok")
  /\ UNCHANGED <<s_conn, s_local, r_local, in_room, granted, delivered>>

CloseSender == Closes /\ S!PeerCloses /\ UNCHANGED <<s_local, r_conn, r_local, server>>
CloseReceiver == Closes /\ R!PeerCloses /\ UNCHANGED <<s_conn, s_local, r_local, server>>

SenderSteps == S!Next /\ UNCHANGED <<r_conn, r_local, server>>
ReceiverSteps == R!Next /\ UNCHANGED <<s_conn, s_local, server>>

Next == SenderSteps \/ ReceiverSteps \/ AnswerSender \/ AnswerReceiver \/ CloseSender \/ CloseReceiver

Spec == Init /\ [][Next]_vars

(* Each client runs, and the server answers what it has been asked.        *)
FairSpec ==
  /\ Spec
  /\ WF_vars(S!Steps /\ UNCHANGED <<r_conn, r_local, server>>)
  /\ WF_vars(R!Steps /\ UNCHANGED <<s_conn, s_local, server>>)
  /\ WF_vars(AnswerSender) /\ WF_vars(AnswerReceiver)

-----------------------------------------------------------------------------
(* Between two commands nothing is on its way: neither a request nor an    *)
(* answer that the next command could take for its own.                    *)
InStep == s_pc \in {"loop", "ended"} => s_incoming = <<>> /\ (s_outgoing = <<>> \/ s_peer = "closed")

(* What the sender holds to be granted was granted, as long as it has not  *)
(* come to the end of its connection.                                      *)
AckIsTrue == acks \subseteq granted \/ S!AtEof

(* The same whatever happens; message.h: TAG_OK is the "success response". *)
OkIsSuccess == acks \subseteq granted

(* The receiver displays the deliveries for its room and nothing else,     *)
(* each once and in order, until it comes to the end of its connection;    *)
(* of a text with colons the part before the first one.                    *)
Displays(s, d) ==
  /\ s[1] = d[1]
  /\ s[2][1] = d[2][1] \/ (r_peer = "closed" /\ s[2][1] = "part")
IsPrefixOfDelivered ==
  /\ Len(shown) <= Len(delivered)
  /\ \A i \in 1..Len(shown) : Displays(shown[i], delivered[i])
DisplayedInOrder == IsPrefixOfDelivered \/ R!AtEof

(* receiver.cpp: what is displayed are deliveries.                         *)
DisplayedOnce == \A i, j \in 1..Len(shown) : i # j => shown[i][1] # shown[j][1]

(* receiver.cpp: "split msg.data into room and sender and msg".            *)
DisplayedWhole == r_peer = "open" => \A i \in 1..Len(shown) : shown[i] \in {delivered[j] : j \in 1..Len(delivered)}

SentFits == S!SentFits

(* The sender comes to its end: on /quit, a refusal, the end of its input  *)
(* or a broken pipe, also when the server has gone.                        *)
SenderEnds == <>(S!Stopped)

(* In the end everything that was delivered is written to std::cout, and   *)
(* on a terminal it has left the buffer, too, unless it and all that comes *)
(* behind it are texts with colons, whose newline is not written.  Of an   *)
(* output that is no terminal nothing more can be promised.  Exception is  *)
(* a connection of the receiver that is refused or closed before.          *)
NewlineFollows(i) == \E k \in i..Len(delivered) : Len(delivered[k][2]) = 1
IsShown(i, n) == \E j \in 1..n : shown[j][1] = delivered[i][1]
DeliveriesShown ==
  <>[](\/ \A i \in 1..Len(delivered) :
            /\ IsShown(i, Len(shown))
            /\ tty /\ NewlineFollows(i) => IsShown(i, flushed)
       \/ R!Stopped \/ r_peer = "closed")
=============================================================================
