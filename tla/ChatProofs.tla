----------------------------- MODULE ChatProofs -----------------------------
(***************************************************************************)
(* The chat clients, for any rooms, texts and numbers of commands.  The    *)
(* sender and its server take turns: at most one request or answer is on   *)
(* its way, so that an answer is the answer to the request that waits for  *)
(* it.  The receiver displays what was delivered, in order, since what it  *)
(* has displayed and the deliveries that are on their way to it are all    *)
(* that the server has delivered.  Answers, and for the receiver delivered *)
(* texts with their room and sender, are taken to fit in a line of         *)
(* rio_readlineb: a longer line is cut in pieces, each but the first of    *)
(* which is read as a message of its own.                                  *)
(***************************************************************************)
EXTENDS Chat, SequenceTheorems, TLAPS

AnswersFit == \A size \in AnswerSizes : size < MAX_LEN
TextsFit == \A text \in Texts : text.size + DeliveryMore < MAX_LEN

Message(tag, data, size, of) == [tag |-> tag, data |-> data, size |-> size, of |-> of]
IsMessage(m) == m = Message(m.tag, m.data, m.size, m.of)

-----------------------------------------------------------------------------
(* The invariant of the sender.                                            *)

Waiting == {"slogin", "join", "leave", "sendall", "quit"}

(* An answer on its way is the answer to the last request, and "ok" has    *)
(* been said.                                                              *)
IsAnswer(m) == IsMessage(m) /\ m.of = s_asked /\ (m.tag = "ok" => s_asked \in granted)

Fits(tag, size) == TextsFit /\ tag = "sendall" => size + DeliveryMore < MAX_LEN

IsRequest(q) == IsMessage(q) /\ q.of = s_asked /\ Fits(q.tag, q.size)

OneAnswer ==
  /\ s_incoming = <<>> \/ \E m : s_incoming = <<m>> /\ IsAnswer(m)
  /\ s_pc \notin Waiting => s_incoming = <<>>

(* As long as the connection is open, a sender that waits has one request  *)
(* or one answer on its way, and otherwise none.                           *)
OneRequest ==
  s_peer = "open" =>
    \/ s_outgoing = <<>> /\ (s_pc \in Waiting => s_incoming # <<>>)
    \/ /\ s_pc \in Waiting /\ s_incoming = <<>>
       /\ \E q : s_outgoing = <<q>> /\ IsRequest(q)

SenderInv ==
  /\ s_peer \in {"open", "closed"}
  /\ OneAnswer
  /\ OneRequest
  /\ AckIsTrue

LEMMA SenderBegins == Init => SenderInv
<1> SUFFICES ASSUME Init PROVE SenderInv  OBVIOUS
<1>1. /\ s_peer = "open" /\ s_outgoing = <<>> /\ s_incoming = <<>> /\ s_pc = "start"
      /\ acks = {}
  BY DEF Init, S!Init, S!ConnInit
<1> QED  BY <1>1 DEF SenderInv, OneAnswer, OneRequest, AckIsTrue, Waiting

(* A request is sent between two commands, or at the start.                *)
LEMMA RequestSent ==
  ASSUME SenderInv, s_pc \notin Waiting, NEW q, IsMessage(q), q.of = s_asked + 1,
         Fits(q.tag, q.size),
         S!send(q), s_asked' = s_asked + 1, s_pc' \in Waiting,
         UNCHANGED <<acks, granted>>
  PROVE  SenderInv'
<1>1. s_incoming' = <<>> /\ s_peer' = s_peer /\ s_incoming = <<>>
  BY DEF S!send, SenderInv, OneAnswer
<1>2. s_peer = "open" => s_outgoing' = <<q>>
  BY DEF S!send, SenderInv, OneRequest
<1>3. OneAnswer'
  BY <1>1 DEF OneAnswer
<1>4. OneRequest'
  <2>1. IsRequest(q)'
    BY DEF IsRequest, IsMessage
  <2> QED  BY <1>1, <1>2, <2>1 DEF OneRequest
<1>5. AckIsTrue'
  BY <1>1 DEF SenderInv, AckIsTrue, S!AtEof
<1> QED  BY <1>1, <1>3, <1>4, <1>5 DEF SenderInv

(* A sender that does not wait goes on without a request, or stops.        *)
LEMMA SenderIdles ==
  ASSUME SenderInv, s_pc \notin Waiting, s_pc' \notin Waiting,
         UNCHANGED <<s_outgoing, s_incoming, s_peer, s_asked, acks, granted>>
  PROVE  SenderInv'
BY DEF SenderInv, OneAnswer, OneRequest, AckIsTrue, S!AtEof

(* The answer is taken: it is counted as granted if it is ok.              *)
LEMMA AnswerTaken ==
  ASSUME SenderInv, s_pc \in Waiting, NEW msg, S!receive(msg),
         acks' = IF msg.tag = "ok" THEN acks \cup {s_asked} ELSE acks,
         s_pc' \notin Waiting, UNCHANGED <<s_asked, granted>>
  PROVE  SenderInv'
<1>1. CASE S!receiveLine(msg)
  <2>1. /\ s_incoming # <<>> /\ msg = Head(s_incoming) /\ s_incoming' = Tail(s_incoming)
        /\ s_outgoing' = s_outgoing /\ s_peer' = s_peer
    BY <1>1 DEF S!receiveLine
  <2>2. PICK m : s_incoming = <<m>> /\ IsAnswer(m)
    BY <2>1 DEF SenderInv, OneAnswer
  <2>3. msg = m /\ s_incoming' = <<>>
    BY <2>1, <2>2
  <2>4. s_peer = "open" => s_outgoing = <<>>
    BY <2>1 DEF SenderInv, OneRequest
  <2>5. acks \subseteq granted
    BY <2>1 DEF SenderInv, AckIsTrue, S!AtEof
  <2>6. acks' \subseteq granted'
    BY <2>2, <2>3, <2>5 DEF IsAnswer
  <2> QED
    BY <2>1, <2>3, <2>4, <2>6 DEF SenderInv, OneAnswer, OneRequest, AckIsTrue
<1>2. CASE S!receiveNothing(msg)
  <2>1. s_peer = "closed" /\ s_incoming = <<>> /\ s_incoming' = <<>> /\ s_peer' = "closed"
    BY <1>2 DEF S!receiveNothing
  <2> QED  BY <2>1 DEF SenderInv, OneAnswer, OneRequest, AckIsTrue, S!AtEof
<1> QED  BY <1>1, <1>2 DEF S!receive

LEMMA SenderRuns ==
  ASSUME SenderInv, SenderSteps
  PROVE  SenderInv'
<1>0. S!Next /\ UNCHANGED <<granted, in_room, listening, delivered>>
  BY DEF SenderSteps, server
<1>1. CASE S!OpenFails \/ S!Connects \/ S!EndOfInput
  <2>1. /\ s_pc \in {"start", "loop"} /\ s_pc' \in {"start", "ended"}
        /\ UNCHANGED <<s_outgoing, s_incoming, s_peer, s_asked, acks>>
    BY <1>1 DEF S!OpenFails, S!Connects, S!EndOfInput, S!connect, S!ExitWith,
                S!conn, S!local
  <2> QED  BY <1>0, <2>1, SenderIdles DEF Waiting
<1>2. CASE S!Destroy \/ S!BrokenPipe
  <2>1. /\ s_pc \in {"start", "loop", "ended"} /\ s_pc' \in {"ended", "killed"}
        /\ UNCHANGED <<s_outgoing, s_incoming, s_peer, s_asked, acks>>
    BY <1>2 DEF S!Destroy, S!BrokenPipe, S!ReadLine, S!conn
  <2> QED  BY <1>0, <2>1, SenderIdles DEF Waiting
<1>3. CASE S!Login \/ S!Join \/ S!Leave \/ S!Quit \/ S!SendAll
  <2>1. s_pc \in {"start", "loop"} /\ acks' = acks
    BY <1>3 DEF S!Login, S!Join, S!Leave, S!Quit, S!SendAll, S!ReadLine
  <2>asks. PICK tag \in Waiting :
             \E data, size : S!Ask(tag, data, size) /\ Fits(tag, size)
    <3>1. CASE S!Login \/ S!Leave \/ S!Quit
      BY <3>1 DEF S!Login, S!Leave, S!Quit, Waiting, Fits
    <3>2. CASE S!Join
      BY <3>2 DEF S!Join, Waiting, Fits
    <3>3. CASE S!SendAll
      <4>1. PICK text \in Texts : S!Ask("sendall", text.parts, text.size)
        BY <3>3 DEF S!SendAll
      <4> QED  BY <4>1 DEF Waiting, TextsFit, Fits
    <3> QED  BY <1>3, <3>1, <3>2, <3>3
  <2>2. PICK data, size : S!Ask(tag, data, size) /\ Fits(tag, size)
    BY <2>asks
  <2> DEFINE q == Message(tag, data, size, s_asked + 1)
  <2>3. S!send(q) /\ s_asked' = s_asked + 1 /\ s_pc' \in Waiting
    BY <2>2 DEF S!Ask, S!Message, Message
  <2>4. IsMessage(q) /\ q.of = s_asked + 1 /\ q.size = size /\ q.tag = tag
    BY DEF IsMessage, Message
  <2> HIDE DEF q
  <2>5. s_pc \notin Waiting
    BY <2>1 DEF Waiting
  <2> QED  BY <1>0, <2>1, <2>2, <2>3, <2>4, <2>5, RequestSent
<1>4. CASE S!Answer
  <2>1. PICK msg \in S!Receivable :
          /\ S!receive(msg)
          /\ acks' = IF msg.tag = "ok" THEN acks \cup {s_asked} ELSE acks
    BY <1>4 DEF S!Answer
  <2>2. s_pc \in Waiting /\ s_pc' \in {"loop", "ended"} /\ s_asked' = s_asked
    BY <1>4 DEF S!Answer, S!ExitWith, Waiting
  <2>3. s_pc' \notin Waiting
    BY <2>2 DEF Waiting
  <2> QED  BY <1>0, <2>1, <2>2, <2>3, AnswerTaken
<1>5. CASE S!AnswerQuit
  <2>1. PICK msg \in S!Receivable :
          /\ S!receive(msg)
          /\ acks' = IF msg.tag = "ok" THEN acks \cup {s_asked} ELSE acks
    BY <1>5 DEF S!AnswerQuit
  <2>2. s_pc \in Waiting /\ s_pc' = "ended" /\ s_asked' = s_asked
    BY <1>5 DEF S!AnswerQuit, S!ExitWith, Waiting
  <2>3. s_pc' \notin Waiting
    BY <2>2 DEF Waiting
  <2> QED  BY <1>0, <2>1, <2>2, <2>3, AnswerTaken
<1> QED  BY <1>0, <1>1, <1>2, <1>3, <1>4, <1>5 DEF S!Next, S!Steps

(* The server answers the one request there is.                            *)
LEMMA SenderAnswered ==
  ASSUME AnswersFit, SenderInv, AnswerSender
  PROVE  SenderInv'
<1>1. /\ s_outgoing # <<>> /\ s_peer = "open" /\ s_outgoing' = Tail(s_outgoing)
      /\ UNCHANGED <<s_pc, s_asked, acks>>
  BY DEF AnswerSender, s_local
<1>2. PICK q : s_outgoing = <<q>> /\ IsRequest(q) /\ s_pc \in Waiting /\ s_incoming = <<>>
  BY <1>1 DEF SenderInv, OneRequest
<1>3. Head(s_outgoing) = q /\ s_outgoing' = <<>>
  BY <1>1, <1>2
<1>4. PICK tag \in {"ok", "err"}, size \in AnswerSizes :
        /\ S!Deliver(S!Message(tag, <<>>, size, q.of))
        /\ tag = "ok" => granted' = granted \cup {q.of}
        /\ granted \subseteq granted'
  BY <1>3 DEF AnswerSender
<1> DEFINE a == S!Message(tag, <<>>, size, q.of)
<1>5. /\ a.tag = tag /\ a.size = size /\ a.of = s_asked
      /\ IsMessage(a)
  BY <1>2 DEF S!Message, IsMessage, IsRequest, Message
<1>6. /\ \E lines \in S!rio_readlineb_lines(a) : s_incoming' = <<>> \o lines
      /\ s_peer' = s_peer
  BY <1>2, <1>4 DEF S!Deliver
<1>7. tag = "ok" => s_asked \in granted'
  BY <1>2, <1>4 DEF IsRequest
<1> HIDE DEF a
<1>8. S!rio_readlineb_lines(a) = {<<a>>}
  BY <1>5 DEF AnswersFit, S!rio_readlineb_lines
<1>9. s_incoming' = <<a>>
  BY <1>6, <1>8
<1>10. IsAnswer(a)'
  BY <1>1, <1>5, <1>7 DEF IsAnswer, IsMessage
<1>11. OneAnswer'
  BY <1>1, <1>2, <1>9, <1>10 DEF OneAnswer
<1>12. OneRequest'
  BY <1>3, <1>9 DEF OneRequest
<1>13. AckIsTrue'
  BY <1>1, <1>4 DEF SenderInv, AckIsTrue, S!AtEof
<1> QED  BY <1>6, <1>11, <1>12, <1>13 DEF SenderInv

(* The server goes: what is on its way stays, cut perhaps.                 *)
LEMMA SenderCutOff ==
  ASSUME SenderInv, CloseSender
  PROVE  SenderInv'
<1>1. /\ s_peer = "open" /\ s_peer' = "closed"
      /\ UNCHANGED <<s_pc, s_asked, acks, granted>>
  BY DEF CloseSender, S!PeerCloses, s_local, server
<1>2. OneAnswer'
  <2>1. CASE s_incoming' = s_incoming
    BY <1>1, <2>1 DEF SenderInv, OneAnswer, IsAnswer
  <2>2. CASE s_incoming # <<>> /\ s_incoming' # s_incoming
    <3>1. PICK m : s_incoming = <<m>> /\ IsAnswer(m)
      BY <2>2 DEF SenderInv, OneAnswer
    <3>2. PICK c \in S!Cut(m) : s_incoming' = <<c>>
      BY <2>2, <3>1 DEF CloseSender, S!PeerCloses
    <3>3. IsMessage(c) /\ c.of = m.of /\ c.tag \in {"?", m.tag}
      BY <3>1, <3>2 DEF S!Cut, IsAnswer, IsMessage, Message
    <3>4. s_pc \in Waiting
      BY <2>2 DEF SenderInv, OneAnswer
    <3> QED  BY <1>1, <3>1, <3>2, <3>3, <3>4 DEF OneAnswer, IsAnswer, IsMessage
  <2>3. s_incoming = <<>> => s_incoming' = s_incoming
    BY DEF CloseSender, S!PeerCloses
  <2> QED  BY <2>1, <2>2, <2>3
<1>3. AckIsTrue'
  BY <1>1 DEF SenderInv, AckIsTrue, S!AtEof
<1> QED  BY <1>1, <1>2, <1>3 DEF SenderInv, OneRequest

LEMMA SenderInvStep == AnswersFit /\ SenderInv /\ [Next]_vars => SenderInv'
<1> SUFFICES ASSUME AnswersFit, SenderInv, [Next]_vars PROVE SenderInv'  OBVIOUS
<1>1. ASSUME UNCHANGED <<s_conn, s_local, granted>> PROVE SenderInv'
  BY <1>1 DEF s_conn, s_local, SenderInv, OneAnswer, IsAnswer, OneRequest, IsRequest,
              AckIsTrue, S!AtEof
<1>2. CASE ReceiverSteps \/ AnswerReceiver \/ CloseReceiver \/ UNCHANGED vars
  BY <1>1, <1>2 DEF ReceiverSteps, AnswerReceiver, CloseReceiver, vars, server
<1> QED  BY <1>2, SenderRuns, SenderAnswered, SenderCutOff DEF Next

LEMMA SenderInvariant == AnswersFit => (Spec => []SenderInv)
<1> SUFFICES ASSUME AnswersFit PROVE Spec => []SenderInv  OBVIOUS
<1>1. Init => SenderInv  BY SenderBegins
<1>2. SenderInv /\ [Next]_vars => SenderInv'  BY SenderInvStep
<1> QED  BY <1>1, <1>2, PTL DEF Spec

(* Between two commands neither a request nor an answer is on its way that *)
(* the next command could take for its own.                                *)
THEOREM RequestsAndAnswersPair == AnswersFit => (Spec => []InStep)
<1>1. SenderInv => InStep
  BY DEF SenderInv, OneAnswer, OneRequest, InStep, Waiting
<1> QED  BY <1>1, SenderInvariant, PTL

(* What the sender holds to be granted the server has granted, as long as  *)
(* the sender has not come to the end of its connection.                   *)
THEOREM AcksAreGranted == AnswersFit => (Spec => []AckIsTrue)
<1>1. SenderInv => AckIsTrue
  BY DEF SenderInv
<1> QED  BY <1>1, SenderInvariant, PTL

-----------------------------------------------------------------------------
(* What is on its way to the receiver, and what it has displayed.          *)

IsSeq(s) == \E V : s \in Seq(V)

(* A line for the receiver's room.                                         *)
ForRoom(m) == m.tag = "delivery" /\ m.data # <<>> /\ m.data[1] = Room

(* A line as the server sends them: without data, or a room and a text.    *)
IsLine(m) == IsMessage(m) /\ (m.data = <<>> \/ m.data = <<m.data[1], m.data[2]>>)

(* A line carries a delivery, cut in its text perhaps if the server has    *)
(* gone.                                                                   *)
Carries(m, d, peer) ==
  /\ m.of = d[1]
  /\ m.data[2][1] = d[2][1] \/ (peer = "closed" /\ m.data[2][1] = "part")

(* f[k] is how many of the deliveries del the receiver has seen when it    *)
(* has read k of the lines inc, having displayed n.                        *)
Counts(f, inc, n, del, peer) ==
  /\ f \in [0..Len(inc) -> Nat]
  /\ f[0] = n
  /\ \A k \in 1..Len(inc) :
       /\ ForRoom(inc[k]) => /\ f[k] = f[k - 1] + 1 /\ f[k] <= Len(del)
                             /\ Carries(inc[k], del[f[k]], peer)
       /\ ~ForRoom(inc[k]) => f[k] = f[k - 1]
  /\ peer = "open" => f[Len(inc)] = Len(del)

(* The lines on their way carry the deliveries that are not displayed.     *)
Pending(inc, n, del, peer) == \E f : Counts(f, inc, n, del, peer)

(* Before anything is sent.                                                *)
LEMMA PendingNothing ==
  ASSUME NEW peer
  PROVE  Pending(<<>>, 0, <<>>, peer)
<1> DEFINE f == [k \in 0..0 |-> 0]
<1>1. Len(<<>>) = 0
  OBVIOUS
<1>2. f \in [0..0 -> Nat] /\ f[0] = 0
  OBVIOUS
<1>3. \A k \in 1..0 : FALSE
  OBVIOUS
<1> HIDE DEF f
<1>4. Counts(f, <<>>, 0, <<>>, peer)
  BY <1>1, <1>2, <1>3 DEF Counts
<1> QED  BY <1>4 DEF Pending

(* An answer is sent behind what is on its way.                            *)
LEMMA PendingOther ==
  ASSUME NEW V, NEW inc \in Seq(V), NEW n, NEW D, NEW del \in Seq(D), NEW peer,
         NEW m, ~ForRoom(m), Pending(inc, n, del, peer)
  PROVE  Pending(Append(inc, m), n, del, peer)
<1>1. PICK f : Counts(f, inc, n, del, peer)
  BY DEF Pending
<1> DEFINE N == Len(inc)
           g == [k \in 0..(N + 1) |-> IF k = N + 1 THEN f[N] ELSE f[k]]
           more == Append(inc, m)
<1>2. /\ N \in Nat /\ Len(more) = N + 1 /\ more[N + 1] = m
      /\ \A k \in 1..N : more[k] = inc[k]
  OBVIOUS
<1>3. /\ f \in [0..N -> Nat] /\ f[0] = n
      /\ peer = "open" => f[N] = Len(del)
      /\ \A k \in 1..N :
           /\ ForRoom(inc[k]) => /\ f[k] = f[k - 1] + 1 /\ f[k] <= Len(del)
                                 /\ Carries(inc[k], del[f[k]], peer)
           /\ ~ForRoom(inc[k]) => f[k] = f[k - 1]
  BY <1>1 DEF Counts
<1> HIDE DEF N, more
<1>4. \A k \in 0..N : g[k] = f[k]
  BY <1>2
<1>5. g[N + 1] = f[N] /\ g \in [0..(N + 1) -> Nat]
  BY <1>2, <1>3
<1> HIDE DEF g
<1>6. ASSUME NEW k \in 1..(N + 1)
      PROVE  /\ ForRoom(more[k]) => /\ g[k] = g[k - 1] + 1 /\ g[k] <= Len(del)
                                    /\ Carries(more[k], del[g[k]], peer)
             /\ ~ForRoom(more[k]) => g[k] = g[k - 1]
  <2>1. CASE k \in 1..N
    <3>1. k \in 0..N /\ k - 1 \in 0..N
      BY <1>2, <2>1
    <3>2. g[k] = f[k] /\ g[k - 1] = f[k - 1] /\ more[k] = inc[k]
      BY <1>2, <1>4, <2>1, <3>1
    <3> QED  BY <1>3, <2>1, <3>2
  <2>2. CASE k = N + 1
    <3>1. k - 1 = N /\ N \in 0..N
      BY <1>2, <2>2
    <3>2. g[k] = f[N] /\ g[k - 1] = f[N] /\ more[k] = m
      BY <1>2, <1>4, <1>5, <2>2, <3>1
    <3> QED  BY <3>2
  <2> QED  BY <1>2, <2>1, <2>2
<1>7. g[0] = n
  BY <1>2, <1>3, <1>4
<1>8. Counts(g, more, n, del, peer)
  BY <1>2, <1>3, <1>5, <1>6, <1>7 DEF Counts
<1> QED  BY <1>8 DEF Pending, more

(* A delivery for the room is sent behind what is on its way.              *)
LEMMA PendingDelivered ==
  ASSUME NEW V, NEW inc \in Seq(V), NEW n, NEW D, NEW del \in Seq(D), NEW d,
         NEW m, ForRoom(m), Carries(m, d, "open"), Pending(inc, n, del, "open")
  PROVE  Pending(Append(inc, m), n, Append(del, d), "open")
<1>1. PICK f : Counts(f, inc, n, del, "open")
  BY DEF Pending
<1> DEFINE N == Len(inc)
           M == Len(del)
           g == [k \in 0..(N + 1) |-> IF k = N + 1 THEN M + 1 ELSE f[k]]
           more == Append(inc, m)
           all == Append(del, d)
<1>2. /\ N \in Nat /\ Len(more) = N + 1 /\ more[N + 1] = m
      /\ \A k \in 1..N : more[k] = inc[k]
  OBVIOUS
<1>3. /\ M \in Nat /\ Len(all) = M + 1 /\ all[M + 1] = d
      /\ \A k \in 1..M : all[k] = del[k]
  OBVIOUS
<1>4. /\ f \in [0..N -> Nat] /\ f[0] = n /\ f[N] = M
      /\ \A k \in 1..N :
           /\ ForRoom(inc[k]) => /\ f[k] = f[k - 1] + 1 /\ f[k] <= M
                                 /\ Carries(inc[k], del[f[k]], "open")
           /\ ~ForRoom(inc[k]) => f[k] = f[k - 1]
  BY <1>1 DEF Counts
<1> HIDE DEF N, M, more, all
<1>5. \A k \in 0..N : g[k] = f[k]
  BY <1>2
<1>6. g[N + 1] = M + 1 /\ g \in [0..(N + 1) -> Nat]
  BY <1>2, <1>3, <1>4
<1> HIDE DEF g
<1>7. ASSUME NEW k \in 1..(N + 1)
      PROVE  /\ ForRoom(more[k]) => /\ g[k] = g[k - 1] + 1 /\ g[k] <= M + 1
                                    /\ Carries(more[k], all[g[k]], "open")
             /\ ~ForRoom(more[k]) => g[k] = g[k - 1]
  <2>1. CASE k \in 1..N
    <3>1. k \in 0..N /\ k - 1 \in 0..N
      BY <1>2, <2>1
    <3>2. g[k] = f[k] /\ g[k - 1] = f[k - 1] /\ more[k] = inc[k]
      BY <1>2, <1>5, <2>1, <3>1
    <3>3. ASSUME ForRoom(inc[k])
          PROVE  g[k] <= M + 1 /\ Carries(inc[k], all[g[k]], "open")
      <4>1. /\ f[k] = f[k - 1] + 1 /\ f[k] <= M /\ Carries(inc[k], del[f[k]], "open")
        BY <1>4, <2>1, <3>3
      <4>2. f[k] \in Nat /\ f[k - 1] \in Nat
        BY <1>4, <3>1
      <4>3. f[k] \in 1..M
        BY <1>3, <4>1, <4>2
      <4> QED  BY <1>3, <3>2, <4>1, <4>2, <4>3
    <3> QED  BY <1>4, <2>1, <3>2, <3>3
  <2>2. CASE k = N + 1
    <3>1. k - 1 = N /\ N \in 0..N
      BY <1>2, <2>2
    <3>2. g[k] = M + 1 /\ g[k - 1] = M /\ more[k] = m
      BY <1>2, <1>4, <1>5, <1>6, <2>2, <3>1
    <3> QED  BY <1>3, <3>2
  <2> QED  BY <1>2, <2>1, <2>2
<1>8. g[0] = n
  BY <1>2, <1>4, <1>5
<1>9. Counts(g, more, n, all, "open")
  BY <1>2, <1>3, <1>6, <1>7, <1>8 DEF Counts
<1> QED  BY <1>9 DEF Pending, more, all

(* The next line is read.                                                  *)
LEMMA PendingHead ==
  ASSUME NEW V, NEW inc \in Seq(V), inc # <<>>, NEW n \in Nat, NEW del, NEW peer,
         Pending(inc, n, del, peer)
  PROVE  /\ ForRoom(Head(inc)) => /\ n + 1 <= Len(del)
                                  /\ Carries(Head(inc), del[n + 1], peer)
                                  /\ Pending(Tail(inc), n + 1, del, peer)
         /\ ~ForRoom(Head(inc)) => Pending(Tail(inc), n, del, peer)
<1>1. PICK f : Counts(f, inc, n, del, peer)
  BY DEF Pending
<1> DEFINE N == Len(inc)
           rest == Tail(inc)
           g == [k \in 0..(N - 1) |-> f[k + 1]]
<1>2. /\ N \in Nat /\ N > 0 /\ Len(rest) = N - 1 /\ Head(inc) = inc[1]
      /\ \A k \in 1..(N - 1) : rest[k] = inc[k + 1]
  OBVIOUS
<1>3. /\ f \in [0..N -> Nat] /\ f[0] = n
      /\ peer = "open" => f[N] = Len(del)
      /\ \A k \in 1..N :
           /\ ForRoom(inc[k]) => /\ f[k] = f[k - 1] + 1 /\ f[k] <= Len(del)
                                 /\ Carries(inc[k], del[f[k]], peer)
           /\ ~ForRoom(inc[k]) => f[k] = f[k - 1]
  BY <1>1 DEF Counts
<1> HIDE DEF N, rest
<1>4. \A k \in 0..(N - 1) : g[k] = f[k + 1]
  OBVIOUS
<1>5. g \in [0..(N - 1) -> Nat]
  BY <1>2, <1>3
<1> HIDE DEF g
<1>6. ASSUME NEW k \in 1..(N - 1)
      PROVE  /\ ForRoom(rest[k]) => /\ g[k] = g[k - 1] + 1 /\ g[k] <= Len(del)
                                    /\ Carries(rest[k], del[g[k]], peer)
             /\ ~ForRoom(rest[k]) => g[k] = g[k - 1]
  <2>1. k + 1 \in 1..N /\ k \in 0..(N - 1) /\ k - 1 \in 0..(N - 1)
    BY <1>2
  <2>2. (k + 1) - 1 = k /\ (k - 1) + 1 = k
    BY <1>2
  <2>3. g[k] = f[k + 1] /\ g[k - 1] = f[k] /\ rest[k] = inc[k + 1]
    BY <1>2, <1>4, <2>1, <2>2
  <2> QED  BY <1>3, <2>1, <2>2, <2>3
<1>7. peer = "open" => g[N - 1] = Len(del)
  <2>1. N - 1 \in 0..(N - 1) /\ (N - 1) + 1 = N
    BY <1>2
  <2> QED  BY <1>3, <1>4, <2>1
<1>8. g[0] = f[1]
  BY <1>2, <1>4
<1>9. Counts(g, rest, f[1], del, peer)
  BY <1>2, <1>5, <1>6, <1>7, <1>8 DEF Counts
<1>10. Pending(rest, f[1], del, peer)
  BY <1>9 DEF Pending
<1>11. /\ ForRoom(inc[1]) => /\ f[1] = f[0] + 1 /\ f[1] <= Len(del)
                             /\ Carries(inc[1], del[f[1]], peer)
       /\ ~ForRoom(inc[1]) => f[1] = f[0]
  <2>1. 1 \in 1..N /\ 1 - 1 = 0
    BY <1>2
  <2> QED  BY <1>3, <2>1
<1> QED  BY <1>2, <1>3, <1>10, <1>11 DEF rest

(* The server goes, with what is on its way as it was.                     *)
LEMMA PendingClosed ==
  ASSUME NEW inc, NEW n, NEW del, Pending(inc, n, del, "open")
  PROVE  Pending(inc, n, del, "closed")
<1>1. PICK f : Counts(f, inc, n, del, "open")
  BY DEF Pending
<1>2. Counts(f, inc, n, del, "closed")
  BY <1>1 DEF Counts, Carries
<1> QED  BY <1>2 DEF Pending

(* The server goes, and the last line is cut.                              *)
LEMMA PendingCut ==
  ASSUME NEW V, NEW inc \in Seq(V), inc # <<>>, NEW n, NEW del,
         NEW c, ForRoom(c) => /\ ForRoom(inc[Len(inc)]) /\ c.of = inc[Len(inc)].of
                              /\ c.data[2][1] = "part",
         Pending(inc, n, del, "open")
  PROVE  Pending([inc EXCEPT ![Len(inc)] = c], n, del, "closed")
<1>1. PICK f : Counts(f, inc, n, del, "open")
  BY DEF Pending
<1> DEFINE N == Len(inc)
           cut == [inc EXCEPT ![N] = c]
           g == [k \in 0..N |-> IF k = N /\ ~ForRoom(c) THEN f[N - 1] ELSE f[k]]
<1>2. /\ N \in Nat /\ N > 0 /\ Len(cut) = N /\ cut[N] = c
      /\ \A k \in 1..(N - 1) : cut[k] = inc[k]
  OBVIOUS
<1>3. /\ f \in [0..N -> Nat] /\ f[0] = n
      /\ \A k \in 1..N :
           /\ ForRoom(inc[k]) => /\ f[k] = f[k - 1] + 1 /\ f[k] <= Len(del)
                                 /\ Carries(inc[k], del[f[k]], "open")
           /\ ~ForRoom(inc[k]) => f[k] = f[k - 1]
  BY <1>1 DEF Counts
<1>4. ForRoom(c) => ForRoom(inc[N]) /\ c.of = inc[N].of /\ c.data[2][1] = "part"
  OBVIOUS
<1> HIDE DEF N, cut
<1>5. \A k \in 0..(N - 1) : g[k] = f[k]
  BY <1>2
<1>6. /\ g \in [0..N -> Nat]
      /\ ForRoom(c) => g[N] = f[N]
      /\ ~ForRoom(c) => g[N] = f[N - 1]
  BY <1>2, <1>3
<1> HIDE DEF g
<1>7. ASSUME NEW k \in 1..N
      PROVE  /\ ForRoom(cut[k]) => /\ g[k] = g[k - 1] + 1 /\ g[k] <= Len(del)
                                   /\ Carries(cut[k], del[g[k]], "closed")
             /\ ~ForRoom(cut[k]) => g[k] = g[k - 1]
  <2>1. k - 1 \in 0..(N - 1) /\ g[k - 1] = f[k - 1]
    BY <1>2, <1>5
  <2>2. CASE k # N
    <3>1. k \in 1..(N - 1) /\ k \in 0..(N - 1)
      BY <1>2, <2>2
    <3>2. g[k] = f[k] /\ cut[k] = inc[k]
      BY <1>2, <1>5, <3>1
    <3>3. Carries(inc[k], del[f[k]], "open") => Carries(inc[k], del[f[k]], "closed")
      BY DEF Carries
    <3> QED  BY <1>3, <2>1, <3>2, <3>3
  <2>3. CASE k = N /\ ForRoom(c)
    <3>1. /\ f[k] = f[k - 1] + 1 /\ f[k] <= Len(del) /\ Carries(inc[k], del[f[k]], "open")
      BY <1>3, <1>4, <2>3
    <3>2. Carries(c, del[f[k]], "closed")
      BY <1>4, <2>3, <3>1 DEF Carries
    <3>3. cut[k] = c /\ g[k] = f[k]
      BY <1>2, <1>6, <2>3
    <3> QED  BY <2>1, <2>3, <3>1, <3>2, <3>3
  <2>4. CASE k = N /\ ~ForRoom(c)
    <3>1. cut[k] = c /\ g[k] = f[k - 1]
      BY <1>2, <1>6, <2>4
    <3> QED  BY <2>1, <2>4, <3>1
  <2> QED  BY <2>2, <2>3, <2>4
<1>8. g[0] = n
  BY <1>2, <1>3, <1>5
<1>9. Counts(g, cut, n, del, "closed")
  BY <1>2, <1>6, <1>7, <1>8 DEF Counts
<1> QED  BY <1>9 DEF Pending, cut, N

(* Lines on their way.                                                     *)
Lines(inc) == IsSeq(inc) /\ \A k \in 1..Len(inc) : IsLine(inc[k])

LEMMA LinesAppend ==
  ASSUME NEW inc, Lines(inc), NEW m, IsLine(m)
  PROVE  /\ Lines(Append(inc, m)) /\ inc \o <<m>> = Append(inc, m)
         /\ inc # <<>> => Head(Append(inc, m)) = Head(inc)
         /\ Append(inc, m) # <<>>
<1>1. PICK V : inc \in Seq(V)
  BY DEF Lines, IsSeq
<1>2. inc \in Seq(V \cup {m}) /\ m \in V \cup {m}
  BY <1>1
<1>3. /\ Append(inc, m) \in Seq(V \cup {m}) /\ Len(Append(inc, m)) = Len(inc) + 1
      /\ Len(inc) \in Nat
      /\ \A k \in 1..Len(inc) : Append(inc, m)[k] = inc[k]
      /\ Append(inc, m)[Len(inc) + 1] = m
  BY <1>2
<1>4. inc \o <<m>> = Append(inc, m)
  BY <1>2
<1>5. inc # <<>> => Head(Append(inc, m)) = Head(inc)
  BY <1>2
<1>6. ASSUME NEW k \in 1..Len(Append(inc, m)) PROVE IsLine(Append(inc, m)[k])
  <2>1. k \in 1..Len(inc) \/ k = Len(inc) + 1
    BY <1>3
  <2> QED  BY <1>3, <2>1 DEF Lines
<1>7. Append(inc, m) # <<>>
  BY <1>3
<1> QED  BY <1>3, <1>4, <1>5, <1>6, <1>7 DEF Lines, IsSeq

LEMMA LinesTail ==
  ASSUME NEW inc, Lines(inc), inc # <<>>
  PROVE  Lines(Tail(inc)) /\ IsLine(Head(inc))
<1>1. PICK V : inc \in Seq(V)
  BY DEF Lines, IsSeq
<1>2. /\ Tail(inc) \in Seq(V) /\ Len(Tail(inc)) = Len(inc) - 1 /\ Head(inc) = inc[1]
      /\ Len(inc) \in Nat /\ Len(inc) > 0
      /\ \A k \in 1..(Len(inc) - 1) : Tail(inc)[k] = inc[k + 1]
  BY <1>1
<1>3. ASSUME NEW k \in 1..Len(Tail(inc)) PROVE IsLine(Tail(inc)[k])
  <2>1. k \in 1..(Len(inc) - 1) /\ k + 1 \in 1..Len(inc)
    BY <1>2
  <2> QED  BY <1>2, <2>1 DEF Lines
<1>4. IsLine(inc[1])
  <2>1. 1 \in 1..Len(inc)
    BY <1>2
  <2> QED  BY <2>1 DEF Lines
<1> QED  BY <1>2, <1>3, <1>4 DEF Lines, IsSeq

LEMMA LinesCut ==
  ASSUME NEW inc, Lines(inc), inc # <<>>, NEW c, IsLine(c)
  PROVE  /\ Lines([inc EXCEPT ![Len(inc)] = c])
         /\ Len([inc EXCEPT ![Len(inc)] = c]) = Len(inc)
         /\ [inc EXCEPT ![Len(inc)] = c] # <<>>
         /\ Len(inc) \in Nat /\ Len(inc) > 0
         /\ [inc EXCEPT ![Len(inc)] = c][Len(inc)] = c
         /\ \A k \in 1..(Len(inc) - 1) : [inc EXCEPT ![Len(inc)] = c][k] = inc[k]
<1>1. PICK V : inc \in Seq(V)
  BY DEF Lines, IsSeq
<1>2. inc \in Seq(V \cup {c}) /\ c \in V \cup {c} /\ Len(inc) \in Nat /\ Len(inc) > 0
  BY <1>1
<1> DEFINE cut == [inc EXCEPT ![Len(inc)] = c]
<1>3. /\ cut \in Seq(V \cup {c}) /\ Len(cut) = Len(inc) /\ cut[Len(inc)] = c
      /\ \A k \in 1..(Len(inc) - 1) : cut[k] = inc[k]
  BY <1>2
<1> HIDE DEF cut
<1>4. ASSUME NEW k \in 1..Len(cut) PROVE IsLine(cut[k])
  <2>1. k \in 1..Len(inc) /\ (k \in 1..(Len(inc) - 1) \/ k = Len(inc))
    BY <1>2, <1>3
  <2> QED  BY <1>3, <2>1 DEF Lines
<1>5. cut # <<>>
  BY <1>2, <1>3
<1> QED  BY <1>2, <1>3, <1>4, <1>5 DEF Lines, IsSeq, cut

(* A cut line has the room of the line it was, and the text "part", or is  *)
(* not a delivery for the room; it is a delivery only if that line was.    *)
LEMMA CutIs ==
  ASSUME NEW m, IsLine(m), NEW c \in R!Cut(m)
  PROVE  /\ IsLine(c)
         /\ ForRoom(c) => ForRoom(m) /\ c.of = m.of /\ c.data[2][1] = "part"
         /\ c.tag = "delivery" => m.tag = "delivery"
<1>1. m = [tag |-> m.tag, data |-> m.data, size |-> m.size, of |-> m.of]
  BY DEF IsLine, IsMessage, Message
<1>2. CASE c = [m EXCEPT !.tag = "?"]
  <2>1. c = [tag |-> "?", data |-> m.data, size |-> m.size, of |-> m.of]
    BY <1>1, <1>2
  <2>2. c.tag = "?" /\ c.data = m.data /\ c.size = m.size /\ c.of = m.of
    BY <2>1
  <2> QED  BY <2>1, <2>2 DEF IsLine, IsMessage, Message, ForRoom
<1>3. CASE c = [m EXCEPT !.data = <<>>]
  <2>1. c = [tag |-> m.tag, data |-> <<>>, size |-> m.size, of |-> m.of]
    BY <1>1, <1>3
  <2>2. c.tag = m.tag /\ c.data = <<>> /\ c.size = m.size /\ c.of = m.of
    BY <2>1
  <2> QED  BY <2>1, <2>2 DEF IsLine, IsMessage, Message, ForRoom
<1>4. CASE Len(m.data) = 2 /\ c = [m EXCEPT !.data[2] = <<"part">>]
  <2>1. m.data # <<>>
    BY <1>4
  <2>2. m.data = <<m.data[1], m.data[2]>>
    BY <2>1 DEF IsLine
  <2> DEFINE d == [m.data EXCEPT ![2] = <<"part">>]
  <2>3. d = <<m.data[1], <<"part">> >>
    BY <2>2
  <2>4. c = [tag |-> m.tag, data |-> d, size |-> m.size, of |-> m.of]
    BY <1>1, <1>4
  <2> HIDE DEF d
  <2>5. c.tag = m.tag /\ c.data = d /\ c.size = m.size /\ c.of = m.of
    BY <2>4
  <2>6. d[1] = m.data[1] /\ d[2] = <<"part">> /\ d # <<>> /\ d = <<d[1], d[2]>>
    BY <2>3
  <2>7. c.data[2][1] = "part"
    BY <2>5, <2>6
  <2> QED  BY <2>1, <2>4, <2>5, <2>6, <2>7 DEF IsLine, IsMessage, Message, ForRoom
<1> QED  BY <1>2, <1>3, <1>4 DEF R!Cut

-----------------------------------------------------------------------------
(* The invariant of the receiver.                                          *)

(* The answers to its two requests come before all deliveries.             *)
AnswerFirst ==
  /\ r_pc \in {"start", "join"} => r_incoming = <<>>
  /\ r_pc = "rlogin" => r_incoming = <<>> \/ \E m : r_incoming = <<m>>
  /\ r_pc \in {"rlogin", "joining"} /\ r_incoming # <<>> => Head(r_incoming).tag # "delivery"

(* The server delivers when it has granted the join, and after its answer. *)
ListensAfterJoin ==
  r_peer = "open" =>
    /\ listening => r_pc \in {"joining", "loop", "ended"}
    /\ listening /\ r_pc = "joining" => r_incoming # <<>>
    /\ \/ r_outgoing = <<>>
       \/ /\ ~listening /\ r_incoming = <<>> /\ r_pc \in {"rlogin", "joining"}
          /\ \E q : r_outgoing = <<q>> /\ (r_pc = "rlogin" => q.tag = "rlogin")

(* What is displayed and what is on its way are all that was delivered.    *)
DisplaysAll ==
  IsPrefixOfDelivered /\ Pending(r_incoming, Len(shown), delivered, r_peer)

ReceiverInv ==
  /\ r_peer \in {"open", "closed"}
  /\ Lines(r_incoming) /\ IsSeq(shown) /\ IsSeq(delivered)
  /\ AnswerFirst
  /\ ListensAfterJoin
  /\ DisplaysAll \/ R!AtEof

LEMMA ReceiverBegins == Init => ReceiverInv
<1> SUFFICES ASSUME Init PROVE ReceiverInv  OBVIOUS
<1>1. /\ r_peer = "open" /\ r_outgoing = <<>> /\ r_incoming = <<>> /\ r_pc = "start"
      /\ shown = <<>> /\ delivered = <<>> /\ listening = FALSE
  BY DEF Init, R!Init, R!ConnInit
<1>2. Len(<<>>) = 0 /\ \A k \in 1..0 : FALSE
  OBVIOUS
<1>3. IsSeq(<<>>)
  <2>1. <<>> \in Seq({})
    OBVIOUS
  <2> QED  BY <2>1 DEF IsSeq
<1>4. Lines(r_incoming)
  BY <1>1, <1>2, <1>3 DEF Lines
<1>5. AnswerFirst /\ ListensAfterJoin
  BY <1>1 DEF AnswerFirst, ListensAfterJoin
<1>6. DisplaysAll
  BY <1>1, <1>2, PendingNothing DEF DisplaysAll, IsPrefixOfDelivered
<1> QED  BY <1>1, <1>3, <1>4, <1>5, <1>6 DEF ReceiverInv

(* Nothing that is on its way, displayed or delivered changes.             *)
LEMMA ReceiverIdles ==
  ASSUME ReceiverInv, UNCHANGED <<r_incoming, r_peer, shown, delivered>>,
         AnswerFirst', ListensAfterJoin'
  PROVE  ReceiverInv'
<1>1. Lines(r_incoming)' /\ IsSeq(shown)' /\ IsSeq(delivered)'
  BY DEF ReceiverInv, Lines, IsSeq
<1>2. (DisplaysAll \/ R!AtEof)'
  BY DEF ReceiverInv, DisplaysAll, IsPrefixOfDelivered, Displays, R!AtEof
<1> QED  BY <1>1, <1>2 DEF ReceiverInv

(* A line is read that displays nothing.                                   *)
LEMMA LineSkipped ==
  ASSUME ReceiverInv, R!receiveLine(Head(r_incoming)), ~ForRoom(Head(r_incoming)),
         UNCHANGED <<shown, delivered>>, AnswerFirst', ListensAfterJoin'
  PROVE  ReceiverInv'
<1>1. r_incoming # <<>> /\ r_incoming' = Tail(r_incoming) /\ r_peer' = r_peer
  BY DEF R!receiveLine
<1>2. Lines(r_incoming)
  BY DEF ReceiverInv
<1>3. Lines(r_incoming')
  BY <1>1, <1>2, LinesTail
<1>4. DisplaysAll
  BY <1>1 DEF ReceiverInv, R!AtEof
<1>5. Len(shown) \in Nat
  <2>1. PICK V : shown \in Seq(V)
    BY DEF ReceiverInv, IsSeq
  <2> QED  BY <2>1
<1>6. Pending(r_incoming', Len(shown'), delivered', r_peer')
  <2>1. PICK V : r_incoming \in Seq(V)
    BY <1>2 DEF Lines, IsSeq
  <2>2. Pending(Tail(r_incoming), Len(shown), delivered, r_peer)
    BY <1>1, <1>4, <1>5, <2>1, PendingHead DEF DisplaysAll
  <2> QED  BY <1>1, <2>2
<1>7. IsPrefixOfDelivered'
  BY <1>1, <1>4 DEF DisplaysAll, IsPrefixOfDelivered, Displays
<1>8. Lines(r_incoming)' /\ IsSeq(shown)' /\ IsSeq(delivered)'
  BY <1>3 DEF ReceiverInv, Lines, IsSeq
<1> QED  BY <1>1, <1>6, <1>7, <1>8 DEF ReceiverInv, DisplaysAll

(* The end of the connection is read.                                      *)
LEMMA EndRead ==
  ASSUME ReceiverInv, NEW msg, R!receiveNothing(msg), IsSeq(shown'), delivered' = delivered,
         r_pc' # "killed"
  PROVE  ReceiverInv'
<1>1. r_peer' = "closed" /\ r_incoming' = <<>> /\ r_incoming = <<>>
  BY DEF R!receiveNothing
<1>2. Lines(r_incoming)' /\ IsSeq(delivered)'
  BY <1>1 DEF ReceiverInv, Lines, IsSeq
<1>3. AnswerFirst' /\ ListensAfterJoin'
  BY <1>1 DEF AnswerFirst, ListensAfterJoin
<1> QED  BY <1>1, <1>2, <1>3 DEF ReceiverInv, R!AtEof

(* A delivery is displayed.                                                *)
LEMMA DeliveryDisplayed ==
  ASSUME ReceiverInv, NEW msg, R!receiveLine(msg), ForRoom(msg), r_pc = "loop",
         shown' = Append(shown, <<msg.of, <<msg.data[2][1]>> >>),
         UNCHANGED <<r_pc, delivered, listening>>
  PROVE  ReceiverInv'
<1>1. /\ r_incoming # <<>> /\ msg = Head(r_incoming) /\ r_incoming' = Tail(r_incoming)
      /\ r_peer' = r_peer /\ r_outgoing' = r_outgoing
  BY DEF R!receiveLine
<1>2. Lines(r_incoming) /\ DisplaysAll
  BY <1>1 DEF ReceiverInv, R!AtEof
<1> DEFINE n == Len(shown)
           e == <<msg.of, <<msg.data[2][1]>> >>
<1>3. /\ n \in Nat /\ Len(shown') = n + 1 /\ shown'[n + 1] = e
      /\ \A k \in 1..n : shown'[k] = shown[k]
      /\ IsSeq(shown')
  <2>1. PICK V : shown \in Seq(V)
    BY DEF ReceiverInv, IsSeq
  <2>2. shown \in Seq(V \cup {e}) /\ e \in V \cup {e}
    BY <2>1
  <2>3. shown' = Append(shown, e)
    OBVIOUS
  <2> HIDE DEF e
  <2>4. shown' \in Seq(V \cup {e}) /\ n \in Nat /\ Len(shown') = n + 1
        /\ shown'[n + 1] = e /\ \A k \in 1..n : shown'[k] = shown[k]
    BY <2>2, <2>3
  <2> QED  BY <2>4 DEF IsSeq
<1>4. /\ n + 1 <= Len(delivered) /\ Carries(msg, delivered[n + 1], r_peer)
      /\ Pending(Tail(r_incoming), n + 1, delivered, r_peer)
  <2>1. PICK V : r_incoming \in Seq(V)
    BY <1>2 DEF Lines, IsSeq
  <2>2. Pending(r_incoming, n, delivered, r_peer)
    BY <1>2 DEF DisplaysAll
  <2>3. n \in Nat
    BY <1>3
  <2> HIDE DEF n
  <2> QED  BY <1>1, <2>1, <2>2, <2>3, PendingHead
<1>5. Displays(e, delivered[n + 1])
  BY <1>4 DEF Displays, Carries
<1> HIDE DEF e
<1>6. IsPrefixOfDelivered'
  <2>1. ASSUME NEW i \in 1..(n + 1) PROVE Displays(shown'[i], delivered[i])
    <3>1. CASE i \in 1..n
      BY <1>2, <1>3, <3>1 DEF DisplaysAll, IsPrefixOfDelivered
    <3>2. CASE i = n + 1
      BY <1>3, <1>5, <3>2
    <3> QED  BY <1>3, <3>1, <3>2
  <2>2. (\A i \in 1..Len(shown) : Displays(shown[i], delivered[i]))'
    BY <1>1, <1>3, <2>1 DEF Displays
  <2> QED  BY <1>3, <1>4, <2>2 DEF IsPrefixOfDelivered
<1>7. DisplaysAll'
  BY <1>1, <1>3, <1>4, <1>6 DEF DisplaysAll
<1>8. Lines(r_incoming)' /\ IsSeq(shown)' /\ IsSeq(delivered)'
  <2>1. Lines(r_incoming')
    BY <1>1, <1>2, LinesTail
  <2> QED  BY <1>3, <2>1 DEF ReceiverInv, Lines, IsSeq
<1>9. AnswerFirst'
  BY DEF AnswerFirst
<1>10. ListensAfterJoin'
  BY <1>1 DEF ReceiverInv, ListensAfterJoin
<1> QED  BY <1>1, <1>7, <1>8, <1>9, <1>10 DEF ReceiverInv

(* Steps of the receiver.                                                  *)
LEMMA ReceiverRuns ==
  ASSUME ReceiverInv, ReceiverSteps
  PROVE  ReceiverInv'
<1>0. R!Next /\ UNCHANGED <<listening, delivered>>
  BY DEF ReceiverSteps, server
<1>1. CASE R!OpenFails \/ R!Connects \/ R!Destroy \/ R!BrokenPipe
  <2>1. /\ UNCHANGED <<r_incoming, r_outgoing, r_peer, shown>>
        /\ \/ r_pc \in {"start", "ended"} /\ r_pc' \in {r_pc, "ended"}
           \/ r_peer = "closed" /\ r_pc' = "killed"
    BY <1>1 DEF R!OpenFails, R!Connects, R!Destroy, R!BrokenPipe, R!connect, R!ExitWith,
                R!conn, R!local, R!output
  <2>2. AnswerFirst' /\ ListensAfterJoin'
    BY <1>0, <2>1 DEF ReceiverInv, AnswerFirst, ListensAfterJoin
  <2> QED  BY <1>0, <2>1, <2>2, ReceiverIdles
<1>2. CASE R!Login \/ R!Join
  <2>1. PICK q : /\ R!send(q)
                 /\ \/ r_pc = "start" /\ r_pc' = "rlogin" /\ q.tag = "rlogin"
                    \/ r_pc = "join" /\ r_pc' = "joining"
                 /\ shown' = shown
    <3>1. CASE R!Login
      <4> DEFINE q == R!Message("rlogin", <<>>, 1, r_asked + 1)
      <4>1. R!send(q) /\ r_pc = "start" /\ r_pc' = "rlogin" /\ shown' = shown
        BY <3>1 DEF R!Login, R!Ask, R!output
      <4>2. q.tag = "rlogin"
        BY DEF R!Message
      <4> QED  BY <4>1, <4>2
    <3>2. CASE R!Join
      BY <3>2 DEF R!Join, R!output
    <3> QED  BY <1>2, <3>1, <3>2
  <2>2. /\ UNCHANGED <<r_incoming, r_peer>> /\ r_incoming = <<>>
        /\ r_peer = "open" => r_outgoing' = Append(r_outgoing, q)
    BY <2>1 DEF R!send, ReceiverInv, AnswerFirst
  <2>3. r_peer = "open" => r_outgoing = <<>> /\ ~listening
    BY <2>1 DEF ReceiverInv, ListensAfterJoin
  <2>4. r_peer = "open" => r_outgoing' = <<q>>
    BY <2>2, <2>3
  <2>5. AnswerFirst'
    BY <2>1, <2>2 DEF AnswerFirst
  <2>6. ListensAfterJoin'
    BY <1>0, <2>1, <2>2, <2>3, <2>4 DEF ListensAfterJoin
  <2> QED  BY <1>0, <2>1, <2>2, <2>5, <2>6, ReceiverIdles
<1>3. CASE R!Refused \/ R!LoggedIn \/ R!Joined
  <2>1. PICK msg \in R!Receivable : R!receive(msg)
    BY <1>3 DEF R!Refused, R!LoggedIn, R!Joined
  <2>2. /\ shown' = shown
        /\ \/ r_pc \in {"rlogin", "joining"} /\ r_pc' = "ended"
           \/ r_pc = "rlogin" /\ r_pc' = "join"
           \/ r_pc = "joining" /\ r_pc' = "loop"
    BY <1>3 DEF R!Refused, R!LoggedIn, R!Joined, R!ExitWith, R!output
  <2>3. CASE R!receiveLine(msg)
    <3>1. /\ r_incoming # <<>> /\ msg = Head(r_incoming) /\ r_incoming' = Tail(r_incoming)
          /\ UNCHANGED <<r_outgoing, r_peer>>
      BY <2>3 DEF R!receiveLine
    <3>2. ~ForRoom(Head(r_incoming))
      BY <2>2, <3>1 DEF ReceiverInv, AnswerFirst, ForRoom
    <3>3. r_pc = "rlogin" => r_incoming' = <<>>
      <4>1. SUFFICES ASSUME r_pc = "rlogin" PROVE r_incoming' = <<>>
        OBVIOUS
      <4>2. PICK m : r_incoming = <<m>>
        BY <3>1, <4>1 DEF ReceiverInv, AnswerFirst
      <4> QED  BY <3>1, <4>2
    <3>4. AnswerFirst'
      BY <2>2, <3>3 DEF AnswerFirst
    <3>5. ListensAfterJoin'
      BY <1>0, <2>2, <3>1 DEF ReceiverInv, ListensAfterJoin
    <3> QED  BY <1>0, <2>2, <2>3, <3>1, <3>2, <3>4, <3>5, LineSkipped
  <2>4. CASE R!receiveNothing(msg)
    <3>1. r_incoming = <<>> /\ r_incoming' = <<>> /\ r_peer = "closed" /\ r_peer' = "closed"
      BY <2>4 DEF R!receiveNothing
    <3>2. r_pc' # "killed"
      BY <2>2
    <3>3. IsSeq(shown')
      BY <2>2 DEF ReceiverInv
    <3> QED  BY <1>0, <2>4, <3>2, <3>3, EndRead
  <2> QED  BY <2>1, <2>3, <2>4 DEF R!receive
<1>4. CASE R!Loop
  <2>1. PICK msg \in R!Receivable : R!receive(msg) /\ R!Display(msg)
    BY <1>4 DEF R!Loop
  <2>2. r_pc = "loop" /\ r_pc' = "loop"
    BY <1>4 DEF R!Loop
  <2>3. /\ ForRoom(msg) => shown' = Append(shown, <<msg.of, <<msg.data[2][1]>> >>)
        /\ ~ForRoom(msg) => shown' = shown
    BY <2>1 DEF R!Display, ForRoom
  <2>4. CASE R!receiveLine(msg) /\ ForRoom(msg)
    BY <1>0, <2>2, <2>3, <2>4, DeliveryDisplayed
  <2>5. CASE R!receiveLine(msg) /\ ~ForRoom(msg)
    <3>1. /\ r_incoming # <<>> /\ msg = Head(r_incoming) /\ UNCHANGED <<r_outgoing, r_peer>>
      BY <2>5 DEF R!receiveLine
    <3>2. AnswerFirst'
      BY <2>2 DEF AnswerFirst
    <3>3. ListensAfterJoin'
      BY <1>0, <2>2, <3>1 DEF ReceiverInv, ListensAfterJoin
    <3> QED  BY <1>0, <2>3, <2>5, <3>1, <3>2, <3>3, LineSkipped
  <2>6. CASE R!receiveNothing(msg)
    <3>1. IsSeq(shown')
      <4>1. PICK V : shown \in Seq(V)
        BY DEF ReceiverInv, IsSeq
      <4> DEFINE e == <<msg.of, <<msg.data[2][1]>> >>
      <4>2. shown \in Seq(V \cup {e}) /\ e \in V \cup {e}
        BY <4>1
      <4>3. shown' = shown \/ shown' = Append(shown, e)
        BY <2>3
      <4> HIDE DEF e
      <4>4. shown' \in Seq(V \cup {e})
        BY <4>2, <4>3
      <4> QED  BY <4>4 DEF IsSeq
    <3> QED  BY <1>0, <2>2, <2>6, <3>1, EndRead
  <2> QED  BY <2>1, <2>4, <2>5, <2>6 DEF R!receive
<1> QED  BY <1>0, <1>1, <1>2, <1>3, <1>4 DEF R!Next, R!Steps

(* Steps of the server.  A line that fits arrives as one line.             *)
LEMMA OneLine ==
  ASSUME NEW inc, Lines(inc), NEW m, IsLine(m), m.size < MAX_LEN,
         NEW lines \in R!rio_readlineb_lines(m)
  PROVE  inc \o lines = Append(inc, m)
<1>1. lines = <<m>>
  BY DEF R!rio_readlineb_lines
<1> QED  BY <1>1, LinesAppend

LEMMA ReceiverAnswered ==
  ASSUME AnswersFit, ReceiverInv, AnswerReceiver
  PROVE  ReceiverInv'
<1>1. /\ r_outgoing # <<>> /\ r_peer = "open" /\ r_outgoing' = Tail(r_outgoing)
      /\ UNCHANGED <<r_pc, shown, delivered>>
  BY DEF AnswerReceiver, r_local
<1>2. PICK q : /\ ~listening /\ r_incoming = <<>> /\ r_pc \in {"rlogin", "joining"}
               /\ r_outgoing = <<q>> /\ (r_pc = "rlogin" => q.tag = "rlogin")
  BY <1>1 DEF ReceiverInv, ListensAfterJoin
<1>3. Head(r_outgoing) = q /\ r_outgoing' = <<>>
  BY <1>1, <1>2
<1>4. PICK tag \in {"ok", "err"}, size \in AnswerSizes :
        /\ R!Deliver(R!Message(tag, <<>>, size, q.of))
        /\ listening' = (q.tag = "join" /\ tag = "ok")
  BY <1>3 DEF AnswerReceiver
<1> DEFINE a == R!Message(tag, <<>>, size, q.of)
<1>5. a.tag = tag /\ a.size = size /\ a.data = <<>> /\ IsLine(a)
  BY DEF R!Message, IsLine, IsMessage, Message
<1>6. /\ \E lines \in R!rio_readlineb_lines(a) : r_incoming' = r_incoming \o lines
      /\ r_peer' = r_peer
  BY <1>4 DEF R!Deliver
<1> HIDE DEF a
<1>7. Lines(r_incoming) /\ a.size < MAX_LEN
  BY <1>5 DEF ReceiverInv, AnswersFit
<1>8. r_incoming' = Append(r_incoming, a) /\ Lines(r_incoming')
  <2>1. r_incoming' = Append(r_incoming, a)
    BY <1>5, <1>6, <1>7, OneLine
  <2>2. Lines(Append(r_incoming, a))
    BY <1>5, <1>7, LinesAppend
  <2> QED  BY <2>1, <2>2
<1>9. r_incoming' = <<a>>
  BY <1>2, <1>8
<1>10. AnswerFirst'
  <2>1. a.tag # "delivery"
    BY <1>5
  <2>2. Head(r_incoming') = a
    BY <1>9
  <2> QED  BY <1>1, <1>2, <1>9, <2>1, <2>2 DEF AnswerFirst
<1>11. ListensAfterJoin'
  <2>1. r_incoming' # <<>>
    BY <1>9
  <2>2. listening' => r_pc # "rlogin"
    BY <1>2, <1>4
  <2>3. r_pc' \in {"rlogin", "joining"}
    BY <1>1, <1>2
  <2> QED  BY <1>1, <1>3, <2>1, <2>2, <2>3 DEF ListensAfterJoin
<1>12. DisplaysAll'
  <2>1. DisplaysAll
    BY <1>1 DEF ReceiverInv, R!AtEof
  <2>2. ~ForRoom(a)
    BY <1>5 DEF ForRoom
  <2>3. PICK V : r_incoming \in Seq(V)
    BY <1>7 DEF Lines, IsSeq
  <2>4. PICK D : delivered \in Seq(D)
    BY DEF ReceiverInv, IsSeq
  <2>5. Pending(Append(r_incoming, a), Len(shown), delivered, r_peer)
    BY <2>1, <2>2, <2>3, <2>4, PendingOther DEF DisplaysAll
  <2>6. IsPrefixOfDelivered'
    BY <1>1, <1>6, <2>1 DEF DisplaysAll, IsPrefixOfDelivered, Displays
  <2> QED  BY <1>1, <1>6, <1>8, <2>5, <2>6 DEF DisplaysAll
<1>13. Lines(r_incoming)' /\ IsSeq(shown)' /\ IsSeq(delivered)'
  BY <1>1, <1>8 DEF ReceiverInv, Lines, IsSeq
<1> QED  BY <1>6, <1>10, <1>11, <1>12, <1>13 DEF ReceiverInv

LEMMA Forwarded ==
  ASSUME TextsFit, SenderInv, ReceiverInv, AnswerSender
  PROVE  ReceiverInv'
<1>1. /\ s_outgoing # <<>> /\ s_peer = "open"
      /\ UNCHANGED <<r_pc, shown, listening>>
  BY DEF AnswerSender, r_local
<1>2. PICK q : s_outgoing = <<q>> /\ IsRequest(q)
  BY <1>1 DEF SenderInv, OneRequest
<1>3. Head(s_outgoing) = q
  BY <1>2
<1>4. (q.tag = "sendall" /\ Forward(q)) \/ UNCHANGED <<r_conn, delivered>>
  BY <1>3 DEF AnswerSender
<1>5. CASE UNCHANGED <<r_conn, delivered>>
  <2>1. UNCHANGED <<r_incoming, r_outgoing, r_peer>>
    BY <1>5 DEF r_conn
  <2>2. AnswerFirst' /\ ListensAfterJoin'
    BY <1>1, <2>1 DEF ReceiverInv, AnswerFirst, ListensAfterJoin
  <2> QED  BY <1>1, <1>5, <2>1, <2>2, ReceiverIdles
<1> DEFINE m == S!Message("delivery", <<in_room, q.data>>, q.size + DeliveryMore, q.of)
           d == <<q.of, q.data>>
<1>6. CASE /\ q.tag = "sendall"
           /\ listening /\ r_peer = "open" /\ R!Deliver(m) /\ r_outgoing' = r_outgoing
           /\ delivered' = IF in_room = Room THEN Append(delivered, d) ELSE delivered
  <2>1. /\ m.data = <<in_room, q.data>> /\ m.size = q.size + DeliveryMore /\ m.of = q.of
        /\ m.tag = "delivery"
    BY DEF S!Message
  <2>2. m.data[1] = in_room /\ m.data[2] = q.data /\ m.data # <<>>
    BY <2>1
  <2>3. IsLine(m)
    BY <2>1, <2>2 DEF S!Message, Message, IsMessage, IsLine
  <2>4. ForRoom(m) <=> in_room = Room
    BY <2>1, <2>2 DEF ForRoom
  <2>5. Carries(m, d, "open")
    BY <2>1, <2>2 DEF Carries
  <2>6. m.size < MAX_LEN
    BY <1>2, <1>6, <2>1 DEF IsRequest, Fits
  <2>7. /\ \E lines \in R!rio_readlineb_lines(m) : r_incoming' = r_incoming \o lines
        /\ r_peer' = r_peer
    BY <1>6 DEF R!Deliver
  <2>8. delivered' = IF in_room = Room THEN Append(delivered, d) ELSE delivered
    BY <1>6
  <2>9. Lines(r_incoming)
    BY DEF ReceiverInv
  <2> HIDE DEF m, d
  <2>10. /\ r_incoming' = Append(r_incoming, m) /\ Lines(r_incoming') /\ r_incoming' # <<>>
         /\ r_incoming # <<>> => Head(r_incoming') = Head(r_incoming)
    <3> DEFINE more == Append(r_incoming, m)
    <3>1. /\ Lines(more) /\ more # <<>>
          /\ r_incoming # <<>> => Head(more) = Head(r_incoming)
      BY <2>3, <2>9, LinesAppend
    <3>2. r_incoming' = more
      BY <2>3, <2>6, <2>7, <2>9, OneLine
    <3> HIDE DEF more
    <3>3. Lines(r_incoming')
      BY <3>1, <3>2
    <3> QED  BY <3>1, <3>2, <3>3 DEF more
  <2>11. /\ r_pc \in {"joining", "loop", "ended"} /\ r_outgoing = <<>>
         /\ r_pc = "joining" => r_incoming # <<>>
    BY <1>6 DEF ReceiverInv, ListensAfterJoin
  <2>12. AnswerFirst'
    BY <1>1, <2>10, <2>11 DEF ReceiverInv, AnswerFirst
  <2>13. ListensAfterJoin'
    BY <1>1, <1>6, <2>10, <2>11 DEF ListensAfterJoin
  <2>14. PICK D : delivered \in Seq(D)
    BY DEF ReceiverInv, IsSeq
  <2>15. PICK V : r_incoming \in Seq(V)
    BY <2>9 DEF Lines, IsSeq
  <2>16. DisplaysAll
    BY <1>6 DEF ReceiverInv, R!AtEof
  <2>17. Pending(r_incoming', Len(shown), delivered', "open")
    <3>1. CASE in_room = Room
      BY <1>6, <2>4, <2>5, <2>8, <2>10, <2>14, <2>15, <2>16, <3>1, PendingDelivered
      DEF DisplaysAll
    <3>2. CASE in_room # Room
      BY <1>6, <2>4, <2>8, <2>10, <2>14, <2>15, <2>16, <3>2, PendingOther
      DEF DisplaysAll
    <3> QED  BY <3>1, <3>2
  <2>18. delivered \in Seq(D \cup {d}) /\ d \in D \cup {d}
    BY <2>14
  <2>19. /\ delivered' \in Seq(D \cup {d}) /\ Len(delivered) \in Nat
         /\ Len(delivered') >= Len(delivered)
         /\ \A i \in 1..Len(delivered) : delivered'[i] = delivered[i]
    <3>1. CASE in_room = Room
      <4>1. delivered' = Append(delivered, d)
        BY <2>8, <3>1
      <4> QED  BY <2>18, <4>1
    <3>2. CASE in_room # Room
      <4>1. delivered' = delivered
        BY <2>8, <3>2
      <4> QED  BY <2>18, <4>1
    <3> QED  BY <3>1, <3>2
  <2>20. IsPrefixOfDelivered'
    <3>1. PICK W : shown \in Seq(W)
      BY DEF ReceiverInv, IsSeq
    <3>2. /\ Len(shown) \in Nat /\ Len(shown) <= Len(delivered)
          /\ \A i \in 1..Len(shown) : Displays(shown[i], delivered[i])
      BY <2>16, <3>1 DEF DisplaysAll, IsPrefixOfDelivered
    <3>3. Len(shown) <= Len(delivered')
      BY <2>19, <3>2
    <3>4. \A i \in 1..Len(shown) : Displays(shown[i], delivered'[i])
      BY <2>19, <3>2
    <3> QED  BY <1>1, <2>7, <3>3, <3>4 DEF IsPrefixOfDelivered, Displays
  <2>21. DisplaysAll'
    BY <1>1, <1>6, <2>7, <2>17, <2>20 DEF DisplaysAll
  <2>22. Lines(r_incoming)' /\ IsSeq(shown)' /\ IsSeq(delivered)'
    BY <1>1, <2>10, <2>19 DEF ReceiverInv, Lines, IsSeq
  <2> QED  BY <1>6, <2>7, <2>12, <2>13, <2>21, <2>22 DEF ReceiverInv
<1> QED  BY <1>4, <1>5, <1>6 DEF Forward

LEMMA ReceiverCutOff ==
  ASSUME ReceiverInv, CloseReceiver
  PROVE  ReceiverInv'
<1>1. /\ r_peer = "open" /\ r_peer' = "closed"
      /\ UNCHANGED <<r_pc, shown, delivered, listening>>
  BY DEF CloseReceiver, R!PeerCloses, r_local, server
<1>2. DisplaysAll /\ Lines(r_incoming)
  BY <1>1 DEF ReceiverInv, R!AtEof
<1>3. ListensAfterJoin'
  BY <1>1 DEF ListensAfterJoin
<1>4. IsPrefixOfDelivered'
  BY <1>1, <1>2 DEF DisplaysAll, IsPrefixOfDelivered, Displays
<1>5. IsSeq(shown)' /\ IsSeq(delivered)'
  BY <1>1 DEF ReceiverInv, IsSeq
<1>6. CASE r_incoming' = r_incoming
  <2>1. AnswerFirst' /\ Lines(r_incoming)'
    BY <1>1, <1>6 DEF ReceiverInv, AnswerFirst, Lines, IsSeq
  <2>2. Pending(r_incoming, Len(shown), delivered, "closed")
    BY <1>1, <1>2, PendingClosed DEF DisplaysAll
  <2>3. DisplaysAll'
    BY <1>1, <1>4, <1>6, <2>2 DEF DisplaysAll
  <2> QED  BY <1>1, <1>3, <1>5, <2>1, <2>3 DEF ReceiverInv
<1>7. CASE /\ r_incoming # <<>>
           /\ \E m \in R!Cut(r_incoming[Len(r_incoming)]) :
                r_incoming' = [r_incoming EXCEPT ![Len(r_incoming)] = m]
  <2> DEFINE N == Len(r_incoming)
             last == r_incoming[N]
  <2>1. PICK c \in R!Cut(last) : r_incoming' = [r_incoming EXCEPT ![N] = c]
    BY <1>7
  <2>2. PICK V : r_incoming \in Seq(V)
    BY <1>2 DEF Lines, IsSeq
  <2>3. N \in Nat /\ N > 0 /\ Head(r_incoming) = r_incoming[1]
    BY <1>7, <2>2
  <2>4. IsLine(last)
    <3>1. N \in 1..N
      BY <2>3
    <3> QED  BY <1>2, <3>1 DEF Lines
  <2>5. /\ IsLine(c)
        /\ ForRoom(c) => ForRoom(last) /\ c.of = last.of /\ c.data[2][1] = "part"
        /\ c.tag = "delivery" => last.tag = "delivery"
    BY <2>1, <2>4, CutIs
  <2>6. /\ Lines(r_incoming') /\ Len(r_incoming') = N /\ r_incoming'[N] = c
        /\ \A k \in 1..(N - 1) : r_incoming'[k] = r_incoming[k]
    <3> DEFINE cut == [r_incoming EXCEPT ![N] = c]
    <3>0. Lines(r_incoming) /\ r_incoming # <<>> /\ IsLine(c)
      BY <1>2, <1>7, <2>5
    <3>1. /\ Lines(cut) /\ Len(cut) = N /\ cut[N] = c
          /\ \A k \in 1..(N - 1) : cut[k] = r_incoming[k]
      BY <3>0, LinesCut, Zenon
    <3>2. r_incoming' = cut
      BY <2>1
    <3> HIDE DEF cut, N
    <3> QED  BY <3>1, <3>2
  <2>7. Pending([r_incoming EXCEPT ![N] = c], Len(shown), delivered, "closed")
    BY <1>1, <1>2, <1>7, <2>2, <2>5, PendingCut DEF DisplaysAll
  <2>8. DisplaysAll'
    BY <1>1, <1>4, <2>1, <2>7 DEF DisplaysAll
  <2>9. AnswerFirst'
    <3>1. r_pc \notin {"start", "join"}
      BY <1>7 DEF ReceiverInv, AnswerFirst
    <3>2. ASSUME r_pc = "rlogin" PROVE \E m : r_incoming' = <<m>>
      <4>1. PICK m : r_incoming = <<m>>
        BY <1>7, <3>2 DEF ReceiverInv, AnswerFirst
      <4>2. r_incoming' = <<c>>
        BY <2>1, <4>1
      <4> QED  BY <4>2
    <3>3. ASSUME r_pc \in {"rlogin", "joining"} PROVE Head(r_incoming').tag # "delivery"
      <4>1. r_incoming[1].tag # "delivery"
        BY <1>7, <2>3, <3>3 DEF ReceiverInv, AnswerFirst
      <4>2. PICK W : r_incoming' \in Seq(W)
        BY <2>6 DEF Lines, IsSeq
      <4>3. Head(r_incoming') = r_incoming'[1]
        BY <2>3, <2>6, <4>2
      <4>4. CASE N = 1
        <5>1. Head(r_incoming') = c
          BY <2>6, <4>3, <4>4
        <5>2. last = r_incoming[1]
          BY <4>4
        <5> HIDE DEF last
        <5> QED  BY <2>5, <4>1, <5>1, <5>2
      <4>5. CASE N # 1
        <5>1. 1 \in 1..(N - 1)
          BY <2>3, <4>5
        <5> QED  BY <2>6, <4>1, <4>3, <5>1
      <4> QED  BY <4>4, <4>5
    <3> QED  BY <1>1, <3>1, <3>2, <3>3 DEF AnswerFirst
  <2>10. Lines(r_incoming)'
    BY <2>6 DEF Lines, IsSeq
  <2> QED  BY <1>1, <1>3, <1>5, <2>8, <2>9, <2>10 DEF ReceiverInv
<1> QED  BY <1>6, <1>7 DEF CloseReceiver, R!PeerCloses

LEMMA ReceiverInvStep ==
  ASSUME AnswersFit, TextsFit, SenderInv, ReceiverInv, [Next]_vars
  PROVE  ReceiverInv'
<1>1. CASE SenderSteps \/ CloseSender \/ UNCHANGED vars
  <2>1. UNCHANGED <<r_incoming, r_outgoing, r_peer, r_pc, shown, listening, delivered>>
    BY <1>1 DEF SenderSteps, CloseSender, vars, r_conn, r_local, server
  <2>2. AnswerFirst' /\ ListensAfterJoin'
    BY <2>1 DEF ReceiverInv, AnswerFirst, ListensAfterJoin
  <2> QED  BY <2>1, <2>2, ReceiverIdles
<1> QED  BY <1>1, ReceiverRuns, ReceiverAnswered, Forwarded, ReceiverCutOff DEF Next

(* The receiver displays the deliveries for its room and nothing else,     *)
(* each once and in order, until it comes to the end of its connection.    *)
THEOREM DeliveriesInOrder == AnswersFit /\ TextsFit => (Spec => []DisplayedInOrder)
<1> SUFFICES ASSUME AnswersFit, TextsFit PROVE Spec => []DisplayedInOrder  OBVIOUS
<1>1. Init => ReceiverInv  BY ReceiverBegins
<1>2. SenderInv /\ ReceiverInv /\ [Next]_vars => ReceiverInv'  BY ReceiverInvStep
<1>3. Spec => []SenderInv  BY SenderInvariant
<1>4. ReceiverInv => DisplayedInOrder
  BY DEF ReceiverInv, DisplaysAll, DisplayedInOrder
<1> QED  BY <1>1, <1>2, <1>3, <1>4, PTL DEF Spec
=============================================================================
