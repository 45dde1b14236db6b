------------------------------ MODULE RioWriten ------------------------------
(***************************************************************************)
(* The writing half of the Rio package: rio_writen, called again and again *)
(* by one program on one descriptor.  The kernel takes as many bytes of a  *)
(* write() as it likes, none included, interrupts it, or fails it.         *)
(***************************************************************************)
EXTENDS Integers, Sequences

CONSTANTS Bytes,      \* the values of a byte
          Messages,   \* what the program may write in one call
          MaxWire,    \* bound on the bytes written in all
          Faults      \* what write() may do: a subset of {"eintr", "zero", "error"}

ASSUME WritenAssumption ==
  /\ Messages \subseteq Seq(Bytes)
  /\ MaxWire \in Nat
  /\ Faults \subseteq {"eintr", "zero", "error"}

VARIABLES usrbuf,     \* the message of the call in progress, or of the last one
          bufp,       \* how many of its bytes write() has taken; nleft is the rest
          errno,      \* "eintr", or anything else
          active,     \* whether a call is in progress
          ret,        \* what the last call returned
          wire,       \* everything the kernel has taken
          sent        \* what it had taken before this call

vars == <<usrbuf, bufp, errno, active, ret, wire, sent>>

Init ==
  /\ usrbuf = <<>> /\ bufp = 0 /\ active = FALSE /\ ret = 0
  /\ errno \in {"eintr", "other"}
  /\ wire = <<>> /\ sent = <<>>

Start(m) ==
  /\ ~active /\ Len(wire) + Len(m) <= MaxWire
  /\ usrbuf' = m /\ bufp' = 0 /\ active' = TRUE /\ sent' = wire
  /\ UNCHANGED <<errno, ret, wire>>

nleft == Len(usrbuf) - bufp
Return(r) == active' = FALSE /\ ret' = r

\* Mutant: a short write() restarts at the beginning of the message.
WriteSomeAgain ==
  /\ active /\ nleft > 0
  /\ \E k \in 1..nleft :
       /\ wire' = wire \o SubSeq(usrbuf, 1, k)
       /\ bufp' = bufp + k
  /\ UNCHANGED <<usrbuf, errno, active, ret, sent>>

WriteSome ==
  /\ active /\ nleft > 0
  /\ \E k \in 1..nleft :
       /\ wire' = wire \o SubSeq(usrbuf, bufp + 1, bufp + k)
       /\ bufp' = bufp + k
  /\ UNCHANGED <<usrbuf, errno, active, ret, sent>>

(* write() fails, or takes nothing and leaves errno as it was *)
Stops(e) ==
  /\ active /\ nleft > 0
  /\ errno' = e
  /\ IF e = "eintr" THEN UNCHANGED <<active, ret>> ELSE Return(-1)
  /\ UNCHANGED <<usrbuf, bufp, wire, sent>>

WriteInterrupted == "eintr" \in Faults /\ Stops("eintr")
WriteNothing == "zero" \in Faults /\ Stops(errno)
WriteFails == "error" \in Faults /\ Stops("other")

Done ==
  /\ active /\ nleft = 0
  /\ Return(Len(usrbuf))
  /\ UNCHANGED <<usrbuf, bufp, errno, wire, sent>>

Next ==
  \/ \E m \in Messages : Start(m)
  \/ WriteSome \/ WriteInterrupted \/ WriteNothing \/ WriteFails
  \/ Done

Spec == Init /\ [][Next]_vars

-----------------------------------------------------------------------------
(* What the kernel has taken of a message is a prefix of it, each byte     *)
(* once, however its writes were cut; and the count that is returned says  *)
(* whether it is the whole message.                                        *)
WireIsPrefix ==
  /\ wire = sent \o SubSeq(usrbuf, 1, bufp)
  /\ ~active /\ ret # -1 => bufp = Len(usrbuf) /\ ret = bufp

(* Every call returns.                                                     *)
Returns == active ~> ~active
=============================================================================
