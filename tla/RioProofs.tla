------------------------------ MODULE RioProofs ------------------------------
(***************************************************************************)
(* The Rio package, for every message, every sequence of calls and         *)
(* whatever read() and write() do.  rio_writen sends every byte of a       *)
(* message once and in order.  At the other end, rio_readlineb, rio_readnb *)
(* and rio_readn hand over what arrives piece by piece, each piece what    *)
(* RioContract says of it, and stay in the caller's buffer: what the       *)
(* caller's buffer and the rio_t hold is one stretch of the stream, up to  *)
(* the last byte that read() has returned.                                 *)
(***************************************************************************)
EXTENDS RioPipe, SequenceTheorems, TLAPS

(* What is written is made of bytes, and bufp stays within the message.    *)
Typed ==
  /\ usrbuf \in Seq(Bytes) /\ sent \in Seq(Bytes)
  /\ bufp \in 0..Len(usrbuf)

IInv == Typed /\ WireIsPrefix

(* Concatenation may be done from the right.                               *)
LEMMA ConcatInside ==
  \A x, y, z \in Seq(Bytes) : (x \o y) \o z = x \o (y \o z)
BY ConcatAssociative

(* The first k bytes, then the next j, are the first k + j.                *)
LEMMA PrefixGrows ==
  ASSUME NEW s \in Seq(Bytes), NEW k \in 0..Len(s), NEW j \in 1..(Len(s) - k),
         NEW before \in Seq(Bytes)
  PROVE  (before \o SubSeq(s, 1, k)) \o SubSeq(s, k + 1, k + j)
           = before \o SubSeq(s, 1, k + j)
<1>1. \A i \in 1..Len(s) : s[i] \in Bytes
  OBVIOUS
<1>2. SubSeq(s, 1, k) \in Seq(Bytes)
  <2>1. \A i \in 1..k : s[i] \in Bytes  BY <1>1
  <2> QED  BY <2>1, SubSeqProperties
<1>3. SubSeq(s, k + 1, k + j) \in Seq(Bytes)
  <2>1. \A i \in (k + 1)..(k + j) : s[i] \in Bytes  BY <1>1
  <2> QED  BY <2>1, SubSeqProperties
<1>4. SubSeq(s, 1, k) \o SubSeq(s, k + 1, k + j) = SubSeq(s, 1, k + j)
  BY ConcatAdjacentSubSeq
<1> DEFINE a == SubSeq(s, 1, k)
           b == SubSeq(s, k + 1, k + j)
           ab == SubSeq(s, 1, k + j)
<1>5. a \in Seq(Bytes) /\ b \in Seq(Bytes) /\ a \o b = ab
  BY <1>2, <1>3, <1>4
<1>6. (before \o a) \o b = before \o ab
  <2> HIDE DEF a, b, ab
  <2>1. (before \o a) \o b = before \o (a \o b)
    BY <1>5, ConcatInside
  <2> QED  BY <1>5, <2>1
<1> QED  BY <1>6

(* Nothing is sent of a message before its first write().                  *)
LEMMA EmptyPrefix ==
  ASSUME NEW s, NEW before \in Seq(Bytes)
  PROVE  before \o SubSeq(s, 1, 0) = before
<1>1. SubSeq(s, 1, 0) = <<>>
  BY SubSeqEmpty
<1> QED  BY <1>1, ConcatEmptySeq

(* A prefix of a message is made of bytes.                                 *)
LEMMA PrefixTyped ==
  ASSUME NEW s \in Seq(Bytes), NEW k \in 0..Len(s), NEW before \in Seq(Bytes)
  PROVE  before \o SubSeq(s, 1, k) \in Seq(Bytes)
<1>1. \A i \in 1..k : s[i] \in Bytes
  OBVIOUS
<1>2. SubSeq(s, 1, k) \in Seq(Bytes)
  BY <1>1, SubSeqProperties
<1> QED  BY <1>2, ConcatProperties

(* rio_writen starts with nothing sent.                                    *)
LEMMA InitHolds == Init => IInv
<1> SUFFICES ASSUME Init PROVE IInv  OBVIOUS
<1>1. Typed
  BY DEF Init, Typed
<1>2. <<>> \o SubSeq(<<>>, 1, 0) = <<>>
  BY EmptyPrefix
<1>3. WireIsPrefix
  <2>1. wire = sent \o SubSeq(usrbuf, 1, bufp)
    BY <1>2 DEF Init
  <2>2. bufp = Len(usrbuf) /\ ret = bufp
    BY DEF Init
  <2> QED  BY <2>1, <2>2 DEF WireIsPrefix
<1> QED  BY <1>1, <1>3 DEF IInv

(* Every call of write(), with every result, keeps it.                     *)
LEMMA StepHolds == IInv /\ [Next]_vars => IInv'
<1> SUFFICES ASSUME IInv, [Next]_vars PROVE IInv'  OBVIOUS
<1> USE DEF IInv, Typed, WireIsPrefix
<1>1. ASSUME NEW m \in Messages, Start(m) PROVE IInv'
  <2>1. wire \in Seq(Bytes)
    BY PrefixTyped
  <2>2. m \in Seq(Bytes) /\ 0 \in 0..Len(m)
    BY WritenAssumption
  <2>3. sent' \o SubSeq(usrbuf', 1, bufp') = wire
    BY <1>1, <2>1, EmptyPrefix DEF Start
  <2> QED  BY <1>1, <2>1, <2>2, <2>3 DEF Start
<1>2. CASE WriteSome
  <2>1. PICK k \in 1..(Len(usrbuf) - bufp) :
          /\ wire' = wire \o SubSeq(usrbuf, bufp + 1, bufp + k)
          /\ bufp' = bufp + k
    BY <1>2 DEF WriteSome, nleft
  <2>2. wire' = sent \o SubSeq(usrbuf, 1, bufp + k)
    BY <2>1, PrefixGrows
  <2>3. bufp' \in 0..Len(usrbuf)
    BY <2>1
  <2> QED  BY <1>2, <2>1, <2>2, <2>3 DEF WriteSome
<1>3. ASSUME NEW e, Stops(e) PROVE IInv'
  <2>1. UNCHANGED <<usrbuf, bufp, wire, sent>>
    BY <1>3 DEF Stops
  <2>2. \/ active /\ UNCHANGED <<active, ret>>
        \/ active' = FALSE /\ ret' = -1
    BY <1>3 DEF Stops, Return
  <2>3. Typed'
    BY <2>1, <2>2
  <2>4. WireIsPrefix'
    BY <2>1, <2>2
  <2> QED  BY <2>3, <2>4
<1>4. CASE Done
  <2>1. UNCHANGED <<usrbuf, bufp, wire, sent>>
    BY <1>4 DEF Done
  <2>2. active' = FALSE /\ ret' = Len(usrbuf)
    BY <1>4 DEF Done, Return
  <2>3. bufp = Len(usrbuf)
    BY <1>4 DEF Done, nleft
  <2>4. Typed'
    BY <2>1, <2>2
  <2> QED  BY <2>1, <2>2, <2>3, <2>4
<1>5. CASE UNCHANGED vars
  BY <1>5 DEF vars
<1> QED
  BY <1>1, <1>2, <1>3, <1>4, <1>5 DEF Next, WriteInterrupted, WriteNothing, WriteFails

(* rio_writen: what the kernel has taken is a prefix of the message, each  *)
(* byte once, and a count that is returned says that it is all of it.      *)
THEOREM WritesExactly == Spec => []WireIsPrefix
<1>1. Init => IInv  BY InitHolds
<1>2. IInv /\ [Next]_vars => IInv'  BY StepHolds
<1>3. IInv => WireIsPrefix  BY DEF IInv
<1> QED  BY <1>1, <1>2, <1>3, PTL DEF Spec

-----------------------------------------------------------------------------
(* The invariant of the reader.                                            *)

Unread == Reader!Unread

(* The rio_t is not touched by a program that reads with rio_readn.        *)
ReaderTyped ==
  /\ call \in Calls \cup {Reader!Idle, Reader!Killed}
  /\ closed \in BOOLEAN
  /\ pos \in 0..Len(wire)
  /\ rio_cnt \in Int /\ rio_bufptr \in Nat
  /\ got \in Nat /\ count \in Int
  /\ dest = [j \in Reader!UsrIndex |-> dest[j]]
  /\ style = "raw" => rio_cnt = 0

(* A call is in progress.                                                  *)
Busy == call \notin {Reader!Idle, Reader!Killed}

(* A call never has more than it was asked for; a line leaves room for its *)
(* terminator, unless it has none from the beginning.                      *)
HasRoom ==
  /\ call.op = "raw" <=> style = "raw"
  /\ got <= call.size
  /\ call.op = "line" => got < call.size \/ got = 0

(* What the call in progress has stored is the stretch of the stream       *)
(* before what is in the rio_t; there is no newline in a line that has not *)
(* ended.                                                                  *)
Held ==
  /\ got <= pos - Unread
  /\ \A i \in 1..got :
       /\ dest[i - 1] = wire[pos - Unread - got + i]
       /\ call.op = "line" => dest[i - 1] # Newline

ReaderInv ==
  /\ ReaderTyped
  /\ BufferIsStream
  /\ Busy => HasRoom /\ Held

PipeInv == IInv /\ ReaderInv

(* The number of unread bytes is a natural number, and no more than        *)
(* rio_cnt unless that is negative.                                        *)
LEMMA UnreadIs ==
  ASSUME rio_cnt \in Int
  PROVE  /\ Unread \in Nat
         /\ rio_cnt > 0 => Unread = rio_cnt
         /\ rio_cnt <= 0 => Unread = 0
BY DEF Unread, Reader!Unread

(* The invariant says what it says of the rio_t with these names.          *)
LEMMA BufferIs ==
  BufferIsStream <=>
    /\ Unread <= pos /\ rio_bufptr + Unread <= BufSize
    /\ \A i \in 0..(Unread - 1) :
         rio_buf[rio_bufptr + i] = wire[pos - Unread + i + 1]
BY DEF BufferIsStream, Reader!BufferIsStream, Unread

LEMMA BufferIsNext ==
  BufferIsStream' <=>
    /\ Unread' <= pos' /\ rio_bufptr' + Unread' <= BufSize
    /\ \A i \in 0..(Unread' - 1) :
         rio_buf'[rio_bufptr' + i] = wire'[pos' - Unread' + i + 1]
BY DEF BufferIsStream, Reader!BufferIsStream, Unread

(* A size becomes the int that it is, or a smaller one.                    *)
LEMMA CIntIs ==
  ASSUME NEW n \in Nat
  PROVE  /\ Reader!CInt(n) \in Int /\ Reader!CInt(n) <= n
         /\ n <= Reader!IntMax => Reader!CInt(n) = n
<1> DEFINE h == Reader!IntMax
           m == n % IntMod
<1>1. IntMod \in Nat \ {0} /\ h \in Int /\ h < IntMod
  BY PipeAssumption DEF Reader!RioAssumption, Reader!IntMax
<1>2. m \in 0..(IntMod - 1) /\ m <= n /\ (n < IntMod => m = n)
  BY <1>1
<1>3. Reader!CInt(n) = IF m <= h THEN m ELSE m - IntMod
  BY DEF Reader!CInt
<1> HIDE DEF h, m
<1>4. Reader!CInt(n) \in Int /\ Reader!CInt(n) <= n /\ (n <= h => Reader!CInt(n) = n)
  BY <1>1, <1>2, <1>3
<1> QED  BY <1>4 DEF h

(* A call of the program is neither Idle nor Killed, and has a size.       *)
LEMMA CallsAre ==
  ASSUME NEW c \in Calls
  PROVE  /\ c # Reader!Idle /\ c # Reader!Killed
         /\ c.op \in {"line", "bytes", "raw"}
         /\ c.size \in 0..UsrSize
BY PipeAssumption DEF Reader!RioAssumption, Reader!Ops, Reader!Idle, Reader!Killed

-----------------------------------------------------------------------------
(* The writer's steps, seen from the other end.                            *)

(* What the kernel has taken is made of bytes.                             *)
LEMMA WireTyped == IInv => wire \in Seq(Bytes)
BY PrefixTyped DEF IInv, Typed, WireIsPrefix

LEMMA WireTypedNext == IInv' => wire' \in Seq(Bytes)
BY PrefixTyped DEF IInv, Typed, WireIsPrefix

(* The writer only adds to what there is.                                  *)
LEMMA WireGrows ==
  ASSUME IInv, [Next]_vars
  PROVE  /\ Len(wire') >= Len(wire)
         /\ SubSeq(wire', 1, Len(wire)) = wire
         /\ \A i \in 1..Len(wire) : wire'[i] = wire[i]
<1>1. wire \in Seq(Bytes)
  BY WireTyped
<1>2. CASE wire' = wire
  BY <1>1, <1>2
<1>3. CASE WriteSome
  <2>1. PICK k \in 1..(Len(usrbuf) - bufp) :
          wire' = wire \o SubSeq(usrbuf, bufp + 1, bufp + k)
    BY <1>3 DEF WriteSome, nleft
  <2> DEFINE more == SubSeq(usrbuf, bufp + 1, bufp + k)
  <2>2. more \in Seq(Bytes)
    <3>1. usrbuf \in Seq(Bytes) /\ bufp \in 0..Len(usrbuf)
      BY DEF IInv, Typed
    <3>2. \A i \in (bufp + 1)..(bufp + k) : usrbuf[i] \in Bytes
      BY <2>1, <3>1
    <3> QED  BY <3>1, <3>2, SubSeqProperties
  <2>3. wire' = wire \o more
    BY <2>1
  <2> HIDE DEF more
  <2>4. /\ Len(wire') = Len(wire) + Len(more)
        /\ \A i \in 1..Len(wire) : wire'[i] = wire[i]
    BY <1>1, <2>2, <2>3
  <2>5. wire' \in Seq(Bytes) /\ Len(more) \in Nat
    BY <1>1, <2>2, <2>3
  <2>6. SubSeq(wire', 1, Len(wire)) = wire
    BY <1>1, <2>4, <2>5
  <2> QED  BY <2>4, <2>5, <2>6, <1>1
<1>4. WriteSome \/ wire' = wire
  BY DEF Next, vars, Start, Stops, WriteInterrupted, WriteNothing, WriteFails, Done
<1> QED  BY <1>2, <1>3, <1>4

-----------------------------------------------------------------------------
(* Each step keeps the reader's invariant.                                 *)

LEMMA ReaderInvInit == PipeInit => ReaderInv
<1> SUFFICES ASSUME PipeInit PROVE ReaderInv  OBVIOUS
<1>1. /\ wire = <<>> /\ closed = FALSE /\ pos = 0 /\ rio_bufptr = 0
      /\ rio_cnt = 0 /\ got = 0 /\ count = 0 /\ call = Reader!Idle
      /\ dest = [j \in Reader!UsrIndex |-> Junk]
  BY DEF PipeInit, Init, Reader!Init, Reader!rio_readinitb
<1>2. Unread = 0
  BY <1>1, UnreadIs
<1>3. BufferIsStream
  BY <1>1, <1>2, BufferIs, PipeAssumption DEF Reader!RioAssumption, Reader!IntMax
<1>4. ReaderTyped
  <2>1. 0 \in 0..Len(wire)
    BY <1>1
  <2>2. dest = [j \in Reader!UsrIndex |-> dest[j]]
    BY <1>1
  <2>3. 0 \in Int /\ 0 \in Nat /\ FALSE \in BOOLEAN
    OBVIOUS
  <2> QED  BY <1>1, <2>1, <2>2, <2>3, Zenon DEF ReaderTyped
<1> QED  BY <1>1, <1>3, <1>4 DEF ReaderInv, Busy

(* While the reader stands still, more bytes or the end may come.          *)
LEMMA ReaderKept ==
  ASSUME ReaderInv, IInv, [Next]_vars, closed' \in BOOLEAN,
         UNCHANGED <<style, readerVars>>
  PROVE  ReaderInv'
<1>1. /\ UNCHANGED <<style, pos, rio_buf, rio_bufptr, rio_cnt, call, dest, got, count>>
      /\ Unread' = Unread
  BY DEF readerVars, Unread, Reader!Unread
<1>2. /\ Len(wire') >= Len(wire)
      /\ \A i \in 1..Len(wire) : wire'[i] = wire[i]
      /\ Len(wire) \in Nat
      /\ Len(wire') \in Nat
  <2>1. wire \in Seq(Bytes) /\ wire' \in Seq(Bytes)
    BY WireTyped, StepHolds, WireTypedNext
  <2> QED  BY <2>1, WireGrows
<1>3. ReaderTyped'
  BY <1>1, <1>2 DEF ReaderInv, ReaderTyped
<1>4. rio_cnt \in Int /\ Unread \in Nat /\ pos \in 0..Len(wire) /\ got \in Nat
  BY UnreadIs DEF ReaderInv, ReaderTyped
<1>5. BufferIsStream'
  <2>1. /\ Unread <= pos /\ rio_bufptr + Unread <= BufSize
        /\ \A i \in 0..(Unread - 1) :
             rio_buf[rio_bufptr + i] = wire[pos - Unread + i + 1]
    BY BufferIs DEF ReaderInv
  <2>2. \A i \in 0..(Unread - 1) : pos - Unread + i + 1 \in 1..Len(wire)
    BY <2>1, <1>4
  <2>3. \A i \in 0..(Unread - 1) :
          rio_buf[rio_bufptr + i] = wire'[pos - Unread + i + 1]
    BY <2>1, <2>2, <1>2
  <2>4. BufferIsStream' <=>
          /\ Unread' <= pos' /\ rio_bufptr' + Unread' <= BufSize
          /\ \A i \in 0..(Unread' - 1) :
               rio_buf'[rio_bufptr' + i] = wire'[pos' - Unread' + i + 1]
    BY BufferIsNext
  <2> QED  BY <2>1, <2>3, <2>4, <1>1
<1>6. ASSUME Busy PROVE HasRoom' /\ Held'
  <2>1. HasRoom /\ Held
    BY <1>6 DEF ReaderInv
  <2>2. HasRoom'
    BY <2>1, <1>1 DEF HasRoom
  <2>3. Held'
    <3>1. \A i \in 1..got : pos - Unread - got + i \in 1..Len(wire)
      BY <2>1, <1>4 DEF Held
    <3> QED  BY <2>1, <3>1, <1>1, <1>2 DEF Held
  <2> QED  BY <2>2, <2>3
<1> QED  BY <1>1, <1>3, <1>5, <1>6 DEF ReaderInv, Busy

(* What a step of the reader finds: the names that its cases use.          *)
LEMMA ReaderFinds ==
  ASSUME PipeInv
  PROVE  /\ wire \in Seq(Bytes) /\ Len(wire) \in Nat
         /\ pos \in 0..Len(wire) /\ got \in Nat /\ count \in Int
         /\ rio_cnt \in Int /\ rio_bufptr \in Nat
         /\ Unread \in Nat /\ Unread <= pos /\ rio_bufptr + Unread <= BufSize
         /\ \A i \in 0..(Unread - 1) :
              rio_buf[rio_bufptr + i] = wire[pos - Unread + i + 1]
         /\ rio_cnt > 0 => Unread = rio_cnt
         /\ rio_cnt <= 0 => Unread = 0
         /\ dest = [j \in Reader!UsrIndex |-> dest[j]]
         /\ closed \in BOOLEAN
         /\ style = "raw" => rio_cnt = 0
         /\ BufSize \in Nat \ {0} /\ UsrSize \in Nat
         /\ Busy =>
              /\ call \in Calls /\ HasRoom /\ Held
              /\ call.op \in {"line", "bytes", "raw"} /\ call.size \in 0..UsrSize
<1>1. wire \in Seq(Bytes)
  BY WireTyped DEF PipeInv
<1>2. ReaderTyped /\ BufferIsStream /\ (Busy => HasRoom /\ Held)
  BY DEF PipeInv, ReaderInv
<1>3. rio_cnt \in Int
  BY <1>2 DEF ReaderTyped
<1>4. Busy => call \in Calls
  BY <1>2 DEF ReaderTyped, Busy
<1>5. BufSize \in Nat \ {0} /\ UsrSize \in Nat
  BY PipeAssumption DEF Reader!RioAssumption, Reader!IntMax
<1>6. Busy => call.op \in {"line", "bytes", "raw"} /\ call.size \in 0..UsrSize
  BY <1>4, CallsAre
<1> QED
  BY <1>1, <1>2, <1>3, <1>4, <1>5, <1>6, UnreadIs, BufferIs DEF ReaderTyped

(* A call begins with nothing stored.                                      *)
LEMMA ReaderStarts ==
  ASSUME PipeInv, ReaderCalls
  PROVE  ReaderInv'
<1>1. PICK c \in Calls : (c.op = "raw" <=> style = "raw") /\ Reader!Start(c)
  BY DEF ReaderCalls
<1>2. /\ UNCHANGED <<wire, closed, style, pos, rio_buf, rio_bufptr, rio_cnt, dest, count>>
      /\ call' = c /\ got' = 0
  BY <1>1 DEF Reader!Start, Reader!rio, ReaderCalls, vars
<1>3. Unread' = Unread /\ (BufferIsStream' <=> BufferIsStream)
  BY <1>2 DEF Unread, Reader!Unread, BufferIsStream, Reader!BufferIsStream
<1>4. c.size \in 0..UsrSize
  BY CallsAre
<1>5. ReaderTyped'
  BY <1>2 DEF PipeInv, ReaderInv, ReaderTyped
<1>6. HasRoom'
  BY <1>1, <1>2, <1>4, ReaderFinds DEF HasRoom
<1>7. Held'
  <2>1. 0 <= pos - Unread
    BY ReaderFinds
  <2>2. got' <= pos' - Unread'
    BY <2>1, <1>2, <1>3
  <2>3. 1..got' = {}
    BY <1>2
  <2> QED  BY <2>2, <2>3 DEF Held
<1> QED  BY <1>3, <1>5, <1>6, <1>7 DEF PipeInv, ReaderInv

(* An empty rio_t holds what it has to hold.                               *)
LEMMA EmptyBuffer ==
  ASSUME rio_cnt' \in Int, rio_cnt' <= 0, pos' \in Nat,
         rio_bufptr' \in Nat, rio_bufptr' <= BufSize
  PROVE  BufferIsStream' /\ Unread' = 0
<1>1. Unread' = 0
  BY DEF Unread, Reader!Unread
<1>2. 0..(Unread' - 1) = {}
  BY <1>1
<1> QED  BY <1>1, <1>2, BufferIsNext

(* What the next k bytes of the rio_t, or of the stream, do to the         *)
(* caller's buffer.                                                        *)
LEMMA StoredIs ==
  ASSUME PipeInv, Busy, NEW src, NEW from \in Int, NEW k \in Nat,
         got + k <= call.size,
         \A i \in 0..(k - 1) : src[from + i] = wire[pos - Unread + i + 1]
  PROVE  LET s == Reader!Stored(src, from, k)
         IN  /\ s = [j \in Reader!UsrIndex |-> s[j]]
             /\ \A j \in Reader!UsrIndex : j >= got + k => s[j] = dest[j]
             /\ \A j \in 1..got : s[j - 1] = dest[j - 1]
             /\ \A j \in 1..(got + k) : s[j - 1] = wire[pos - Unread - got + j]
<1> DEFINE s == Reader!Stored(src, from, k)
<1>1. /\ got \in Nat /\ UsrSize \in Nat /\ call.size \in 0..UsrSize
      /\ pos \in Nat /\ Unread \in Nat /\ got <= pos - Unread
      /\ \A j \in 1..got : dest[j - 1] = wire[pos - Unread - got + j]
  BY ReaderFinds DEF Held
<1>2. s = [j \in Reader!UsrIndex |->
             IF j \in got..(got + k - 1) THEN src[from + j - got] ELSE dest[j]]
  BY DEF Reader!Stored
<1> HIDE DEF s
<1>3. s = [j \in Reader!UsrIndex |-> s[j]]
  BY <1>2
<1>4. \A j \in Reader!UsrIndex : j >= got + k => s[j] = dest[j]
  BY <1>1, <1>2 DEF Reader!UsrIndex
<1>5. ASSUME NEW j \in 1..got PROVE s[j - 1] = dest[j - 1]
  <2>1. j - 1 \in Reader!UsrIndex /\ j - 1 \notin got..(got + k - 1)
    BY <1>1 DEF Reader!UsrIndex
  <2> QED  BY <1>2, <2>1
<1>6. ASSUME NEW j \in 1..(got + k) PROVE s[j - 1] = wire[pos - Unread - got + j]
  <2>1. CASE j <= got
    BY <1>1, <1>5, <2>1
  <2>2. CASE j > got
    <3>1. j - 1 \in Reader!UsrIndex /\ j - 1 \in got..(got + k - 1)
      BY <1>1, <2>2 DEF Reader!UsrIndex
    <3>2. s[j - 1] = src[from + (j - 1) - got]
      BY <1>2, <3>1
    <3>3. j - 1 - got \in 0..(k - 1)
      BY <1>1, <2>2
    <3>4. from + (j - 1) - got = from + (j - 1 - got)
      BY <1>1
    <3>5. pos - Unread + (j - 1 - got) + 1 = pos - Unread - got + j
      BY <1>1
    <3> QED  BY <3>2, <3>3, <3>4, <3>5
  <2> QED  BY <2>1, <2>2, <1>1
<1> QED  BY <1>3, <1>4, <1>5, <1>6 DEF s

(* The rest of the rio_t, after k bytes of it have been copied.            *)
LEMMA BufferShrinks ==
  ASSUME PipeInv, rio_cnt > 0, NEW k \in 1..rio_cnt,
         UNCHANGED <<wire, pos, rio_buf>>,
         rio_bufptr' = rio_bufptr + k, rio_cnt' = rio_cnt - k
  PROVE  /\ BufferIsStream'
         /\ Unread' = Unread - k
         /\ rio_cnt' \in Int /\ rio_bufptr' \in Nat
<1>1. /\ pos \in Nat /\ rio_cnt \in Int /\ rio_bufptr \in Nat
      /\ Unread = rio_cnt /\ Unread <= pos /\ rio_bufptr + Unread <= BufSize
      /\ BufSize \in Nat
      /\ \A i \in 0..(Unread - 1) : rio_buf[rio_bufptr + i] = wire[pos - Unread + i + 1]
  BY ReaderFinds
<1>2. Unread' = Unread - k
  BY <1>1 DEF Unread, Reader!Unread
<1>3. ASSUME NEW i \in 0..(Unread' - 1)
      PROVE  rio_buf'[rio_bufptr' + i] = wire'[pos' - Unread' + i + 1]
  <2>1. i \in 0..(Unread - k - 1)
    BY <1>2
  <2>2. k + i \in 0..(Unread - 1)
    BY <2>1, <1>1
  <2>3. /\ rio_bufptr' + i = rio_bufptr + (k + i)
        /\ pos' - Unread' + i + 1 = pos - Unread + (k + i) + 1
    BY <1>1, <1>2, <2>1
  <2> QED  BY <1>1, <2>2, <2>3
<1>4. Unread' <= pos' /\ rio_bufptr' + Unread' <= BufSize
  BY <1>1, <1>2
<1>5. rio_cnt' \in Int /\ rio_bufptr' \in Nat
  BY <1>1
<1> QED  BY <1>2, <1>3, <1>4, <1>5, BufferIsNext

(* Bytes that are copied into the caller's buffer extend what it holds.    *)
LEMMA CopyHolds ==
  ASSUME PipeInv, Busy, NEW k \in 1..rio_cnt, rio_cnt > 0,
         got + k <= call.size, Reader!Copy(k), UNCHANGED <<vars, closed, style>>,
         call.op \in {"line", "bytes"},
         call.op = "line" => /\ k = 1 /\ got + 1 < call.size
                             /\ rio_buf[rio_bufptr] # Newline
  PROVE  ReaderInv'
<1>1. /\ dest' = Reader!Stored(rio_buf, rio_bufptr, k)
      /\ rio_bufptr' = rio_bufptr + k /\ rio_cnt' = rio_cnt - k /\ got' = got + k
      /\ UNCHANGED <<wire, closed, style, pos, rio_buf, call, count>>
  BY DEF Reader!Copy, vars
<1>2. BufferIsStream' /\ Unread' = Unread - k /\ rio_cnt' \in Int /\ rio_bufptr' \in Nat
  BY <1>1, BufferShrinks
<1>3. /\ pos \in 0..Len(wire) /\ got \in Nat /\ rio_cnt \in Int /\ rio_bufptr \in Nat
      /\ Unread = rio_cnt /\ Unread \in Nat /\ call.size \in 0..UsrSize
      /\ HasRoom /\ Held
      /\ \A i \in 0..(Unread - 1) : rio_buf[rio_bufptr + i] = wire[pos - Unread + i + 1]
  BY ReaderFinds
<1>4. \A i \in 0..(k - 1) : rio_buf[rio_bufptr + i] = wire[pos - Unread + i + 1]
  BY <1>3
<1>5. /\ dest' = [j \in Reader!UsrIndex |-> dest'[j]]
      /\ \A j \in 1..got : dest'[j - 1] = dest[j - 1]
      /\ \A j \in 1..(got + k) : dest'[j - 1] = wire[pos - Unread - got + j]
  <2> DEFINE s == Reader!Stored(rio_buf, rio_bufptr, k)
  <2>1. /\ s = [j \in Reader!UsrIndex |-> s[j]]
        /\ \A j \in 1..got : s[j - 1] = dest[j - 1]
        /\ \A j \in 1..(got + k) : s[j - 1] = wire[pos - Unread - got + j]
    <3>1. rio_bufptr \in Int /\ k \in Nat
      BY <1>3
    <3> QED  BY <1>4, <3>1, StoredIs
  <2>2. dest' = s
    BY <1>1
  <2> HIDE DEF s
  <2> QED  BY <2>1, <2>2
<1>6. style # "raw"
  BY <1>3 DEF HasRoom
<1>7. ReaderTyped'
  <2>1. got' \in Nat
    BY <1>1, <1>3
  <2>2. dest' = [j \in Reader!UsrIndex |-> dest'[j]]
    BY <1>5
  <2> QED  BY <1>1, <1>2, <1>6, <2>1, <2>2, Zenon DEF PipeInv, ReaderInv, ReaderTyped
<1>8. HasRoom'
  BY <1>1, <1>3 DEF HasRoom
<1>9. Held'
  <2>1. got' <= pos' - Unread' /\ pos' - Unread' - got' = pos - Unread - got
    BY <1>1, <1>2, <1>3 DEF Held
  <2>2. ASSUME NEW i \in 1..got'
        PROVE  /\ dest'[i - 1] = wire'[pos' - Unread' - got' + i]
               /\ call'.op = "line" => dest'[i - 1] # Newline
    <3>1. i \in 1..(got + k)
      BY <1>1
    <3>2. dest'[i - 1] = wire[pos - Unread - got + i]
      BY <1>5, <3>1
    <3>3. ASSUME call.op = "line" PROVE dest'[i - 1] # Newline
      <4>1. CASE i \in 1..got
        BY <4>1, <3>3, <1>3, <1>5 DEF Held
      <4>2. CASE i = got + 1
        <5>1. dest'[i - 1] = wire[pos - Unread + 1]
          <6>1. pos - Unread - got + i = pos - Unread + 1
            BY <1>3, <4>2
          <6> QED  BY <6>1, <3>2
        <5>2. rio_buf[rio_bufptr] = wire[pos - Unread + 1]
          <6>1. 0 \in 0..(Unread - 1)
            BY <1>3
          <6>2. rio_bufptr + 0 = rio_bufptr /\ pos - Unread + 0 + 1 = pos - Unread + 1
            BY <1>3
          <6> QED  BY <6>1, <6>2, <1>3
        <5> QED  BY <5>1, <5>2, <3>3
      <4> QED  BY <3>1, <3>3, <1>3, <4>1, <4>2
    <3> QED  BY <2>1, <3>2, <3>3, <1>1
  <2> QED  BY <2>1, <2>2 DEF Held
<1> QED  BY <1>2, <1>7, <1>8, <1>9 DEF ReaderInv

(* A call that ends leaves what is in the rio_t to the next one.           *)
LEMMA EndHolds ==
  ASSUME ReaderTyped', BufferIsStream', call' \in {Reader!Idle, Reader!Killed}
  PROVE  ReaderInv'
BY DEF ReaderInv, Busy

(* rio_read refills an empty rio_t with the next bytes of the stream.      *)
LEMMA ReadSomeHolds ==
  ASSUME PipeInv, Reader!ReadSome, UNCHANGED <<vars, closed, style>>
  PROVE  ReaderInv'
<1>1. /\ call.op \in {"line", "bytes"} /\ rio_cnt <= 0 /\ rio_bufptr' = 0
      /\ UNCHANGED <<wire, closed, style, call, dest, got, count>>
  BY DEF Reader!ReadSome, Reader!Refills, vars
<1>2. PICK k \in 1..Reader!Lesser(BufSize, Len(wire) - pos) :
        /\ rio_buf' = [i \in Reader!Index |-> IF i < k THEN wire[pos + i + 1] ELSE rio_buf[i]]
        /\ rio_cnt' = k /\ pos' = pos + k
  BY DEF Reader!ReadSome
<1>3. Busy
  BY <1>1 DEF Busy, Reader!Idle, Reader!Killed
<1>4. /\ pos \in 0..Len(wire) /\ Len(wire) \in Nat /\ got \in Nat /\ Unread = 0
      /\ BufSize \in Nat /\ call.size \in 0..UsrSize /\ HasRoom /\ Held
  BY <1>1, <1>3, ReaderFinds
<1>5. k \in Nat /\ k > 0 /\ k <= BufSize /\ pos + k <= Len(wire)
  BY <1>2, <1>4 DEF Reader!Lesser
<1>6. Unread' = k
  BY <1>2, <1>5 DEF Unread, Reader!Unread
<1>7. BufferIsStream'
  <2>1. ASSUME NEW i \in 0..(k - 1) PROVE rio_buf'[rio_bufptr' + i] = wire'[pos' - k + i + 1]
    <3>1. i \in Reader!Index /\ i < k
      BY <1>4, <1>5 DEF Reader!Index
    <3>2. rio_buf'[i] = wire[pos + i + 1]
      BY <1>2, <3>1
    <3>3. rio_bufptr' + i = i /\ pos' - k + i + 1 = pos + i + 1
      BY <1>1, <1>2, <1>4, <1>5
    <3> QED  BY <1>1, <3>2, <3>3
  <2>2. Unread' <= pos' /\ rio_bufptr' + Unread' <= BufSize
    BY <1>1, <1>2, <1>4, <1>5, <1>6
  <2> QED  BY <1>6, <2>1, <2>2, BufferIsNext
<1>8. ReaderTyped'
  <2>1. pos' \in 0..Len(wire')
    BY <1>1, <1>2, <1>4, <1>5
  <2>2. rio_cnt' \in Int /\ rio_bufptr' \in Nat
    BY <1>1, <1>2, <1>5
  <2>3. style # "raw"
    BY <1>1, <1>4 DEF HasRoom
  <2> QED  BY <1>1, <2>1, <2>2, <2>3, Zenon DEF PipeInv, ReaderInv, ReaderTyped
<1>9. HasRoom'
  BY <1>1, <1>4 DEF HasRoom
<1>10. Held'
  <2>1. pos' - Unread' = pos - Unread
    BY <1>2, <1>4, <1>5, <1>6
  <2> QED  BY <2>1, <1>1, <1>4 DEF Held
<1> QED  BY <1>7, <1>8, <1>9, <1>10 DEF ReaderInv

(* Steps that only set rio_cnt, and what is in the caller's buffer, find   *)
(* and leave the rio_t empty: an interrupted read(), and its failure.      *)
LEMMA EmptyTyped ==
  ASSUME PipeInv, rio_cnt <= 0, rio_cnt' \in {-1, 0}, call \in Calls, call.op # "raw",
         call' \in Calls \cup {Reader!Idle, Reader!Killed}, count' \in Int,
         UNCHANGED <<wire, closed, style, pos, rio_bufptr, got>>,
         dest' = [j \in Reader!UsrIndex |-> dest'[j]]
  PROVE  ReaderTyped' /\ BufferIsStream' /\ Unread' = 0 /\ Unread = 0
<1>1. /\ pos \in 0..Len(wire) /\ Len(wire) \in Nat /\ rio_bufptr \in Nat
      /\ rio_bufptr + Unread <= BufSize
      /\ Unread = 0 /\ BufSize \in Nat /\ Busy
  <2>1. Busy
    BY CallsAre DEF Busy
  <2> QED  BY <2>1, ReaderFinds
<1>2. style # "raw"
  BY <1>1, ReaderFinds DEF HasRoom
<1>3. /\ rio_cnt' \in Int /\ rio_cnt' <= 0 /\ pos' \in Nat /\ rio_bufptr' \in Nat
      /\ rio_bufptr' <= BufSize
  BY <1>1
<1>4. BufferIsStream' /\ Unread' = 0
  BY <1>3, EmptyBuffer
<1>5. ReaderTyped'
  BY <1>2, <1>3, Zenon DEF PipeInv, ReaderInv, ReaderTyped
<1> QED  BY <1>1, <1>4, <1>5

(* A call in which read() is about to be called on the rio_t.              *)
LEMMA Refilling ==
  ASSUME PipeInv, Reader!Refills
  PROVE  /\ call \in Calls /\ Busy /\ call.op # "raw" /\ rio_cnt <= 0
         /\ dest = [j \in Reader!UsrIndex |-> dest[j]]
<1>1. call.op \in {"line", "bytes"} /\ rio_cnt <= 0
  BY DEF Reader!Refills
<1>2. Busy
  BY <1>1 DEF Busy, Reader!Idle, Reader!Killed
<1> QED  BY <1>1, <1>2, ReaderFinds

LEMMA InterruptedHolds ==
  ASSUME PipeInv, Reader!ReadInterrupted, UNCHANGED <<vars, closed, style>>
  PROVE  ReaderInv'
<1>1. /\ Reader!Refills /\ rio_cnt' = -1
      /\ UNCHANGED <<wire, closed, style, pos, rio_buf, rio_bufptr, call, dest, got, count>>
  BY DEF Reader!ReadInterrupted, vars
<1>2. /\ call \in Calls /\ Busy /\ call.op # "raw" /\ rio_cnt <= 0
      /\ dest = [j \in Reader!UsrIndex |-> dest[j]]
      /\ count \in Int /\ HasRoom /\ Held
  BY <1>1, Refilling, ReaderFinds
<1>3. ReaderTyped' /\ BufferIsStream' /\ Unread' = 0 /\ Unread = 0
  <2>1. /\ rio_cnt' \in {-1, 0} /\ count' \in Int /\ call' \in Calls \cup {Reader!Idle, Reader!Killed}
        /\ dest' = [j \in Reader!UsrIndex |-> dest'[j]]
    BY <1>1, <1>2
  <2> QED  BY <1>1, <1>2, <2>1, EmptyTyped
<1>4. HasRoom' /\ Held'
  BY <1>1, <1>2, <1>3 DEF HasRoom, Held
<1> QED  BY <1>3, <1>4 DEF ReaderInv

(* The steps of rio_readlineb and rio_readnb that end the call without a   *)
(* byte of the rio_t: end of file, and an error.                           *)
LEMMA ReadEndsHold ==
  ASSUME PipeInv, Reader!ReadEof \/ Reader!ReadFails, UNCHANGED <<vars, closed, style>>
  PROVE  ReaderInv'
<1>1. /\ Reader!Refills /\ rio_cnt' \in {-1, 0} /\ call' = Reader!Idle
      /\ UNCHANGED <<wire, closed, style, pos, rio_buf, rio_bufptr, got>>
      /\ count' \in {got, -1}
      /\ dest' \in {dest, [dest EXCEPT ![got] = Nul]}
  BY DEF Reader!ReadEof, Reader!ReadFails, Reader!Return, vars
<1>2. /\ call \in Calls /\ call.op # "raw" /\ rio_cnt <= 0
      /\ dest = [j \in Reader!UsrIndex |-> dest[j]] /\ got \in Nat
  BY <1>1, Refilling, ReaderFinds
<1>3. /\ count' \in Int /\ call' \in Calls \cup {Reader!Idle, Reader!Killed}
      /\ dest' = [j \in Reader!UsrIndex |-> dest'[j]]
  BY <1>1, <1>2
<1>4. ReaderTyped' /\ BufferIsStream'
  BY <1>1, <1>2, <1>3, EmptyTyped
<1> QED  BY <1>1, <1>4, EndHolds

(* What a copy of the newline finds and does; its results are used below   *)
(* for the contract as well.                                               *)
LEMMA NewlineCopied ==
  ASSUME PipeInv, Reader!CopyNewline
  PROVE  /\ call \in Calls /\ Busy /\ call.op = "line"
         /\ got \in Nat /\ got + 1 < call.size /\ call.size \in 0..UsrSize /\ UsrSize \in Nat
         /\ rio_cnt \in Int /\ rio_cnt > 0 /\ Unread = rio_cnt
         /\ BufferIsStream' /\ Unread' = Unread - 1
         /\ rio_cnt' \in Int /\ rio_bufptr' \in Nat
         /\ dest' = [j \in Reader!UsrIndex |-> dest'[j]]
         /\ \A j \in Reader!UsrIndex : j > got + 1 => dest'[j] = dest[j]
         /\ dest'[got + 1] = Nul
         /\ \A j \in 1..(got + 1) : dest'[j - 1] = wire[pos - Unread - got + j]
         /\ \A j \in 1..got : dest'[j - 1] # Newline
         /\ dest'[got] = Newline
         /\ got' = got + 1 /\ count' = got + 1 /\ call' = Reader!Idle
         /\ UNCHANGED <<wire, closed, pos>>
<1> DEFINE s == Reader!Stored(rio_buf, rio_bufptr, 1)
<1>1. /\ call.op = "line" /\ got + 1 < Reader!CInt(call.size) /\ rio_cnt > 0
      /\ rio_buf[rio_bufptr] = Newline
      /\ rio_bufptr' = rio_bufptr + 1 /\ rio_cnt' = rio_cnt - 1 /\ got' = got + 1
      /\ count' = got + 1 /\ call' = Reader!Idle
      /\ UNCHANGED <<wire, closed, pos, rio_buf>>
      /\ dest' = [s EXCEPT ![got + 1] = Nul]
  BY DEF Reader!CopyNewline, Reader!WantsMore, Reader!Return
<1>2. Busy
  BY <1>1 DEF Busy, Reader!Idle, Reader!Killed
<1>3. /\ call \in Calls /\ call.size \in 0..UsrSize /\ UsrSize \in Nat
      /\ got \in Nat /\ pos \in Nat /\ Unread \in Nat /\ rio_cnt \in Int
      /\ rio_bufptr \in Nat /\ Unread = rio_cnt /\ Held
      /\ \A i \in 0..(Unread - 1) : rio_buf[rio_bufptr + i] = wire[pos - Unread + i + 1]
  BY <1>1, <1>2, ReaderFinds
<1>0. got + 1 < call.size
  BY <1>1, <1>3, CIntIs
<1>4. /\ s = [j \in Reader!UsrIndex |-> s[j]]
      /\ \A j \in Reader!UsrIndex : j >= got + 1 => s[j] = dest[j]
      /\ \A j \in 1..got : s[j - 1] = dest[j - 1]
      /\ \A j \in 1..(got + 1) : s[j - 1] = wire[pos - Unread - got + j]
  <2>1. \A i \in 0..(1 - 1) : rio_buf[rio_bufptr + i] = wire[pos - Unread + i + 1]
    BY <1>1, <1>3
  <2>2. rio_bufptr \in Int /\ 1 \in Nat /\ got + 1 <= call.size
    BY <1>0, <1>3
  <2> QED  BY <1>2, <2>1, <2>2, StoredIs
<1> HIDE DEF s
<1>5. BufferIsStream' /\ Unread' = Unread - 1 /\ rio_cnt' \in Int /\ rio_bufptr' \in Nat
  <2>1. 1 \in 1..rio_cnt
    BY <1>1, <1>3
  <2> QED  BY <1>1, <2>1, BufferShrinks
<1>6. /\ dest' = [j \in Reader!UsrIndex |-> dest'[j]]
      /\ \A j \in Reader!UsrIndex : j # got + 1 => dest'[j] = s[j]
      /\ \A j \in Reader!UsrIndex : j = got + 1 => dest'[j] = Nul
  BY <1>1, <1>4
<1>7. got + 1 \in Reader!UsrIndex
  BY <1>0, <1>3 DEF Reader!UsrIndex
<1>8. \A j \in 1..(got + 1) : j - 1 \in Reader!UsrIndex /\ j - 1 # got + 1
  BY <1>0, <1>3 DEF Reader!UsrIndex
<1>9. \A j \in 1..(got + 1) : dest'[j - 1] = s[j - 1]
  BY <1>6, <1>8
<1>10. \A j \in Reader!UsrIndex : j > got + 1 => dest'[j] = dest[j]
  <2> SUFFICES ASSUME NEW j \in Reader!UsrIndex, j > got + 1 PROVE dest'[j] = dest[j]
    OBVIOUS
  <2>1. j # got + 1 /\ j >= got + 1
    BY <1>3 DEF Reader!UsrIndex
  <2> QED  BY <1>4, <1>6, <2>1
<1>11. \A j \in 1..(got + 1) : dest'[j - 1] = wire[pos - Unread - got + j]
  BY <1>4, <1>9
<1>12. \A j \in 1..got : dest'[j - 1] # Newline
  <2>1. \A j \in 1..got : dest[j - 1] # Newline /\ j \in 1..(got + 1)
    BY <1>1, <1>3 DEF Held
  <2> QED  BY <2>1, <1>4, <1>9
<1>13. dest'[got] = Newline
  <2>1. got + 1 \in 1..(got + 1) /\ (got + 1) - 1 = got
    BY <1>3
  <2>2. dest'[got] = wire[pos - Unread - got + (got + 1)]
    BY <1>11, <2>1
  <2>3. pos - Unread - got + (got + 1) = pos - Unread + 0 + 1 /\ rio_bufptr + 0 = rio_bufptr
    BY <1>3
  <2>4. 0 \in 0..(Unread - 1)
    BY <1>1, <1>3
  <2> QED  BY <1>1, <1>3, <2>2, <2>3, <2>4
<1>14. dest'[got + 1] = Nul
  BY <1>6, <1>7
<1> QED
  BY <1>0, <1>1, <1>2, <1>3, <1>5, <1>6, <1>10, <1>11, <1>12, <1>13, <1>14

LEMMA NewlineHolds ==
  ASSUME PipeInv, Reader!CopyNewline, UNCHANGED <<vars, closed, style>>
  PROVE  ReaderInv'
<1>1. /\ BufferIsStream' /\ rio_cnt' \in Int /\ rio_bufptr' \in Nat
      /\ dest' = [j \in Reader!UsrIndex |-> dest'[j]]
      /\ got \in Nat /\ got' = got + 1 /\ count' = got + 1 /\ call' = Reader!Idle
      /\ UNCHANGED <<wire, closed, pos, style>>
      /\ call \in Calls /\ Busy /\ call.op = "line"
  BY NewlineCopied
<1>2. got' \in Nat /\ count' \in Int
  BY <1>1
<1>3. style # "raw"
  BY <1>1, ReaderFinds DEF HasRoom
<1>4. ReaderTyped'
  BY <1>1, <1>2, <1>3, Zenon DEF PipeInv, ReaderInv, ReaderTyped
<1> QED  BY <1>1, <1>4, EndHolds

(* Steps that leave the rio_t alone and end the call.                      *)
LEMMA AloneHolds ==
  ASSUME PipeInv, UNCHANGED <<vars, closed, style, pos, rio_buf, rio_bufptr, rio_cnt, got>>,
         call' \in {Reader!Idle, Reader!Killed}, count' \in {got, -1, count},
         dest' = [j \in Reader!UsrIndex |-> dest'[j]]
  PROVE  ReaderInv'
<1>1. BufferIsStream' <=> BufferIsStream
  BY DEF BufferIsStream, Reader!BufferIsStream, Reader!Unread, vars
<1>2. got \in Nat /\ count \in Int /\ BufferIsStream
  BY ReaderFinds DEF PipeInv, ReaderInv
<1>3. count' \in Int /\ call' \in Calls \cup {Reader!Idle, Reader!Killed}
  BY <1>2
<1>4. ReaderTyped'
  BY <1>3, Zenon DEF PipeInv, ReaderInv, ReaderTyped, vars
<1> QED  BY <1>1, <1>2, <1>4, EndHolds

(* rio_readn stores what read() returns at once.                           *)
LEMMA RawSomeHolds ==
  ASSUME PipeInv, Reader!RawSome, UNCHANGED <<vars, closed, style>>
  PROVE  ReaderInv'
<1>1. /\ call.op = "raw" /\ got < call.size
      /\ UNCHANGED <<wire, closed, style, rio_buf, rio_bufptr, rio_cnt, call, count>>
  BY DEF Reader!RawSome, Reader!WantsMore, Reader!rio, vars
<1>2. PICK k \in 1..Reader!Lesser(call.size - got, Len(wire) - pos) :
        dest' = Reader!Stored(wire, pos + 1, k) /\ pos' = pos + k /\ got' = got + k
  BY DEF Reader!RawSome
<1>3. Busy
  BY <1>1 DEF Busy, Reader!Idle, Reader!Killed
<1>4. /\ call \in Calls /\ call.size \in 0..UsrSize /\ HasRoom /\ Held
      /\ got \in Nat /\ pos \in 0..Len(wire) /\ Len(wire) \in Nat
      /\ rio_bufptr \in Nat /\ BufSize \in Nat /\ rio_bufptr + Unread <= BufSize
  BY <1>3, ReaderFinds
<1>5. rio_cnt = 0 /\ Unread = 0
  BY <1>1, <1>3, <1>4, ReaderFinds DEF HasRoom
<1>6. k \in Nat /\ k > 0 /\ got + k <= call.size /\ pos + k <= Len(wire)
  BY <1>2, <1>4 DEF Reader!Lesser
<1> DEFINE s == Reader!Stored(wire, pos + 1, k)
<1>7. /\ s = [j \in Reader!UsrIndex |-> s[j]]
      /\ \A j \in 1..(got + k) : s[j - 1] = wire[pos - Unread - got + j]
  <2>1. \A i \in 0..(k - 1) : wire[(pos + 1) + i] = wire[pos - Unread + i + 1]
    BY <1>4, <1>5, <1>6
  <2>2. pos + 1 \in Int
    BY <1>4
  <2> QED  BY <1>3, <1>6, <2>1, <2>2, StoredIs
<1>8. dest' = s
  BY <1>2
<1> HIDE DEF s
<1>9. BufferIsStream' /\ Unread' = 0
  <2>1. /\ rio_cnt' \in Int /\ rio_cnt' <= 0 /\ pos' \in Nat /\ rio_bufptr' \in Nat
        /\ rio_bufptr' <= BufSize
    BY <1>1, <1>2, <1>4, <1>5, <1>6
  <2> QED  BY <2>1, EmptyBuffer
<1>10. ReaderTyped'
  <2>1. pos' \in 0..Len(wire') /\ got' \in Nat
    BY <1>1, <1>2, <1>4, <1>6
  <2>2. dest' = [j \in Reader!UsrIndex |-> dest'[j]]
    BY <1>7, <1>8
  <2> QED  BY <1>1, <2>1, <2>2, Zenon DEF PipeInv, ReaderInv, ReaderTyped
<1>11. HasRoom'
  BY <1>1, <1>2, <1>4, <1>6 DEF HasRoom
<1>12. Held'
  <2>1. got' <= pos' - Unread' /\ pos' - Unread' - got' = pos - Unread - got
    BY <1>2, <1>4, <1>5, <1>6, <1>9 DEF Held
  <2>2. \A i \in 1..got' : dest'[i - 1] = wire'[pos' - Unread' - got' + i]
    BY <1>1, <1>2, <1>7, <1>8, <2>1
  <2> QED  BY <1>1, <2>1, <2>2 DEF Held
<1> QED  BY <1>9, <1>10, <1>11, <1>12 DEF ReaderInv

(* What rio_read finds for rio_readnb when there are bytes in the rio_t.   *)
LEMMA HoldsBytes ==
  ASSUME PipeInv, Reader!Holds
  PROVE  /\ Busy /\ call.op = "bytes" /\ got < call.size /\ rio_cnt > 0
         /\ rio_cnt \in Int /\ got \in Nat /\ call.size \in 0..UsrSize /\ UsrSize \in Nat
         /\ Reader!Copied \in Int /\ Reader!Copied <= rio_cnt
         /\ got + Reader!Copied <= call.size
         /\ Reader!Copied <= 0 => call.size > Reader!IntMax
<1>1. call.op = "bytes" /\ got < call.size /\ rio_cnt > 0
  BY DEF Reader!Holds, Reader!WantsMore
<1>2. Busy
  BY <1>1 DEF Busy, Reader!Idle, Reader!Killed
<1>3. rio_cnt \in Int /\ got \in Nat /\ call.size \in 0..UsrSize /\ UsrSize \in Nat
  BY <1>2, ReaderFinds
<1>4. IntMod \in Nat \ {0} /\ Reader!IntMax \in Int
  BY PipeAssumption DEF Reader!RioAssumption, Reader!IntMax
<1> DEFINE n == Reader!CInt(call.size - got)
<1>5. n \in Int /\ n <= call.size - got /\ (call.size - got <= Reader!IntMax => n = call.size - got)
  <2>1. call.size - got \in Nat
    BY <1>1, <1>3
  <2> QED  BY <2>1, CIntIs
<1>6. Reader!Copied = IF n < rio_cnt THEN n ELSE rio_cnt
  BY DEF Reader!Copied, Reader!Lesser
<1> HIDE DEF n
<1>7. /\ Reader!Copied \in Int /\ Reader!Copied <= rio_cnt
      /\ got + Reader!Copied <= call.size
      /\ Reader!Copied <= 0 => call.size > Reader!IntMax
  BY <1>1, <1>3, <1>4, <1>5, <1>6
<1> QED  BY <1>1, <1>2, <1>3, <1>7

(* Bytes that rio_read copies for either of them.                          *)
LEMMA CharsAre ==
  ASSUME PipeInv, Reader!CopyChar
  PROVE  /\ Busy /\ call.op = "line" /\ got + 1 < call.size /\ rio_cnt > 0
         /\ rio_cnt \in Int /\ got \in Nat /\ call.size \in 0..UsrSize
         /\ Reader!Copy(1) /\ rio_buf[rio_bufptr] # Newline
<1>1. /\ call.op = "line" /\ got + 1 < Reader!CInt(call.size) /\ rio_cnt > 0
      /\ Reader!Copy(1) /\ rio_buf[rio_bufptr] # Newline
  BY DEF Reader!CopyChar, Reader!WantsMore
<1>2. Busy
  BY <1>1 DEF Busy, Reader!Idle, Reader!Killed
<1>3. rio_cnt \in Int /\ got \in Nat /\ call.size \in 0..UsrSize /\ UsrSize \in Nat
  BY <1>2, ReaderFinds
<1>4. got + 1 < call.size
  <2>1. call.size \in Nat
    BY <1>3
  <2> QED  BY <2>1, <1>1, <1>3, CIntIs
<1> QED  BY <1>1, <1>2, <1>3, <1>4

LEMMA CopiedIs ==
  ASSUME PipeInv, Reader!CopyBytes \/ Reader!CopyChar
  PROVE  /\ Busy /\ call.op \in {"bytes", "line"} /\ rio_cnt > 0
         /\ rio_cnt \in Int /\ got \in Nat /\ call.size \in 0..UsrSize
         /\ \E k \in 1..rio_cnt :
              /\ got + k <= call.size /\ Reader!Copy(k)
              /\ call.op = "line" => /\ k = 1 /\ got + 1 < call.size
                                     /\ rio_buf[rio_bufptr] # Newline
<1>1. CASE Reader!CopyBytes
  <2> DEFINE k == Reader!Copied
  <2>1. Reader!Holds /\ k > 0 /\ Reader!Copy(k)
    BY <1>1 DEF Reader!CopyBytes
  <2>2. k \in 1..rio_cnt /\ got + k <= call.size
    BY <2>1, HoldsBytes
  <2>3. call.op # "line"
    BY <2>1, HoldsBytes
  <2> HIDE DEF k
  <2> QED  BY <2>1, <2>2, <2>3, HoldsBytes
<1>2. CASE Reader!CopyChar
  <2>1. 1 \in 1..rio_cnt /\ got + 1 <= call.size
    BY <1>2, CharsAre
  <2> QED  BY <1>2, <2>1, CharsAre
<1> QED  BY <1>1, <1>2

LEMMA ReaderWorksHolds ==
  ASSUME PipeInv, Reader!Works \/ Reader!Hindered, UNCHANGED <<vars, closed, style>>
  PROVE  ReaderInv'
<1>1. CASE Reader!ReadSome
  BY <1>1, ReadSomeHolds
<1>2. CASE Reader!ReadEof \/ Reader!ReadFails
  BY <1>2, ReadEndsHold
<1>3. CASE Reader!CopyBytes \/ Reader!CopyChar
  <2>1. PICK k \in 1..rio_cnt :
          /\ got + k <= call.size /\ Reader!Copy(k)
          /\ call.op = "line" => /\ k = 1 /\ got + 1 < call.size
                                 /\ rio_buf[rio_bufptr] # Newline
    BY <1>3, CopiedIs
  <2>2. Busy /\ call.op \in {"line", "bytes"} /\ rio_cnt > 0
    BY <1>3, CopiedIs
  <2> QED  BY <2>1, <2>2, CopyHolds
<1>4. CASE Reader!CopyNothing \/ Reader!CopyWild
  <2>1. /\ call' \in {Reader!Idle, Reader!Killed} /\ count' \in {got, -1, count}
        /\ UNCHANGED <<pos, rio_buf, rio_bufptr, rio_cnt, got>>
        /\ dest' \in {dest, [j \in Reader!UsrIndex |-> IF j >= got THEN Junk ELSE dest[j]]}
    BY <1>4 DEF Reader!CopyNothing, Reader!CopyWild, Reader!Return, Reader!rio
  <2>2. dest' = [j \in Reader!UsrIndex |-> dest'[j]]
    BY <2>1, ReaderFinds
  <2> QED  BY <2>1, <2>2, AloneHolds
<1>5. CASE Reader!CopyNewline
  BY <1>5, NewlineHolds
<1>6. CASE Reader!Full \/ Reader!RawEof \/ Reader!RawFails
  <2>1. /\ call' \in {Reader!Idle, Reader!Killed} /\ count' \in {got, -1, count}
        /\ dest' \in {dest, [dest EXCEPT ![got] = Nul]}
        /\ UNCHANGED <<pos, rio_buf, rio_bufptr, rio_cnt, got>>
    BY <1>6 DEF Reader!Full, Reader!RawEof, Reader!RawFails, Reader!RawEnds,
                Reader!Return, Reader!rio
  <2>2. dest' = [j \in Reader!UsrIndex |-> dest'[j]]
    BY <2>1, ReaderFinds
  <2> QED  BY <2>1, <2>2, AloneHolds
<1>7. CASE Reader!RawSome
  BY <1>7, RawSomeHolds
<1>8. CASE Reader!ReadInterrupted
  BY <1>8, InterruptedHolds
<1> QED
  BY <1>1, <1>2, <1>3, <1>4, <1>5, <1>6, <1>7, <1>8 DEF Reader!Works, Reader!Hindered

LEMMA PipeStepHolds == PipeInv /\ [PipeNext]_pipeVars => PipeInv'
<1> SUFFICES ASSUME PipeInv, [PipeNext]_pipeVars PROVE PipeInv'  OBVIOUS
<1>1. IInv /\ ReaderInv /\ closed \in BOOLEAN
  BY DEF PipeInv, ReaderInv, ReaderTyped
<1>2. CASE WriterSteps
  BY <1>1, <1>2, StepHolds, ReaderKept DEF WriterSteps, PipeInv
<1>3. CASE Close
  <2>1. UNCHANGED vars /\ closed' \in BOOLEAN /\ UNCHANGED <<style, readerVars>>
    BY <1>3 DEF Close
  <2> QED  BY <1>1, <2>1, StepHolds, ReaderKept DEF PipeInv
<1>4. CASE ReaderCalls
  <2>1. UNCHANGED vars
    BY <1>4 DEF ReaderCalls
  <2> QED  BY <1>1, <1>4, <2>1, StepHolds, ReaderStarts DEF PipeInv
<1>5. CASE ReaderWorks \/ ReaderHindered
  <2>1. UNCHANGED <<vars, closed, style>> /\ (Reader!Works \/ Reader!Hindered)
    BY <1>5 DEF ReaderWorks, ReaderHindered
  <2> QED  BY <1>1, <2>1, StepHolds, ReaderWorksHolds DEF PipeInv
<1>6. CASE BothEnded \/ UNCHANGED pipeVars
  <2>1. UNCHANGED <<vars, closed, style, readerVars>>
    BY <1>6 DEF pipeVars, BothEnded
  <2> QED  BY <1>1, <2>1, StepHolds, ReaderKept DEF PipeInv
<1> QED  BY <1>2, <1>3, <1>4, <1>5, <1>6 DEF PipeNext

LEMMA PipeInitHolds == PipeInit => PipeInv
BY InitHolds, ReaderInvInit DEF PipeInit, PipeInv

(* Both ends keep what they have to, in every run.                         *)
LEMMA PipeInvariant == PipeSpec => []PipeInv
<1>1. PipeInit => PipeInv  BY PipeInitHolds
<1>2. PipeInv /\ [PipeNext]_pipeVars => PipeInv'  BY PipeStepHolds
<1> QED  BY <1>1, <1>2, PTL DEF PipeSpec

(* rio_writen, with a reader that reads while it writes: what the kernel   *)
(* has taken is a prefix of the message, each byte once.                   *)
THEOREM PipeWritesExactly == PipeSpec => []WireIsPrefix
<1>1. PipeInv => WireIsPrefix  BY DEF PipeInv, IInv
<1> QED  BY <1>1, PipeInvariant, PTL

(* What is in the rio_t is what read() has returned and no call has handed *)
(* over, after any number of refills, errors and interruptions.            *)
THEOREM BufferHoldsTheRest == PipeSpec => []BufferIsStream
<1>1. PipeInv => BufferIsStream  BY DEF PipeInv, ReaderInv
<1> QED  BY <1>1, PipeInvariant, PTL

-----------------------------------------------------------------------------
(* The caller's buffer.                                                    *)

(* What StaysInUsrbuf says of a step.                                      *)
InUsrbuf ==
  /\ call' # Reader!Killed =>
       \A j \in Reader!UsrIndex : j >= Reader!MayStore(call) => dest'[j] = dest[j]
  /\ call' = Reader!Killed =>
       call = Reader!Killed \/ (call.op = "bytes" /\ call.size > Reader!IntMax)
  /\ call.op = "line" /\ call' = Reader!Idle /\ count' > 0 =>
       count' < call.size /\ dest'[count'] = Nul

(* A program that is not killed goes on, or has ended its call.            *)
LEMMA NotKilled ==
  /\ Busy => call # Reader!Killed
  /\ call' = Reader!Idle => call' # Reader!Killed
BY DEF Busy, Reader!Idle, Reader!Killed

(* Nothing is stored, and no line ends.                                    *)
LEMMA DestAlone ==
  ASSUME dest' = dest, call' = Reader!Killed => call = Reader!Killed,
         call' = Reader!Idle => count' = -1 \/ call.op # "line"
  PROVE  InUsrbuf
BY DEF InUsrbuf

LEMMA CopyInUsrbuf ==
  ASSUME PipeInv, Busy, NEW src, NEW from \in Int, NEW k \in Nat,
         got + k <= call.size, call' = call,
         \A i \in 0..(k - 1) : src[from + i] = wire[pos - Unread + i + 1],
         dest' = Reader!Stored(src, from, k)
  PROVE  InUsrbuf
<1> DEFINE s == Reader!Stored(src, from, k)
<1>1. /\ s = [j \in Reader!UsrIndex |-> s[j]]
      /\ \A j \in Reader!UsrIndex : j >= got + k => s[j] = dest[j]
      /\ \A j \in 1..got : s[j - 1] = dest[j - 1]
      /\ \A j \in 1..(got + k) : s[j - 1] = wire[pos - Unread - got + j]
  BY StoredIs, Zenon
<1>2. dest' = s
  OBVIOUS
<1> HIDE DEF s
<1>3. got \in Nat /\ call.size \in 0..UsrSize /\ UsrSize \in Nat
  BY ReaderFinds
<1>4. ASSUME NEW j \in Reader!UsrIndex, j >= Reader!MayStore(call) PROVE dest'[j] = dest[j]
  <2>1. j >= got + k
    BY <1>3, <1>4 DEF Reader!UsrIndex, Reader!MayStore
  <2> QED  BY <1>1, <1>2, <2>1
<1> QED  BY <1>4, NotKilled DEF InUsrbuf, Busy

(* A line that ends with the terminator at its end.                        *)
LEMMA TerminatedInUsrbuf ==
  ASSUME PipeInv, Busy, call.op = "line", count' = got, call' = Reader!Idle,
         dest' = [dest EXCEPT ![got] = Nul]
  PROVE  InUsrbuf
<1>1. /\ got \in Nat /\ call.size \in 0..UsrSize /\ UsrSize \in Nat
      /\ got < call.size \/ got = 0
      /\ dest = [j \in Reader!UsrIndex |-> dest[j]]
  BY ReaderFinds DEF HasRoom
<1>2. got \in Reader!UsrIndex
  BY <1>1 DEF Reader!UsrIndex
<1>3. dest'[got] = Nul
  BY <1>1, <1>2
<1>4. ASSUME NEW j \in Reader!UsrIndex, j >= Reader!MayStore(call) PROVE dest'[j] = dest[j]
  <2>1. j # got
    BY <1>1, <1>4 DEF Reader!MayStore, Reader!UsrIndex
  <2> QED  BY <1>1, <2>1
<1>5. count' > 0 => count' < call.size
  BY <1>1
<1> QED  BY <1>3, <1>4, <1>5, NotKilled DEF InUsrbuf

LEMMA FullIsBusy == Reader!Full => Busy
BY DEF Reader!Full, Reader!Ops, Busy, Reader!Idle, Reader!Killed

LEMMA WorksInUsrbuf ==
  ASSUME PipeInv, Reader!Works \/ Reader!Hindered
  PROVE  InUsrbuf
<1>1. CASE Reader!ReadSome \/ Reader!ReadInterrupted
  <2>1. dest' = dest /\ call' = call /\ Busy
    BY <1>1, Refilling DEF Reader!ReadSome, Reader!ReadInterrupted
  <2> QED  BY <2>1, DestAlone DEF Busy
<1>2. CASE Reader!ReadFails \/ Reader!RawFails
  <2>1. dest' = dest /\ count' = -1 /\ call' = Reader!Idle
    BY <1>2 DEF Reader!ReadFails, Reader!RawFails, Reader!RawEnds, Reader!Return
  <2> QED  BY <2>1, NotKilled, DestAlone
<1>3. CASE Reader!ReadEof
  <2>1. /\ Reader!Refills /\ count' = got /\ call' = Reader!Idle
        /\ dest' = IF call.op = "line" /\ got > 0 THEN [dest EXCEPT ![got] = Nul] ELSE dest
    BY <1>3 DEF Reader!ReadEof, Reader!Return
  <2>2. Busy /\ got \in Nat
    BY <2>1, Refilling, ReaderFinds
  <2>3. CASE call.op = "line" /\ got > 0
    BY <2>1, <2>2, <2>3, TerminatedInUsrbuf
  <2>4. CASE ~(call.op = "line" /\ got > 0)
    BY <2>1, <2>2, <2>4, NotKilled DEF InUsrbuf
  <2> QED  BY <2>3, <2>4
<1>4. CASE Reader!Full
  <2>1. /\ Busy /\ count' = got /\ call' = Reader!Idle
        /\ dest' = IF call.op = "line" THEN [dest EXCEPT ![got] = Nul] ELSE dest
    BY <1>4, FullIsBusy DEF Reader!Full, Reader!Return
  <2>2. CASE call.op = "line"
    BY <2>1, <2>2, TerminatedInUsrbuf
  <2>3. CASE call.op # "line"
    BY <2>1, <2>3, NotKilled, DestAlone
  <2> QED  BY <2>2, <2>3
<1>5. CASE Reader!RawEof \/ Reader!CopyNothing
  <2>1. dest' = dest /\ call.op \in {"raw", "bytes"} /\ call' = Reader!Idle
    BY <1>5 DEF Reader!RawEof, Reader!RawEnds, Reader!CopyNothing, Reader!Holds, Reader!Return
  <2> QED  BY <2>1, NotKilled, DestAlone
<1>6. CASE Reader!CopyBytes \/ Reader!CopyChar
  <2>2. Busy /\ rio_cnt > 0
    BY <1>6, CopiedIs
  <2>3. /\ rio_cnt \in Int /\ got \in Nat /\ rio_bufptr \in Nat /\ Unread = rio_cnt
        /\ \A i \in 0..(Unread - 1) : rio_buf[rio_bufptr + i] = wire[pos - Unread + i + 1]
    BY <2>2, ReaderFinds
  <2>4. PICK k \in 1..rio_cnt : got + k <= call.size /\ Reader!Copy(k)
    BY <1>6, CopiedIs
  <2>5. dest' = Reader!Stored(rio_buf, rio_bufptr, k) /\ call' = call
    BY <2>4 DEF Reader!Copy
  <2>6. \A i \in 0..(k - 1) : rio_buf[rio_bufptr + i] = wire[pos - Unread + i + 1]
    BY <2>3
  <2>7. k \in Nat /\ rio_bufptr \in Int
    BY <2>3
  <2> QED  BY <2>2, <2>4, <2>5, <2>6, <2>7, CopyInUsrbuf
<1>7. CASE Reader!CopyNewline
  <2>1. /\ got \in Nat /\ got + 1 < call.size /\ count' = got + 1
        /\ dest'[got + 1] = Nul /\ call.size \in 0..UsrSize /\ UsrSize \in Nat
        /\ \A j \in Reader!UsrIndex : j > got + 1 => dest'[j] = dest[j]
    BY <1>7, NewlineCopied
  <2>2. ASSUME NEW j \in Reader!UsrIndex, j >= Reader!MayStore(call) PROVE dest'[j] = dest[j]
    <3>1. j > got + 1
      BY <2>1, <2>2 DEF Reader!UsrIndex, Reader!MayStore
    <3> QED  BY <2>1, <3>1
  <2>3. call' = Reader!Idle
    BY <1>7, NewlineCopied
  <2> QED  BY <2>1, <2>2, <2>3, NotKilled DEF InUsrbuf
<1>8. CASE Reader!RawSome
  <2>1. /\ call.op = "raw" /\ got < call.size /\ call' = call
    BY <1>8 DEF Reader!RawSome, Reader!WantsMore
  <2>2. Busy
    BY <2>1 DEF Busy, Reader!Idle, Reader!Killed
  <2>3. PICK k \in 1..Reader!Lesser(call.size - got, Len(wire) - pos) :
          dest' = Reader!Stored(wire, pos + 1, k)
    BY <1>8 DEF Reader!RawSome
  <2>4. /\ call.size \in 0..UsrSize /\ HasRoom /\ got \in Nat /\ pos \in 0..Len(wire)
        /\ Len(wire) \in Nat /\ Unread = 0
    BY <2>1, <2>2, ReaderFinds DEF HasRoom
  <2>5. k \in Nat /\ got + k <= call.size
    BY <2>3, <2>4 DEF Reader!Lesser
  <2>6. \A i \in 0..(k - 1) : wire[(pos + 1) + i] = wire[pos - Unread + i + 1]
    BY <2>4, <2>5
  <2>7. pos + 1 \in Int
    BY <2>4
  <2> QED  BY <2>1, <2>2, <2>3, <2>5, <2>6, <2>7, CopyInUsrbuf
<1>9. CASE Reader!CopyWild
  <2>1. Reader!Holds /\ Reader!Copied < 0 /\ call' = Reader!Killed
    BY <1>9 DEF Reader!CopyWild
  <2>2. call.op = "bytes" /\ call.size > Reader!IntMax
    BY <2>1, HoldsBytes
  <2> QED  BY <2>1, <2>2 DEF InUsrbuf
<1> QED
  BY <1>1, <1>2, <1>3, <1>4, <1>5, <1>6, <1>7, <1>8, <1>9 DEF Reader!Works, Reader!Hindered

(* No call writes past the size it was given, terminator included, but a   *)
(* rio_readlineb of size 0 and a rio_readnb of more than IntMax bytes in   *)
(* which the program is killed; and a line that was read is terminated     *)
(* behind its last byte.                                                   *)
THEOREM CallsStayInUsrbuf == PipeSpec => StaysInUsrbuf
<1>1. PipeInv /\ [PipeNext]_pipeVars => [InUsrbuf]_Reader!vars
  <2> SUFFICES ASSUME PipeInv, [PipeNext]_pipeVars, ~UNCHANGED Reader!vars PROVE InUsrbuf
    OBVIOUS
  <2>1. CASE ReaderWorks \/ ReaderHindered
    BY <2>1, WorksInUsrbuf DEF ReaderWorks, ReaderHindered
  <2>2. CASE ReaderCalls
    <3>1. PICK c \in Calls : Reader!Start(c)
      BY <2>2 DEF ReaderCalls
    <3>2. dest' = dest /\ call' = c /\ c # Reader!Idle /\ c # Reader!Killed
      BY <3>1, CallsAre DEF Reader!Start
    <3> QED  BY <3>2, DestAlone
  <2>3. CASE WriterSteps \/ Close
    <3>1. dest' = dest /\ call' = call /\ count' = count
      BY <2>3 DEF WriterSteps, Close, readerVars
    <3>2. call = Reader!Idle => call.op # "line"
      BY DEF Reader!Idle
    <3> QED  BY <3>1, <3>2, DestAlone
  <2>4. CASE BothEnded \/ UNCHANGED pipeVars
    BY <2>4 DEF BothEnded, pipeVars, vars, readerVars, Reader!vars, Reader!rio
  <2> QED  BY <2>1, <2>2, <2>3, <2>4 DEF PipeNext
<1>2. [][InUsrbuf]_Reader!vars => StaysInUsrbuf
  BY PTL DEF StaysInUsrbuf, Reader!StaysInUsrbuf, InUsrbuf
<1> QED  BY <1>1, <1>2, PipeInvariant, PTL DEF PipeSpec

-----------------------------------------------------------------------------
(* The contract: each step of the pipe is one of RioContract's or nothing  *)
(* to its caller.                                                          *)

(* Where the piece of the call in progress begins.                         *)
From == pos - Unread - got

LEMMA TakenIs ==
  /\ call # Reader!Idle => Reader!Taken = From
  /\ call' # Reader!Idle => Reader!Taken' = From'
  /\ call # Reader!Idle => Reader!Piece = <<>>
  /\ call' # Reader!Idle => Reader!Piece' = <<>>
  /\ call = Reader!Idle /\ pos - Unread \in Int => Reader!Taken = pos - Unread
  /\ call' = Reader!Idle /\ pos' - Unread' \in Int => Reader!Taken' = pos' - Unread'
BY DEF Reader!Taken, Reader!Piece, From, Unread, Reader!Idle

LEMMA NamesAre ==
  /\ Reader!Idle = Reader!Contract!Idle
  /\ Reader!Killed = Reader!Contract!Killed
  /\ Reader!Contract!NoInt <=> call.op \in {"line", "bytes"} /\ call.size > Reader!IntMax
BY DEF Reader!Idle, Reader!Contract!Idle, Reader!Killed, Reader!Contract!Killed,
       Reader!Contract!NoInt

(* Nothing that a caller sees changes.                                     *)
LEMMA CallerSeesNothing ==
  ASSUME UNCHANGED <<wire, closed, call, count>>,
         Reader!Taken' = Reader!Taken, Reader!Piece' = Reader!Piece
  PROVE  UNCHANGED Reader!Contract!vars
BY DEF Reader!Contract!vars

LEMMA ContractBegins == PipeInit => Reader!Contract!Init
<1> SUFFICES ASSUME PipeInit PROVE Reader!Contract!Init  OBVIOUS
<1>1. /\ wire = <<>> /\ closed = FALSE /\ pos = 0 /\ rio_cnt = 0 /\ count = 0
      /\ call = Reader!Idle
  BY DEF PipeInit, Init, Reader!Init, Reader!rio_readinitb
<1>2. Reader!Taken = 0
  BY <1>1 DEF Reader!Taken, Reader!Unread
<1>3. Reader!Piece = <<>>
  <2>1. Reader!Piece = [i \in 1..0 |-> dest[i - 1]]
    BY <1>1 DEF Reader!Piece
  <2>2. [i \in 1..0 |-> dest[i - 1]] = <<>>
    OBVIOUS
  <2> QED  BY <2>1, <2>2
<1> QED  BY <1>1, <1>2, <1>3, NamesAre DEF Reader!Contract!Init

(* The writer's steps are what arrives.                                    *)
LEMMA WriterArrives ==
  ASSUME PipeInv, WriterSteps \/ Close
  PROVE  Reader!Contract!Next
<1>1. [Next]_vars /\ UNCHANGED readerVars /\ ~closed /\ closed' \in BOOLEAN
  <2>1. closed \in BOOLEAN
    BY ReaderFinds
  <2>2. [Next]_vars /\ UNCHANGED readerVars
    BY DEF WriterSteps, Close
  <2>3. ~closed /\ (closed' = closed \/ closed' = TRUE)
    BY DEF WriterSteps, Close
  <2>4. closed' \in BOOLEAN
    BY <2>1, <2>3
  <2> QED  BY <2>2, <2>3, <2>4
<1>2. /\ Len(wire') >= Len(wire) /\ SubSeq(wire', 1, Len(wire)) = wire
  BY <1>1, WireGrows DEF PipeInv
<1>3. UNCHANGED <<call, count>> /\ Reader!Taken' = Reader!Taken /\ Reader!Piece' = Reader!Piece
  BY <1>1 DEF readerVars, Reader!Taken, Reader!Piece, Reader!Unread
<1> QED  BY <1>1, <1>2, <1>3 DEF Reader!Contract!Next, Reader!Contract!Arrive

LEMMA CallStarts ==
  ASSUME PipeInv, ReaderCalls
  PROVE  Reader!Contract!Next
<1>1. PICK c \in Calls : Reader!Start(c)
  BY DEF ReaderCalls
<1>2. /\ call = Reader!Idle /\ call' = c /\ got' = 0
      /\ UNCHANGED <<wire, closed, pos, rio_cnt, count>>
  BY <1>1 DEF Reader!Start, Reader!rio, ReaderCalls, vars
<1>3. c # Reader!Idle
  BY CallsAre
<1>4. pos \in Nat /\ Unread \in Nat /\ Unread' = Unread
  BY <1>2, ReaderFinds DEF Unread, Reader!Unread
<1>5. Reader!Taken = pos - Unread
  BY <1>2, <1>4, TakenIs
<1>6. Reader!Taken' = From' /\ Reader!Piece' = <<>>
  BY <1>2, <1>3, TakenIs
<1>7. From' = pos - Unread
  BY <1>2, <1>4 DEF From
<1> QED
  BY <1>2, <1>5, <1>6, <1>7, NamesAre DEF Reader!Contract!Next, Reader!Contract!Start

(* A call that is not over shows its caller nothing, as long as what it    *)
(* takes goes into the caller's buffer.                                    *)
LEMMA CallGoesOn ==
  ASSUME Busy, UNCHANGED <<wire, closed, call, count>>, From' = From
  PROVE  UNCHANGED Reader!Contract!vars
<1>1. call # Reader!Idle /\ call' # Reader!Idle
  BY DEF Busy
<1> QED  BY <1>1, TakenIs, CallerSeesNothing

(* What makes the end of a call a step of the contract.                    *)
LEMMA CallFinishes ==
  ASSUME PipeInv, Busy, NEW k \in Nat,
         call' = Reader!Idle, count' = k, UNCHANGED <<wire, closed>>,
         pos' - Unread' = From + k, From + k <= Len(wire),
         \A j \in 1..k : dest'[j - 1] = wire[From + j],
         IF call.op = "line"
           THEN /\ k < call.size \/ k = 0
                /\ \A i \in 1..(k - 1) : wire[From + i] # Newline
                /\ \/ k + 1 >= call.size
                   \/ call.size > Reader!IntMax
                   \/ closed /\ From + k = Len(wire)
                   \/ k > 0 /\ wire[From + k] = Newline
           ELSE /\ k <= call.size
                /\ \/ k = call.size
                   \/ call.op = "bytes" /\ call.size > Reader!IntMax
                   \/ closed /\ From + k = Len(wire)
  PROVE  Reader!Contract!Next
<1>1. From \in Int /\ Len(wire) \in Nat
  BY ReaderFinds DEF From
<1>2. Reader!Taken = From
  BY TakenIs DEF Busy
<1>3. Reader!Taken' = From + k
  BY <1>1, TakenIs
<1>4. Reader!Piece' = [i \in 1..k |-> wire[From + i]]
  <2>1. Reader!Piece' = [i \in 1..k |-> dest'[i - 1]]
    BY DEF Reader!Piece
  <2> QED  BY <2>1
<1>5. IF call.op = "line" THEN Reader!Contract!IsLine(k) ELSE Reader!Contract!IsBlock(k)
  BY <1>2, NamesAre DEF Reader!Contract!IsLine, Reader!Contract!IsBlock, Reader!Contract!IsAll,
                        Reader!Contract!NoNewline
<1>6. k \in 0..(Len(wire) - Reader!Taken)
  BY <1>1, <1>2
<1>7. Reader!Contract!Finish(k)
  BY <1>2, <1>3, <1>4, <1>5, NamesAre DEF Reader!Contract!Finish, Busy
<1> QED  BY <1>6, <1>7 DEF Reader!Contract!Next

(* A call that fails swallows what it had stored, less than a line or a    *)
(* block.                                                                  *)
LEMMA CallFails ==
  ASSUME PipeInv, Busy, Reader!WantsMore, call' = Reader!Idle, count' = -1,
         UNCHANGED <<wire, closed>>, pos' - Unread' = From + got
  PROVE  Reader!Contract!Next
<1>1. /\ From \in Int /\ Len(wire) \in Nat /\ got \in Nat /\ From + got <= Len(wire)
      /\ call.size \in 0..UsrSize /\ UsrSize \in Nat /\ Held
  BY ReaderFinds DEF From
<1>2. Reader!Taken = From /\ Reader!Piece = <<>>
  BY TakenIs DEF Busy
<1>3. Reader!Taken' = From + got
  BY <1>1, TakenIs
<1>4. Reader!Piece' = <<>>
  BY DEF Reader!Piece
<1>5. got \in 0..(Len(wire) - Reader!Taken)
  BY <1>1, <1>2
<1>6. ASSUME call.op = "line"
      PROVE  got + 1 < call.size /\ Reader!Contract!NoNewline(got)
  <2>1. got + 1 < Reader!CInt(call.size)
    BY <1>6 DEF Reader!WantsMore
  <2>2. got + 1 < call.size
    <3>1. call.size \in Nat
      BY <1>1
    <3> QED  BY <1>1, <2>1, <3>1, CIntIs
  <2>3. \A i \in 1..got : wire[From + i] # Newline
    BY <1>1, <1>6 DEF Held, From
  <2> QED  BY <1>2, <2>2, <2>3 DEF Reader!Contract!NoNewline
<1>7. call.op # "line" => got < call.size
  BY DEF Reader!WantsMore
<1>8. Reader!Contract!Fail(got)
  BY <1>2, <1>3, <1>4, <1>6, <1>7, NamesAre DEF Reader!Contract!Fail, Busy
<1> QED  BY <1>5, <1>8 DEF Reader!Contract!Next

(* A program that is killed leaves the stream as it is.                    *)
LEMMA CallBreaks ==
  ASSUME PipeInv, Reader!CopyWild, UNCHANGED <<vars, closed, style>>
  PROVE  Reader!Contract!Next
<1>1. /\ Reader!Holds /\ Reader!Copied < 0 /\ call' = Reader!Killed
      /\ UNCHANGED <<wire, closed, pos, rio_cnt, got, count>>
  BY DEF Reader!CopyWild, Reader!rio, vars
<1>2. Busy /\ call.op = "bytes" /\ call.size > Reader!IntMax
  BY <1>1, HoldsBytes
<1>3. call # Reader!Idle /\ call' # Reader!Idle
  BY <1>1, <1>2 DEF Busy, Reader!Idle, Reader!Killed
<1>4. From' = From
  BY <1>1 DEF From, Unread, Reader!Unread
<1>5. Reader!Taken' = Reader!Taken /\ Reader!Piece' = Reader!Piece
  BY <1>3, <1>4, TakenIs
<1> QED
  BY <1>1, <1>2, <1>5, NamesAre DEF Reader!Contract!Next, Reader!Contract!Break

(* A line that ends at its length, at the end of the stream, or at its     *)
(* newline; a block that is full or at the end of the stream.              *)
LEMMA ReadEofFinishes ==
  ASSUME PipeInv, Reader!ReadEof, UNCHANGED <<vars, closed, style>>
  PROVE  Reader!Contract!Next
<1>1. /\ Reader!Refills /\ Reader!WantsMore /\ closed /\ pos = Len(wire)
      /\ rio_cnt' = 0 /\ call' = Reader!Idle /\ count' = got
      /\ UNCHANGED <<wire, closed, pos>>
      /\ dest' = IF call.op = "line" /\ got > 0 THEN [dest EXCEPT ![got] = Nul] ELSE dest
  BY DEF Reader!ReadEof, Reader!AtEnd, Reader!Refills, Reader!Return, vars
<1>2. Busy /\ call.op # "raw" /\ rio_cnt <= 0
  BY <1>1, Refilling
<1>3. /\ got \in Nat /\ pos \in Nat /\ Unread = 0 /\ HasRoom /\ Held
      /\ call.size \in 0..UsrSize /\ UsrSize \in Nat
      /\ dest = [j \in Reader!UsrIndex |-> dest[j]]
  BY <1>2, ReaderFinds
<1>4. Unread' = 0
  BY <1>1 DEF Unread, Reader!Unread
<1>5. From = pos - got /\ got <= pos
  BY <1>3 DEF From, Held
<1>6. pos' - Unread' = From + got /\ From + got = Len(wire)
  BY <1>1, <1>3, <1>4, <1>5
<1>7. ASSUME NEW j \in 1..got PROVE dest'[j - 1] = wire[From + j]
  <2>1. dest[j - 1] = wire[From + j]
    BY <1>3 DEF Held, From
  <2>2. j - 1 \in Reader!UsrIndex /\ j - 1 # got
    BY <1>3 DEF Reader!UsrIndex, HasRoom
  <2>3. dest'[j - 1] = dest[j - 1]
    BY <1>1, <1>3, <2>2
  <2> QED  BY <2>1, <2>3
<1>8. ASSUME call.op = "line"
      PROVE  /\ got < call.size \/ got = 0
             /\ \A i \in 1..(got - 1) : wire[From + i] # Newline
  <2>1. \A i \in 1..got : wire[From + i] # Newline
    BY <1>3, <1>8 DEF Held, From
  <2> QED  BY <1>3, <1>8, <2>1 DEF HasRoom
<1>9. got <= call.size
  BY <1>3 DEF HasRoom
<1>10. From + got <= Len(wire)
  BY <1>3, <1>5, <1>6
<1> QED
  BY <1>1, <1>2, <1>3, <1>6, <1>7, <1>8, <1>9, <1>10, CallFinishes

LEMMA RawEofFinishes ==
  ASSUME PipeInv, Reader!RawEof, UNCHANGED <<vars, closed, style>>
  PROVE  Reader!Contract!Next
<1>1. /\ call.op = "raw" /\ closed /\ pos = Len(wire)
      /\ call' = Reader!Idle /\ count' = got
      /\ UNCHANGED <<wire, closed, pos, rio_cnt, dest>>
  BY DEF Reader!RawEof, Reader!RawEnds, Reader!AtEnd, Reader!Return, Reader!rio, vars
<1>2. Busy
  BY <1>1 DEF Busy, Reader!Idle, Reader!Killed
<1>3. /\ got \in Nat /\ pos \in Nat /\ Unread = 0 /\ HasRoom /\ Held
      /\ call.size \in 0..UsrSize /\ UsrSize \in Nat
  BY <1>1, <1>2, ReaderFinds DEF HasRoom
<1>4. Unread' = 0
  BY <1>1, <1>3 DEF Unread, Reader!Unread
<1>5. pos' - Unread' = From + got /\ From + got = Len(wire) /\ From + got <= Len(wire)
  BY <1>1, <1>3, <1>4 DEF From
<1>6. \A j \in 1..got : dest'[j - 1] = wire[From + j]
  BY <1>1, <1>3 DEF Held, From
<1>7. got <= call.size
  BY <1>3 DEF HasRoom
<1>8. call.op # "line"
  BY <1>1
<1> QED
  BY <1>1, <1>2, <1>3, <1>5, <1>6, <1>7, <1>8, CallFinishes

LEMMA FullFinishes ==
  ASSUME PipeInv, Reader!Full, UNCHANGED <<vars, closed, style>>
  PROVE  Reader!Contract!Next
<1>1. /\ Busy /\ ~Reader!WantsMore
      /\ call' = Reader!Idle /\ count' = got
      /\ UNCHANGED <<wire, closed, pos, rio_cnt>>
      /\ dest' = IF call.op = "line" THEN [dest EXCEPT ![got] = Nul] ELSE dest
  BY FullIsBusy DEF Reader!Full, Reader!Return, Reader!rio, vars
<1>2. /\ got \in Nat /\ pos \in 0..Len(wire) /\ Len(wire) \in Nat /\ Unread \in Nat
      /\ HasRoom /\ Held
      /\ call.size \in 0..UsrSize /\ UsrSize \in Nat /\ call.op \in {"line", "bytes", "raw"}
      /\ dest = [j \in Reader!UsrIndex |-> dest[j]]
  BY <1>1, ReaderFinds
<1>3. Unread' = Unread
  BY <1>1 DEF Unread, Reader!Unread
<1>4. pos' - Unread' = From + got /\ From + got <= Len(wire)
  BY <1>1, <1>2, <1>3 DEF From
<1>5. ASSUME NEW j \in 1..got PROVE dest'[j - 1] = wire[From + j]
  <2>1. dest[j - 1] = wire[From + j]
    BY <1>2 DEF Held, From
  <2>2. j - 1 \in Reader!UsrIndex /\ j - 1 # got
    BY <1>2 DEF Reader!UsrIndex, HasRoom
  <2>3. dest'[j - 1] = dest[j - 1]
    BY <1>1, <1>2, <2>2
  <2> QED  BY <2>1, <2>3
<1>6. ASSUME call.op = "line"
      PROVE  /\ got < call.size \/ got = 0
             /\ got + 1 >= call.size \/ call.size > Reader!IntMax
             /\ \A i \in 1..(got - 1) : wire[From + i] # Newline
  <2>1. \A i \in 1..got : wire[From + i] # Newline
    BY <1>2, <1>6 DEF Held, From
  <2>2. (got < call.size \/ got = 0) /\ ~(got + 1 < Reader!CInt(call.size))
    BY <1>1, <1>2, <1>6 DEF HasRoom, Reader!WantsMore
  <2>3. got + 1 >= call.size \/ call.size > Reader!IntMax
    <3>1. call.size \in Nat /\ Reader!IntMax \in Int
      BY <1>2, PipeAssumption DEF Reader!RioAssumption, Reader!IntMax
    <3> QED  BY <1>2, <2>2, <3>1, CIntIs
  <2> QED  BY <1>2, <2>1, <2>2, <2>3
<1>7. ASSUME call.op # "line" PROVE got <= call.size /\ got = call.size
  <2>1. got <= call.size /\ ~(got < call.size)
    BY <1>1, <1>2, <1>7 DEF HasRoom, Reader!WantsMore
  <2> QED  BY <1>2, <2>1
<1> QED
  BY <1>1, <1>2, <1>4, <1>5, <1>6, <1>7, CallFinishes

(* A block of no bytes, or the rest of one: the stream has not ended, and  *)
(* the size is no int.                                                     *)
LEMMA NothingFinishes ==
  ASSUME PipeInv, Reader!CopyNothing, UNCHANGED <<vars, closed, style>>
  PROVE  Reader!Contract!Next
<1>1. /\ Reader!Holds /\ Reader!Copied = 0 /\ call' = Reader!Idle /\ count' = got
      /\ UNCHANGED <<wire, closed, pos, rio_cnt, dest>>
  BY DEF Reader!CopyNothing, Reader!Return, Reader!rio, vars
<1>2. Busy /\ call.op = "bytes" /\ call.size > Reader!IntMax
  BY <1>1, HoldsBytes
<1>3. /\ got \in Nat /\ pos \in 0..Len(wire) /\ Len(wire) \in Nat /\ Unread \in Nat
      /\ HasRoom /\ Held
  BY <1>2, ReaderFinds
<1>4. Unread' = Unread
  BY <1>1 DEF Unread, Reader!Unread
<1>5. pos' - Unread' = From + got /\ From + got <= Len(wire)
  BY <1>1, <1>3, <1>4 DEF From
<1>6. \A j \in 1..got : dest'[j - 1] = wire[From + j]
  BY <1>1, <1>3 DEF Held, From
<1>7. got <= call.size /\ call.op # "line"
  BY <1>2, <1>3 DEF HasRoom
<1> QED
  BY <1>1, <1>2, <1>3, <1>5, <1>6, <1>7, CallFinishes

LEMMA NewlineFinishes ==
  ASSUME PipeInv, Reader!CopyNewline, UNCHANGED <<vars, closed, style>>
  PROVE  Reader!Contract!Next
<1>1. /\ Busy /\ call.op = "line"
      /\ got \in Nat /\ got + 1 < call.size
      /\ rio_cnt > 0 /\ rio_cnt \in Int /\ Unread = rio_cnt /\ Unread' = Unread - 1
      /\ \A j \in 1..(got + 1) : dest'[j - 1] = wire[pos - Unread - got + j]
      /\ \A j \in 1..got : dest'[j - 1] # Newline
      /\ dest'[got] = Newline
      /\ count' = got + 1 /\ call' = Reader!Idle
      /\ UNCHANGED <<wire, closed, pos>>
  BY NewlineCopied
<1>2. pos \in 0..Len(wire) /\ Len(wire) \in Nat /\ From \in Int
  BY <1>1, ReaderFinds DEF From
<1>3. pos' - Unread' = From + (got + 1) /\ From + (got + 1) <= Len(wire) /\ got + 1 \in Nat
  <2>1. /\ got \in Nat /\ pos \in Nat /\ pos' = pos /\ Unread' = Unread - 1
        /\ Unread \in Nat /\ Unread > 0 /\ pos <= Len(wire) /\ Len(wire) \in Nat
    BY <1>1, <1>2
  <2>2. From = pos - Unread - got
    BY DEF From
  <2>3. From + (got + 1) = pos - Unread + 1
    BY <2>1, <2>2
  <2>4. pos' - Unread' = pos - Unread + 1
    BY <2>1
  <2>5. pos - Unread + 1 <= Len(wire)
    BY <2>1
  <2> QED  BY <2>1, <2>3, <2>4, <2>5
<1>4. \A j \in 1..(got + 1) : dest'[j - 1] = wire[From + j]
  BY <1>1 DEF From
<1>5. ASSUME NEW i \in 1..((got + 1) - 1) PROVE wire[From + i] # Newline
  <2>1. i \in 1..got /\ i \in 1..(got + 1)
    BY <1>1
  <2> QED  BY <1>1, <1>4, <2>1
<1>6. wire[From + (got + 1)] = Newline
  <2>1. got + 1 \in 1..(got + 1) /\ (got + 1) - 1 = got
    BY <1>1
  <2> QED  BY <1>1, <1>4, <2>1
<1>7. got + 1 > 0
  BY <1>1
<1> QED
  BY <1>1, <1>3, <1>4, <1>5, <1>6, <1>7, CallFinishes

LEMMA ReaderMeetsContract ==
  ASSUME PipeInv, Reader!Works \/ Reader!Hindered, UNCHANGED <<vars, closed, style>>
  PROVE  [Reader!Contract!Next]_(Reader!Contract!vars)
<1>0. wire' = wire /\ closed' = closed
  BY DEF vars
<1>1. CASE Reader!ReadEof
  BY <1>1, ReadEofFinishes
<1>2. CASE Reader!RawEof
  BY <1>2, RawEofFinishes
<1>3. CASE Reader!Full
  BY <1>3, FullFinishes
<1>4. CASE Reader!CopyNewline
  BY <1>4, NewlineFinishes
<1>5. CASE Reader!ReadFails
  <2>1. /\ Reader!Refills /\ Reader!WantsMore
        /\ rio_cnt' = -1 /\ call' = Reader!Idle /\ count' = -1 /\ pos' = pos
    BY <1>5 DEF Reader!ReadFails, Reader!Refills, Reader!Return
  <2>2. Busy /\ rio_cnt <= 0
    BY <2>1, Refilling
  <2>3. pos \in Nat /\ got \in Nat /\ Unread = 0 /\ Unread' = 0
    BY <2>1, <2>2, ReaderFinds DEF Unread, Reader!Unread
  <2>4. pos' - Unread' = From + got
    BY <2>1, <2>3 DEF From
  <2> QED  BY <1>0, <2>1, <2>2, <2>4, CallFails
<1>6. CASE Reader!RawFails
  <2>1. /\ call.op = "raw" /\ Reader!WantsMore
        /\ UNCHANGED <<pos, rio_cnt>> /\ call' = Reader!Idle /\ count' = -1
    BY <1>6 DEF Reader!RawFails, Reader!RawEnds, Reader!Return, Reader!rio
  <2>2. Busy
    BY <2>1 DEF Busy, Reader!Idle, Reader!Killed
  <2>3. pos \in Nat /\ got \in Nat /\ Unread \in Nat /\ Unread' = Unread
    BY <2>1, <2>2, ReaderFinds DEF Unread, Reader!Unread
  <2>4. pos' - Unread' = From + got
    BY <2>1, <2>3 DEF From
  <2> QED  BY <1>0, <2>1, <2>2, <2>4, CallFails
<1>11. CASE Reader!CopyNothing
  BY <1>11, NothingFinishes
<1>12. CASE Reader!CopyWild
  BY <1>12, CallBreaks
<1>7. CASE Reader!ReadSome
  <2>1. Reader!Refills /\ UNCHANGED <<call, count, got>>
    BY <1>7 DEF Reader!ReadSome
  <2>2. Busy /\ rio_cnt <= 0
    BY <2>1, Refilling
  <2>3. pos \in 0..Len(wire) /\ Len(wire) \in Nat /\ got \in Nat /\ Unread = 0 /\ BufSize \in Nat
    BY <2>2, ReaderFinds
  <2>4. PICK k \in 1..Reader!Lesser(BufSize, Len(wire) - pos) : rio_cnt' = k /\ pos' = pos + k
    BY <1>7 DEF Reader!ReadSome
  <2>5. k \in Nat /\ k > 0
    BY <2>3, <2>4 DEF Reader!Lesser
  <2>6. Unread' = k
    BY <2>4, <2>5 DEF Unread, Reader!Unread
  <2>7. From' = From
    BY <2>1, <2>3, <2>4, <2>5, <2>6 DEF From
  <2> QED  BY <1>0, <2>1, <2>2, <2>7, CallGoesOn
<1>8. CASE Reader!ReadInterrupted
  <2>1. Reader!Refills /\ UNCHANGED <<call, count, got, pos>> /\ rio_cnt' = -1
    BY <1>8 DEF Reader!ReadInterrupted
  <2>2. Busy /\ rio_cnt <= 0
    BY <2>1, Refilling
  <2>3. Unread = 0 /\ Unread' = 0
    BY <2>1, <2>2, ReaderFinds DEF Unread, Reader!Unread
  <2>4. From' = From
    BY <2>1, <2>3 DEF From
  <2> QED  BY <1>0, <2>1, <2>2, <2>4, CallGoesOn
<1>9. CASE Reader!CopyBytes \/ Reader!CopyChar
  <2>2. Busy /\ rio_cnt > 0
    BY <1>9, CopiedIs
  <2>3. rio_cnt \in Int /\ got \in Nat /\ pos \in Nat /\ Unread = rio_cnt
    BY <2>2, ReaderFinds
  <2>4. PICK k \in 1..rio_cnt : Reader!Copy(k)
    BY <1>9, CopiedIs
  <2>5. UNCHANGED <<pos, call, count>> /\ rio_cnt' = rio_cnt - k /\ got' = got + k
    BY <2>4 DEF Reader!Copy
  <2>6. Unread' = Unread - k
    BY <2>3, <2>5 DEF Unread, Reader!Unread
  <2>7. From' = From
    BY <2>3, <2>5, <2>6 DEF From
  <2> QED  BY <1>0, <2>2, <2>5, <2>7, CallGoesOn
<1>10. CASE Reader!RawSome
  <2>1. call.op = "raw" /\ got < call.size /\ UNCHANGED <<call, count, rio_cnt>>
    BY <1>10 DEF Reader!RawSome, Reader!WantsMore, Reader!rio
  <2>2. Busy
    BY <2>1 DEF Busy, Reader!Idle, Reader!Killed
  <2>3. PICK k \in 1..Reader!Lesser(call.size - got, Len(wire) - pos) :
          pos' = pos + k /\ got' = got + k
    BY <1>10 DEF Reader!RawSome
  <2>4. /\ call.size \in 0..UsrSize /\ UsrSize \in Nat /\ got \in Nat
        /\ pos \in 0..Len(wire) /\ Len(wire) \in Nat /\ Unread \in Nat
    BY <2>1, <2>2, ReaderFinds
  <2>5. k \in Nat
    BY <2>3, <2>4 DEF Reader!Lesser
  <2>6. Unread' = Unread
    BY <2>1 DEF Unread, Reader!Unread
  <2>7. From' = From
    BY <2>3, <2>4, <2>5, <2>6 DEF From
  <2> QED  BY <1>0, <2>1, <2>2, <2>7, CallGoesOn
<1> QED
  BY <1>1, <1>2, <1>3, <1>4, <1>5, <1>6, <1>7, <1>8, <1>9, <1>10, <1>11, <1>12
  DEF Reader!Works, Reader!Hindered

(* The calls hand over the stream piece by piece, nothing repeated or      *)
(* reordered: each line ends at its newline, at its length or at the end   *)
(* of the stream, and each block is full unless the stream ends, whatever  *)
(* read() does and however the writer's bytes come.  A call that fails     *)
(* loses less than its own line or block, and a size above IntMax of the   *)
(* buffered functions cuts the piece, or kills the program.                *)
THEOREM PiecesAreTheStream == PipeSpec => HandsOverTheStream
<1>1. PipeInit => Reader!Contract!Init
  BY ContractBegins
<1>2. PipeInv /\ [PipeNext]_pipeVars => [Reader!Contract!Next]_(Reader!Contract!vars)
  <2> SUFFICES ASSUME PipeInv, [PipeNext]_pipeVars
               PROVE  [Reader!Contract!Next]_(Reader!Contract!vars)
    OBVIOUS
  <2>1. CASE WriterSteps \/ Close
    BY <2>1, WriterArrives
  <2>2. CASE ReaderCalls
    BY <2>2, CallStarts
  <2>3. CASE ReaderWorks \/ ReaderHindered
    <3>1. UNCHANGED <<vars, closed, style>> /\ (Reader!Works \/ Reader!Hindered)
      BY <2>3 DEF ReaderWorks, ReaderHindered
    <3> QED  BY <3>1, ReaderMeetsContract
  <2>4. CASE BothEnded \/ UNCHANGED pipeVars
    <3>1. UNCHANGED Reader!Contract!vars
      BY <2>4 DEF BothEnded, pipeVars, vars, readerVars, Reader!Contract!vars, Reader!Taken,
                  Reader!Piece, Reader!Unread
    <3> QED  BY <3>1
  <2> QED  BY <2>1, <2>2, <2>3, <2>4 DEF PipeNext
<1> QED
  BY <1>1, <1>2, PipeInvariant, PTL
  DEF PipeSpec, HandsOverTheStream, Reader!HandsOverTheStream, Reader!Contract!Spec
==============================================================================
