-------------------------------- MODULE Rio --------------------------------
(***************************************************************************)
(* The reading half of the Rio package of csapp.c: rio_readlineb and       *)
(* rio_readnb, which share the buffer of a rio_t, and rio_readn, which     *)
(* reads the descriptor directly.  One program makes any sequence of calls *)
(* on one descriptor.  The kernel decides how many bytes a read() returns, *)
(* and whether it is interrupted (EINTR) or fails.  What arrives on the    *)
(* descriptor, and when it ends, is up to the other end (RioPipe).         *)
(***************************************************************************)
EXTENDS Integers, Sequences

CONSTANTS Bytes,      \* the values of a byte
          Newline,    \* '\n'
          Nul,        \* the terminator that rio_readlineb writes
          Junk,       \* what is in memory nobody has written
          BufSize,    \* RIO_BUFSIZE
          Calls,      \* the calls the program makes: [op, size]
          UsrSize,    \* the size of the largest buffer of the caller
          IntMod,     \* 2^32 in the program: the number of values of a C int
          Faults      \* what read() may do: a subset of {"eintr", "error"}

Ops == {"line", "bytes", "raw"}
Idle == [op |-> "idle", size |-> 0]
Killed == [op |-> "killed", size |-> 0]   \* by SIGSEGV

IntMax == (IntMod \div 2) - 1

(* The size of a call is the size of the buffer that it is given; a size_t *)
(* may be more than any int.  rio_cnt is an int, and sizeof(rio_buf) fits. *)
RioAssumption ==
  /\ IntMod \in Nat \ {0}
  /\ BufSize \in 1..IntMax
  /\ Newline \in Bytes /\ Nul \notin Bytes /\ Junk \notin Bytes
  /\ UsrSize \in Nat
  /\ Calls \subseteq [op : Ops, size : 0..UsrSize]

VARIABLES stream,      \* the bytes that have arrived on the descriptor
          ended,       \* whether no more will come
          pos,         \* how many of them read() has returned
          rio_buf, rio_bufptr, rio_cnt,     \* the rio_t
          call,        \* the call in progress, or Idle, or Killed
          usrbuf,      \* the caller's buffer, and one byte behind the largest
          got,         \* bufp - usrbuf: bytes stored by this call
          ret          \* what the last call returned

rio == <<rio_buf, rio_bufptr, rio_cnt>>
vars == <<stream, ended, pos, rio, call, usrbuf, got, ret>>

Index == 0..(BufSize - 1)
UsrIndex == 0..UsrSize
Memory == Bytes \cup {Nul, Junk}
Lesser(a, b) == IF a < b THEN a ELSE b
Unread == IF rio_cnt > 0 THEN rio_cnt ELSE 0

(* (int)n of a size_t *)
CInt(n) == LET m == n % IntMod
           IN  IF m <= IntMax THEN m ELSE m - IntMod

(* read() returns 0 when everything has been read and no more will come;  *)
(* as long as more may come it blocks.                                     *)
AtEnd == ended /\ pos = Len(stream)

-----------------------------------------------------------------------------
(* rio_readinitb; the caller's buffer is not initialized *)
rio_readinitb ==
  /\ rio_buf = [i \in Index |-> Junk]
  /\ rio_bufptr = 0
  /\ rio_cnt = 0

Init ==
  /\ pos = 0
  /\ rio_readinitb
  /\ call = Idle
  /\ usrbuf = [i \in UsrIndex |-> Junk]
  /\ got = 0
  /\ ret = 0

(* The program calls rio_readlineb, rio_readnb or rio_readn. *)
Start(c) ==
  /\ call = Idle
  /\ call' = c
  /\ got' = 0
  /\ UNCHANGED <<stream, ended, pos, rio, usrbuf, ret>>

Return(r) == call' = Idle /\ ret' = r

\* Mutant: the room for the terminator is forgotten.
WantsMoreInclusive ==
  \/ call.op = "line" /\ got < CInt(call.size)
  \/ call.op \in {"bytes", "raw"} /\ got < call.size

(* The loop conditions of the three functions; n is got + 1 in            *)
(* rio_readlineb, which compares it with (int)maxlen, and nleft is        *)
(* size - got, a size_t, in the other two.                                *)
WantsMore ==
  \/ call.op = "line" /\ got + 1 < CInt(call.size)
  \/ call.op \in {"bytes", "raw"} /\ got < call.size

(* bytes of src, from place from on, are stored at bufp *)
Stored(src, from, k) ==
  [j \in UsrIndex |-> IF j \in got..(got + k - 1) THEN src[from + j - got] ELSE usrbuf[j]]

-----------------------------------------------------------------------------
(* rio_read: read() is called only when the buffer is empty *)
Refills == call.op \in {"line", "bytes"} /\ WantsMore /\ rio_cnt <= 0

\* Mutant: "Reset buffer ptr" is missing.
ReadSomeNoReset ==
  /\ Refills
  /\ \E k \in 1..Lesser(BufSize, Len(stream) - pos) :
       /\ rio_buf' = [i \in Index |-> IF i < k THEN stream[pos + i + 1] ELSE rio_buf[i]]
       /\ rio_cnt' = k
       /\ pos' = pos + k
  /\ UNCHANGED <<stream, ended, rio_bufptr, call, usrbuf, got, ret>>

ReadSome ==
  /\ Refills
  /\ \E k \in 1..Lesser(BufSize, Len(stream) - pos) :
       /\ rio_buf' = [i \in Index |-> IF i < k THEN stream[pos + i + 1] ELSE rio_buf[i]]
       /\ rio_cnt' = k
       /\ pos' = pos + k
  /\ rio_bufptr' = 0
  /\ UNCHANGED <<stream, ended, call, usrbuf, got, ret>>

\* Mutant: a count of 0 is taken for "nothing yet".
ReadEofAgain ==
  /\ Refills /\ AtEnd
  /\ rio_cnt' = 0
  /\ UNCHANGED <<stream, ended, pos, rio_buf, rio_bufptr, call, usrbuf, got, ret>>

(* End of file: rio_readnb returns what it has; rio_readlineb as well,     *)
(* terminated, but returns at once when it has nothing.                    *)
ReadEof ==
  /\ Refills /\ AtEnd
  /\ rio_cnt' = 0
  /\ usrbuf' = IF call.op = "line" /\ got > 0 THEN [usrbuf EXCEPT ![got] = Nul] ELSE usrbuf
  /\ Return(got)
  /\ UNCHANGED <<stream, ended, pos, rio_buf, rio_bufptr, got>>

(* EINTR: rio_read calls read() again; rio_cnt keeps the -1 *)
ReadInterrupted ==
  /\ "eintr" \in Faults /\ Refills
  /\ rio_cnt' = -1
  /\ UNCHANGED <<stream, ended, pos, rio_buf, rio_bufptr, call, usrbuf, got, ret>>

(* Any other error ends the call with -1; what it had stored is not         *)
(* reported, and a line is not terminated.                                  *)
ReadFails ==
  /\ "error" \in Faults /\ Refills
  /\ rio_cnt' = -1
  /\ Return(-1)
  /\ UNCHANGED <<stream, ended, pos, rio_buf, rio_bufptr, usrbuf, got>>

(* memcpy at the end of rio_read *)
Copy(k) ==
  /\ usrbuf' = Stored(rio_buf, rio_bufptr, k)
  /\ rio_bufptr' = rio_bufptr + k
  /\ rio_cnt' = rio_cnt - k
  /\ got' = got + k
  /\ UNCHANGED <<stream, ended, pos, rio_buf, call, ret>>

(* cnt in a rio_read of rio_readnb: n is nleft, and becomes an int *)
Holds == call.op = "bytes" /\ WantsMore /\ rio_cnt > 0
Copied == Lesser(CInt(call.size - got), rio_cnt)

CopyBytes == Holds /\ Copied > 0 /\ Copy(Copied)

(* (int)n is 0: rio_read returns 0, which rio_readnb takes for the end *)
CopyNothing ==
  /\ Holds /\ Copied = 0
  /\ Return(got)
  /\ UNCHANGED <<stream, ended, pos, rio, usrbuf, got>>

(* (int)n is negative, and a huge size_t for memcpy, which runs into a     *)
(* page that is not the program's before it stores anything or after.      *)
CopyWild ==
  /\ Holds /\ Copied < 0
  /\ usrbuf' \in {usrbuf, [j \in UsrIndex |-> IF j >= got THEN Junk ELSE usrbuf[j]]}
  /\ call' = Killed
  /\ UNCHANGED <<stream, ended, pos, rio, got, ret>>

CopyChar == /\ call.op = "line" /\ WantsMore /\ rio_cnt > 0
            /\ rio_buf[rio_bufptr] # Newline
            /\ Copy(1)

\* Mutant: the n++ before the break is missing.
CopyNewlineShort ==
  /\ call.op = "line" /\ WantsMore /\ rio_cnt > 0
  /\ rio_buf[rio_bufptr] = Newline
  /\ usrbuf' = [Stored(rio_buf, rio_bufptr, 1) EXCEPT ![got + 1] = Nul]
  /\ rio_bufptr' = rio_bufptr + 1
  /\ rio_cnt' = rio_cnt - 1
  /\ got' = got + 1
  /\ Return(got)
  /\ UNCHANGED <<stream, ended, pos, rio_buf>>

(* the newline: stored, and the loop is left by the break *)
CopyNewline ==
  /\ call.op = "line" /\ WantsMore /\ rio_cnt > 0
  /\ rio_buf[rio_bufptr] = Newline
  /\ usrbuf' = [Stored(rio_buf, rio_bufptr, 1) EXCEPT ![got + 1] = Nul]
  /\ rio_bufptr' = rio_bufptr + 1
  /\ rio_cnt' = rio_cnt - 1
  /\ got' = got + 1
  /\ Return(got + 1)
  /\ UNCHANGED <<stream, ended, pos, rio_buf>>

(* n has reached (int)maxlen, which may be 0 or less, or nleft 0; the      *)
(* terminator is stored without a look at maxlen.                          *)
Full ==
  /\ call.op \in Ops /\ ~WantsMore
  /\ usrbuf' = IF call.op = "line" THEN [usrbuf EXCEPT ![got] = Nul] ELSE usrbuf
  /\ Return(got)
  /\ UNCHANGED <<stream, ended, pos, rio, got>>

-----------------------------------------------------------------------------
(* rio_readn: the same loop on read() itself; EINTR changes nothing at all *)
RawSome ==
  /\ call.op = "raw" /\ WantsMore
  /\ \E k \in 1..Lesser(call.size - got, Len(stream) - pos) :
       /\ usrbuf' = Stored(stream, pos + 1, k)
       /\ pos' = pos + k
       /\ got' = got + k
  /\ UNCHANGED <<stream, ended, rio, call, ret>>

RawEnds(r) ==
  /\ call.op = "raw" /\ WantsMore
  /\ Return(r)
  /\ UNCHANGED <<stream, ended, pos, rio, usrbuf, got>>

RawEof == AtEnd /\ RawEnds(got)
RawFails == "error" \in Faults /\ RawEnds(-1)

Works == \/ ReadSome \/ ReadEof \/ CopyBytes \/ CopyNothing \/ CopyWild \/ CopyChar \/ CopyNewline
         \/ Full \/ RawSome \/ RawEof

Hindered == ReadInterrupted \/ ReadFails \/ RawFails

-----------------------------------------------------------------------------
(* Properties.                                                             *)

Taken == pos - Unread - (IF call = Idle THEN 0 ELSE got)
Piece == IF call = Idle /\ ret >= 0 THEN [i \in 1..ret |-> usrbuf[i - 1]] ELSE <<>>

Contract == INSTANCE RioContract WITH taken <- Taken, piece <- Piece

(* The calls hand over the stream piece by piece, nothing repeated or      *)
(* reordered, whatever read() does.  A call that fails loses what it had   *)
(* stored, which is less than the piece it was asked for.  A size above    *)
(* IntMax of rio_readlineb or rio_readnb may end the piece early, as if    *)
(* the stream ended, or kill the program.                                  *)
HandsOverTheStream == Contract!Spec

(* What is in the rio_t is exactly the part of the stream that read() has  *)
(* returned and no call has handed over: rio_bufptr and rio_cnt never drift *)
(* apart, over any sequence of refills, errors and interruptions.          *)
BufferIsStream ==
  /\ Unread <= pos /\ rio_bufptr + Unread <= BufSize
  /\ \A i \in 0..(Unread - 1) : rio_buf[rio_bufptr + i] = stream[pos - Unread + i + 1]

(* No call writes past the size it was given, terminator included, with    *)
(* two exceptions: rio_readlineb with maxlen 0 stores its terminator (897) *)
(* in the first byte behind a buffer of no bytes, and rio_readnb with more *)
(* than IntMax bytes may be killed in a memcpy (829 to 832).  No other     *)
(* call is, and a line is terminated behind its last byte.                 *)
MayStore(c) == IF c.op = "line" /\ c.size = 0 THEN 1 ELSE c.size

StaysInUsrbuf ==
  [][/\ call' # Killed => \A j \in UsrIndex : j >= MayStore(call) => usrbuf'[j] = usrbuf[j]
     /\ call' = Killed => call = Killed \/ (call.op = "bytes" /\ call.size > IntMax)
     /\ call.op = "line" /\ call' = Idle /\ ret' > 0 =>
          ret' < call.size /\ usrbuf'[ret'] = Nul]_vars

(* Every call returns, or the program is killed in it.                     *)
Returns == call # Idle ~> call \in {Idle, Killed}
=============================================================================
