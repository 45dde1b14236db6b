------------------------------ MODULE RioPipe ------------------------------
(***************************************************************************)
(* Two programs that use the Rio package on the two ends of a connection:  *)
(* one makes calls of rio_writen and then closes, the other reads with     *)
(* rio_readlineb and rio_readnb, or with rio_readn.  The variables of the  *)
(* writer are those of RioWriten; what the kernel has taken from it is     *)
(* what the reader can read.                                               *)
(***************************************************************************)
EXTENDS RioWriten

CONSTANTS Newline, Nul, Junk, BufSize, Calls, UsrSize, IntMod   \* as in Rio

VARIABLES closed,    \* whether the writer has closed its end
          style,     \* "buffered" or "raw": the reader does not mix them
          pos, rio_buf, rio_bufptr, rio_cnt, call, dest, got, count  \* of Rio

readerVars == <<pos, rio_buf, rio_bufptr, rio_cnt, call, dest, got, count>>
pipeVars == <<vars, closed, style, readerVars>>

Reader == INSTANCE Rio WITH stream <- wire, ended <- closed, usrbuf <- dest, ret <- count

ASSUME PipeAssumption == Reader!RioAssumption

(* a newline alone and one in the middle; calls of no bytes, of some, and  *)
(* of more than an int can say                                             *)
MCMessages == {<<Newline>>, <<"x", Newline, "y">>}
MCCalls == [op : {"line"}, size : {0, 3, 9}] \cup [op : {"bytes"}, size : {3, 5, 9}]
           \cup [op : {"raw"}, size : {3}]

PipeInit ==
  /\ Init /\ closed = FALSE
  /\ style \in {"buffered", "raw"} /\ Reader!Init

WriterSteps == ~closed /\ Next /\ UNCHANGED <<closed, style, readerVars>>

Close == ~active /\ ~closed /\ closed' = TRUE /\ UNCHANGED <<vars, style, readerVars>>

ReaderCalls ==
  /\ \E c \in Calls : (c.op = "raw" <=> style = "raw") /\ Reader!Start(c)
  /\ UNCHANGED <<vars, closed, style>>

ReaderWorks == Reader!Works /\ UNCHANGED <<vars, closed, style>>

ReaderHindered == Reader!Hindered /\ UNCHANGED <<vars, closed, style>>

(* the reader is no more, and the writer has ended as well *)
BothEnded == closed /\ call = Reader!Killed /\ UNCHANGED pipeVars

PipeNext == WriterSteps \/ Close \/ ReaderCalls \/ ReaderWorks \/ ReaderHindered \/ BothEnded

(* The kernel takes bytes from the writer, which closes in the end; not    *)
(* every read() is interrupted.                                            *)
PipeSpec ==
  /\ PipeInit /\ [][PipeNext]_pipeVars
  /\ WF_pipeVars((WriteSome \/ Done) /\ UNCHANGED <<closed, style, readerVars>>)
  /\ SF_pipeVars(Close)
  /\ WF_pipeVars(ReaderWorks)

-----------------------------------------------------------------------------
(* Properties: those of Rio with this writer, and that of RioWriten.       *)

(* The reader is handed what was written (Rio!HandsOverTheStream).         *)
HandsOverTheStream == Reader!HandsOverTheStream

(* The rio_t holds what was read and not handed over (Rio!BufferIsStream). *)
BufferIsStream == Reader!BufferIsStream

(* The reader's calls stay in the caller's buffer (Rio!StaysInUsrbuf).     *)
StaysInUsrbuf == Reader!StaysInUsrbuf

(* Every call on either end returns: rio_writen after short and            *)
(* interrupted writes, the reading functions when bytes or the end arrive. *)
AllReturn == Returns /\ Reader!Returns
=============================================================================
