------------------------------- MODULE Csapp -------------------------------
(***************************************************************************)
(* A program that uses csapp.c: it makes calls, through wrappers or        *)
(* without them, and then opens its connection with open_clientfd or       *)
(* open_listenfd or their wrappers.  All of them share errno, which        *)
(* outlives the call that set it.                                          *)
(***************************************************************************)
EXTENDS Netp

CONSTANTS IntMod, MaxSize                          \* as in CsappWrappers

VARIABLES ferror, call, size, result, told, code   \* of CsappWrappers

netpOwn == <<role, pc, n, p, fd, fds, listp, rc, closeFailed>>
wrapperOwn == <<ferror, call, size, result, told, code>>
allVars == <<vars, wrapperOwn>>

Wrapper == INSTANCE CsappWrappers

ASSUME WrapperAssumption == Wrapper!SizesAssumption

ProgramInit ==
  /\ Init
  /\ ferror = "none" /\ call = "none" /\ size = 0 /\ result = "ok" /\ told = "" /\ code = -1

WrapperCalls == pc = "getaddrinfo" /\ Wrapper!Next /\ UNCHANGED netpOwn

OpenSteps == Wrapper!Runs /\ Next /\ UNCHANGED wrapperOwn

(* Open_clientfd and Open_listenfd *)
Opener == IF role = "client" THEN "Open_clientfd" ELSE "Open_listenfd"
OpenStops ==
  /\ Wrapper!Runs /\ Ended /\ rc < 0
  /\ Wrapper!Calls(Opener, "failed") /\ Wrapper!unix_error
  /\ UNCHANGED <<vars, ferror>>

ProgramNext == WrapperCalls \/ OpenSteps \/ OpenStops

ProgramSpec == ProgramInit /\ [][ProgramNext]_allVars

-----------------------------------------------------------------------------
(* A program that uses the wrappers is stopped when, and only when, the    *)
(* call it has just made has failed, and the error printed is that of this *)
(* call, whatever earlier calls have left in errno.  Exceptions are those  *)
(* that CsappWrappers names at Unnoticed and StoppedForNothing (a size of  *)
(* 0, a size that is no int, a flag left on a stream), and the error of    *)
(* getaddrinfo, for which the wrappers print an errno that getaddrinfo has *)
(* not set.                                                                *)
StopsForFailure ==
  /\ call # Opener => Wrapper!FailureStops /\ Wrapper!StopsForFailure /\ Wrapper!ErrnoIsOwn
  /\ call = Opener => ~Wrapper!Runs /\ rc < 0 /\ (rc = -1 => errno \in Causes)
=============================================================================
