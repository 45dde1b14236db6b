----------------------------- MODULE CsappProofs -----------------------------
(***************************************************************************)
(* What open_clientfd and open_listenfd return, for every number of        *)
(* addresses and every call in them failing or not; and what a program     *)
(* that uses the wrappers of csapp.c is stopped for, whichever calls it    *)
(* makes before.  Phase says what the two functions hold at each place of  *)
(* their code, Silent what has not happened as long as the program runs.   *)
(***************************************************************************)
EXTENDS Csapp, TLAPS

States == {"new", "connected", "bound", "listening"}
Ready == IF role = "client" THEN "connected" ELSE "bound"

Typed ==
  /\ role \in {"client", "listen"} /\ n \in Nat /\ p \in Nat
  /\ pc \in {"getaddrinfo", "socket", "address", "cleanup", "listen", "returned"}
  /\ rc \in Int /\ fd \in Int

(* one descriptor is open, the current one, and this is its state *)
Holds(state) == fd > 0 /\ Open = {fd} /\ fds[fd] = state

(* the entries before p were tried and failed, and the last failure set errno *)
Tried == p \in 1..(n + 1) /\ n > 0 /\ (p > 1 => errno \in Causes)

Phase ==
  /\ pc = "getaddrinfo" => Open = {} /\ listp = "none"
  /\ pc = "socket" => Tried /\ Open = {}
  /\ pc = "address" => p \in 1..n /\ Holds("new")
  /\ pc = "cleanup" => p \in 1..(n + 1) /\ n > 0
  /\ pc = "cleanup" /\ p = n + 1 => Open = {} /\ errno \in Causes
  /\ pc = "cleanup" /\ p # n + 1 => Holds(Ready)
  /\ pc = "listen" => role = "listen" /\ Holds("bound") /\ listp = "freed"
  /\ ~Ended => rc = 0
  /\ rc > 0 => Open = {rc} /\ fds[rc] = IF role = "client" THEN "connected" ELSE "listening"
  /\ Ended /\ rc < 0 /\ ~closeFailed => Open = {} /\ listp # "allocated"
  /\ Ended /\ rc = -1 => errno \in Causes

IInv == Typed /\ Phase

-----------------------------------------------------------------------------
(* With nothing open, the descriptor that socket returns is not an open    *)
(* one.                                                                    *)
LEMMA FirstDescriptor ==
  ASSUME Open = {}
  PROVE  Unused \in Int /\ Unused > 0
<1>1. MaxAddrs \in Nat
  BY AddrsAssumption
<1>2. /\ 3 \in 3..(MaxAddrs + 3)
      /\ 3 \notin Open /\ \A e \in 3..(3 - 1) : e \in Open
  BY <1>1
<1>3. Unused \in 3..(MaxAddrs + 3)
  BY <1>2 DEF Unused
<1> QED  BY <1>1, <1>3

(* Before getaddrinfo nothing is held.                                     *)
LEMMA InitHolds == Init => IInv
<1> SUFFICES ASSUME Init PROVE IInv  OBVIOUS
<1>1. Typed
  BY DEF Init, Typed
<1>2. Open = {} /\ pc = "getaddrinfo" /\ listp = "none" /\ rc = 0
  BY DEF Init, Open
<1>3. Phase
  BY <1>2 DEF Phase, Ended
<1> QED  BY <1>1, <1>3 DEF IInv

(* Every call of the two functions, failing or not, keeps Typed and Phase. *)
LEMMA StepHolds == IInv /\ [Next]_vars => IInv'
<1> SUFFICES ASSUME IInv, [Next]_vars PROVE IInv'  OBVIOUS
<1> USE DEF IInv, Typed, Ended, Open
<1>1. CASE getaddrinfoFails
  BY <1>1 DEF getaddrinfoFails, Return, Phase, Causes
<1>2. CASE getaddrinfoSucceeds
  <2>1. n' \in Nat /\ n' > 0 /\ p' = 1 /\ pc' = "socket"
    BY <1>2, AddrsAssumption DEF getaddrinfoSucceeds
  <2>2. fd' = fd /\ fds' = fds /\ role' = role /\ rc' = 0 /\ Open = {}
    BY <1>2 DEF getaddrinfoSucceeds, Phase
  <2>3. Tried' /\ Open' = {}
    <3>1. \A m \in Nat : m > 0 => 1 \in 1..(m + 1) /\ ~(1 > 1)
      OBVIOUS
    <3>2. p' \in 1..(n' + 1) /\ ~(p' > 1)
      BY <2>1, <3>1, Zenon
    <3> QED  BY <2>1, <2>2, <3>2 DEF Tried
  <2>4. Phase'
    BY <2>1, <2>2, <2>3 DEF Phase
  <2> QED  BY <2>1, <2>2, <2>4
<1>3. CASE socketFails
  BY <1>3 DEF socketFails, Phase, Tried, Causes
<1>4. CASE socketOpens
  <2>1. Open = {} /\ Tried /\ p <= n
    BY <1>4 DEF socketOpens, Phase
  <2>2. fd' = Unused /\ fds' = [d \in {Unused} |-> "new"]
    BY <1>4, <2>1 DEF socketOpens
  <2>3. fd' \in Int /\ Holds("new")'
    BY <2>1, <2>2, FirstDescriptor DEF Holds
  <2>4. pc' = "address" /\ p' = p /\ n' = n /\ rc' = 0 /\ role' = role
    BY <1>4, <2>1 DEF socketOpens, Phase
  <2>5. Phase'
    BY <2>1, <2>3, <2>4 DEF Phase, Tried, Holds
  <2> QED  BY <2>1, <2>3, <2>4, <2>5
<1>5. CASE addressTaken
  BY <1>5 DEF addressTaken, Phase, Tried, Becomes, Holds, Ready
<1>6. CASE addressFails
  <2>1. p \in 1..n /\ Open = {fd} /\ rc = 0 /\ role' = role /\ n' = n /\ fd' = fd
    BY <1>6 DEF addressFails, Phase, Holds
  <2>2. CASE /\ fds' = Without(fd) /\ errno' = "connect" /\ p' = p + 1
             /\ pc' = "socket" /\ rc' = rc
    <3>1. Open' = {}
      BY <2>1, <2>2 DEF Without
    <3>2. Tried'
      BY <2>1, <2>2 DEF Tried, Causes
    <3> QED  BY <2>1, <2>2, <3>1, <3>2 DEF Phase
  <2>3. CASE errno' = "close" /\ closeFailed' = TRUE /\ Return(-1) /\ p' = p
    <3>1. rc' = -1 /\ pc' = "returned"
      BY <2>3 DEF Return
    <3> QED  BY <2>1, <2>3, <3>1 DEF Phase, Causes
  <2> QED  BY <1>6, <2>2, <2>3 DEF addressFails
<1>7. CASE noneLeft
  BY <1>7 DEF noneLeft, Phase, Tried, Causes
<1>8. CASE freeaddrinfo
  <2>1. /\ listp' = "freed" /\ rc = 0 /\ p \in 1..(n + 1) /\ n > 0
        /\ role' = role /\ n' = n /\ p' = p /\ fd' = fd /\ fds' = fds /\ errno' = errno
    BY <1>8 DEF freeaddrinfo, Phase
  <2>2. CASE p = n + 1
    <3>1. Return(-1) /\ Open = {} /\ errno \in Causes
      BY <1>8, <2>2 DEF freeaddrinfo, Phase
    <3>2. rc' = -1 /\ pc' = "returned"
      BY <3>1 DEF Return
    <3> QED  BY <2>1, <3>1, <3>2 DEF Phase
  <2>3. CASE p # n + 1 /\ role = "client"
    <3>1. Return(fd) /\ Holds("connected")
      BY <1>8, <2>1, <2>3 DEF freeaddrinfo, Phase, Ready
    <3>2. rc' = fd /\ pc' = "returned"
      BY <3>1 DEF Return, Holds
    <3> QED  BY <2>1, <2>3, <3>1, <3>2 DEF Phase, Holds
  <2>4. CASE p # n + 1 /\ role = "listen"
    <3>1. pc' = "listen" /\ rc' = rc /\ Holds("bound")
      BY <1>8, <2>1, <2>4 DEF freeaddrinfo, Phase, Ready
    <3> QED  BY <2>1, <2>4, <3>1 DEF Phase, Holds
  <2> QED  BY <2>2, <2>3, <2>4
<1>9. CASE listenSucceeds
  BY <1>9 DEF listenSucceeds, Phase, Holds, Becomes, Return, Causes
<1>10. CASE listenFails
  <2>1. Return(-1) /\ Open = {fd} /\ listp' = "freed" /\ role' = role /\ n' = n /\ p' = p /\ fd' = fd
    BY <1>10 DEF listenFails, Phase, Holds
  <2>2. rc' = -1 /\ pc' = "returned"
    BY <2>1 DEF Return
  <2>3. errno' \in Causes
    BY <1>10 DEF listenFails, Causes
  <2>4. closeFailed' = TRUE \/ Open' = {}
    BY <1>10, <2>1 DEF listenFails, Without
  <2> QED  BY <2>1, <2>2, <2>3, <2>4 DEF Phase
<1>11. CASE UNCHANGED vars
  BY <1>11 DEF vars, Phase, Tried, Holds, Ready
<1> QED
  BY <1>1, <1>2, <1>3, <1>4, <1>5, <1>6, <1>7, <1>8, <1>9, <1>10, <1>11 DEF Next

-----------------------------------------------------------------------------
LEMMA Invariance == Spec => []IInv
<1> QED  BY InitHolds, StepHolds, PTL DEF Spec

(* At the place where the functions return, Phase says what is promised.   *)
LEMMA PhaseIsClean == IInv => OutcomeIsClean
<1>1. IInv => ResultIsReady  BY DEF IInv, Phase, ResultIsReady
<1>2. IInv => FailureIsClean  BY DEF IInv, Phase, FailureIsClean
<1>3. IInv => ErrnoIsSet  BY DEF IInv, Phase, ErrnoIsSet, Causes
<1> QED  BY <1>1, <1>2, <1>3 DEF OutcomeIsClean

(* open_clientfd and open_listenfd, for every number of addresses: a       *)
(* descriptor that is returned is connected or listening and nothing else  *)
(* was left open; a failure leaves nothing behind, unless close itself has *)
(* failed; and a result of -1 comes with errno set by a call that failed.  *)
THEOREM ReturnsCleanly == Spec => []OutcomeIsClean
<1> QED  BY PhaseIsClean, Invariance, PTL

-----------------------------------------------------------------------------
(* The program: the invariant of open_clientfd and open_listenfd does not  *)
(* depend on what the wrappers leave in errno before.                      *)

Openers == {"Open_clientfd", "Open_listenfd"}

(* As long as the program runs no message has been printed, no wrapper has *)
(* failed but for the one failure that goes unnoticed, none has set the    *)
(* flag of a stream, and open_clientfd and open_listenfd have not been     *)
(* found to fail.                                                          *)
Silent ==
  Wrapper!Runs => /\ told = "" /\ call \notin Openers
                  /\ Wrapper!Failed => Wrapper!Unnoticed
                  /\ ferror \in {"none", "old"}

ProgramInv == IInv /\ Silent /\ StopsForFailure

LEMMA ProgramInitHolds == ProgramInit => ProgramInv
<1> SUFFICES ASSUME ProgramInit PROVE ProgramInv  OBVIOUS
<1>1. IInv
  BY InitHolds DEF ProgramInit
<1>2. Silent
  BY DEF ProgramInit, Silent, Openers, Wrapper!Failed
<1>3. StopsForFailure
  BY DEF ProgramInit, StopsForFailure, Opener, Wrapper!FailureStops, Wrapper!StopsForFailure,
         Wrapper!ErrnoIsOwn, Wrapper!Runs, Wrapper!Failed
<1> QED  BY <1>1, <1>2, <1>3 DEF ProgramInv

(* Before getaddrinfo, errno may change without harm.                      *)
LEMMA WrapperKeepsPhase ==
  ASSUME IInv, pc = "getaddrinfo", UNCHANGED netpOwn
  PROVE  IInv'
<1>1. Typed'
  BY DEF IInv, Typed, netpOwn
<1>2. Phase'
  BY DEF IInv, Phase, netpOwn, Open, Ended
<1> QED  BY <1>1, <1>2 DEF IInv

(* What one wrapper leaves: as long as it returns nothing was printed;     *)
(* when it stops the program, it is for the failure of this very call, but *)
(* for the calls that CsappWrappers names.                                 *)
Leaves ==
  /\ call' \notin Openers
  /\ code' = code => /\ told' = told /\ ferror' \in {"none", "old"}
                     /\ Wrapper!Failed' => Wrapper!Unnoticed'
  /\ code' # code => /\ code' # -1
                     /\ Wrapper!Failed' \/ Wrapper!StoppedForNothing'
                     /\ Wrapper!ErrnoIsOwn'

(* The test that a wrapper puts to the result of its function finds every  *)
(* value that the function returns when it fails, and no other.            *)
LEMMA TestsAreTheLibrarys ==
  ASSUME NEW f \in Wrapper!UnixCalls \cup Wrapper!PosixCalls \cup Wrapper!GaiCalls
                   \cup Wrapper!DnsCalls \cup Wrapper!SioCalls,
         NEW r \in {"ok", "failed"}, NEW v \in Wrapper!Values(f, r)
  PROVE  Wrapper!IsError(f, v) <=> r = "failed"
<1> USE DEF Wrapper!Values, Wrapper!OkValues, Wrapper!FailedValues, Wrapper!IsError,
            Wrapper!Null, Wrapper!EOF
<1>1. f \in Wrapper!NullTests <=> f \in Wrapper!PointerResults
  BY DEF Wrapper!PointerResults, Wrapper!NullTests, Wrapper!DnsCalls
<1>2. f \in Wrapper!NonzeroTests <=> f = "Fclose" \/ f \in Wrapper!PosixCalls \cup Wrapper!GaiCalls
  BY DEF Wrapper!NonzeroTests
<1>3. /\ f \in {"Mmap", "Fputs"} => f \notin Wrapper!NullTests \cup Wrapper!NonzeroTests
      /\ f \in Wrapper!NonzeroTests => f \notin Wrapper!NullTests
  BY DEF Wrapper!NullTests, Wrapper!NonzeroTests, Wrapper!DnsCalls, Wrapper!PosixCalls,
         Wrapper!GaiCalls
<1>4. CASE f \in Wrapper!NullTests
  BY <1>1, <1>3, <1>4
<1>5. CASE f \in Wrapper!NonzeroTests
  BY <1>1, <1>2, <1>3, <1>5
<1>6. CASE f \notin Wrapper!NullTests \cup Wrapper!NonzeroTests
  BY <1>1, <1>2, <1>6
<1> QED  BY <1>4, <1>5, <1>6

(* A wrapper is called by a program that runs.                             *)
LEMMA WrapperRuns == Wrapper!Next => code = -1
<1> QED
  BY DEF Wrapper!Next, Wrapper!UnixCall, Wrapper!CodeCall, Wrapper!SioCall, Wrapper!Realloc,
         Wrapper!Readdir, Wrapper!Fgets, Wrapper!Fread, Wrapper!Fwrite, Wrapper!Inet_pton,
         Wrapper!Sigsuspend, Wrapper!Rio_writen, Wrapper!BareFails, Wrapper!Runs

(* Each wrapper does what Leaves says, because its test finds the failures *)
(* of its function.                                                        *)
LEMMA WrapperLeaves ==
  ASSUME Wrapper!Next, ferror \in {"none", "old"}
  PROVE  Leaves /\ code = -1
<1> USE DEF Leaves, Openers, Wrapper!Calls, Wrapper!CallsWith, Wrapper!GoesOn, Wrapper!Exits,
            Wrapper!unix_error, Wrapper!app_error, Wrapper!Runs, Wrapper!Failed,
            Wrapper!ErrnoIsOwn
<1>1. CASE Wrapper!UnixCall
  <2>1. PICK f \in Wrapper!UnixCalls, r \in {"ok", "failed"} : \E v \in Wrapper!Values(f, r) :
          /\ Wrapper!Calls(f, r)
          /\ IF r = "failed" THEN errno' = f ELSE Wrapper!Noise
          /\ IF Wrapper!IsError(f, v) THEN Wrapper!unix_error ELSE Wrapper!GoesOn
    BY <1>1 DEF Wrapper!UnixCall
  <2>2. f \notin Openers
    BY DEF Wrapper!UnixCalls, Wrapper!ProcessCalls, Wrapper!GroupCalls, Wrapper!SignalCalls,
           Wrapper!FileCalls, Wrapper!DirCalls, Wrapper!MapCalls, Wrapper!StorageCalls,
           Wrapper!StdioCalls, Wrapper!SocketCalls, Wrapper!AddressCalls,
           Wrapper!SemaphoreCalls, Wrapper!RioCalls
  <2>3. IF r = "failed" THEN Wrapper!unix_error ELSE Wrapper!GoesOn
    BY <2>1, TestsAreTheLibrarys
  <2> QED  BY <1>1, <2>1, <2>2, <2>3 DEF Wrapper!UnixCall
<1>2. CASE Wrapper!CodeCall
  <2>1. PICK f \in Wrapper!PosixCalls \cup Wrapper!GaiCalls \cup Wrapper!DnsCalls,
             r \in {"ok", "failed"} : \E v \in Wrapper!Values(f, r) :
          /\ Wrapper!Calls(f, r)
          /\ IF ~Wrapper!IsError(f, v) THEN Wrapper!GoesOn
             ELSE CASE f \in Wrapper!PosixCalls -> Wrapper!posix_error
                    [] f \in Wrapper!GaiCalls -> Wrapper!gai_error
                    [] f \in Wrapper!DnsCalls -> Wrapper!dns_error
    BY <1>2 DEF Wrapper!CodeCall
  <2>2. f \notin Openers
    BY DEF Wrapper!PosixCalls, Wrapper!GaiCalls, Wrapper!DnsCalls
  <2>3. \/ r = "ok" /\ Wrapper!GoesOn
        \/ r = "failed" /\ CASE f \in Wrapper!PosixCalls -> Wrapper!posix_error
                             [] f \in Wrapper!GaiCalls -> Wrapper!gai_error
                             [] f \in Wrapper!DnsCalls -> Wrapper!dns_error
    BY <2>1, TestsAreTheLibrarys
  <2>4. \/ Wrapper!posix_error \/ Wrapper!gai_error \/ Wrapper!dns_error
        => told' \in {"code", "text"} /\ code' = 0
    BY DEF Wrapper!posix_error, Wrapper!gai_error, Wrapper!dns_error
  <2>5. \/ r = "ok" /\ Wrapper!GoesOn
        \/ r = "failed" /\ told' \in {"code", "text"} /\ code' = 0
    BY <2>3, <2>4
  <2> QED  BY <1>2, <2>1, <2>2, <2>5 DEF Wrapper!CodeCall
<1>3. CASE Wrapper!SioCall
  <2>1. PICK f \in Wrapper!SioCalls, r \in {"ok", "failed"} : \E v \in Wrapper!Values(f, r) :
          /\ Wrapper!Calls(f, r)
          /\ IF Wrapper!IsError(f, v) THEN Wrapper!sio_error ELSE Wrapper!GoesOn
    BY <1>3 DEF Wrapper!SioCall
  <2>2. f \notin Openers
    BY DEF Wrapper!SioCalls
  <2>3. IF r = "failed" THEN Wrapper!sio_error ELSE Wrapper!GoesOn
    BY <2>1, TestsAreTheLibrarys
  <2> QED  BY <1>3, <2>1, <2>2, <2>3 DEF Wrapper!SioCall, Wrapper!sio_error
<1>4. CASE Wrapper!Realloc
  BY <1>4 DEF Wrapper!Realloc, Wrapper!StoppedForNothing, Wrapper!Null
<1>5. CASE Wrapper!Readdir
  BY <1>5 DEF Wrapper!Readdir
<1>6. CASE Wrapper!Fgets
  BY <1>6 DEF Wrapper!Fgets, Wrapper!StreamLeaves, Wrapper!StoppedForNothing,
              Wrapper!StreamCalls
<1>7. CASE Wrapper!Fread
  BY <1>7 DEF Wrapper!Fread, Wrapper!StreamLeaves, Wrapper!StoppedForNothing,
              Wrapper!StreamCalls, Wrapper!Items
<1>8. CASE Wrapper!Fwrite
  BY <1>8 DEF Wrapper!Fwrite, Wrapper!StreamLeaves, Wrapper!StoppedForNothing, Wrapper!Items
<1>9. CASE Wrapper!Inet_pton
  BY <1>9 DEF Wrapper!Inet_pton
<1>10. CASE Wrapper!Sigsuspend
  BY <1>10 DEF Wrapper!Sigsuspend
<1>11. CASE Wrapper!Rio_writen
  BY <1>11 DEF Wrapper!Rio_writen, Wrapper!StoppedForNothing, Wrapper!Unnoticed, Wrapper!CInt
<1>12. CASE Wrapper!BareFails
  BY <1>12 DEF Wrapper!BareFails
<1> QED
  BY <1>1, <1>2, <1>3, <1>4, <1>5, <1>6, <1>7, <1>8, <1>9, <1>10, <1>11, <1>12
  DEF Wrapper!Next

LEMMA ProgramStepHolds == ProgramInv /\ [ProgramNext]_allVars => ProgramInv'
<1> SUFFICES ASSUME ProgramInv, [ProgramNext]_allVars PROVE ProgramInv'  OBVIOUS
<1> USE DEF ProgramInv, Silent, Wrapper!Runs, Wrapper!Failed, Wrapper!Unnoticed
<1>1. CASE WrapperCalls
  <2>1. IInv'
    BY <1>1, WrapperKeepsPhase DEF WrapperCalls
  <2>2. Leaves /\ code = -1
    <3>1. Wrapper!Next
      BY <1>1 DEF WrapperCalls
    <3>2. code = -1
      BY <3>1, WrapperRuns
    <3>3. ferror \in {"none", "old"}
      BY <3>2
    <3> QED  BY <3>1, <3>3, WrapperLeaves
  <2>3. Silent'
    BY <2>2 DEF Leaves
  <2>4. call' # Opener'
    BY <2>2 DEF Leaves, Openers, Opener
  <2>5. StopsForFailure'
    BY <2>2, <2>4 DEF Leaves, StopsForFailure, Wrapper!FailureStops, Wrapper!StopsForFailure,
                      Wrapper!ErrnoIsOwn
  <2> QED  BY <2>1, <2>3, <2>5
<1>2. CASE OpenSteps
  <2>1. IInv'
    BY <1>2, StepHolds DEF OpenSteps
  <2>2. UNCHANGED wrapperOwn /\ code = -1
    BY <1>2 DEF OpenSteps
  <2>3. call' # Opener'
    BY <2>2 DEF wrapperOwn, Openers, Opener
  <2>4. StopsForFailure'
    BY <2>2, <2>3 DEF wrapperOwn, StopsForFailure, Wrapper!FailureStops,
                      Wrapper!StopsForFailure, Wrapper!ErrnoIsOwn,
                      Wrapper!StoppedForNothing
  <2> QED  BY <2>1, <2>2, <2>4 DEF wrapperOwn
<1>3. CASE OpenStops
  <2>1. UNCHANGED vars /\ rc < 0 /\ Ended /\ call' = Opener /\ code' = 0
    BY <1>3 DEF OpenStops, Wrapper!Calls, Wrapper!CallsWith, Wrapper!unix_error,
                  Wrapper!Exits
  <2>2. IInv'
    BY <2>1, StepHolds
  <2>3. Opener' = Opener /\ rc' = rc /\ errno' = errno
    BY <2>1 DEF Opener, vars
  <2>4. rc = -1 => errno \in Causes
    BY <2>1 DEF IInv, Phase
  <2>5. code' # -1
    <3>1. code' = 0
      BY <2>1, Zenon
    <3> QED  BY ONLY <3>1
  <2>6. StopsForFailure'
    BY <2>1, <2>3, <2>4, <2>5 DEF StopsForFailure, Causes
  <2>7. Silent'
    BY <2>5
  <2> QED  BY <2>2, <2>6, <2>7
<1>4. CASE UNCHANGED allVars
  <2>1. UNCHANGED vars /\ UNCHANGED wrapperOwn
    BY <1>4 DEF allVars
  <2>2. IInv'
    BY <2>1, StepHolds
  <2>3. StopsForFailure'
    BY <2>1 DEF vars, wrapperOwn, StopsForFailure, Opener, Causes, Wrapper!FailureStops,
                Wrapper!StopsForFailure, Wrapper!ErrnoIsOwn, Wrapper!StoppedForNothing
  <2> QED  BY <2>1, <2>2, <2>3 DEF wrapperOwn
<1> QED  BY <1>1, <1>2, <1>3, <1>4 DEF ProgramNext

(* Whatever calls a program makes through the wrappers of csapp.c, and     *)
(* without them: it is stopped when, and only when, the call it has just   *)
(* made has failed, and the errno printed is of this call; open_clientfd   *)
(* and open_listenfd are clean also behind such calls.                     *)
THEOREM StopsOnlyForFailure == ProgramSpec => [](StopsForFailure /\ OutcomeIsClean)
<1>1. ProgramSpec => []ProgramInv
  BY ProgramInitHolds, ProgramStepHolds, PTL DEF ProgramSpec
<1>2. ProgramInv => StopsForFailure /\ OutcomeIsClean
  BY PhaseIsClean DEF ProgramInv
<1> QED  BY <1>1, <1>2, PTL
=============================================================================
