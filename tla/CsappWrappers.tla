--------------------------- MODULE CsappWrappers ---------------------------
(***************************************************************************)
(* The wrappers of csapp.c: each calls the function of its name in small   *)
(* letters, puts a test to the value it returns, and where the test says   *)
(* so prints a message and exits.  Which values a function returns when it *)
(* fails and when it does not is the library's business (external); which  *)
(* test the wrapper puts to them is csapp.c's.  A program calls wrappers   *)
(* one after the other, and now and then a function without its wrapper.   *)
(* errno and the error flag of a stream outlive the call that set them.    *)
(***************************************************************************)
EXTENDS Naturals, Integers

CONSTANTS IntMod,    \* 2^32 in the program: the number of values of a C int
          MaxSize    \* bound on the sizes and counts that a program asks for

SizesAssumption == IntMod \in Nat \ {0} /\ MaxSize \in Nat

(* the wrappers whose error is told by errno, unix_error *)
ProcessCalls == {"Fork", "Execve", "Wait", "Waitpid", "Kill"}
GroupCalls == {"Setpgid"}
SignalCalls == {"Signal", "Sigprocmask", "Sigemptyset", "Sigfillset", "Sigaddset", "Sigdelset",
                "Sigismember"}
FileCalls == {"Open", "Read", "Write", "Lseek", "Close", "Select", "Dup2", "Stat", "Fstat"}
DirCalls == {"Opendir", "Closedir"}
MapCalls == {"Mmap", "Munmap"}
StorageCalls == {"Malloc", "Calloc"}
StdioCalls == {"Fclose", "Fdopen", "Fopen", "Fputs"}
SocketCalls == {"Socket", "Setsockopt", "Bind", "Listen", "Accept", "Connect"}
AddressCalls == {"Inet_ntop"}
SemaphoreCalls == {"Sem_init", "P", "V"}
RioCalls == {"Rio_readn", "Rio_readnb", "Rio_readlineb"}
UnixCalls == ProcessCalls \cup GroupCalls \cup SignalCalls \cup FileCalls \cup DirCalls
             \cup MapCalls \cup StorageCalls \cup StdioCalls \cup SocketCalls \cup AddressCalls
             \cup SemaphoreCalls \cup RioCalls

(* the others *)
PosixCalls == {"Pthread_create", "Pthread_cancel", "Pthread_join", "Pthread_detach"}
GaiCalls == {"Getaddrinfo", "Getnameinfo"}
DnsCalls == {"Gethostbyname", "Gethostbyaddr"}
SioCalls == {"Sio_putl", "Sio_puts"}
StreamCalls == {"Fgets", "Fread"}

VARIABLES
  errno,    \* "none" for 0, "eintr", "old", or the wrapper whose function set it
  ferror,   \* who set the error flag of the stream: "none", "old" or a wrapper
  call,     \* the wrapper called last
  size,     \* the size it was given, where it has a bearing on the result
  result,   \* what the function in it did: "ok", "end", "invalid" or "failed"
  told,     \* what the message says: "", "errno", "code" or "text"
  code      \* -1 while the program runs, then its exit code

vars == <<errno, ferror, call, size, result, told, code>>

Init == /\ errno = "none" /\ ferror = "none" /\ call = "none" /\ size = 0 /\ result = "ok"
        /\ told = "" /\ code = -1

Runs == code = -1
CallsWith(f, bytes, r) == call' = f /\ size' = bytes /\ result' = r
Calls(f, r) == CallsWith(f, 0, r)
Exits(message, c) == told' = message /\ code' = c
GoesOn == UNCHANGED <<told, code>>

unix_error == Exits("errno", 0)
posix_error == Exits("code", 0)
gai_error == Exits("code", 0)
app_error == Exits("text", 0)
dns_error == Exits("text", 0)
sio_error == Exits("text", 1)

(* A call that does not fail may change errno all the same. *)
Noise == errno' \in {errno, "old"}

(* (int)k of a size_t *)
CInt(k) == LET m == k % IntMod
           IN  IF 2 * m < IntMod THEN m ELSE m - IntMod

-----------------------------------------------------------------------------
(* The library's side: the values a function may return.  A pointer is 0   *)
(* when it is null and -1 when it is MAP_FAILED; EOF is -1.  execve does   *)
(* not return unless it fails.                                             *)
Null == 0
EOF == -1

PointerResults == {"Opendir", "Malloc", "Calloc", "Fdopen", "Fopen", "Inet_ntop",
                   "Gethostbyname", "Gethostbyaddr"}

OkValues(f) ==
  IF f \in PointerResults THEN {1}
  ELSE IF f \in {"Fclose", "Fputs"} \cup PosixCalls \cup GaiCalls THEN {0}
  ELSE IF f = "Execve" THEN {} ELSE {0, 1}

FailedValues(f) ==
  IF f \in PointerResults THEN {Null}
  ELSE IF f \in PosixCalls THEN {1} ELSE IF f \in GaiCalls THEN {-1, 1} ELSE {EOF}

Values(f, r) == IF r = "failed" THEN FailedValues(f) ELSE OkValues(f)

-----------------------------------------------------------------------------
(* The wrapper's side: the test that each puts to the value.               *)
NullTests == {"Opendir", "Malloc", "Calloc", "Fdopen", "Fopen", "Inet_ntop"} \cup DnsCalls
NonzeroTests == {"Fclose"} \cup PosixCalls \cup GaiCalls

IsError(f, v) ==
  \/ f \in NullTests /\ v = Null
  \/ f \in NonzeroTests /\ v # 0
  \/ f \in {"Mmap", "Fputs"} /\ v = EOF
  \/ f \notin NullTests \cup NonzeroTests \cup {"Mmap", "Fputs"} /\ v < 0

UnixCall ==
  /\ Runs
  /\ \E f \in UnixCalls, r \in {"ok", "failed"} : \E v \in Values(f, r) :
       /\ Calls(f, r)
       /\ IF r = "failed" THEN errno' = f ELSE Noise
       /\ IF IsError(f, v) THEN unix_error ELSE GoesOn
  /\ UNCHANGED ferror

(* pthreads, getaddrinfo and gethostbyname have codes of their own *)
CodeCall ==
  /\ Runs
  /\ \E f \in PosixCalls \cup GaiCalls \cup DnsCalls, r \in {"ok", "failed"} :
       \E v \in Values(f, r) :
         /\ Calls(f, r)
         /\ IF ~IsError(f, v) THEN GoesOn
            ELSE CASE f \in PosixCalls -> posix_error
                   [] f \in GaiCalls -> gai_error
                   [] f \in DnsCalls -> dns_error
  /\ Noise /\ UNCHANGED ferror

SioCall ==
  /\ Runs
  /\ \E f \in SioCalls, r \in {"ok", "failed"} : \E v \in Values(f, r) :
       /\ Calls(f, r)
       /\ IF r = "failed" THEN errno' = f ELSE Noise
       /\ IF IsError(f, v) THEN sio_error ELSE GoesOn
  /\ UNCHANGED ferror

(* realloc(p, 0) frees p and returns a null pointer. *)
Realloc ==
  /\ Runs
  /\ \E bytes \in 0..MaxSize, r \in {"ok", "failed"}, v \in {Null, 1} :
       /\ IF r = "ok" THEN bytes > 0 => v = 1 ELSE bytes > 0 /\ v = Null
       /\ CallsWith("Realloc", bytes, r)
       /\ IF r = "failed" THEN errno' = "Realloc" ELSE Noise
       /\ IF v = Null THEN unix_error ELSE GoesOn
  /\ UNCHANGED ferror

\* Mutant: errno is not reset before the call.
ReaddirOldErrno ==
  /\ Runs
  /\ \E r \in {"ok", "end", "failed"} :
       /\ Calls("Readdir", r)
       /\ CASE r = "ok" -> Noise
            [] r = "end" -> UNCHANGED errno
            [] r = "failed" -> errno' = "Readdir"
       /\ IF r # "ok" /\ errno' # "none" THEN unix_error ELSE GoesOn
  /\ UNCHANGED ferror

(* readdir returns a null pointer at the end, where it leaves errno alone, *)
(* and when it fails; errno has been reset before.                         *)
Readdir ==
  /\ Runs
  /\ \E r \in {"ok", "end", "failed"} :
       /\ Calls("Readdir", r)
       /\ errno' \in CASE r = "ok" -> {"none", "old"}
                       [] r = "end" -> {"none"}
                       [] r = "failed" -> {"Readdir"}
       /\ IF r # "ok" /\ errno' # "none" THEN unix_error ELSE GoesOn
  /\ UNCHANGED ferror

(* What a call on a stream leaves: a failure sets the flag of the stream,  *)
(* and nothing that these wrappers call takes it back.                     *)
StreamLeaves(f, r) ==
  IF r = "failed" THEN errno' = f /\ ferror' = f ELSE Noise /\ UNCHANGED ferror

(* A null pointer is the end of the file as well.                          *)
Fgets ==
  /\ Runs
  /\ \E r \in {"ok", "end", "failed"} :
       /\ Calls("Fgets", r) /\ StreamLeaves("Fgets", r)
       /\ IF r # "ok" /\ ferror' # "none" THEN app_error ELSE GoesOn

(* What fread and fwrite return: the number of whole items, nmemb unless   *)
(* the call fails, the file ends, or an item has no bytes.                 *)
Items(bytes, nmemb, r) ==
  CASE bytes = 0 -> IF r = "ok" THEN {0} ELSE {}
    [] bytes > 0 -> IF r = "ok" THEN {nmemb} ELSE 0..(nmemb - 1)

Fread ==
  /\ Runs
  /\ \E bytes \in 0..1, nmemb \in 0..MaxSize, r \in {"ok", "end", "failed"} :
       \E v \in Items(bytes, nmemb, r) :
         /\ CallsWith("Fread", bytes, r) /\ StreamLeaves("Fread", r)
         /\ IF v < nmemb /\ ferror' # "none" THEN unix_error ELSE GoesOn

Fwrite ==
  /\ Runs
  /\ \E bytes \in 0..1, nmemb \in 0..MaxSize, r \in {"ok", "failed"} :
       \E v \in Items(bytes, nmemb, r) :
         /\ CallsWith("Fwrite", bytes, r) /\ StreamLeaves("Fwrite", r)
         /\ IF v < nmemb THEN unix_error ELSE GoesOn

(* 1, 0 for a text that is no address, or -1 *)
Inet_pton ==
  /\ Runs
  /\ \E r \in {"ok", "invalid", "failed"} :
       LET v == CASE r = "ok" -> 1 [] r = "invalid" -> 0 [] r = "failed" -> -1
       IN  /\ Calls("Inet_pton", r)
           /\ IF r = "failed" THEN errno' = "Inet_pton" ELSE Noise
           /\ IF v = 0 THEN app_error ELSE IF v < 0 THEN unix_error ELSE GoesOn
  /\ UNCHANGED ferror

(* It always returns -1; errno says whether that is for a signal.          *)
Sigsuspend ==
  /\ Runs
  /\ \E r \in {"ok", "failed"} :
       /\ Calls("Sigsuspend", r)
       /\ errno' = IF r = "ok" THEN "eintr" ELSE "Sigsuspend"
       /\ IF errno' # "eintr" THEN unix_error ELSE GoesOn
  /\ UNCHANGED ferror

(* rio_writen returns n or -1, and the wrapper compares with (int)n.  A    *)
(* write() that takes nothing makes it fail with an older errno, unless    *)
(* that is EINTR.                                                          *)
Rio_writen ==
  /\ Runs
  /\ \E bytes \in 0..MaxSize, r \in {"ok", "failed"} :
       LET v == IF r = "ok" THEN bytes ELSE -1
       IN  /\ r = "failed" => bytes > 0
           /\ CallsWith("Rio_writen", bytes, r)
           /\ IF r = "failed" THEN errno' \in {"Rio_writen"} \cup ({errno} \ {"eintr"}) ELSE Noise
           /\ IF v # CInt(bytes) THEN unix_error ELSE GoesOn
  /\ UNCHANGED ferror

(* a function without its wrapper fails, and the program goes on *)
BareFails ==
  /\ Runs
  /\ errno' = "old" /\ ferror' \in {ferror, "old"}
  /\ Calls("none", "ok") /\ GoesOn

Next == UnixCall \/ CodeCall \/ SioCall \/ Realloc \/ Readdir \/ Fgets \/ Fread \/ Fwrite
        \/ Inet_pton \/ Sigsuspend \/ Rio_writen \/ BareFails

-----------------------------------------------------------------------------
(* Properties.                                                             *)

Failed == result \in {"failed", "invalid"}

(* No wrapper returns from a call that has failed, with one exception:     *)
(* Rio_writen of a size whose int is -1, which rio_writen returns when it  *)
(* fails.                                                                  *)
Unnoticed == call = "Rio_writen" /\ CInt(size) = -1
FailureStops == Failed => ~Runs \/ Unnoticed

(* The program is stopped for a failure of this very call; the end of a    *)
(* directory or of a file is none, whatever failed before.  Exceptions are *)
(* a realloc to size 0 (470) and an fwrite of items of no bytes (545),     *)
(* which succeed with a result that the wrapper takes for an error; a      *)
(* Rio_writen of a size that is no int (916); and Fgets and Fread behind a *)
(* call without its wrapper that failed and set the flag of the stream.    *)
StoppedForNothing ==
  \/ call \in {"Realloc", "Fwrite"} /\ size = 0
  \/ call = "Rio_writen" /\ CInt(size) # size
  \/ call \in StreamCalls /\ ferror = "old"
StopsForFailure == ~Runs => Failed \/ StoppedForNothing

(* When strerror(errno) is printed for a call that failed, errno was set   *)
(* by the call, except where a write() that takes nothing made Rio_writen  *)
(* fail.                                                                   *)
ErrnoIsOwn == told = "errno" /\ Failed => errno = call \/ call = "Rio_writen"
=============================================================================
