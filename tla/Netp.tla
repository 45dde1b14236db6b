-------------------------------- MODULE Netp --------------------------------
(***************************************************************************)
(* open_clientfd and open_listenfd of csapp.c: walk the addresses of       *)
(* getaddrinfo until a socket connects, or binds and listens.  Each call   *)
(* may fail, and each failure leaves errno behind.                         *)
(***************************************************************************)
EXTENDS Naturals, Integers, FiniteSets

CONSTANT MaxAddrs   \* bound: addresses on the list

ASSUME AddrsAssumption == MaxAddrs \in Nat \ {0}

VARIABLES
  role,      \* "client" or "listen": which function was called
  pc, n, p,  \* p <= n: the entry the loop is at; p = n + 1: null
  fd,        \* clientfd or listenfd
  fds,       \* the open descriptors, each "new", "connected", "bound" or "listening"
  listp,     \* the list of getaddrinfo: "none", "allocated" or "freed"
  errno,     \* the call that set errno, "stale" for one before
  rc,        \* the result: -2, -1, a descriptor, 0 for none yet
  closeFailed

vars == <<role, pc, n, p, fd, fds, listp, errno, rc, closeFailed>>

Init ==
  /\ role \in {"client", "listen"}
  /\ pc = "getaddrinfo" /\ n = 0 /\ p = 0 /\ fd = -1
  /\ fds = [d \in {} |-> ""] /\ listp = "none" /\ errno = "stale" /\ rc = 0 /\ closeFailed = FALSE

Open == DOMAIN fds
Unused == CHOOSE d \in 3..(MaxAddrs + 3) : d \notin Open /\ \A e \in 3..(d - 1) : e \in Open
Without(d) == [e \in Open \ {d} |-> fds[e]]
Becomes(state) == [fds EXCEPT ![fd] = state]

Return(r) == rc' = r /\ pc' = "returned"

getaddrinfoFails ==
  /\ pc = "getaddrinfo"
  /\ Return(-2)
  /\ UNCHANGED <<role, n, p, fd, fds, listp, errno, closeFailed>>

getaddrinfoSucceeds ==
  /\ pc = "getaddrinfo"
  /\ n' \in 1..MaxAddrs /\ p' = 1 /\ listp' = "allocated" /\ pc' = "socket"
  /\ UNCHANGED <<role, fd, fds, errno, rc, closeFailed>>

socketFails ==
  /\ pc = "socket" /\ p <= n
  /\ errno' = "socket" /\ p' = p + 1
  /\ UNCHANGED <<role, pc, n, fd, fds, listp, rc, closeFailed>>

(* open_listenfd sets SO_REUSEADDR and does not look at the result. *)
socketOpens ==
  /\ pc = "socket" /\ p <= n
  /\ fd' = Unused /\ fds' = [d \in Open \cup {Unused} |-> IF d \in Open THEN fds[d] ELSE "new"]
  /\ pc' = "address"
  /\ errno' \in {errno} \cup (IF role = "listen" THEN {"setsockopt"} ELSE {})
  /\ UNCHANGED <<role, n, p, listp, rc, closeFailed>>

addressTaken ==
  /\ pc = "address"
  /\ fds' = Becomes(IF role = "client" THEN "connected" ELSE "bound")
  /\ pc' = "cleanup"
  /\ UNCHANGED <<role, n, p, fd, listp, errno, rc, closeFailed>>

(* The socket is closed before the next one is tried.  When that fails,    *)
(* the function returns at once; the descriptor may be gone or not.        *)
addressFails ==
  /\ pc = "address"
  /\ \/ /\ fds' = Without(fd) /\ errno' = "connect"
        /\ p' = p + 1 /\ pc' = "socket" /\ UNCHANGED <<rc, closeFailed>>
     \/ /\ fds' \in {Without(fd), fds} /\ errno' = "close" /\ closeFailed' = TRUE
        /\ Return(-1) /\ UNCHANGED p
  /\ UNCHANGED <<role, n, fd, listp>>

noneLeft ==
  /\ pc = "socket" /\ p = n + 1
  /\ pc' = "cleanup"
  /\ UNCHANGED <<role, n, p, fd, fds, listp, errno, rc, closeFailed>>

freeaddrinfo ==
  /\ pc = "cleanup"
  /\ listp' = "freed"
  /\ \/ p = n + 1 /\ Return(-1)
     \/ p <= n /\ role = "client" /\ Return(fd)
     \/ p <= n /\ role = "listen" /\ pc' = "listen" /\ UNCHANGED rc
  /\ UNCHANGED <<role, n, p, fd, fds, errno, closeFailed>>

listenSucceeds ==
  /\ pc = "listen"
  /\ fds' = Becomes("listening") /\ Return(fd)
  /\ UNCHANGED <<role, n, p, fd, listp, errno, closeFailed>>

\* Mutant: the socket stays open.
listenFailsOpen ==
  /\ pc = "listen"
  /\ errno' = "listen" /\ Return(-1)
  /\ UNCHANGED <<role, n, p, fd, fds, listp, closeFailed>>

listenFails ==
  /\ pc = "listen"
  /\ \/ fds' = Without(fd) /\ errno' = "listen" /\ UNCHANGED closeFailed
     \/ fds' \in {Without(fd), fds} /\ errno' = "close" /\ closeFailed' = TRUE
  /\ Return(-1)
  /\ UNCHANGED <<role, n, p, fd, listp>>

Next == \/ getaddrinfoFails \/ getaddrinfoSucceeds \/ socketFails \/ socketOpens
        \/ addressTaken \/ addressFails \/ noneLeft \/ freeaddrinfo \/ listenSucceeds \/ listenFails

Spec == Init /\ [][Next]_vars

-----------------------------------------------------------------------------
(* Properties.                                                             *)

Ended == pc = "returned"

(* the calls whose failure is a result of -1 *)
Causes == {"socket", "connect", "close", "listen"}

(* A descriptor that is returned is the only one the function has left     *)
(* open, and it is ready: connected, or listening.                         *)
ResultIsReady ==
  rc > 0 => /\ Open = {rc}
            /\ fds[rc] = IF role = "client" THEN "connected" ELSE "listening"

(* A failure leaves nothing behind, neither a descriptor nor the list,     *)
(* unless close itself has failed.                                         *)
FailureIsClean == Ended /\ rc < 0 /\ ~closeFailed => Open = {} /\ listp # "allocated"

(* csapp.c 953: "-1 with errno set for other errors": by a call of this    *)
(* function that failed, not by setsockopt and not before.                 *)
ErrnoIsSet == Ended /\ rc = -1 => errno \in Causes

(* What a caller may rely on, whichever calls fail in whatever order.      *)
OutcomeIsClean == ResultIsReady /\ FailureIsClean /\ ErrnoIsSet
=============================================================================
