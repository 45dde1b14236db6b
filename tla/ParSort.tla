------------------------------ MODULE ParSort ------------------------------
(***************************************************************************)
(* The parallel merge sort of csf_assign04/parsort.c: a file of N int64_t  *)
(* elements is mapped MAP_SHARED and sorted in place by a tree of          *)
(* processes.  A process forks one child per half of its range, waits for  *)
(* both, and merges.                                                       *)
(*                                                                         *)
(* A process is named by the path of forks that leads to it from the       *)
(* top-level process: the pid that fork() gives to process p for its left  *)
(* half is Append(p, "l").  An array element is named by the index it had  *)
(* in the input file, and key gives the int64_t it holds, so that losing   *)
(* or duplicating an element is visible even when keys are equal.          *)
(*                                                                         *)
(* Memory shared by the processes is arr; everything else a process has    *)
(* (its arguments, temparr, the loop variables) is private to it.          *)
(***************************************************************************)
EXTENDS Integers, Sequences, FiniteSets

CONSTANTS
  N,          \* number of elements: file_size_in_bytes / sizeof(int64_t)
  Threshold,  \* the sequential threshold of the command line
  IntMod,     \* 2^32 in the program: the number of values of a C int
  MaxDepth,   \* bound: at this fork depth the process limit makes fork fail
  Key,        \* the int64_t values
  Faults      \* what may go wrong: subset of {"io", "fork", "wait", "kill"}

ASSUME ConstAssumption ==
  /\ N \in Nat
  /\ Threshold \in Nat
  /\ IntMod \in Nat \ {0}
  /\ MaxDepth \in Nat
  /\ Key \subseteq Int
  /\ Faults \subseteq {"io", "fork", "wait", "kill"}

VARIABLES
  key,         \* key[e]: the value of element e, fixed by the input file
  arr,         \* arr[i]: the element now at index i of the mapped file
  pc,          \* pc[p]: where process p is
  lo,          \* lo[p]: its argument begin
  hi,          \* hi[p]: its argument end
  temparr,     \* temparr[p]: what merge has written to temparr so far
  taken,       \* taken[p]: left - begin, how far merge is in the left half
  waitFailed,  \* waitFailed[p]: a waitpid of p returned -1
  status       \* status[p]: exit code of p, Killed, or Running

vars == <<key, arr, pc, lo, hi, temparr, taken, waitFailed, status>>

Index == 0 .. N-1
Side == {"l", "r"}
Path == UNION {[1..d -> Side] : d \in 0..MaxDepth}
Root == << >>
Child(p, s) == Append(p, s)

Running == -1
Killed == 128   \* !WIFEXITED: ended by a signal
ExitCode == 0 .. 12

PC == {"unused", "main", "begin", "qsort", "fork_l", "fork_r", "wait_l",
       "wait_r", "check", "merge", "copy", "return", "dead"}

-----------------------------------------------------------------------------
(* Arithmetic of merge_sort.                                               *)

(* Conversion of a size_t difference to int. *)
CInt(n) == LET m == n % IntMod
           IN  IF 2 * m < IntMod THEN m ELSE m - IntMod

NumElements(p) == CInt(hi[p] - lo[p])

(* int division truncates towards zero. *)
Half(n) == IF n >= 0 THEN n \div 2 ELSE -((-n) \div 2)

Mid(p) == lo[p] + Half(NumElements(p))

(* Mutant: the base case needs strictly fewer elements than threshold. *)
IsBaseCaseStrict(p) == NumElements(p) >= 0 /\ NumElements(p) < Threshold

(* A negative numelements is converted to size_t: above every threshold. *)
IsBaseCase(p) == NumElements(p) >= 0 /\ NumElements(p) <= Threshold

(* The indices that qsort and memcpy of process p touch, and the elements  *)
(* they hold.                                                              *)
Span(p) == lo[p] .. lo[p] + NumElements(p) - 1
Elements(p) == {arr[i] : i \in Span(p)}

(* merge reads up to end, whatever numelements is. *)
Left(p) == lo[p] + taken[p]
(* Mutant: the right half is read from begin. *)
RightFromBegin(p) == lo[p] + Len(temparr[p]) - taken[p]

Right(p) == Mid(p) + Len(temparr[p]) - taken[p]
AtEndL(p) == Left(p) >= Mid(p)
AtEndR(p) == Right(p) >= hi[p]
OverrunsTemparr(p) == pc[p] = "merge" /\ Len(temparr[p]) > NumElements(p)

-----------------------------------------------------------------------------
Init ==
  /\ key \in [Index -> Key]
  /\ arr = [i \in Index |-> i]
  /\ pc = [p \in Path |-> IF p = Root THEN "main" ELSE "unused"]
  /\ lo = [p \in Path |-> 0]
  /\ hi = [p \in Path |-> IF p = Root THEN N ELSE 0]
  /\ temparr = [p \in Path |-> << >>]
  /\ taken = [p \in Path |-> 0]
  /\ waitFailed = [p \in Path |-> FALSE]
  /\ status = [p \in Path |-> Running]

Goto(p, label) == pc' = [pc EXCEPT ![p] = label]

Exit(p, c) ==
  /\ Goto(p, "dead")
  /\ status' = [status EXCEPT ![p] = c]

UnchangedData == UNCHANGED <<key, arr, temparr, taken>>
UnchangedArgs == UNCHANGED <<lo, hi>>

(* main up to the call of merge_sort: arguments, open, fstat, mmap, close. *)
(* A file of no element is either empty, so that mmap fails, or a few      *)
(* bytes long.                                                             *)
Main(p) ==
  /\ pc[p] = "main"
  /\ \/ Goto(p, "begin") /\ UNCHANGED status
     \/ N = 0 /\ Exit(p, 5)
     \/ "io" \in Faults /\ \E c \in 1..6 : Exit(p, c)
  /\ UnchangedData /\ UnchangedArgs /\ UNCHANGED waitFailed

(* merge_sort on entry: sort in place or split. *)
Begin(p) ==
  /\ pc[p] = "begin"
  /\ Goto(p, IF IsBaseCase(p) THEN "qsort" ELSE "fork_l")
  /\ UnchangedData /\ UnchangedArgs /\ UNCHANGED <<waitFailed, status>>

(* f is an order in which sorting by key may leave the elements of p *)
SortedOrder(p, f) ==
  /\ {f[i] : i \in Span(p)} = Elements(p)
  /\ \A i, j \in Span(p) : i < j => key[f[i]] <= key[f[j]]

Overwrite(p, f) == [i \in Index |-> IF i \in Span(p) THEN f[i] ELSE arr[i]]

(* The library's qsort: not stable, so equal keys may end in any order. *)
Qsort(p) ==
  /\ pc[p] = "qsort"
  /\ \E f \in [Span(p) -> Elements(p)] :
       SortedOrder(p, f) /\ arr' = Overwrite(p, f)
  /\ Goto(p, "return")
  /\ UNCHANGED <<key, temparr, taken, waitFailed, status>> /\ UnchangedArgs

(* fork() for half s: the child starts in do_child_work with its half.     *)
(* A failed fork exits at once, with 8 for the left and 9 for the right    *)
(* child, whatever children are already running.                           *)
ForkChild(p, s, label, b, e) ==
  /\ Len(p) < MaxDepth
  /\ pc' = [pc EXCEPT ![p] = label, ![Child(p, s)] = "begin"]
  /\ lo' = [lo EXCEPT ![Child(p, s)] = b]
  /\ hi' = [hi EXCEPT ![Child(p, s)] = e]
  /\ UNCHANGED status

ForkFails(p, c) ==
  /\ "fork" \in Faults \/ Len(p) = MaxDepth
  /\ Exit(p, c)
  /\ UnchangedArgs

ForkLeft(p) ==
  /\ pc[p] = "fork_l"
  /\ ForkChild(p, "l", "fork_r", lo[p], Mid(p)) \/ ForkFails(p, 8)
  /\ UnchangedData /\ UNCHANGED waitFailed

(* Mutant: the right half includes the element at end. *)
ForkRightInclusive(p) ==
  /\ pc[p] = "fork_r"
  /\ ForkChild(p, "r", "wait_l", Mid(p), hi[p] + 1) \/ ForkFails(p, 9)
  /\ UnchangedData /\ UNCHANGED waitFailed

ForkRight(p) ==
  /\ pc[p] = "fork_r"
  /\ ForkChild(p, "r", "wait_l", Mid(p), hi[p]) \/ ForkFails(p, 9)
  /\ UnchangedData /\ UNCHANGED waitFailed

(* Mutant: waitpid is called with WNOHANG. *)
WaitPidNoHang(p, s) == s \in Side /\ p \in Path /\ UNCHANGED waitFailed

(* waitpid blocks until that child is dead, or fails. *)
WaitPid(p, s) ==
  \/ pc[Child(p, s)] = "dead" /\ UNCHANGED waitFailed
  \/ "wait" \in Faults /\ waitFailed' = [waitFailed EXCEPT ![p] = TRUE]

WaitLeft(p) ==
  /\ pc[p] = "wait_l"
  /\ WaitPid(p, "l") /\ Goto(p, "wait_r")
  /\ UnchangedData /\ UnchangedArgs /\ UNCHANGED status

WaitRight(p) ==
  /\ pc[p] = "wait_r"
  /\ WaitPid(p, "r") /\ Goto(p, "check")
  /\ UnchangedData /\ UnchangedArgs /\ UNCHANGED status

(* What wstatus of child s may read as: as long as waitpid has not set it, *)
(* it is an uninitialized variable.                                        *)
WStatus(p, s) == IF status[Child(p, s)] = Running THEN {0, 1, Killed}
                 ELSE {status[Child(p, s)]}

(* Mutant: the result of waitpid is not tested. *)
CheckNoWaitTest(p) ==
  /\ pc[p] = "check"
  /\ \E wl \in WStatus(p, "l"), wr \in WStatus(p, "r") :
       IF Killed \in {wl, wr} THEN Exit(p, 11)
       ELSE IF {wl, wr} # {0} THEN Exit(p, 12)
       ELSE Goto(p, "merge") /\ UNCHANGED status
  /\ UnchangedData /\ UnchangedArgs /\ UNCHANGED waitFailed

(* Mutant: the exit code of a child is not tested. *)
CheckNoExitTest(p) ==
  /\ pc[p] = "check"
  /\ \E wl \in WStatus(p, "l"), wr \in WStatus(p, "r") :
       IF waitFailed[p] THEN Exit(p, 10)
       ELSE IF Killed \in {wl, wr} THEN Exit(p, 11)
       ELSE Goto(p, "merge") /\ UNCHANGED status
  /\ UnchangedData /\ UnchangedArgs /\ UNCHANGED waitFailed

(* Mutant: both halves are forked again when one of them failed. *)
CheckRetries(p) ==
  /\ pc[p] = "check"
  /\ \E wl \in WStatus(p, "l"), wr \in WStatus(p, "r") :
       IF waitFailed[p] THEN Exit(p, 10)
       ELSE IF {wl, wr} # {0} THEN Goto(p, "fork_l") /\ UNCHANGED status
       ELSE Goto(p, "merge") /\ UNCHANGED status
  /\ UnchangedData /\ UnchangedArgs /\ UNCHANGED waitFailed

(* The three tests on the results of both waitpid calls, in their order. *)
Check(p) ==
  /\ pc[p] = "check"
  /\ \E wl \in WStatus(p, "l"), wr \in WStatus(p, "r") :
       IF waitFailed[p] THEN Exit(p, 10)
       ELSE IF Killed \in {wl, wr} THEN Exit(p, 11)
       ELSE IF {wl, wr} # {0} THEN Exit(p, 12)
       ELSE Goto(p, "merge") /\ UNCHANGED status
  /\ UnchangedData /\ UnchangedArgs /\ UNCHANGED waitFailed

(* compare_i64 applied to the front elements of the two halves. *)
Compare(a, b) == IF key[a] < key[b] THEN -1 ELSE IF key[a] > key[b] THEN 1 ELSE 0
Cmp(p) == Compare(arr[Left(p)], arr[Right(p)])

(* Mutant: the test on the comparison is inverted. *)
TakeLeftInverted(p) ==
  /\ ~AtEndL(p)
  /\ ~AtEndR(p) => Cmp(p) >= 0
  /\ temparr' = [temparr EXCEPT ![p] = Append(@, arr[Left(p)])]
  /\ taken' = [taken EXCEPT ![p] = @ + 1]
  /\ UNCHANGED pc

(* One iteration of the loop of merge. *)
TakeLeft(p) ==
  /\ ~AtEndL(p)
  /\ ~AtEndR(p) => Cmp(p) <= 0
  /\ temparr' = [temparr EXCEPT ![p] = Append(@, arr[Left(p)])]
  /\ taken' = [taken EXCEPT ![p] = @ + 1]
  /\ UNCHANGED pc

TakeRight(p) ==
  /\ ~AtEndR(p)
  /\ ~AtEndL(p) => Cmp(p) > 0
  /\ temparr' = [temparr EXCEPT ![p] = Append(@, arr[Right(p)])]
  /\ UNCHANGED <<pc, taken>>

MergeEnds(p) ==
  /\ AtEndL(p) /\ AtEndR(p)
  /\ Goto(p, "copy")
  /\ UNCHANGED <<temparr, taken>>

Merge(p) ==
  /\ pc[p] = "merge"
  /\ TakeLeft(p) \/ TakeRight(p) \/ MergeEnds(p)
  /\ UNCHANGED <<key, arr, waitFailed, status>> /\ UnchangedArgs

Merged(p) == [i \in Span(p) |-> temparr[p][i - lo[p] + 1]]

(* memcpy back into the shared array, free(temparr). *)
Copy(p) ==
  /\ pc[p] = "copy"
  /\ arr' = Overwrite(p, Merged(p))
  /\ temparr' = [temparr EXCEPT ![p] = << >>]
  /\ taken' = [taken EXCEPT ![p] = 0]
  /\ Goto(p, "return")
  /\ UNCHANGED <<key, waitFailed, status>> /\ UnchangedArgs

(* merge_sort has returned: a child exits with the 0 of do_child_work, the *)
(* top-level process unmaps the file first.                                *)
Return(p) ==
  /\ pc[p] = "return"
  /\ \/ Exit(p, 0)
     \/ p = Root /\ "io" \in Faults /\ Exit(p, 7)
  /\ UnchangedData /\ UnchangedArgs /\ UNCHANGED waitFailed

(* A signal ends p.  In the middle of qsort its range may hold any of its  *)
(* elements anywhere, in the middle of memcpy any part has been copied.    *)
(* Writing past temparr is undefined: p may go on or be ended.             *)
Kill(p) ==
  /\ pc[p] \notin {"unused", "dead"}
  /\ "kill" \in Faults \/ OverrunsTemparr(p)
  /\ Exit(p, Killed)
  /\ CASE pc[p] = "qsort" -> \E f \in [Span(p) -> Elements(p)] :
                               arr' = Overwrite(p, f)
       [] pc[p] = "copy"  -> \E S \in SUBSET Span(p) :
                               arr' = [i \in Index |->
                                         IF i \in S THEN Merged(p)[i] ELSE arr[i]]
       [] OTHER           -> UNCHANGED arr
  /\ temparr' = [temparr EXCEPT ![p] = << >>]
  /\ taken' = [taken EXCEPT ![p] = 0]
  /\ UNCHANGED <<key, waitFailed>> /\ UnchangedArgs

(* What process p does when it is scheduled. *)
Step(p) ==
  \/ Main(p) \/ Begin(p) \/ Qsort(p) \/ ForkLeft(p) \/ ForkRight(p)
  \/ WaitLeft(p) \/ WaitRight(p) \/ Check(p) \/ Merge(p) \/ Copy(p)
  \/ Return(p)

AllEnded == \A p \in Path : pc[p] \in {"unused", "dead"}
Ended == AllEnded /\ UNCHANGED vars

Next == (\E p \in Path : Step(p) \/ Kill(p)) \/ Ended

Spec == Init /\ [][Next]_vars

(* The kernel runs every runnable process; it owes no one a failure. *)
FairSpec == Spec /\ \A p \in Path : WF_vars(Step(p))

-----------------------------------------------------------------------------
(* Properties.                                                             *)

(* The number of elements, and its double, fit in an int. *)
FitsInt == 2 * N < IntMod

(* Every variable has its type; ranges stay inside the mapped file and a   *)
(* merge never holds more elements than the file.                          *)
TypeOK ==
  /\ key \in [Index -> Key]
  /\ arr \in [Index -> Index]
  /\ pc \in [Path -> PC]
  /\ lo \in [Path -> 0..N]
  /\ hi \in [Path -> 0..N]
  /\ temparr \in [Path -> Seq(Index)]
  /\ taken \in [Path -> Nat]
  /\ waitFailed \in [Path -> BOOLEAN]
  /\ status \in [Path -> ExitCode \union {Running, Killed}]

(* merge never writes past the end of temparr, which malloc has sized for  *)
(* numelements elements.                                                   *)
NoOverrun == \A p \in Path : ~OverrunsTemparr(p)

(* p reads or writes the shared array at its next step. *)
Accessing(p) == pc[p] \in {"qsort", "merge", "copy"}
Touched(p) == lo[p] .. hi[p] - 1

(* README.txt 70-71: the data each sort works on and accesses are          *)
(* independent.  No two processes that are at work on the array touch a    *)
(* common index, orphans of a failed parent included: parsort.c has no     *)
(* lock, so this is all that keeps its processes from racing.              *)
NoRace ==
  \A p, q \in Path :
    p # q /\ Accessing(p) /\ Accessing(q) => Touched(p) \intersect Touched(q) = {}

(* What is_sorted.c tests of the file. *)
IsSorted == \A i \in 1 .. N-1 : ~(key[arr[i]] < key[arr[i-1]])
IsPermuted == {arr[i] : i \in Index} = Index

(* parsort.c 193: exit code 0 means that the file is sorted, and that it   *)
(* holds the elements it held at the start, each once.                     *)
SortedOnSuccess == status[Root] = 0 => IsSorted /\ IsPermuted

(* q is p or was forked, directly or not, by p *)
InSubtree(p, q) == Len(p) <= Len(q) /\ \A i \in 1..Len(p) : q[i] = p[i]

(* A process exits with 0 only when every process below it has ended, with *)
(* 0 as well: no failure, however deep, is hidden by an ancestor, and      *)
(* success leaves no orphan that still writes to the file.                 *)
SuccessIsComplete ==
  \A p, q \in Path :
    status[p] = 0 /\ InSubtree(p, q) /\ pc[q] # "unused" => status[q] = 0

(* parsort.c 122: the parent blocks until the processes identified by      *)
(* pid_l and pid_r complete.  When it tests their wstatus, both have been  *)
(* set, so it reads no uninitialized variable.                             *)
WstatusIsSet ==
  \A p \in Path : pc[p] = "check" /\ ~waitFailed[p] =>
                   \A s \in Side : pc[Child(p, s)] = "dead"

(* As long as no signal ended a process, every element is in the file,     *)
(* exactly once, at every moment: also when fork or waitpid failed and     *)
(* orphans work on, and whichever of them is in the middle of a merge.     *)
DataKept == (\A p \in Path : status[p] # Killed) => IsPermuted

(* The number of processes one run creates.  A leaf of the fork tree sorts *)
(* at least half of threshold + 1 elements, so a threshold keeps the tree  *)
(* small; the bound is reached when every split is as uneven as it can be. *)
MinLeaf == (Threshold + 1) \div 2
Forked == {p \in Path : pc[p] # "unused"}
ProcessBound ==
  Cardinality(Forked) <= IF N <= Threshold THEN 1 ELSE 2 * (N \div MinLeaf) - 1

(* The file as a reader sees it: an instance of the contract.              *)
Outcome ==
  CASE status[Root] = Running -> "running"
    [] status[Root] = 0       -> "success"
    [] OTHER                  -> "failure"
Torn == \E p \in Path : status[p] = Killed
Contract == INSTANCE SortContract WITH outcome <- Outcome, torn <- Torn

(* The program keeps its contract: among others, after an exit with 0 the  *)
(* file never changes again.                                               *)
KeepsContract == Contract!Spec

(* Every process ends, whatever fails: waitpid never blocks for good, and  *)
(* orphans end too.                                                        *)
AllEnd == <>[]AllEnded

(* With nothing failing and a threshold of at least one, the sort succeeds. *)
Succeeds == <>(status[Root] = 0)

(* A threshold of 0 is accepted (parsort.c 160-164) but no range is ever   *)
(* small enough, a single element least of all: the sort never succeeds.   *)
NeverSucceeds == status[Root] # 0

=============================================================================
