---------------------------- MODULE SortContract ----------------------------
(***************************************************************************)
(* What csf_assign04/parsort.c promises to whoever runs it on a file, with *)
(* no processes in sight: the file is rearranged for a while, then the     *)
(* program reports success or failure.  Success means that the file is     *)
(* sorted, that it holds exactly the elements it held before, and that     *)
(* nobody writes to it any more.  Failure promises nothing about the       *)
(* order, and processes left behind may still be rearranging the file; no  *)
(* element is lost unless a signal ended one of them (torn).               *)
(***************************************************************************)
EXTENDS Integers

CONSTANTS
  N,    \* number of elements
  Key   \* the values that are sorted

VARIABLES
  key,      \* key[e]: the value of element e, named by its first index
  arr,      \* arr[i]: the element now at index i
  outcome,  \* what the program has reported
  torn      \* a signal has ended one of its processes

cvars == <<key, arr, outcome, torn>>

Slot == 0 .. N-1
Outcome == {"running", "success", "failure"}

Permuted(a) == {a[i] : i \in Slot} = Slot
InOrder(a) == \A i, j \in Slot : i < j => key[a[i]] <= key[a[j]]

Init ==
  /\ key \in [Slot -> Key]
  /\ arr = [i \in Slot |-> i]
  /\ outcome = "running"
  /\ torn = FALSE

(* Some process moves elements about; without tearing none is lost. *)
Rearrange ==
  /\ outcome # "success"
  /\ arr' \in [Slot -> Slot]
  /\ torn' \/ Permuted(arr')
  /\ torn => torn'
  /\ outcome' \in IF torn' /\ outcome = "running" THEN {"running", "failure"}
                  ELSE {outcome}
  /\ UNCHANGED key

Succeed ==
  /\ outcome = "running" /\ ~torn
  /\ Permuted(arr) /\ InOrder(arr)
  /\ outcome' = "success"
  /\ UNCHANGED <<key, arr, torn>>

Fail ==
  /\ outcome = "running"
  /\ outcome' = "failure"
  /\ UNCHANGED <<key, arr, torn>>

Next == Rearrange \/ Succeed \/ Fail

Spec == Init /\ [][Next]_cvars
=============================================================================
