------------------------------- MODULE TcTest -------------------------------
(***************************************************************************)
(* A test program built with tctest: main runs TEST for one test function  *)
(* after the other.  A failing ASSERT, FAIL and the handler of a signal    *)
(* all jump back to the sigsetjmp of the TEST under way, also out of       *)
(* cleanup, and the code behind it runs again.                             *)
(***************************************************************************)
EXTENDS Naturals, Integers, Sequences, FiniteSets

CONSTANTS N,                 \* number of tests in main
          MaxAsserts,        \* bound: ASSERTs reached in one test function
          MaxCleanupCrashes  \* bound: signals that arrive in cleanup

ASSUME TestsAssumption == N \in Nat \ {0} /\ MaxAsserts \in Nat /\ MaxCleanupCrashes \in Nat

Test == 1..N
Any == 0                     \* tctest_testname_to_execute is null
Line == {<<>>} \cup (Test \X (1..MaxAsserts))   \* <<>>: -1, otherwise test and ASSERT

VARIABLES
  testname,   \* tctest_testname_to_execute: Any, a test, or N + 1, the name of none
  k,          \* the TEST of main that is next or under way
  pc,         \* where main is
  t,          \* whether the variable t of TEST points to an object
  line,       \* tctest_assertion_line
  failures,   \* tctest_failures
  executed,   \* tctest_num_executed
  reports,    \* the calls of tctest_on_test_executed
  complete,   \* the call of tctest_on_complete
  made,       \* the tests whose setup has returned an object
  cleaned,    \* how often cleanup has freed the object of each test
  said,       \* the last message of the signal handler
  crashes     \* signals in cleanup so far

vars == <<testname, k, pc, t, line, failures, executed, reports, complete, made, cleaned, said,
          crashes>>

Init ==
  /\ testname \in 0..(N + 1)
  /\ k = 1 /\ pc = "main"
  /\ t = FALSE /\ line = <<>> /\ failures = 0 /\ executed = 0
  /\ reports = <<>> /\ complete = <<>> /\ made = {} /\ cleaned = [i \in Test |-> 0]
  /\ said = <<>> /\ crashes = 0

Selected(i) == testname \in {Any, i}

Skip ==
  /\ pc = "main" /\ k <= N /\ ~Selected(k)
  /\ k' = k + 1
  /\ UNCHANGED <<testname, pc, t, line, failures, executed, reports, complete, made, cleaned,
                 said, crashes>>

\* Mutant: the line of the last ASSERT is not reset.
BeginKeepsLine ==
  /\ pc = "main" /\ k <= N /\ Selected(k)
  /\ t' = FALSE /\ executed' = executed + 1 /\ pc' = "setup"
  /\ UNCHANGED <<testname, k, line, failures, reports, complete, made, cleaned, said, crashes>>

Begin ==
  /\ pc = "main" /\ k <= N /\ Selected(k)
  /\ t' = FALSE /\ executed' = executed + 1 /\ line' = <<>>
  /\ pc' = "setup"
  /\ UNCHANGED <<testname, k, failures, reports, complete, made, cleaned, said, crashes>>

SetUp ==
  /\ pc = "setup"
  /\ t' = TRUE /\ made' = made \cup {k} /\ pc' = "func"
  /\ UNCHANGED <<testname, k, line, failures, executed, reports, complete, cleaned, said, crashes>>

(* ASSERT notes its line before it looks at its condition *)
ReachAssert ==
  LET j == IF line = <<>> THEN 1 ELSE line[2] + 1
  IN  j <= MaxAsserts /\ line' = <<k, j>>

AssertHolds ==
  /\ pc = "func"
  /\ ReachAssert
  /\ UNCHANGED <<testname, k, pc, t, failures, executed, reports, complete, made, cleaned, said,
                 crashes>>

\* Mutant: a passed test goes on to the next one without cleanup.
FuncReturnsToMain ==
  /\ pc = "func"
  /\ reports' = Append(reports, <<k, TRUE>>)
  /\ pc' = "main" /\ k' = k + 1
  /\ UNCHANGED <<testname, t, line, failures, executed, complete, made, cleaned, said, crashes>>

FuncReturns ==
  /\ pc = "func"
  /\ reports' = Append(reports, <<k, TRUE>>)
  /\ pc' = "cleanup"
  /\ UNCHANGED <<testname, k, t, line, failures, executed, complete, made, cleaned, said, crashes>>

-----------------------------------------------------------------------------
\* Mutant: the failure is not counted.
JumpBackUncounted ==
  /\ reports' = Append(reports, <<k, FALSE>>)
  /\ t' \in {t, FALSE} /\ pc' = "cleanup"
  /\ UNCHANGED <<testname, k, executed, complete, made, failures>>

(* siglongjmp(tctest_env, 1): the second return of sigsetjmp.  t is not    *)
(* volatile and has been assigned since the first: it keeps its value in   *)
(* memory, and goes back to null when the build held it in a register.     *)
JumpBack ==
  /\ failures' = failures + 1
  /\ reports' = Append(reports, <<k, FALSE>>)
  /\ t' \in {t, FALSE}
  /\ pc' = "cleanup"
  /\ UNCHANGED <<testname, k, executed, complete, made>>

AssertFails ==
  /\ pc = "func"
  /\ ReachAssert
  /\ JumpBack
  /\ UNCHANGED <<cleaned, said, crashes>>

Fail ==
  /\ pc = "func"
  /\ JumpBack
  /\ UNCHANGED <<line, cleaned, said, crashes>>

tctest_print_signal_msg == said' = <<k, line>>

(* a signal of tctest_signal_list *)
tctest_signal_handler ==
  /\ tctest_print_signal_msg
  /\ JumpBack
  /\ UNCHANGED line

Crash == pc \in {"setup", "func"} /\ tctest_signal_handler /\ UNCHANGED <<cleaned, crashes>>

CleanupCrashes ==
  /\ pc = "cleanup" /\ t
  /\ crashes < MaxCleanupCrashes /\ crashes' = crashes + 1
  /\ cleaned' \in {cleaned, [cleaned EXCEPT ![k] = @ + 1]}   \* before or after the free
  /\ tctest_signal_handler

(* a signal with no handler ends the program *)
Killed ==
  /\ pc \in {"setup", "func", "cleanup"}
  /\ pc' = "killed"
  /\ UNCHANGED <<testname, k, t, line, failures, executed, reports, complete, made, cleaned, said,
                 crashes>>

-----------------------------------------------------------------------------
CleanUp ==
  /\ pc = "cleanup"
  /\ cleaned' = IF t THEN [cleaned EXCEPT ![k] = @ + 1] ELSE cleaned
  /\ k' = k + 1 /\ pc' = "main"
  /\ UNCHANGED <<testname, t, line, failures, executed, reports, complete, made, said, crashes>>

TestFini ==
  /\ pc = "main" /\ k = N + 1
  /\ complete' = <<executed - failures, executed>>
  /\ pc' = "exit"
  /\ UNCHANGED <<testname, k, t, line, failures, executed, reports, made, cleaned, said, crashes>>

ExitCode == IF failures > 0 THEN 1 ELSE 0

Next == Skip \/ Begin \/ SetUp \/ AssertHolds \/ FuncReturns \/ AssertFails \/ Fail \/ Crash
        \/ CleanupCrashes \/ Killed \/ CleanUp \/ TestFini

Spec == Init /\ [][Next]_vars

-----------------------------------------------------------------------------
(* Properties.                                                             *)

(* The tests that were selected are reported in the order of main, and the *)
(* report that a test has passed is the first on it; the exit code is 0    *)
(* exactly when none was reported as failed.  tctest.h 62: the parameters  *)
(* of tctest_on_complete "are the number of tests passed and the total     *)
(* number of tests executed".  This last only when no signal has arrived   *)
(* in cleanup: it brings the test back to its failure branch, which counts *)
(* it again.                                                               *)
Reported(verdict) == {i \in Test : \E j \in DOMAIN reports : reports[j] = <<i, verdict>>}
VerdictIsTheReports ==
  /\ \A i, j \in DOMAIN reports :
       i < j => /\ reports[i][1] <= reports[j][1]
                /\ reports[i][1] = reports[j][1] => ~reports[j][2]
  /\ pc = "exit" =>
       /\ Reported(TRUE) \cup Reported(FALSE) = {i \in Test : Selected(i)}
       /\ ExitCode = 0 <=> Reported(FALSE) = {}
       /\ crashes = 0 => complete = <<Cardinality(Reported(TRUE)), Len(reports)>>

(* The line in the message of a signal is one of the test the signal ended *)
(* (tctest_assertion_line is shared by all tests).                         *)
OwnLine == said # <<>> /\ said[2] # <<>> => said[2][1] = said[1]

(* cleanup is given objects that setup has made, and each once unless it   *)
(* was interrupted; only a failed test can leave one behind.               *)
FreedOnce ==
  /\ \A i \in Test : cleaned[i] > 0 => i \in made
  /\ crashes = 0 => \A i \in Test : cleaned[i] <= 1
  /\ pc = "exit" => \A i \in made : cleaned[i] = 0 => i \in Reported(FALSE)
=============================================================================
