--------------------------- MODULE Assign01Proofs ---------------------------
(***************************************************************************)
(* Proofs about the two programs of csf_assign01.  First about TcTest, for *)
(* any number of tests, of ASSERTs in a test and of signals in cleanup:    *)
(* what main reports is what has happened.  Then about MCUInt256, for any  *)
(* size of a chunk: the chunks of uint256.c compute what the integers do.  *)
(***************************************************************************)
EXTENDS TcTest, MCUInt256, FiniteSetTheorems, SequenceTheorems, WellFoundedInduction, TLAPS

(***************************************************************************)
(* TcTest                                                                  *)
(***************************************************************************)

UnderWay == pc \in {"setup", "func", "cleanup"}

TypeInv ==
  /\ testname \in 0 .. N+1
  /\ k \in 1 .. N+1
  /\ pc \in {"main", "setup", "func", "cleanup", "exit", "killed"}
  /\ t \in BOOLEAN
  /\ line \in Line
  /\ failures \in Nat /\ executed \in Nat /\ crashes \in Nat
  /\ reports \in Seq(Test \X BOOLEAN)
  /\ made \subseteq Test
  /\ cleaned \in [Test -> Nat]
  /\ UnderWay => k \in Test /\ Selected(k)

(* A test that jumps back: the state of a TEST that has failed.            *)
LEMMA JumpBackType ==
  ASSUME TypeInv, JumpBack, UnderWay
  PROVE /\ k' \in 1 .. N+1 /\ pc' = "cleanup" /\ t' \in BOOLEAN /\ failures' \in Nat
        /\ reports' \in Seq(Test \X BOOLEAN)
        /\ testname' = testname /\ k' = k /\ executed' = executed /\ made' = made
<1>1. <<k, FALSE>> \in Test \X BOOLEAN
  BY DEF TypeInv
<1>2. t' \in BOOLEAN
  <2>1. t \in BOOLEAN /\ t' \in {t, FALSE}
    BY DEF TypeInv, JumpBack
  <2> QED
    BY <2>1, Zenon
<1>3. reports' \in Seq(Test \X BOOLEAN)
  BY <1>1 DEF TypeInv, JumpBack
<1>4. failures' \in Nat
  BY DEF TypeInv, JumpBack
<1>5. k \in 1 .. N+1 /\ pc' = "cleanup" /\ UNCHANGED <<testname, k, executed, made>>
  BY DEF TypeInv, JumpBack
<1> QED
  BY <1>2, <1>3, <1>4, <1>5

(* An ASSERT, whether it holds or not.                                     *)
LEMMA ReachAssertType ==
  ASSUME TypeInv, UnderWay, ReachAssert
  PROVE line' \in Line /\ line' # <<>> /\ line'[1] = k
<1> DEFINE j == IF line = <<>> THEN 1 ELSE line[2] + 1
<1>1. j <= MaxAsserts /\ line' = <<k, j>>
  BY DEF ReachAssert
<1>2. j \in 1 .. MaxAsserts
  BY <1>1, TestsAssumption DEF TypeInv, Line
<1> HIDE DEF j
<1> QED
  BY <1>1, <1>2 DEF TypeInv, Line

(* No ASSERT has been reached.                                             *)
LEMMA NoLineYet == <<>> \in Line
BY DEF Line

(* main starts with the right types.                                       *)
LEMMA InitTypeInv ==
  ASSUME Init
  PROVE TypeInv
<1>1. reports \in Seq(Test \X BOOLEAN) /\ t \in BOOLEAN
  <2>1. reports = <<>> /\ t = FALSE
    BY DEF Init
  <2>2. <<>> \in Seq(Test \X BOOLEAN)
    OBVIOUS
  <2> QED
    BY <2>1, <2>2
<1>2. /\ testname \in 0 .. N+1 /\ k \in 1 .. N+1 /\ made \subseteq Test
      /\ cleaned \in [Test -> Nat] /\ pc = "main"
      /\ failures \in Nat /\ executed \in Nat /\ crashes \in Nat
  BY TestsAssumption DEF Init
<1>3. line \in Line
  BY NoLineYet DEF Init
<1> QED
  BY <1>1, <1>2, <1>3 DEF TypeInv, UnderWay

(* No step changes a type.                                                 *)
LEMMA TypeInvStep ==
  ASSUME TypeInv, [Next]_vars
  PROVE TypeInv'
<1> USE TestsAssumption
<1>1. CASE Skip
  BY <1>1 DEF TypeInv, UnderWay, Skip, Selected
<1>2. CASE Begin
  <2>1. line' \in Line /\ t' \in BOOLEAN
    BY <1>2, NoLineYet DEF Begin
  <2>2. k \in Test
    BY <1>2 DEF TypeInv, Begin, Test
  <2> QED
    BY <1>2, <2>1, <2>2 DEF TypeInv, UnderWay, Begin, Selected
<1>3. CASE SetUp
  BY <1>3 DEF TypeInv, UnderWay, SetUp, Selected
<1>4. CASE AssertHolds
  <2>1. line' \in Line
    BY <1>4, ReachAssertType DEF AssertHolds, UnderWay
  <2> QED
    BY <1>4, <2>1 DEF TypeInv, UnderWay, AssertHolds, Selected
<1>5. CASE FuncReturns
  <2>1. <<k, TRUE>> \in Test \X BOOLEAN
    BY <1>5 DEF TypeInv, UnderWay, FuncReturns
  <2> QED
    BY <1>5, <2>1 DEF TypeInv, UnderWay, FuncReturns, Selected
<1>6. CASE AssertFails
  <2>1. line' \in Line /\ JumpBack /\ UnderWay
    BY <1>6, ReachAssertType DEF AssertFails, UnderWay
  <2> QED
    BY <1>6, <2>1, JumpBackType DEF TypeInv, UnderWay, AssertFails, Selected
<1>7. CASE Fail
  BY <1>7, JumpBackType DEF TypeInv, UnderWay, Fail, Selected
<1>8. CASE Crash
  BY <1>8, JumpBackType DEF TypeInv, UnderWay, Crash, tctest_signal_handler, Selected
<1>9. CASE CleanupCrashes
  <2>1. cleaned' \in [Test -> Nat] /\ crashes' \in Nat
    BY <1>9 DEF TypeInv, UnderWay, CleanupCrashes
  <2> QED
    BY <1>9, <2>1, JumpBackType
       DEF TypeInv, UnderWay, CleanupCrashes, tctest_signal_handler, Selected
<1>10. CASE Killed
  BY <1>10 DEF TypeInv, UnderWay, Killed
<1>11. CASE CleanUp
  BY <1>11 DEF TypeInv, UnderWay, CleanUp, Test
<1>12. CASE TestFini
  BY <1>12 DEF TypeInv, UnderWay, TestFini
<1>13. CASE UNCHANGED vars
  BY <1>13 DEF TypeInv, UnderWay, vars, Selected
<1> QED
  BY <1>1, <1>2, <1>3, <1>4, <1>5, <1>6, <1>7, <1>8, <1>9, <1>10, <1>11, <1>12,
     <1>13 DEF Next

-----------------------------------------------------------------------------
(* A step adds at most one report, of the test that is under way.          *)

Reports(verdict) ==
  /\ pc' = "cleanup" /\ k' = k
  /\ reports' = Append(reports, <<k, verdict>>)

(* What one more report adds to the list.                                  *)
LEMMA OneReport ==
  ASSUME TypeInv, UnderWay, NEW verdict \in BOOLEAN, Reports(verdict)
  PROVE /\ Len(reports') = Len(reports) + 1 /\ Len(reports) \in Nat
        /\ DOMAIN reports = 1 .. Len(reports)
        /\ DOMAIN reports' = 1 .. Len(reports) + 1
        /\ \A j \in DOMAIN reports : reports'[j] = reports[j]
        /\ reports'[Len(reports) + 1] = <<k, verdict>>
        /\ Reported(verdict)' = Reported(verdict) \union {k}
        /\ \A other \in BOOLEAN \ {verdict} : Reported(other)' = Reported(other)
<1>1. <<k, verdict>> \in Test \X BOOLEAN /\ reports \in Seq(Test \X BOOLEAN) /\ k \in Test
  BY DEF TypeInv
<1>2. /\ Len(reports') = Len(reports) + 1 /\ Len(reports) \in Nat
      /\ DOMAIN reports = 1 .. Len(reports)
      /\ DOMAIN reports' = 1 .. Len(reports) + 1
      /\ \A j \in DOMAIN reports : reports'[j] = reports[j]
      /\ reports'[Len(reports) + 1] = <<k, verdict>>
  BY <1>1 DEF Reports
<1>3. \A x, v : (\E j \in DOMAIN reports' : reports'[j] = <<x, v>>)
                 <=> (\E j \in DOMAIN reports : reports[j] = <<x, v>>)
                     \/ (x = k /\ v = verdict)
  <2> SUFFICES ASSUME NEW x, NEW v
               PROVE (\E j \in DOMAIN reports' : reports'[j] = <<x, v>>)
                     <=> (\E j \in DOMAIN reports : reports[j] = <<x, v>>)
                         \/ (x = k /\ v = verdict)
    OBVIOUS
  <2>1. \A j : j \in DOMAIN reports' <=> j \in DOMAIN reports \/ j = Len(reports) + 1
    BY <1>2
  <2> QED
    BY <1>2, <2>1
<1>4. Reported(verdict)' = Reported(verdict) \union {k}
  BY <1>1, <1>3 DEF Reported
<1>5. ASSUME NEW other \in BOOLEAN, other # verdict
      PROVE Reported(other)' = Reported(other)
  BY <1>3, <1>5 DEF Reported
<1> QED
  BY <1>2, <1>4, <1>5

(* The reports are in the order of main, and a test that is reported again *)
(* has failed.                                                             *)
InOrder ==
  \A x, j \in DOMAIN reports :
    x < j => /\ reports[x][1] <= reports[j][1]
             /\ reports[x][1] = reports[j][1] => ~reports[j][2]

(* The reports are of selected tests that main has come to.                *)
OfTheSelected ==
  \A j \in DOMAIN reports :
    /\ reports[j][1] <= k
    /\ Selected(reports[j][1])
    /\ reports[j][1] = k => pc \in {"cleanup", "killed"}

Passed == Reported(TRUE)
Failed == Reported(FALSE)

(* Main leaves no selected test without a report.                          *)
NoneLeftOut ==
  pc # "killed" =>
    \A x \in Test :
      Selected(x) /\ (x < k \/ (x = k /\ pc = "cleanup")) =>
        x \in Passed \union Failed

(* A test that has begun has no report yet.                                *)
Begun(p) == IF p \in {"setup", "func"} THEN 1 ELSE 0

(* The counters agree with the reports.                                    *)
Agree ==
  /\ failures = 0 <=> Failed = {}
  /\ Cardinality(Passed) + failures = Len(reports)
  /\ crashes = 0 /\ pc # "killed" =>
       executed = Len(reports) + Begun(pc)
  /\ pc = "exit" => k = N+1 /\ complete = <<executed - failures, executed>>

ReportInv == InOrder /\ OfTheSelected /\ NoneLeftOut /\ Agree

(* Only tests are reported.                                                *)
LEMMA ReportedAreTests ==
  ASSUME TypeInv
  PROVE \A v : /\ Reported(v) \subseteq Test
              /\ IsFiniteSet(Reported(v))
              /\ Cardinality(Reported(v)) \in Nat
<1>1. IsFiniteSet(Test)
  BY TestsAssumption, FS_Interval DEF Test
<1>2. \A v : Reported(v) \subseteq Test
  BY DEF Reported
<1> QED
  BY <1>1, <1>2, FS_Subset, FS_CardinalityType

(* A report keeps ReportInv, if what it says is counted.                   *)
LEMMA ReportKeeps ==
  ASSUME TypeInv, ReportInv, UnderWay, testname' = testname, executed' = executed,
         NEW verdict \in BOOLEAN, Reports(verdict),
         \/ verdict = TRUE /\ pc = "func" /\ failures' = failures
         \/ verdict = FALSE /\ failures' = failures + 1,
         crashes' = 0 => crashes = 0 /\ pc \in {"setup", "func"}
  PROVE ReportInv'
<1> DEFINE n == Len(reports)
<1>1. /\ Len(reports') = n + 1 /\ n \in Nat
      /\ DOMAIN reports = 1 .. n /\ DOMAIN reports' = 1 .. n+1
      /\ \A j \in DOMAIN reports : reports'[j] = reports[j]
      /\ reports'[n+1] = <<k, verdict>>
      /\ verdict = TRUE => Passed' = Passed \union {k} /\ Failed' = Failed
      /\ verdict = FALSE => Failed' = Failed \union {k} /\ Passed' = Passed
  BY OneReport DEF Passed, Failed
<1>2. k' = k /\ k \in Test /\ pc' = "cleanup" /\ Selected(k)
  BY DEF Reports, TypeInv
<1>3. /\ \A j \in DOMAIN reports : reports[j][1] \in Test
      /\ k \in Nat /\ Test \subseteq Nat /\ failures \in Nat /\ executed \in Nat
  <2>1. \A j \in DOMAIN reports : reports[j] \in Test \X BOOLEAN
    BY DEF TypeInv
  <2> QED
    BY <1>2, <2>1 DEF Test, TypeInv
<1>4. \A j \in DOMAIN reports : reports[j][1] <= k
  BY DEF ReportInv, OfTheSelected
<1> HIDE DEF n
<1>5. InOrder'
  <2> SUFFICES ASSUME NEW x \in 1 .. n+1, NEW j \in 1 .. n+1, x < j
               PROVE /\ reports'[x][1] <= reports'[j][1]
                     /\ reports'[x][1] = reports'[j][1] => ~reports'[j][2]
    BY <1>1 DEF InOrder
  <2>1. CASE j \in 1 .. n
    <3>1. x \in 1 .. n /\ reports'[x] = reports[x] /\ reports'[j] = reports[j]
      BY <1>1, <2>1
    <3> QED
      BY <1>1, <2>1, <3>1 DEF ReportInv, InOrder
  <2>2. CASE j = n+1
    <3>1. x \in 1 .. n /\ reports'[x] = reports[x] /\ reports'[j] = <<k, verdict>>
      BY <1>1, <2>2
    <3>2. reports'[x][1] <= reports'[j][1]
      BY <1>1, <1>4, <3>1
    <3>3. verdict = TRUE => reports[x][1] # k
      BY <1>1, <3>1 DEF ReportInv, OfTheSelected
    <3> QED
      BY <3>1, <3>2, <3>3
  <2> QED
    BY <1>1, <2>1, <2>2
<1>6. OfTheSelected'
  <2>1. \A j \in 1 .. n : reports'[j][1] <= k /\ Selected(reports'[j][1])
    BY <1>1, <1>2 DEF ReportInv, OfTheSelected
  <2>2. reports'[n+1][1] <= k /\ Selected(reports'[n+1][1])
    <3>1. reports'[n+1][1] = k
      BY <1>1
    <3> QED
      BY <1>2, <1>3, <3>1
  <2>3. \A j \in 1 .. n+1 : reports'[j][1] <= k /\ Selected(reports'[j][1])
    BY <1>1, <2>1, <2>2
  <2> QED
    BY <1>1, <1>2, <2>3 DEF OfTheSelected, Selected
<1>7. /\ Passed \subseteq Passed' /\ Failed \subseteq Failed'
      /\ k \in Passed' \union Failed'
  BY <1>1
<1>8. NoneLeftOut'
  BY <1>2, <1>7 DEF ReportInv, NoneLeftOut, Selected, UnderWay
<1>9. Agree'
  <2> DEFINE p == Cardinality(Passed)
  <2> DEFINE q == Cardinality(Passed')
  <2>1. IsFiniteSet(Passed) /\ Cardinality(Passed) \in Nat
    BY ReportedAreTests DEF Passed
  <2>4. /\ crashes' = 0 /\ pc' # "killed" =>
             executed' = Len(reports') + Begun(pc')
        /\ pc' # "exit"
    <3>1. crashes' = 0 => executed = n + 1
      BY DEF ReportInv, Agree, n, Begun
    <3> QED
      BY <1>1, <1>2, <1>3, <3>1 DEF Begun
  <2>5. Cardinality(Passed) + failures = n
    BY DEF ReportInv, Agree, n
  <2>6. Len(reports') = n + 1 /\ n \in Nat /\ failures \in Nat
    BY <1>1, <1>3
  <2>2. CASE verdict = TRUE
    <3>1. k \notin Passed
      <4>1. \A j \in DOMAIN reports : reports[j][1] # k
        BY <2>2 DEF ReportInv, OfTheSelected
      <4>2. \A v : \A j \in DOMAIN reports : reports[j] # <<k, v>>
        BY <4>1
      <4> QED
        BY <4>2 DEF Reported, Passed
    <3>2. Cardinality(Passed') = Cardinality(Passed) + 1
      BY <1>1, <2>1, <2>2, <3>1, FS_AddElement
    <3>3. Failed' = Failed
      BY <1>1, <2>2
    <3>4. failures' = failures
      BY <2>2
    <3>5. failures' = 0 <=> Failed' = {}
      BY <3>3, <3>4 DEF ReportInv, Agree
    <3>6. Cardinality(Passed') + failures' = Len(reports')
      <4>1. p \in Nat /\ q = p + 1 /\ p + failures = n
        BY <2>1, <2>5, <3>2
      <4> HIDE DEF p, q
      <4>2. q + failures' = Len(reports')
        BY <2>6, <3>4, <4>1
      <4> QED
        BY <4>2 DEF q
    <3> QED
      BY <2>4, <3>5, <3>6 DEF Agree
  <2>3. CASE verdict = FALSE
    <3>1. Passed' = Passed /\ Failed' # {}
      BY <1>1, <2>3
    <3>2. failures' = failures + 1
      BY <2>3
    <3>3. failures' # 0
      BY <1>3, <3>2
    <3>4. Cardinality(Passed') + failures' = Len(reports')
      <4>1. p \in Nat /\ q = p /\ p + failures = n
        BY <2>1, <2>5, <3>1
      <4> HIDE DEF p, q
      <4>2. q + failures' = Len(reports')
        BY <2>6, <3>2, <4>1
      <4> QED
        BY <4>2 DEF q
    <3> QED
      BY <2>4, <3>1, <3>3, <3>4 DEF Agree
  <2> QED
    BY <2>2, <2>3
<1> QED
  BY <1>5, <1>6, <1>8, <1>9 DEF ReportInv

(* A step without a report, in which main does not leave a test.           *)
LEMMA QuietKeeps ==
  ASSUME TypeInv, ReportInv, UNCHANGED <<testname, failures, reports, crashes>>,
         k' = k,
         pc \in {"cleanup", "killed"} => pc' \in {"cleanup", "killed"},
         pc' = "cleanup" => pc = "cleanup",
         pc = "killed" => pc' = "killed",
         pc' # "killed" =>
           executed' + Begun(pc) = executed + Begun(pc'),
         executed' \in Nat,
         pc' = "exit" => k = N+1 /\ complete' = <<executed' - failures, executed'>>
  PROVE ReportInv'
<1>1. InOrder'
  BY DEF ReportInv, InOrder
<1>2. OfTheSelected'
  BY DEF ReportInv, OfTheSelected, Selected
<1>3. Passed' = Passed /\ Failed' = Failed
  BY DEF Reported, Passed, Failed
<1>4. NoneLeftOut'
  BY <1>3 DEF ReportInv, NoneLeftOut, Selected
<1>5. executed \in Nat /\ Len(reports) \in Nat
  BY DEF TypeInv
<1>6. Agree'
  <2>1. \A p : Begun(p) \in Int
    BY DEF Begun
  <2>2. (pc' # "killed") => (pc # "killed")
    OBVIOUS
  <2>3. crashes = 0 /\ pc # "killed" => executed = Len(reports) + Begun(pc)
    BY DEF ReportInv, Agree
  <2>4. crashes' = 0 /\ pc' # "killed" => executed' = Len(reports') + Begun(pc')
    BY <1>5, <2>1, <2>2, <2>3
  <2>5. /\ failures' = 0 <=> Failed' = {}
        /\ Cardinality(Passed') + failures' = Len(reports')
        /\ pc' = "exit" => k' = N+1 /\ complete' = <<executed' - failures', executed'>>
    BY <1>3 DEF ReportInv, Agree
  <2> QED
    BY <2>4, <2>5 DEF Agree
<1> QED
  BY <1>1, <1>2, <1>4, <1>6 DEF ReportInv

(* main starts with no report.                                             *)
LEMMA InitReportInv ==
  ASSUME Init
  PROVE ReportInv
<1>1. reports = <<>> /\ DOMAIN reports = {} /\ Len(reports) = 0
  BY DEF Init
<1>2. Passed = {} /\ Failed = {}
  BY <1>1 DEF Reported, Passed, Failed
<1>3. Cardinality(Passed) = 0
  BY <1>2, FS_EmptySet
<1>4. InOrder /\ OfTheSelected
  BY <1>1 DEF InOrder, OfTheSelected
<1>5. NoneLeftOut
  BY DEF Init, NoneLeftOut, Test
<1>6. Agree
  BY <1>1, <1>2, <1>3 DEF Init, Agree, Begun
<1> QED
  BY <1>4, <1>5, <1>6 DEF ReportInv

(* ReportInv is inductive.                                                 *)
LEMMA ReportInvStep ==
  ASSUME TypeInv, ReportInv, [Next]_vars
  PROVE ReportInv'
<1> USE TestsAssumption
<1>1. CASE Skip
  <2>1. /\ UNCHANGED <<testname, failures, reports, crashes, pc, executed, complete>>
        /\ k' = k+1 /\ pc = "main" /\ ~Selected(k) /\ k \in Nat
    BY <1>1 DEF Skip, TypeInv
  <2>2. InOrder'
    BY <2>1 DEF ReportInv, InOrder
  <2>3. OfTheSelected'
    <3>1. \A j \in DOMAIN reports : reports[j] \in Test \X BOOLEAN
      BY DEF TypeInv
    <3>2. \A j \in DOMAIN reports : reports[j][1] \in Nat
      BY <3>1 DEF Test
    <3> QED
      BY <2>1, <3>2 DEF ReportInv, OfTheSelected, Selected
  <2>4. Passed' = Passed /\ Failed' = Failed
    BY <2>1 DEF Reported, Passed, Failed
  <2>5. NoneLeftOut'
    BY <2>1, <2>4 DEF ReportInv, NoneLeftOut, Selected, Test
  <2>6. Agree'
    BY <2>1, <2>4 DEF ReportInv, Agree, Begun
  <2> QED
    BY <2>2, <2>3, <2>5, <2>6 DEF ReportInv
<1>2. CASE Begin
  BY <1>2, QuietKeeps DEF Begin, TypeInv, Begun
<1>3. CASE SetUp
  BY <1>3, QuietKeeps DEF SetUp, TypeInv, Begun
<1>4. CASE AssertHolds
  BY <1>4, QuietKeeps DEF AssertHolds, TypeInv, Begun
<1>5. CASE FuncReturns
  <2>1. Reports(TRUE) /\ UnderWay
    BY <1>5 DEF FuncReturns, Reports, UnderWay
  <2>2. /\ pc = "func" /\ failures' = failures /\ crashes' = crashes
        /\ testname' = testname /\ executed' = executed
    BY <1>5 DEF FuncReturns
  <2> QED
    BY <2>1, <2>2, ReportKeeps
<1>6. ASSUME AssertFails \/ Fail \/ Crash \/ CleanupCrashes
      PROVE ReportInv'
  <2>1. JumpBack /\ UnderWay
    BY <1>6 DEF AssertFails, Fail, Crash, CleanupCrashes, tctest_signal_handler, UnderWay
  <2>2. crashes' = 0 => crashes = 0 /\ pc \in {"setup", "func"}
    BY <1>6 DEF AssertFails, Fail, Crash, CleanupCrashes, TypeInv
  <2>3. /\ Reports(FALSE) /\ failures' = failures + 1
        /\ testname' = testname /\ executed' = executed
    BY <2>1 DEF JumpBack, Reports
  <2> QED
    BY <2>1, <2>2, <2>3, ReportKeeps
<1>7. CASE Killed
  BY <1>7, QuietKeeps DEF Killed, TypeInv, Begun
<1>8. CASE CleanUp
  <2>1. /\ UNCHANGED <<testname, failures, reports, crashes, executed, complete>>
        /\ k' = k+1 /\ pc = "cleanup" /\ pc' = "main" /\ k \in Nat
    BY <1>8 DEF CleanUp, TypeInv
  <2>2. InOrder'
    BY <2>1 DEF ReportInv, InOrder
  <2>3. OfTheSelected'
    <3>1. \A j \in DOMAIN reports : reports[j] \in Test \X BOOLEAN
      BY DEF TypeInv
    <3>2. \A j \in DOMAIN reports : reports[j][1] \in Nat
      BY <3>1 DEF Test
    <3> QED
      BY <2>1, <3>2 DEF ReportInv, OfTheSelected, Selected
  <2>4. Passed' = Passed /\ Failed' = Failed
    BY <2>1 DEF Reported, Passed, Failed
  <2>5. NoneLeftOut'
    BY <2>1, <2>4 DEF ReportInv, NoneLeftOut, Selected, Test
  <2>6. Agree'
    BY <2>1, <2>4 DEF ReportInv, Agree, Begun
  <2> QED
    BY <2>2, <2>3, <2>5, <2>6 DEF ReportInv
<1>9. CASE TestFini
  BY <1>9, QuietKeeps DEF TestFini, TypeInv, Begun
<1>10. CASE UNCHANGED vars
  BY <1>10, QuietKeeps DEF vars, TypeInv, ReportInv, Agree, Begun
<1> QED
  BY <1>1, <1>2, <1>3, <1>4, <1>5, <1>6, <1>7, <1>8, <1>9, <1>10 DEF Next

(* The reports are those of the selected tests in the order of main, only  *)
(* the first one of a test can say that it has passed, and the exit code   *)
(* and the numbers given to tctest_on_complete are those of the reports.   *)
THEOREM ReportsAreTheVerdict == Spec => []VerdictIsTheReports
<1>1. Init => TypeInv /\ ReportInv
  BY InitTypeInv, InitReportInv
<1>2. TypeInv /\ [Next]_vars => TypeInv'
  BY TypeInvStep
<1>3. TypeInv /\ ReportInv /\ [Next]_vars => ReportInv'
  BY ReportInvStep
<1>4. TypeInv /\ ReportInv => VerdictIsTheReports
  <2> SUFFICES ASSUME TypeInv, ReportInv PROVE VerdictIsTheReports
    OBVIOUS
  <2>1. ASSUME pc = "exit"
        PROVE Passed \union Failed = {x \in Test : Selected(x)}
    <3>1. k = N+1
      BY <2>1 DEF ReportInv, Agree
    <3>2. \A x \in Test : x < k
      BY <3>1, TestsAssumption DEF Test
    <3>3. \A x \in Test : Selected(x) => x \in Passed \union Failed
      BY <2>1, <3>2 DEF ReportInv, NoneLeftOut
    <3>4. \A v : \A x \in Reported(v) : x \in Test /\ Selected(x)
      BY DEF Reported, ReportInv, OfTheSelected
    <3> QED
      BY <3>3, <3>4 DEF Passed, Failed
  <2>2. ExitCode = 0 <=> Failed = {}
    BY DEF ExitCode, ReportInv, Agree, TypeInv
  <2>3. ASSUME pc = "exit", crashes = 0
        PROVE complete = <<Cardinality(Passed), Len(reports)>>
    <3>1. executed = Len(reports) /\ complete = <<executed - failures, executed>>
      <4>1. Len(reports) \in Nat
        BY DEF TypeInv
      <4> QED
        BY <2>3, <4>1 DEF ReportInv, Agree, Begun
    <3>2. /\ Cardinality(Passed) + failures = Len(reports)
          /\ Cardinality(Passed) \in Nat /\ failures \in Nat
      BY ReportedAreTests DEF ReportInv, Agree, TypeInv, Passed
    <3> DEFINE p == Cardinality(Passed)
    <3>3. p + failures = Len(reports) /\ p \in Nat /\ failures \in Nat
      BY <3>2
    <3> HIDE DEF p
    <3>4. complete = <<p, Len(reports)>>
      BY <3>1, <3>3
    <3> QED
      BY <3>4 DEF p
  <2> QED
    BY <2>1, <2>2, <2>3 DEF VerdictIsTheReports, ReportInv, InOrder, Passed, Failed
<1> QED
  BY <1>1, <1>2, <1>3, <1>4, PTL DEF Spec

-----------------------------------------------------------------------------
(* tctest_assertion_line, which all tests share, is one of the test under  *)
(* way: TEST resets it before the test can run into a signal.              *)

LineInv ==
  /\ UnderWay /\ line # <<>> => line[1] = k
  /\ OwnLine

(* A signal while a test is under way names a line of that test.           *)
LEMMA SignalLine ==
  ASSUME LineInv, UnderWay, tctest_signal_handler
  PROVE LineInv'
<1>1. said' = <<k, line>> /\ line' = line /\ k' = k
  BY DEF tctest_signal_handler, tctest_print_signal_msg, JumpBack
<1>2. said'[1] = k /\ said'[2] = line
  BY <1>1
<1> QED
  BY <1>1, <1>2 DEF LineInv, OwnLine

(* LineInv is inductive.                                                   *)
LEMMA LineInvStep ==
  ASSUME TypeInv, LineInv, [Next]_vars
  PROVE LineInv'
<1>1. CASE AssertHolds \/ AssertFails
  <2>1. line'[1] = k /\ said' = said /\ k' = k
    BY <1>1, ReachAssertType DEF AssertHolds, AssertFails, JumpBack, UnderWay
  <2> QED
    BY <2>1 DEF LineInv, OwnLine
<1>2. CASE Begin
  BY <1>2 DEF LineInv, OwnLine, Begin
<1>3. CASE Skip \/ SetUp \/ FuncReturns \/ Fail \/ Killed \/ CleanUp \/ TestFini
           \/ UNCHANGED vars
  BY <1>3 DEF LineInv, OwnLine, UnderWay, Skip, SetUp, FuncReturns, Fail, JumpBack,
     Killed, CleanUp, TestFini, vars
<1>4. CASE Crash \/ CleanupCrashes
  BY <1>4, SignalLine DEF Crash, CleanupCrashes, UnderWay
<1> QED
  BY <1>1, <1>2, <1>3, <1>4 DEF Next

(* The line in the message of a signal is one of the test it ended.        *)
THEOREM SignalNamesOwnLine == Spec => []OwnLine
<1>1. Init => TypeInv /\ LineInv
  <2>1. Init => LineInv
    BY DEF Init, LineInv, OwnLine
  <2> QED
    BY <2>1, InitTypeInv
<1>2. TypeInv /\ [Next]_vars => TypeInv'
  BY TypeInvStep
<1>3. TypeInv /\ LineInv /\ [Next]_vars => LineInv'
  BY LineInvStep
<1>4. LineInv => OwnLine
  BY DEF LineInv
<1> QED
  BY <1>1, <1>2, <1>3, <1>4, PTL DEF Spec

-----------------------------------------------------------------------------
(* cleanup frees what setup has made.                                      *)

CleanInv ==
  /\ \A x \in Test : cleaned[x] > 0 => x \in made /\ x <= k
  /\ made \subseteq 1 .. k
  /\ pc = "main" => k \notin made
  /\ pc \in {"func", "cleanup"} /\ t => k \in made
  /\ pc = "setup" => ~t
  /\ pc = "func" => t
  /\ pc \in {"main", "setup", "func"} => \A x \in Test : x >= k => cleaned[x] = 0
  /\ crashes = 0 => /\ \A x \in Test : cleaned[x] <= 1
                    /\ pc = "cleanup" => cleaned[k] = 0
  /\ pc = "cleanup" /\ k \in made /\ ~t /\ cleaned[k] = 0 => k \in Failed
  /\ pc # "killed" => \A x \in made : x < k /\ cleaned[x] = 0 => x \in Failed

(* A test that has failed stays so.                                        *)
LEMMA FailedGrows ==
  ASSUME TypeInv, [Next]_vars
  PROVE Failed \subseteq Failed' /\ (JumpBack /\ UnderWay => k \in Failed')
<1>1. ASSUME JumpBack, UnderWay
      PROVE Failed' = Failed \union {k}
  <2>1. Reports(FALSE)
    BY <1>1 DEF JumpBack, Reports
  <2> QED
    BY <1>1, <2>1, OneReport DEF Failed
<1>2. CASE AssertFails \/ Fail \/ Crash \/ CleanupCrashes
  <2>1. JumpBack /\ UnderWay
    BY <1>2 DEF AssertFails, Fail, Crash, CleanupCrashes, tctest_signal_handler, UnderWay
  <2> QED
    BY <1>1, <2>1
<1>3. CASE FuncReturns
  <2>1. Reports(TRUE) /\ UnderWay
    BY <1>3 DEF FuncReturns, Reports, UnderWay
  <2>2. Failed' = Failed
    BY <2>1, OneReport DEF Failed
  <2> QED
    BY <1>1, <2>2
<1>4. CASE Skip \/ Begin \/ SetUp \/ AssertHolds \/ Killed \/ CleanUp \/ TestFini
           \/ UNCHANGED vars
  <2>1. reports' = reports
    BY <1>4 DEF Skip, Begin, SetUp, AssertHolds, Killed, CleanUp, TestFini, vars
  <2>2. Failed' = Failed
    BY <2>1 DEF Failed, Reported
  <2> QED
    BY <1>1, <2>2
<1> QED
  BY <1>2, <1>3, <1>4 DEF Next

(* CleanInv is inductive.                                                  *)
LEMMA CleanInvStep ==
  ASSUME TypeInv, CleanInv, [Next]_vars
  PROVE CleanInv'
<1>1. Failed \subseteq Failed' /\ (JumpBack /\ UnderWay => k \in Failed')
  BY FailedGrows
<1>2. /\ cleaned \in [Test -> Nat] /\ k \in Nat /\ crashes \in Nat
      /\ UnderWay => k \in Test
      /\ made \subseteq Test /\ Test \subseteq Nat
  BY TestsAssumption DEF TypeInv, Test
<1>3. CASE AssertFails \/ Fail \/ Crash
  <2>1. /\ UNCHANGED <<k, made, cleaned, crashes>> /\ pc' = "cleanup"
        /\ t' \in {t, FALSE} /\ k \in Failed' /\ pc \in {"setup", "func"}
    BY <1>1, <1>3 DEF AssertFails, Fail, Crash, JumpBack, tctest_signal_handler, UnderWay
  <2>2. k \in Test
    BY <1>2, <2>1 DEF UnderWay
  <2>3. t' => t
    BY <2>1
  <2>4. (pc' = "cleanup" /\ t') => k \in made
    BY <2>1, <2>3 DEF CleanInv
  <2> QED
    BY <1>1, <1>2, <2>1, <2>2, <2>4 DEF CleanInv
<1>4. CASE CleanupCrashes
  <2>1. /\ UNCHANGED <<k, made>> /\ pc = "cleanup" /\ pc' = "cleanup" /\ t
        /\ k \in Failed' /\ crashes' # 0 /\ k \in Test
        /\ cleaned' \in {cleaned, [cleaned EXCEPT ![k] = @ + 1]}
    <3>1. /\ pc = "cleanup" /\ t /\ crashes' = crashes + 1 /\ JumpBack
          /\ cleaned' \in {cleaned, [cleaned EXCEPT ![k] = @ + 1]}
      BY <1>4 DEF CleanupCrashes, tctest_signal_handler
    <3>2. UNCHANGED <<k, made>> /\ pc' = "cleanup"
      BY <3>1 DEF JumpBack
    <3>3. UnderWay /\ crashes' # 0
      BY <1>2, <3>1 DEF UnderWay
    <3> QED
      BY <1>1, <1>2, <3>1, <3>2, <3>3
  <2>2. k \in made
    BY <2>1 DEF CleanInv
  <2>3. \A x \in Test : x # k => cleaned'[x] = cleaned[x]
    BY <1>2, <2>1
  <2>4. k <= k
    BY <1>2
  <2>5. \A x \in Test : cleaned'[x] > 0 => x \in made /\ x <= k
    BY <1>2, <2>1, <2>2, <2>3, <2>4 DEF CleanInv
  <2>6. \A x \in made : x < k /\ cleaned'[x] = 0 => x \in Failed'
    BY <1>1, <1>2, <2>1, <2>3 DEF CleanInv
  <2> QED
    BY <1>2, <2>1, <2>2, <2>5, <2>6 DEF CleanInv
<1>5. CASE CleanUp
  <2>1. /\ k' = k+1 /\ pc = "cleanup" /\ pc' = "main" /\ k \in Test
        /\ UNCHANGED <<made, crashes>>
        /\ cleaned' = IF t THEN [cleaned EXCEPT ![k] = @ + 1] ELSE cleaned
    BY <1>2, <1>5 DEF CleanUp, UnderWay
  <2>2. \A x \in Test : cleaned'[x] = IF t /\ x = k THEN cleaned[x] + 1 ELSE cleaned[x]
    BY <1>2, <2>1
  <2>3. \A x \in Test : cleaned'[x] > 0 => x \in made /\ x <= k
    BY <1>2, <2>1, <2>2 DEF CleanInv
  <2>4. crashes' = 0 => \A x \in Test : cleaned'[x] <= 1
    BY <1>2, <2>1, <2>2 DEF CleanInv
  <2>5. \A x \in made : x < k+1 /\ cleaned'[x] = 0 => x \in Failed'
    <3> SUFFICES ASSUME NEW x \in made, x < k+1, cleaned'[x] = 0
                 PROVE x \in Failed'
      OBVIOUS
    <3>1. CASE x = k
      <4>1. ~t /\ cleaned[k] = 0
        BY <1>2, <2>1, <2>2, <3>1
      <4> QED
        BY <1>1, <2>1, <3>1, <4>1 DEF CleanInv
    <3>2. CASE x # k
      <4>1. x < k /\ cleaned[x] = 0
        BY <1>2, <2>2, <3>2
      <4> QED
        BY <1>1, <2>1, <4>1 DEF CleanInv
    <3> QED
      BY <3>1, <3>2
  <2>6. /\ \A x \in Test : cleaned'[x] > 0 => x \in made' /\ x <= k'
        /\ \A x \in Test : x >= k' => cleaned'[x] = 0
    BY <1>2, <2>1, <2>2, <2>3 DEF CleanInv
  <2>7. made' \subseteq 1 .. k' /\ k' \notin made'
    BY <1>2, <2>1 DEF CleanInv
  <2> QED
    BY <2>1, <2>4, <2>5, <2>6, <2>7 DEF CleanInv
<1>6. CASE Skip
  <2>1. k' = k+1 /\ pc = "main" /\ pc' = "main" /\ UNCHANGED <<made, crashes, cleaned>>
    BY <1>6 DEF Skip
  <2>2. \A x \in made : x < k+1 => x < k
    BY <1>2, <2>1 DEF CleanInv
  <2>3. made' \subseteq 1 .. k' /\ k' \notin made'
    BY <1>2, <2>1 DEF CleanInv
  <2>4. \A x \in Test : x >= k+1 => cleaned[x] = 0
    BY <1>2, <2>1 DEF CleanInv
  <2>5. \A x \in Test : cleaned[x] > 0 => x \in made /\ x <= k+1
    BY <1>2, <2>1 DEF CleanInv
  <2> QED
    BY <1>1, <2>1, <2>2, <2>3, <2>4, <2>5 DEF CleanInv
<1>7. CASE Begin
  <2>1. /\ pc = "main" /\ pc' = "setup" /\ t' = FALSE
        /\ UNCHANGED <<k, made, crashes, cleaned>>
    BY <1>7 DEF Begin
  <2> QED
    BY <1>1, <2>1 DEF CleanInv
<1>8. CASE SetUp
  <2>1. /\ pc = "setup" /\ pc' = "func" /\ t' = TRUE /\ made' = made \union {k}
        /\ UNCHANGED <<k, crashes, cleaned>> /\ k \in Test
    BY <1>2, <1>8 DEF SetUp, UnderWay
  <2>2. made' \subseteq 1 .. k'
    BY <1>2, <2>1 DEF CleanInv, Test
  <2>3. \A x \in made' : x < k => x \in made
    BY <1>2, <2>1
  <2> QED
    BY <1>1, <1>2, <2>1, <2>2, <2>3 DEF CleanInv
<1>9. CASE FuncReturns
  <2>1. /\ pc = "func" /\ pc' = "cleanup" /\ UNCHANGED <<k, t, made, crashes, cleaned>>
        /\ k \in Test
    BY <1>2, <1>9 DEF FuncReturns, UnderWay
  <2>2. k >= k
    BY <1>2
  <2> QED
    BY <1>1, <2>1, <2>2 DEF CleanInv
<1>10. CASE AssertHolds
  BY <1>1, <1>10 DEF AssertHolds, CleanInv
<1>11. CASE Killed
  BY <1>1, <1>11 DEF Killed, CleanInv
<1>12. CASE TestFini
  BY <1>1, <1>12 DEF TestFini, CleanInv
<1>13. CASE UNCHANGED vars
  BY <1>1, <1>13 DEF vars, CleanInv
<1> QED
  BY <1>3, <1>4, <1>5, <1>6, <1>7, <1>8, <1>9, <1>10, <1>11, <1>12, <1>13 DEF Next

(* cleanup is given only objects that setup has made, each once unless it  *)
(* was interrupted, and only a failed test leaves one behind.              *)
THEOREM ObjectsAreFreedOnce == Spec => []FreedOnce
<1>1. Init => TypeInv /\ ReportInv /\ CleanInv
  <2>1. Init => CleanInv
    BY DEF Init, CleanInv
  <2> QED
    BY <2>1, InitTypeInv, InitReportInv
<1>2. TypeInv /\ [Next]_vars => TypeInv'
  BY TypeInvStep
<1>3. TypeInv /\ ReportInv /\ [Next]_vars => ReportInv'
  BY ReportInvStep
<1>4. TypeInv /\ CleanInv /\ [Next]_vars => CleanInv'
  BY CleanInvStep
<1>5. TypeInv /\ ReportInv /\ CleanInv => FreedOnce
  <2> SUFFICES ASSUME TypeInv, ReportInv, CleanInv PROVE FreedOnce
    OBVIOUS
  <2>1. ASSUME pc = "exit", NEW x \in made
        PROVE x < k
    BY <2>1, TestsAssumption DEF ReportInv, Agree, TypeInv, Test
  <2> QED
    BY <2>1 DEF CleanInv, FreedOnce, Failed
<1> QED
  BY <1>1, <1>2, <1>3, <1>4, <1>5, PTL DEF Spec

-----------------------------------------------------------------------------
(***************************************************************************)
(* UInt256: sums and differences                                           *)
(***************************************************************************)

(* A sum of two chunks, and when it wraps.                                 *)
LEMMA PlusIs ==
  ASSUME NEW a \in Chunk, NEW b \in Chunk
  PROVE  Plus(a, b) = IF a + b < Base THEN a + b ELSE a + b - Base
  BY BaseAssumption, Z3 DEF Plus, Chunk

(* check_overflow is the carry: it says exactly what the sum of the two    *)
(* chunks and the carry coming in has lost, also when that carry is what   *)
(* makes the sum wrap.                                                     *)
LEMMA CarryIsExact ==
  ASSUME NEW a \in Chunk, NEW b \in Chunk, NEW c \in {0, 1}
  PROVE  /\ check_overflow(a, b, c) \in {0, 1}
         /\ Plus(Plus(a, b), c) \in Chunk
         /\ a + b + c = Plus(Plus(a, b), c) + (IF check_overflow(a, b, c) = 1 THEN Base ELSE 0)
<1>1. Base \in Nat /\ Base > 1 /\ c \in Chunk
  BY BaseAssumption DEF Chunk
<1>2. Plus(a, b) = (IF a + b < Base THEN a + b ELSE a + b - Base) /\ Plus(a, b) \in Chunk
  BY <1>1, PlusIs DEF Chunk
<1>3. Plus(Plus(a, b), c)
        = (IF Plus(a, b) + c < Base THEN Plus(a, b) + c ELSE Plus(a, b) + c - Base)
  BY <1>1, <1>2, PlusIs
<1> DEFINE s == Plus(a, b)
           u == Plus(s, c)
<1>4. s \in Int /\ u \in Int /\ a \in Int /\ b \in Int /\ c \in Int
  BY <1>1, <1>2, <1>3 DEF Chunk
<1>5. check_overflow(a, b, c) = IF s < a \/ u < s THEN 1 ELSE 0
  BY DEF check_overflow
<1> HIDE DEF s, u
<1>6. s = (IF a + b < Base THEN a + b ELSE a + b - Base) /\ u = (IF s + c < Base THEN s + c ELSE s + c - Base)
  BY <1>2, <1>3 DEF s, u
<1>7. 0 <= a /\ a < Base /\ 0 <= b /\ b < Base
  BY <1>1 DEF Chunk
<1>8. u \in Chunk
  BY <1>1, <1>4, <1>6, <1>7 DEF Chunk
<1>9. a + b + c = u + (IF s < a \/ u < s THEN Base ELSE 0)
  BY <1>1, <1>4, <1>6, <1>7
<1> QED
  BY <1>5, <1>8, <1>9 DEF s, u

-----------------------------------------------------------------------------
(* uint256_add, chunk by chunk.                                            *)
LEMMA AddChunks ==
  ASSUME NEW l \in UInt, NEW r \in UInt
  PROVE  /\ uint256_add(l, r) \in UInt
         /\ \E c1, c2, c3, c4 \in {0, 1} :
              LET s == uint256_add(l, r)
                  B(c) == IF c = 1 THEN Base ELSE 0
              IN  /\ l[0] + r[0]      = s[0] + B(c1)
                  /\ l[1] + r[1] + c1 = s[1] + B(c2)
                  /\ l[2] + r[2] + c2 = s[2] + B(c3)
                  /\ l[3] + r[3] + c3 = s[3] + B(c4)
<1> DEFINE c1 == check_overflow(l[0], r[0], 0)
           c2 == check_overflow(l[1], r[1], c1)
           c3 == check_overflow(l[2], r[2], c2)
           c4 == check_overflow(l[3], r[3], c3)
           S(m, c) == Plus(Plus(l[m], r[m]), c)
           B(c) == IF c = 1 THEN Base ELSE 0
<1>1. \A m \in 0..3 : l[m] \in Chunk /\ r[m] \in Chunk
  BY DEF UInt
<1>2. \A m \in 0..3 : \A c \in {0, 1} :
        /\ check_overflow(l[m], r[m], c) \in {0, 1}
        /\ S(m, c) \in Chunk
        /\ l[m] + r[m] + c = S(m, c) + B(check_overflow(l[m], r[m], c))
  BY <1>1, CarryIsExact
<1>3. uint256_add(l, r) = uint256_create(S(0, 0), S(1, c1), S(2, c2), S(3, c3))
  BY DEF uint256_add
<1> HIDE DEF S, B
<1>4. c1 \in {0, 1} /\ c2 \in {0, 1} /\ c3 \in {0, 1} /\ c4 \in {0, 1}
  BY <1>2
<1>5. S(0, 0) \in Chunk /\ S(1, c1) \in Chunk /\ S(2, c2) \in Chunk /\ S(3, c3) \in Chunk
  <2> HIDE DEF c1, c2, c3
  <2> QED BY <1>2, <1>4
<1>6. /\ l[0] + r[0] + 0  = S(0, 0) + B(c1)
      /\ l[1] + r[1] + c1 = S(1, c1) + B(c2)
      /\ l[2] + r[2] + c2 = S(2, c2) + B(c3)
      /\ l[3] + r[3] + c3 = S(3, c3) + B(c4)
  BY <1>2, <1>4
<1> DEFINE s == uint256_add(l, r)
<1> HIDE DEF c1, c2, c3, c4
<1>7. /\ s \in UInt
      /\ s[0] = S(0, 0) /\ s[1] = S(1, c1) /\ s[2] = S(2, c2) /\ s[3] = S(3, c3)
  BY <1>3, <1>5 DEF uint256_create, UInt
<1>8. l[0] + r[0] + 0 = l[0] + r[0]
  BY <1>1 DEF Chunk
<1>9. /\ l[0] + r[0]      = s[0] + B(c1)
      /\ l[1] + r[1] + c1 = s[1] + B(c2)
      /\ l[2] + r[2] + c2 = s[2] + B(c3)
      /\ l[3] + r[3] + c3 = s[3] + B(c4)
  BY <1>6, <1>7, <1>8
<1> HIDE DEF s
<1>10. \E d1, d2, d3, d4 \in {0, 1} :
         /\ l[0] + r[0]      = s[0] + B(d1)
         /\ l[1] + r[1] + d1 = s[1] + B(d2)
         /\ l[2] + r[2] + d2 = s[2] + B(d3)
         /\ l[3] + r[3] + d3 = s[3] + B(d4)
  BY <1>4, <1>9, Zenon
<1> QED
  BY <1>7, <1>10 DEF B, s

-----------------------------------------------------------------------------
(* one chunk up *)
Up(x) == Base * x

(* Up of an integer.                                                       *)
LEMMA UpInt ==
  ASSUME NEW x \in Int
  PROVE  Up(x) \in Int
  BY BaseAssumption, Z3 DEF Up

(* Up of a sum.                                                            *)
LEMMA UpSum ==
  ASSUME NEW x \in Int, NEW y \in Int
  PROVE  Up(x + y) = Up(x) + Up(y)
  BY BaseAssumption, Z3 DEF Up

(* The chunks of a value are integers.                                     *)
LEMMA ChunksInt ==
  ASSUME NEW v \in UInt
  PROVE  v[0] \in Int /\ v[1] \in Int /\ v[2] \in Int /\ v[3] \in Int
  BY BaseAssumption DEF UInt, Chunk

(* the number the chunks from the second, third on stand for               *)
V2(v) == v[2] + Up(v[3])
V1(v) == v[1] + Up(V2(v))

(* The value of four chunks, in terms of Up.                               *)
LEMMA ValueIs ==
  ASSUME NEW v \in UInt
  PROVE  V2(v) \in Int /\ V1(v) \in Int /\ Value(v) = v[0] + Up(V1(v)) /\ Value(v) \in Int
<1>1. V2(v) \in Int
  BY ChunksInt, UpInt DEF V2
<1>2. V1(v) \in Int
  BY <1>1, ChunksInt, UpInt DEF V1
<1>3. Value(v) = v[0] + Up(V1(v))
  BY DEF Value, V1, V2, Up
<1> QED
  BY <1>1, <1>2, <1>3, ChunksInt, UpInt

(* Four sums that pass their carries on add up to the sum of the values,   *)
(* but for the last carry.                                                 *)
LEMMA ChunksAddUp ==
  ASSUME NEW l \in UInt, NEW r \in UInt, NEW s \in UInt,
         NEW c1 \in Int, NEW c2 \in Int, NEW c3 \in Int, NEW c4 \in Int
  PROVE  /\ l[0] + r[0]      = s[0] + Up(c1)
         /\ l[1] + r[1] + c1 = s[1] + Up(c2)
         /\ l[2] + r[2] + c2 = s[2] + Up(c3)
         /\ l[3] + r[3] + c3 = s[3] + Up(c4)
         => Value(l) + Value(r) = Value(s) + Up(Up(Up(Up(c4))))
<1>a. SUFFICES ASSUME /\ l[0] + r[0]      = s[0] + Up(c1)
                      /\ l[1] + r[1] + c1 = s[1] + Up(c2)
                      /\ l[2] + r[2] + c2 = s[2] + Up(c3)
                      /\ l[3] + r[3] + c3 = s[3] + Up(c4)
               PROVE  Value(l) + Value(r) = Value(s) + Up(Up(Up(Up(c4))))
  OBVIOUS
<1> DEFINE e3 == Up(c4)
           e2 == Up(e3)
           e1 == Up(e2)
<1>1. e3 \in Int /\ e2 \in Int /\ e1 \in Int /\ Up(e1) \in Int
  BY UpInt
<1>2. /\ l[0] \in Int /\ r[0] \in Int /\ s[0] \in Int
      /\ l[1] \in Int /\ r[1] \in Int /\ s[1] \in Int
      /\ l[2] \in Int /\ r[2] \in Int /\ s[2] \in Int
      /\ l[3] \in Int /\ r[3] \in Int /\ s[3] \in Int
  BY ChunksInt
<1>3. /\ V1(l) \in Int /\ V1(r) \in Int /\ V1(s) \in Int
      /\ V2(l) \in Int /\ V2(r) \in Int /\ V2(s) \in Int
  BY ValueIs
<1>4. l[3] + r[3] + c3 = s[3] + e3
  BY <1>a
<1> HIDE DEF e3
<1>5. V2(l) + V2(r) + c2 = V2(s) + e2
  <2>1. l[3] \in Int /\ r[3] \in Int /\ s[3] \in Int /\ c3 \in Int /\ e3 \in Int
    BY <1>1, <1>2
  <2>2. l[3] + r[3] \in Int
    BY <2>1
  <2>3. Up(l[3] + r[3] + c3) = Up(l[3] + r[3]) + Up(c3) /\ Up(l[3] + r[3]) = Up(l[3]) + Up(r[3])
    BY <2>2, <2>1, UpSum, Zenon
  <2>4. Up(s[3] + e3) = Up(s[3]) + Up(e3)
    BY <2>1, UpSum, Zenon
  <2>5. /\ Up(l[3]) \in Int /\ Up(r[3]) \in Int /\ Up(c3) \in Int
        /\ Up(s[3]) \in Int /\ Up(e3) \in Int
    BY <2>1, UpInt, Zenon
  <2>6. Up(l[3]) + Up(r[3]) + Up(c3) = Up(s[3]) + Up(e3)
    BY <1>4, <2>3, <2>4, <2>5
  <2> QED
    BY <1>a, <1>2, <2>5, <2>6 DEF V2, e2
<1> HIDE DEF e2
<1>6. V1(l) + V1(r) + c1 = V1(s) + e1
  <2>1. V2(l) \in Int /\ V2(r) \in Int /\ V2(s) \in Int /\ c2 \in Int /\ e2 \in Int
    BY <1>1, <1>3
  <2>2. V2(l) + V2(r) \in Int
    BY <2>1
  <2>3. Up(V2(l) + V2(r) + c2) = Up(V2(l) + V2(r)) + Up(c2) /\ Up(V2(l) + V2(r)) = Up(V2(l)) + Up(V2(r))
    BY <2>2, <2>1, UpSum, Zenon
  <2>4. Up(V2(s) + e2) = Up(V2(s)) + Up(e2)
    BY <2>1, UpSum, Zenon
  <2>5. /\ Up(V2(l)) \in Int /\ Up(V2(r)) \in Int /\ Up(c2) \in Int
        /\ Up(V2(s)) \in Int /\ Up(e2) \in Int
    BY <2>1, UpInt, Zenon
  <2>6. Up(V2(l)) + Up(V2(r)) + Up(c2) = Up(V2(s)) + Up(e2)
    BY <1>5, <2>3, <2>4
  <2>7. V1(l) = l[1] + Up(V2(l)) /\ V1(r) = r[1] + Up(V2(r)) /\ V1(s) = s[1] + Up(V2(s))
    BY DEF V1
  <2>8. l[1] + r[1] + c1 = s[1] + Up(c2)
    BY <1>a
  <2>9. e1 = Up(e2)
    OBVIOUS
  <2> HIDE DEF e1
  <2> QED
    BY <1>2, <2>5, <2>6, <2>7, <2>8, <2>9
<1> HIDE DEF e1
<1>7. (l[0] + Up(V1(l))) + (r[0] + Up(V1(r))) = (s[0] + Up(V1(s))) + Up(e1)
  <2>1. V1(l) \in Int /\ V1(r) \in Int /\ V1(s) \in Int /\ c1 \in Int /\ e1 \in Int
    BY <1>1, <1>3
  <2>2. V1(l) + V1(r) \in Int
    BY <2>1
  <2>3. Up(V1(l) + V1(r) + c1) = Up(V1(l) + V1(r)) + Up(c1) /\ Up(V1(l) + V1(r)) = Up(V1(l)) + Up(V1(r))
    BY <2>2, <2>1, UpSum, Zenon
  <2>4. Up(V1(s) + e1) = Up(V1(s)) + Up(e1)
    BY <2>1, UpSum, Zenon
  <2>5. /\ Up(V1(l)) \in Int /\ Up(V1(r)) \in Int /\ Up(c1) \in Int
        /\ Up(V1(s)) \in Int /\ Up(e1) \in Int
    BY <2>1, UpInt, Zenon
  <2>6. Up(V1(l)) + Up(V1(r)) + Up(c1) = Up(V1(s)) + Up(e1)
    BY <1>6, <2>3, <2>4
  <2>7. l[0] + r[0] = s[0] + Up(c1)
    BY <1>a
  <2>8. l[0] \in Int /\ r[0] \in Int /\ s[0] \in Int
    BY <1>2
  <2> DEFINE x == l[0]
             y == r[0]
             z == s[0]
             p == Up(V1(l))
             q == Up(V1(r))
             u == Up(V1(s))
             c == Up(c1)
             e == Up(e1)
  <2>9. /\ x \in Int /\ y \in Int /\ z \in Int /\ p \in Int
        /\ q \in Int /\ u \in Int /\ c \in Int /\ e \in Int
    BY <2>5, <2>8
  <2>10. p + q + c = u + e /\ x + y = z + c
    BY <2>6, <2>7
  <2>11. (x + p) + (y + q) = (z + u) + e
    <3> HIDE DEF x, y, z, p, q, u, c, e
    <3> QED
      BY <2>9, <2>10
  <2> QED
    BY <2>11
<1> QED
  BY <1>7, ValueIs DEF e1, e2, e3

(* Four chunks up, 0 or the Modulus.                                       *)
LEMMA UpFour ==
  ASSUME NEW c \in {0, 1}
  PROVE  Up(Up(Up(Up(c)))) = (IF c = 1 THEN Modulus ELSE 0)
<1>1. Base \in Int
  BY BaseAssumption
<1>2. Up(0) = 0 /\ Up(1) = Base
  BY <1>1 DEF Up
<1>3. CASE c = 1
  BY <1>2, <1>3 DEF Modulus, Up
<1>4. CASE c = 0
  BY <1>2, <1>4
<1> QED
  BY <1>3, <1>4

(* The sum of two values, for every size of a chunk.                       *)
THEOREM AddExact ==
  ASSUME NEW l \in UInt, NEW r \in UInt
  PROVE  /\ uint256_add(l, r) \in UInt
         /\ \E carry \in {0, 1} :
              Value(l) + Value(r) = Value(uint256_add(l, r)) + (IF carry = 1 THEN Modulus ELSE 0)
<1> DEFINE s == uint256_add(l, r)
<1>1. s \in UInt
  BY AddChunks
<1>2. PICK c1 \in {0, 1}, c2 \in {0, 1}, c3 \in {0, 1}, c4 \in {0, 1} :
         /\ l[0] + r[0]      = s[0] + (IF c1 = 1 THEN Base ELSE 0)
         /\ l[1] + r[1] + c1 = s[1] + (IF c2 = 1 THEN Base ELSE 0)
         /\ l[2] + r[2] + c2 = s[2] + (IF c3 = 1 THEN Base ELSE 0)
         /\ l[3] + r[3] + c3 = s[3] + (IF c4 = 1 THEN Base ELSE 0)
  BY AddChunks
<1> HIDE DEF s
<1>3. \A c \in {0, 1} : Up(c) = (IF c = 1 THEN Base ELSE 0)
  BY BaseAssumption, Z3 DEF Up
<1>4. /\ l[0] + r[0]      = s[0] + Up(c1)
      /\ l[1] + r[1] + c1 = s[1] + Up(c2)
      /\ l[2] + r[2] + c2 = s[2] + Up(c3)
      /\ l[3] + r[3] + c3 = s[3] + Up(c4)
  BY <1>2, <1>3
<1>5. Value(l) + Value(r) = Value(s) + Up(Up(Up(Up(c4))))
  BY <1>1, <1>4, ChunksAddUp
<1>6. Up(Up(Up(Up(c4)))) = (IF c4 = 1 THEN Modulus ELSE 0)
  BY UpFour
<1> QED
  BY <1>1, <1>5, <1>6 DEF s
-----------------------------------------------------------------------------
(* Differences.  A value and its inverse add up to all ones, and all ones  *)
(* is one short of Modulus.                                                *)
Ones == [m \in 0..3 |-> Base - 1]
One == uint256_create_from_u64(1)
Zero == uint256_create_from_u64(0)

(* Up of 0 and of 1.                                                       *)
LEMMA UpZeroOne == Up(0) = 0 /\ Up(1) = Base /\ Base \in Int
  BY BaseAssumption, Z3 DEF Up

(* Ones is one below the Modulus.                                          *)
LEMMA Constants ==
  /\ Ones \in UInt /\ One \in UInt /\ Zero \in UInt
  /\ Value(One) = 1 /\ Value(Zero) = 0 /\ Value(Ones) + 1 = Modulus
<1>1. /\ \A m \in 0..3 : Ones[m] = Base - 1
      /\ One[0] = 1 /\ One[1] = 0 /\ One[2] = 0 /\ One[3] = 0
      /\ Zero[0] = 0 /\ Zero[1] = 0 /\ Zero[2] = 0 /\ Zero[3] = 0
  BY DEF Ones, One, Zero, uint256_create_from_u64, uint256_create
<1>2. 0 \in Chunk /\ 1 \in Chunk /\ Base - 1 \in Chunk
  BY BaseAssumption DEF Chunk
<1>3. Ones \in UInt /\ One \in UInt /\ Zero \in UInt
  BY <1>2 DEF Ones, One, Zero, uint256_create_from_u64, uint256_create, UInt
<1>4. Value(One) = 1 /\ Value(Zero) = 0
  BY <1>1, <1>3, UpZeroOne, ValueIs DEF V1, V2
<1>5. Value(Ones) + Value(One) = Value(Zero) + Up(Up(Up(Up(1))))
  <2>1. /\ Ones[0] + One[0]     = Zero[0] + Up(1)
        /\ Ones[1] + One[1] + 1 = Zero[1] + Up(1)
        /\ Ones[2] + One[2] + 1 = Zero[2] + Up(1)
        /\ Ones[3] + One[3] + 1 = Zero[3] + Up(1)
    BY <1>1, UpZeroOne
  <2> QED
    BY <1>3, <2>1, ChunksAddUp
<1>6. Up(Up(Up(Up(1)))) = Modulus /\ Modulus \in Int
  BY UpFour, UpZeroOne, UpInt
<1> QED
  BY <1>3, <1>4, <1>5, <1>6, ValueIs

(* Inverting the bits of a value takes it from the largest one.            *)
LEMMA InvertedIs ==
  ASSUME NEW v \in UInt
  PROVE  Inverted(v) \in UInt /\ Value(v) + Value(Inverted(v)) = Value(Ones)
<1>1. Inverted(v) \in UInt
  BY BaseAssumption DEF Inverted, UInt, Chunk
<1>2. \A m \in 0..3 : v[m] + Inverted(v)[m] = Ones[m] /\ Ones[m] \in Int
  BY BaseAssumption DEF Inverted, Ones, UInt, Chunk
<1>3. /\ v[0] + Inverted(v)[0]     = Ones[0] + Up(0)
      /\ v[1] + Inverted(v)[1] + 0 = Ones[1] + Up(0)
      /\ v[2] + Inverted(v)[2] + 0 = Ones[2] + Up(0)
      /\ v[3] + Inverted(v)[3] + 0 = Ones[3] + Up(0)
  BY <1>2, UpZeroOne
<1>4. Value(v) + Value(Inverted(v)) = Value(Ones) + Up(Up(Up(Up(0))))
  BY <1>1, <1>3, Constants, ChunksAddUp
<1> QED
  BY <1>1, <1>4, UpZeroOne, Constants, ValueIs

(* Up of a natural number.                                                 *)
LEMMA UpNat ==
  ASSUME NEW x \in Nat
  PROVE  Up(x) \in Nat
  BY BaseAssumption, Z3 DEF Up

(* a value is below Modulus *)
LEMMA ValueBounds ==
  ASSUME NEW v \in UInt
  PROVE  Value(v) \in Nat /\ Value(v) < Modulus /\ Modulus \in Nat
<1>1. \A u \in UInt : Value(u) \in Nat
  <2> SUFFICES ASSUME NEW u \in UInt PROVE Value(u) \in Nat
    OBVIOUS
  <2>1. u[0] \in Nat /\ u[1] \in Nat /\ u[2] \in Nat /\ u[3] \in Nat
    BY BaseAssumption DEF UInt, Chunk
  <2>2. V2(u) \in Nat
    BY <2>1, UpNat DEF V2
  <2>3. V1(u) \in Nat
    BY <2>1, <2>2, UpNat DEF V1
  <2> QED
    BY <2>1, <2>3, UpNat, ValueIs
<1>2. Value(v) \in Nat /\ Value(Inverted(v)) \in Nat /\ Value(Ones) \in Nat
  BY <1>1, InvertedIs, Constants
<1>3. Value(v) + Value(Inverted(v)) = Value(Ones) /\ Value(Ones) + 1 = Modulus
  BY InvertedIs, Constants
<1> QED
  BY <1>2, <1>3

(* The difference of two values, for every size of a chunk.                *)
THEOREM SubExact ==
  ASSUME NEW l \in UInt, NEW r \in UInt
  PROVE  /\ uint256_sub(l, r) \in UInt
         /\ Value(uint256_sub(l, r)) \in {Value(l) - Value(r), Value(l) - Value(r) + Modulus}
<1> DEFINE n == negate(r)
           d == uint256_sub(l, r)
<1>1. n \in UInt /\ d \in UInt
  BY AddExact, InvertedIs, Constants DEF negate, uint256_sub, One
<1>2. PICK c \in {0, 1} :
        Value(Inverted(r)) + 1 = Value(n) + (IF c = 1 THEN Modulus ELSE 0)
  BY AddExact, InvertedIs, Constants DEF negate, One
<1>3. PICK e \in {0, 1} :
        Value(l) + Value(n) = Value(d) + (IF e = 1 THEN Modulus ELSE 0)
  BY <1>1, AddExact DEF uint256_sub
<1>4. Value(r) + Value(Inverted(r)) + 1 = Modulus
  BY InvertedIs, Constants, ValueIs
<1>5. /\ Value(l) \in Nat /\ Value(r) \in Nat /\ Value(n) \in Nat /\ Value(d) \in Nat
      /\ Value(Inverted(r)) \in Nat /\ Modulus \in Nat
      /\ Value(l) < Modulus /\ Value(n) < Modulus /\ Value(d) < Modulus
  BY <1>1, ValueBounds, InvertedIs
<1> HIDE DEF n, d
<1>6. Value(d) \in {Value(l) - Value(r), Value(l) - Value(r) + Modulus}
  BY <1>2, <1>3, <1>4, <1>5
<1> QED
  BY <1>1, <1>6 DEF d

-----------------------------------------------------------------------------
(***************************************************************************)
(* Numbers and powers                                                      *)
(***************************************************************************)

(* Induction over the numbers up to N, for sets: < is well founded.        *)
LEMMA CountUp ==
  ASSUME NEW S, NEW M \in Nat, 0 \in S,
         \A n \in 0..(M - 1) : n \in S => n + 1 \in S
  PROVE  0..M \subseteq S
<1> DEFINE R == OpToRel(<, Nat)
           T == {n \in 0..M : n \notin S}
<1>1. IsWellFoundedOn(R, Nat)
  BY NatLessThanWellFounded
<1>2. \A x, y \in Nat : <<y, x>> \in R <=> y < x
  BY DEF OpToRel
<1> HIDE DEF R
<1>3. ASSUME T # {} PROVE FALSE
  <2>1. PICK m \in T : \A y \in T : ~(<<y, m>> \in R)
    <3>1. T \subseteq Nat
      OBVIOUS
    <3> HIDE DEF T
    <3> QED  BY <1>1, <1>3, <3>1, WFMin
  <2>2. m # 0 /\ m - 1 \in 0..(M - 1) /\ m - 1 < m /\ m \in Nat
    OBVIOUS
  <2>3. m - 1 \notin T
    <3>1. m - 1 \in Nat
      BY <2>2
    <3>2. <<m - 1, m>> \in R
      BY <1>2, <2>2, <3>1
    <3> HIDE DEF T
    <3> QED  BY <2>1, <3>2
  <2>4. m - 1 \in S
    BY <2>2, <2>3
  <2>5. (m - 1) + 1 \in S
    BY <2>2, <2>4
  <2> QED
    BY <2>1, <2>5
<1> QED
  BY <1>3

(* What there is to know of the powers of b, as the numbers p[n].          *)
LEMMA PowersOf ==
  ASSUME NEW b \in Nat \ {0}, NEW M \in Nat, NEW p, p[0] = 1,
         \A n \in 0..(M - 1) : p[n + 1] = b * p[n]
  PROVE  /\ \A n \in 0..M : p[n] \in Nat \ {0}
         /\ \A m \in 0..M : \A n \in 0..(M - m) : p[m + n] = p[m] * p[n]
         /\ \A m, n \in 0..M : m <= n => p[m] <= p[n]
<1>1. \A n \in 0..M : p[n] \in Nat \ {0}
  <2> DEFINE S == {n \in 0..M : p[n] \in Nat \ {0}}
  <2>1. 0 \in S
    OBVIOUS
  <2>2. ASSUME NEW n \in 0..(M - 1), n \in S PROVE n + 1 \in S
    <3>1. p[n + 1] = b * p[n] /\ p[n] \in Nat \ {0}
      BY <2>2
    <3>2. \A x \in Nat \ {0} : b * x \in Nat \ {0}
      OBVIOUS
    <3> QED  BY <3>1, <3>2
  <2>3. 0..M \subseteq S
    <3> HIDE DEF S
    <3> QED  BY <2>1, <2>2, CountUp
  <2> QED  BY <2>3
<1>2. ASSUME NEW m \in 0..M PROVE \A n \in 0..(M - m) : p[m + n] = p[m] * p[n]
  <2> DEFINE S == {n \in 0..(M - m) : p[m + n] = p[m] * p[n]}
  <2>1. 0 \in S
    BY <1>1
  <2>2. ASSUME NEW n \in 0..((M - m) - 1), n \in S PROVE n + 1 \in S
    <3>1. p[n + 1] = b * p[n] /\ p[(m + n) + 1] = b * p[m + n]
      OBVIOUS
    <3>2. p[m + n] = p[m] * p[n] /\ p[m] \in Nat /\ p[n] \in Nat
      BY <1>1, <2>2
    <3>3. \A x, y \in Nat : b * (x * y) = x * (b * y)
      OBVIOUS
    <3>4. p[(m + n) + 1] = p[m] * p[n + 1]
      BY <3>1, <3>2, <3>3
    <3>5. m + (n + 1) = (m + n) + 1
      OBVIOUS
    <3> QED  BY <3>4, <3>5
  <2>3. 0..(M - m) \subseteq S
    <3> HIDE DEF S
    <3> QED  BY <2>1, <2>2, CountUp
  <2> QED  BY <2>3
<1>3. ASSUME NEW m \in 0..M, NEW n \in 0..M, m <= n PROVE p[m] <= p[n]
  <2>1. n - m \in 0..(M - m) /\ m + (n - m) = n
    BY <1>3
  <2>2. p[n] = p[m] * p[n - m] /\ p[m] \in Nat \ {0} /\ p[n - m] \in Nat \ {0}
    BY <1>1, <1>2, <2>1
  <2>3. \A x, y \in Nat \ {0} : x <= x * y
    OBVIOUS
  <2> QED  BY <2>2, <2>3
<1> QED
  BY <1>1, <1>2, <1>3

(* The powers of two that are shifted by.                                  *)
LEMMA TwoPowers ==
  /\ 2 ^ 0 = 1 /\ 2 ^ 1 = 2 /\ 2 ^ Bits = Base
  /\ \A n \in 0..(4 * Bits) : 2 ^ n \in Nat \ {0}
  /\ \A m \in 0..(4 * Bits) : \A n \in 0..(4 * Bits - m) : 2 ^ (m + n) = 2 ^ m * 2 ^ n
  /\ \A m, n \in 0..(4 * Bits) : m <= n => 2 ^ m <= 2 ^ n
<1> DEFINE M == 4 * Bits
           p == [n \in 0..M |-> 2 ^ n]
<1>1. M \in Nat
  BY BitsAssumption
<1>2. \A n \in 0..M : p[n] = 2 ^ n
  OBVIOUS
<1>3. p[0] = 1
  BY <1>1
<1>4. \A n \in 0..(M - 1) : p[n + 1] = 2 * p[n]
  BY <1>1, <1>2, PowersDouble
<1>5. /\ \A n \in 0..M : p[n] \in Nat \ {0}
      /\ \A m \in 0..M : \A n \in 0..(M - m) : p[m + n] = p[m] * p[n]
      /\ \A m, n \in 0..M : m <= n => p[m] <= p[n]
  <2> HIDE DEF p, M
  <2>1. 2 \in Nat \ {0}
    OBVIOUS
  <2> QED  BY <1>1, <1>3, <1>4, <2>1, PowersOf
<1> HIDE DEF p
<1>6. \A m \in 0..M : \A n \in 0..(M - m) : m + n \in 0..M /\ n \in 0..M
  BY <1>1
<1>7. 2 ^ 0 = 1 /\ 2 ^ 1 = 2
  OBVIOUS
<1> QED
  BY <1>2, <1>5, <1>6, <1>7, BasePower

-----------------------------------------------------------------------------
(***************************************************************************)
(* UInt256Hex: numbers read from digits                                    *)
(***************************************************************************)

(* The powers of HexBase that digits are multiplied with.                  *)
LEMMA PowersOfBase ==
  /\ HexBase \in Nat /\ HexBase > 1 /\ ChunkDigits \in Nat /\ ChunkDigits > 0
  /\ HexBase ^ 0 = 1 /\ HexBase ^ ChunkDigits = Base
  /\ \A n \in 0..(Digits - 1) : HexBase ^ (n + 1) = HexBase * HexBase ^ n
  /\ \A n \in 0..Digits : HexBase ^ n \in Nat \ {0}
  /\ \A m \in 0..Digits : \A n \in 0..(Digits - m) :
       HexBase ^ (m + n) = HexBase ^ m * HexBase ^ n
  /\ \A m, n \in 0..Digits : m <= n => HexBase ^ m <= HexBase ^ n
<1> DEFINE p == [n \in 0..Digits |-> HexBase ^ n]
<1>1. Digits \in Nat /\ HexBase \in Nat \ {0} /\ HexBase > 1
  BY HexAssumption DEF Digits
<1>2. \A n \in 0..Digits : p[n] = HexBase ^ n
  OBVIOUS
<1>3. p[0] = 1
  BY <1>1, HexPowers
<1> HIDE DEF p
<1>4. ASSUME NEW n \in 0..(Digits - 1) PROVE p[n + 1] = HexBase * p[n]
  <2>1. n \in 0..Digits /\ n + 1 \in 0..Digits
    BY <1>1
  <2>2. HexBase ^ (n + 1) = HexBase * HexBase ^ n
    BY HexPowers
  <2> QED  BY <1>2, <2>1, <2>2
<1>5. /\ \A n \in 0..Digits : p[n] \in Nat \ {0}
      /\ \A m \in 0..Digits : \A n \in 0..(Digits - m) : p[m + n] = p[m] * p[n]
      /\ \A m, n \in 0..Digits : m <= n => p[m] <= p[n]
  BY <1>1, <1>3, <1>4, PowersOf
<1>6. \A m \in 0..Digits : \A n \in 0..(Digits - m) : m + n \in 0..Digits /\ n \in 0..Digits
  BY <1>1
<1>7. /\ \A n \in 0..Digits : HexBase ^ n \in Nat \ {0}
      /\ \A m \in 0..Digits : \A n \in 0..(Digits - m) :
           HexBase ^ (m + n) = HexBase ^ m * HexBase ^ n
      /\ \A m, n \in 0..Digits : m <= n => HexBase ^ m <= HexBase ^ n
  BY <1>2, <1>5, <1>6, Zenon
<1>8. ChunkDigits \in Nat /\ ChunkDigits > 0 /\ HexBase \in Nat
  BY HexAssumption
<1> QED
  BY <1>1, <1>7, <1>8, ChunkAssumption, HexPowers, Zenon

(* f has the number that has been read after each digit of s.              *)
Reads(f, s) ==
  /\ f \in [0..Len(s) -> Nat] /\ f[0] = 0
  /\ \A n \in 1..Len(s) : f[n] = f[n - 1] * HexBase + s[n]

(* NumberOf is what a reading of the digits ends with.                     *)
LEMMA NumberIsRead ==
  ASSUME NEW s \in Seq(Digit)
  PROVE  \E f : Reads(f, s) /\ NumberOf(s) = f[Len(s)]
<1> DEFINE L == Len(s)
           Upto(f, m) == f = [n \in 0..m |-> IF n = 0 THEN 0 ELSE f[n - 1] * HexBase + s[n]]
           S == {m \in 0..L : \E f : Upto(f, m)}
           number == CHOOSE f : Upto(f, L)
<1>1. 0 \in S
  <2> DEFINE f == [n \in 0..0 |-> 0]
  <2>1. f = [n \in 0..0 |-> IF n = 0 THEN 0 ELSE f[n - 1] * HexBase + s[n]]
    OBVIOUS
  <2> HIDE DEF f
  <2> QED  BY <2>1
<1>2. ASSUME NEW m \in 0..(L - 1), m \in S PROVE m + 1 \in S
  <2>1. PICK f : Upto(f, m)
    BY <1>2
  <2>2. \A n \in 0..m : f[n] = IF n = 0 THEN 0 ELSE f[n - 1] * HexBase + s[n]
    <3> DEFINE r == [n \in 0..m |-> IF n = 0 THEN 0 ELSE f[n - 1] * HexBase + s[n]]
    <3>1. f = r
      BY <2>1
    <3>2. \A n \in 0..m : r[n] = IF n = 0 THEN 0 ELSE f[n - 1] * HexBase + s[n]
      OBVIOUS
    <3> HIDE DEF r
    <3> QED  BY <3>1, <3>2
  <2> DEFINE g == [n \in 0..(m + 1) |-> IF n <= m THEN f[n] ELSE f[m] * HexBase + s[m + 1]]
  <2>3. \A n \in 0..(m + 1) : g[n] = IF n <= m THEN f[n] ELSE f[m] * HexBase + s[m + 1]
    OBVIOUS
  <2>4. DOMAIN g = 0..(m + 1) /\ g = [n \in DOMAIN g |-> g[n]]
    OBVIOUS
  <2> HIDE DEF g
  <2>5. \A n \in 0..(m + 1) : g[n] = IF n = 0 THEN 0 ELSE g[n - 1] * HexBase + s[n]
    <3> SUFFICES ASSUME NEW n \in 0..(m + 1)
                 PROVE  g[n] = IF n = 0 THEN 0 ELSE g[n - 1] * HexBase + s[n]
      OBVIOUS
    <3>1. CASE n <= m
      BY <2>2, <2>3, <3>1
    <3>2. CASE n = m + 1
      <4>1. n - 1 = m /\ n # 0 /\ n \notin 0..m /\ m \in 0..(m + 1)
        BY <3>2
      <4> QED  BY <2>3, <3>2, <4>1
    <3> QED  BY <3>1, <3>2
  <2>6. Upto(g, m + 1)
    BY <2>4, <2>5
  <2>7. m + 1 \in 0..L
    OBVIOUS
  <2> HIDE DEF Upto
  <2> QED  BY <2>6, <2>7
<1>3. L \in Nat
  OBVIOUS
<1>4. \E f : Upto(f, L)
  <2>1. 0..L \subseteq S
    <3> HIDE DEF S
    <3> QED  BY <1>1, <1>2, <1>3, CountUp
  <2> QED  BY <1>3, <2>1
<1>5. Upto(number, L)
  <2> HIDE DEF Upto
  <2> QED  BY <1>4
<1>6. NumberOf(s) = number[L]
  BY DEF NumberOf
<1> HIDE DEF number
<1>7. /\ DOMAIN number = 0..L /\ number = [n \in DOMAIN number |-> number[n]]
      /\ \A n \in 0..L : number[n] = IF n = 0 THEN 0 ELSE number[n - 1] * HexBase + s[n]
  <2> DEFINE r == [n \in 0..L |-> IF n = 0 THEN 0 ELSE number[n - 1] * HexBase + s[n]]
  <2>1. number = r
    BY <1>5
  <2>2. /\ DOMAIN r = 0..L /\ r = [n \in DOMAIN r |-> r[n]]
        /\ \A n \in 0..L : r[n] = IF n = 0 THEN 0 ELSE number[n - 1] * HexBase + s[n]
    OBVIOUS
  <2> HIDE DEF r, L
  <2> QED  BY <2>1, <2>2, Zenon
<1>8. \A n \in 0..L : number[n] \in Nat
  <2> DEFINE T == {n \in 0..L : number[n] \in Nat}
  <2>1. 0 \in T
    BY <1>3, <1>7
  <2>2. ASSUME NEW n \in 0..(L - 1), n \in T PROVE n + 1 \in T
    <3>1. number[n + 1] = number[(n + 1) - 1] * HexBase + s[n + 1]
      BY <1>3, <1>7
    <3>2. s[n + 1] \in Nat /\ HexBase \in Nat /\ number[n] \in Nat /\ (n + 1) - 1 = n
      BY <1>3, <2>2, HexAssumption DEF Digit
    <3>3. \A x, y, z \in Nat : x * y + z \in Nat
      OBVIOUS
    <3> QED  BY <1>3, <3>1, <3>2, <3>3
  <2>3. 0..L \subseteq T
    <3> HIDE DEF T, L
    <3> QED  BY <1>3, <2>1, <2>2, CountUp
  <2> QED  BY <2>3
<1> QED
  BY <1>3, <1>6, <1>7, <1>8 DEF Reads

(* One more digit.                                                         *)
LEMMA ReadOne ==
  ASSUME NEW B \in Nat \ {0}, NEW P \in Nat \ {0}, NEW x \in Nat, NEW y \in 0..(P - 1),
         NEW d \in 0..(B - 1)
  PROVE  /\ (x * P + y) * B + d = x * (B * P) + (y * B + d)
         /\ y * B + d \in 0..(B * P - 1)
<1>1. y <= P - 1 /\ y \in Nat /\ P - 1 \in Nat
  OBVIOUS
<1>2. y * B <= (P - 1) * B /\ y * B \in Nat /\ P * B = B * P /\ B * P \in Nat
  BY <1>1
<1>3. (P - 1) * B = P * B - B
  OBVIOUS
<1> QED
  BY <1>2, <1>3

(* What is read from a stretch of digits: the number after it, less what   *)
(* had been read before, moved up by its length.                           *)
LEMMA StretchRead ==
  ASSUME NEW s \in Seq(Digit), NEW f, Reads(f, s),
         NEW a \in 0..Len(s), NEW b \in a..Len(s), b - a <= Digits
  PROVE  /\ f[b] = f[a] * HexBase ^ (b - a) + NumberOf(SubSeq(s, a + 1, b))
         /\ NumberOf(SubSeq(s, a + 1, b)) \in 0..(HexBase ^ (b - a) - 1)
<1> DEFINE u == SubSeq(s, a + 1, b)
           c == b - a
<1>1. /\ u \in Seq(Digit) /\ Len(u) = c
      /\ \A n \in 1..c : u[n] = s[a + n]
  OBVIOUS
<1>2. c \in 0..Digits /\ Digits \in Nat /\ a \in Nat /\ a + c = b /\ b \in Nat
  BY PowersOfBase DEF Digits
<1> HIDE DEF u, c
<1>3. PICK g : Reads(g, u) /\ NumberOf(u) = g[c]
  BY <1>1, NumberIsRead
<1> DEFINE S == {n \in 0..c : /\ f[a + n] = f[a] * HexBase ^ n + g[n]
                              /\ g[n] \in 0..(HexBase ^ n - 1)}
<1>4. f[a] \in Nat
  BY DEF Reads
<1>5. 0 \in S
  <2>1. HexBase ^ 0 = 1 /\ g[0] = 0
    BY <1>1, <1>3, PowersOfBase DEF Reads
  <2>2. f[a] * 1 = f[a] /\ f[a] + 0 = f[a] /\ a + 0 = a /\ 0 \in 0..(1 - 1) /\ 0 \in 0..c
    BY <1>2, <1>4
  <2> QED  BY <2>1, <2>2
<1>6. ASSUME NEW n \in 0..(c - 1), n \in S PROVE n + 1 \in S
  <2>1. n + 1 \in 1..c /\ n \in 0..(Digits - 1) /\ (n + 1) - 1 = n /\ n \in 0..Digits
    BY <1>2
  <2>2. g[n + 1] = g[n] * HexBase + u[n + 1]
    BY <1>1, <1>3, <2>1 DEF Reads
  <2>3. f[a + (n + 1)] = f[a + n] * HexBase + s[a + (n + 1)]
    <3>1. a + (n + 1) \in 1..Len(s) /\ (a + (n + 1)) - 1 = a + n
      BY <1>2, <2>1
    <3> QED  BY <3>1 DEF Reads
  <2>4. s[a + (n + 1)] = u[n + 1] /\ u[n + 1] \in 0..(HexBase - 1)
    <3>1. u[n + 1] \in Digit
      BY <1>1, <2>1
    <3> QED  BY <1>1, <2>1, <3>1 DEF Digit
  <2>5. HexBase ^ (n + 1) = HexBase * HexBase ^ n /\ HexBase ^ n \in Nat \ {0} /\ HexBase \in Nat
    BY <2>1, PowersOfBase
  <2>6. f[a + n] = f[a] * HexBase ^ n + g[n] /\ g[n] \in 0..(HexBase ^ n - 1)
    BY <1>6
  <2>7. /\ (f[a] * HexBase ^ n + g[n]) * HexBase + u[n + 1]
             = f[a] * (HexBase * HexBase ^ n) + (g[n] * HexBase + u[n + 1])
        /\ g[n] * HexBase + u[n + 1] \in 0..(HexBase * HexBase ^ n - 1)
    <3> DEFINE P == HexBase ^ n
    <3>1. HexBase \in Nat \ {0} /\ P \in Nat \ {0}
      BY <2>5, PowersOfBase
    <3>2. g[n] \in 0..(P - 1) /\ u[n + 1] \in 0..(HexBase - 1) /\ f[a] \in Nat
      BY <1>4, <2>4, <2>6
    <3> DEFINE x == f[a]
               y == g[n]
               d == u[n + 1]
    <3>3. x \in Nat /\ y \in 0..(P - 1) /\ d \in 0..(HexBase - 1)
      BY <3>2
    <3> HIDE DEF P, x, y, d
    <3>4. /\ (x * P + y) * HexBase + d = x * (HexBase * P) + (y * HexBase + d)
          /\ y * HexBase + d \in 0..(HexBase * P - 1)
      BY ONLY <3>1, <3>3, ReadOne
    <3>5. /\ (f[a] * P + g[n]) * HexBase + u[n + 1]
               = f[a] * (HexBase * P) + (g[n] * HexBase + u[n + 1])
          /\ g[n] * HexBase + u[n + 1] \in 0..(HexBase * P - 1)
      BY <3>4 DEF x, y, d
    <3> QED  BY <3>5 DEF P
  <2>8. f[a + (n + 1)] = f[a] * HexBase ^ (n + 1) + g[n + 1]
    BY <2>2, <2>3, <2>4, <2>5, <2>6, <2>7
  <2>9. g[n + 1] \in 0..(HexBase ^ (n + 1) - 1)
    BY <2>2, <2>5, <2>7
  <2> QED  BY <2>1, <2>8, <2>9
<1>7. c \in S
  <2>1. 0..c \subseteq S
    <3>1. c \in Nat
      BY <1>2
    <3> HIDE DEF S
    <3> QED  BY <3>1, <1>5, <1>6, CountUp
  <2> QED  BY <1>2, <2>1
<1> QED
  BY <1>2, <1>3, <1>7 DEF u, c

(* A number is below the power of its length.                              *)
LEMMA NumberBounded ==
  ASSUME NEW s \in Seq(Digit), Len(s) <= Digits
  PROVE  NumberOf(s) \in 0..(HexBase ^ Len(s) - 1)
<1>1. PICK f : Reads(f, s)
  BY NumberIsRead
<1>2. SubSeq(s, 0 + 1, Len(s)) = s /\ Len(s) - 0 = Len(s) /\ 0 \in 0..Len(s) /\ Len(s) \in 0..Len(s)
  OBVIOUS
<1> QED
  BY <1>1, <1>2, StretchRead

Character == Digit \cup {Other}

(* The digits of a value.                                                  *)
LEMMA DigitsIs == Digits = 4 * ChunkDigits /\ ChunkDigits \in Nat /\ ChunkDigits > 0 /\ Digits \in Nat
  BY PowersOfBase DEF Digits

(* Where strtoul stops.                                                    *)
Stops(s, n) ==
  /\ n \in 0..Len(s) /\ (n = Len(s) \/ s[n + 1] = Other)
  /\ \A m \in 1..n : s[m] # Other

(* strtoul stops where it should.                                          *)
LEMMA StrtoulStops ==
  ASSUME NEW s \in Seq(Character)
  PROVE  \E n : Stops(s, n) /\ strtoul(s) = NumberOf(SubSeq(s, 1, n))
<1> DEFINE S == {n \in 0..Len(s) : \A m \in 1..n : s[m] # Other}
<1>1. \E n \in 0..Len(s) : Stops(s, n)
  <2> SUFFICES ASSUME \A n \in 0..Len(s) : ~Stops(s, n) PROVE FALSE
    OBVIOUS
  <2>1. Len(s) \in Nat /\ 0 \in S
    OBVIOUS
  <2>2. ASSUME NEW n \in 0..(Len(s) - 1), n \in S PROVE n + 1 \in S
    <3>1. s[n + 1] # Other
      BY <2>1, <2>2 DEF Stops
    <3> QED  BY <2>1, <2>2, <3>1
  <2>3. 0..Len(s) \subseteq S
    <3> HIDE DEF S
    <3> QED  BY <2>1, <2>2, CountUp
  <2>4. Len(s) \in S /\ Len(s) \in 0..Len(s)
    BY <2>1, <2>3
  <2> QED  BY <2>4 DEF Stops
<1> DEFINE end == CHOOSE n \in 0..Len(s) : /\ n = Len(s) \/ s[n + 1] = Other
                                           /\ \A m \in 1..n : s[m] # Other
<1>2. end \in 0..Len(s) /\ (end = Len(s) \/ s[end + 1] = Other)
      /\ \A m \in 1..end : s[m] # Other
  BY <1>1 DEF Stops
<1>3. strtoul(s) = NumberOf(SubSeq(s, 1, end))
  BY DEF strtoul
<1> HIDE DEF end
<1> QED
  BY <1>2, <1>3 DEF Stops

(* strtoul reads all of a string of digits.                                *)
LEMMA StrtoulDigits ==
  ASSUME NEW s \in Seq(Digit)
  PROVE  strtoul(s) = NumberOf(s)
<1>1. s \in Seq(Character) /\ \A n \in 1..Len(s) : s[n] # Other
  BY HexAssumption DEF Character
<1>2. PICK n : Stops(s, n) /\ strtoul(s) = NumberOf(SubSeq(s, 1, n))
  BY <1>1, StrtoulStops
<1>3. n = Len(s)
  BY <1>1, <1>2 DEF Stops
<1>4. SubSeq(s, 1, Len(s)) = s
  OBVIOUS
<1> QED
  BY <1>2, <1>3, <1>4

(* A chunk is read from as many characters, whichever they are.            *)
LEMMA StrtoulFits ==
  ASSUME NEW s \in Seq(Character), Len(s) <= ChunkDigits
  PROVE  strtoul(s) \in Chunk
<1>1. PICK n : Stops(s, n) /\ strtoul(s) = NumberOf(SubSeq(s, 1, n))
  BY StrtoulStops
<1> DEFINE u == SubSeq(s, 1, n)
<1>2. n \in 0..Len(s) /\ Len(s) \in Nat /\ \A m \in 1..n : s[m] # Other
  BY <1>1 DEF Stops
<1>3. u \in Seq(Digit) /\ Len(u) = n
  <2>1. \A m \in 1..n : s[m] \in Digit
    BY <1>2 DEF Character
  <2>2. Len(u) = n /\ u \in Seq(Character) /\ \A m \in 1..n : u[m] = s[m]
    BY <1>2
  <2> HIDE DEF u
  <2>3. u = [m \in 1..n |-> u[m]]
    BY <2>2
  <2>4. [m \in 1..n |-> u[m]] \in Seq(Digit)
    BY <1>2, <2>1, <2>2
  <2> QED  BY <2>2, <2>3, <2>4
<1>4. n \in 0..Digits /\ ChunkDigits \in 0..Digits /\ n <= ChunkDigits
  BY <1>2, DigitsIs
<1> HIDE DEF u
<1>5. NumberOf(u) \in 0..(HexBase ^ n - 1)
  BY <1>3, <1>4, NumberBounded
<1>6. HexBase ^ n <= Base /\ HexBase ^ n \in Nat /\ Base \in Nat
  BY <1>4, PowersOfBase, BaseAssumption
<1> QED
  BY <1>1, <1>5, <1>6 DEF u, Chunk

-----------------------------------------------------------------------------
(* hexcopy gives as many characters as a value has digits.                 *)
LEMMA HexcopyType ==
  ASSUME NEW D, 0 \in D, NEW h \in Seq(D)
  PROVE  hexcopy(h) \in Seq(D) /\ Len(hexcopy(h)) = Digits
<1>1. CASE Len(h) < Digits
  <2> DEFINE zeros == [n \in 1..(Digits - Len(h)) |-> 0]
  <2>1. Digits - Len(h) \in Nat
    BY <1>1, DigitsIs
  <2>2. zeros \in Seq(D) /\ Len(zeros) = Digits - Len(h)
    BY <2>1
  <2>3. hexcopy(h) = zeros \o h
    BY <1>1 DEF hexcopy
  <2> HIDE DEF zeros
  <2>4. zeros \o h \in Seq(D) /\ Len(zeros \o h) = Len(zeros) + Len(h)
    BY <2>2
  <2> QED  BY <2>2, <2>3, <2>4, DigitsIs
<1>2. CASE ~(Len(h) < Digits)
  BY <1>2, DigitsIs DEF hexcopy
<1> QED
  BY <1>1, <1>2

(* The four stretches of digits that are read as chunks.                   *)
LEMMA Stretches ==
  ASSUME NEW D, NEW h \in Seq(D), Len(h) = Digits
  PROVE  LET part(q) == SubSeq(h, q * ChunkDigits + 1, (q + 1) * ChunkDigits)
         IN  \A q \in 0..3 : part(q) \in Seq(D) /\ Len(part(q)) = ChunkDigits
<1> SUFFICES ASSUME NEW q \in 0..3
             PROVE  LET part == SubSeq(h, q * ChunkDigits + 1, (q + 1) * ChunkDigits)
                    IN  part \in Seq(D) /\ Len(part) = ChunkDigits
  OBVIOUS
<1>1. q = 0 \/ q = 1 \/ q = 2 \/ q = 3
  OBVIOUS
<1> DEFINE a == q * ChunkDigits
           b == (q + 1) * ChunkDigits
<1>2. a \in Nat /\ b \in Nat /\ b - a = ChunkDigits /\ b <= Digits /\ a <= b
  BY <1>1, DigitsIs
<1> HIDE DEF a, b
<1>3. SubSeq(h, a + 1, b) \in Seq(D) /\ Len(SubSeq(h, a + 1, b)) = ChunkDigits
  BY <1>2, DigitsIs
<1> QED
  BY <1>3 DEF a, b

Part(h, q) == SubSeq(h, q * ChunkDigits + 1, (q + 1) * ChunkDigits)

(* Each chunk is read from its stretch of the copy.                        *)
LEMMA CreateIs ==
  ASSUME NEW h
  PROVE  LET v == uint256_create_from_hex(h)
         IN  /\ DOMAIN v = 0..3
             /\ v = [n \in 0..3 |-> v[n]]
             /\ \A n \in 0..3 : v[n] = strtoul(Part(hexcopy(h), 3 - n))
<1>1. \A n \in 0..3 : (3 - n) + 1 = 4 - n
  OBVIOUS
<1> QED
  BY <1>1 DEF uint256_create_from_hex, Part

(* Any string is read as a value.                                          *)
LEMMA CreateType ==
  ASSUME NEW h \in Seq(Character)
  PROVE  uint256_create_from_hex(h) \in UInt
<1> DEFINE v == uint256_create_from_hex(h)
<1>1. hexcopy(h) \in Seq(Character) /\ Len(hexcopy(h)) = Digits
  BY HexcopyType, HexAssumption DEF Character, Digit
<1>2. \A q \in 0..3 : Part(hexcopy(h), q) \in Seq(Character)
                      /\ Len(Part(hexcopy(h), q)) = ChunkDigits
  BY <1>1, Stretches DEF Part
<1>3. \A q \in 0..3 : strtoul(Part(hexcopy(h), q)) \in Chunk
  BY <1>2, StrtoulFits, DigitsIs
<1>4. \A n \in 0..3 : 3 - n \in 0..3
  OBVIOUS
<1>5. v = [n \in 0..3 |-> v[n]] /\ \A n \in 0..3 : v[n] \in Chunk
  BY <1>3, <1>4, CreateIs
<1> HIDE DEF v
<1> QED
  BY <1>5 DEF UInt, v

(* Modulus is the power of HexBase of all digits.                          *)
LEMMA ModulusIs ==
  /\ Modulus = HexBase ^ Digits /\ Modulus \in Nat \ {0} /\ Base \in Nat \ {0}
<1> DEFINE C == ChunkDigits
<1>1. C \in Nat /\ Digits = 4 * C
  BY DigitsIs
<1>2. /\ C \in 0..Digits /\ C \in 0..(Digits - C) /\ C + C \in 0..Digits
      /\ C + C \in 0..(Digits - (C + C)) /\ (C + C) + (C + C) = Digits
  BY <1>1
<1>3. HexBase ^ (C + C) = Base * Base
  BY <1>2, PowersOfBase
<1>4. HexBase ^ ((C + C) + (C + C)) = (Base * Base) * (Base * Base)
  <2> HIDE DEF C
  <2> QED  BY <1>2, <1>3, PowersOfBase
<1>5. HexBase ^ Digits = (Base * Base) * (Base * Base)
  BY <1>2, <1>4
<1>6. Base \in Nat \ {0}
  BY BaseAssumption
<1>7. \A b \in Nat \ {0} : (b * b) * (b * b) = b * (b * (b * b)) /\ b * (b * (b * b)) \in Nat \ {0}
  <2> SUFFICES ASSUME NEW b \in Nat \ {0}
               PROVE  (b * b) * (b * b) = b * (b * (b * b)) /\ b * (b * (b * b)) \in Nat \ {0}
    OBVIOUS
  <2>1. b * b \in Nat \ {0} /\ \A y \in Nat \ {0} : b * y \in Nat \ {0}
    OBVIOUS
  <2>2. \A y \in Nat \ {0} : (b * b) * y = b * (b * y)
    OBVIOUS
  <2> QED  BY <2>1, <2>2
<1> QED
  BY <1>5, <1>6, <1>7 DEF Modulus

(* The chunks that are read are those of the number that is read.          *)
LEMMA CreateReads ==
  ASSUME NEW h \in Seq(Digit)
  PROVE  /\ Value(uint256_create_from_hex(h)) = NumberOf(hexcopy(h))
         /\ uint256_create_from_hex(h) \in UInt
<1> DEFINE v == uint256_create_from_hex(h)
           g == hexcopy(h)
           C == ChunkDigits
<1>0. v \in UInt
  <2>1. h \in Seq(Character)
    BY DEF Character
  <2> QED  BY <2>1, CreateType
<1>1. g \in Seq(Digit) /\ Len(g) = Digits
  BY HexcopyType, HexAssumption DEF Digit
<1>2. PICK f : Reads(f, g) /\ NumberOf(g) = f[Digits]
  BY <1>1, NumberIsRead
<1>3. \A q \in 0..3 : v[3 - q] = NumberOf(Part(g, q))
  <2> SUFFICES ASSUME NEW q \in 0..3 PROVE v[3 - q] = NumberOf(Part(g, q))
    OBVIOUS
  <2>1. Part(g, q) \in Seq(Digit)
    BY <1>1, Stretches DEF Part
  <2>2. 3 - q \in 0..3 /\ 3 - (3 - q) = q
    OBVIOUS
  <2>3. v[3 - q] = strtoul(Part(g, q))
    BY <2>2, CreateIs
  <2> QED  BY <2>1, <2>3, StrtoulDigits
<1> HIDE DEF v, g
<1>4. \A q \in 0..3 : f[(q + 1) * C] = f[q * C] * Base + v[3 - q]
  <2> SUFFICES ASSUME NEW q \in 0..3 PROVE f[(q + 1) * C] = f[q * C] * Base + v[3 - q]
    OBVIOUS
  <2> DEFINE a == q * C
             b == (q + 1) * C
  <2>1. q = 0 \/ q = 1 \/ q = 2 \/ q = 3
    OBVIOUS
  <2>2. a \in Nat /\ b \in Nat /\ b - a = C /\ b <= Digits /\ a <= b /\ C <= Digits
    BY <2>1, DigitsIs
  <2> HIDE DEF a, b
  <2>3. a \in 0..Len(g) /\ b \in a..Len(g) /\ b - a <= Digits
    BY <1>1, <2>2, DigitsIs
  <2>4. f[b] = f[a] * HexBase ^ (b - a) + NumberOf(SubSeq(g, a + 1, b))
    BY <1>1, <1>2, <2>3, StretchRead
  <2>5. f[b] = f[a] * Base + NumberOf(SubSeq(g, a + 1, b))
    BY <2>2, <2>4, PowersOfBase
  <2> QED  BY <1>3, <2>5 DEF a, b, Part
<1>5. /\ f[1 * C] = f[0 * C] * Base + v[3] /\ f[2 * C] = f[1 * C] * Base + v[2]
      /\ f[3 * C] = f[2 * C] * Base + v[1] /\ f[4 * C] = f[3 * C] * Base + v[0]
  <2>1. 0 \in 0..3 /\ 1 \in 0..3 /\ 2 \in 0..3 /\ 3 \in 0..3
        /\ 0 + 1 = 1 /\ 1 + 1 = 2 /\ 2 + 1 = 3 /\ 3 + 1 = 4
        /\ 3 - 0 = 3 /\ 3 - 1 = 2 /\ 3 - 2 = 1 /\ 3 - 3 = 0
    OBVIOUS
  <2> QED  BY <1>4, <2>1
<1>6. f[0 * C] = 0
  BY <1>2, DigitsIs DEF Reads
<1>7. v[0] \in Nat /\ v[1] \in Nat /\ v[2] \in Nat /\ v[3] \in Nat /\ Base \in Nat
  BY <1>0, BaseAssumption DEF UInt, Chunk
<1>8. f[4 * C] = Value(v)
  <2> DEFINE B == Base
             d == v[3]
             c == v[2]
             b == v[1]
             a == v[0]
             u == B * d
             w == B * (c + u)
             z == B * (b + w)
  <2>1. a \in Nat /\ b \in Nat /\ c \in Nat /\ d \in Nat /\ B \in Nat
    BY <1>7
  <2>2. Value(v) = a + z
    BY DEF Value
  <2>3. /\ f[1 * C] = 0 * B + d /\ f[2 * C] = f[1 * C] * B + c
        /\ f[3 * C] = f[2 * C] * B + b /\ f[4 * C] = f[3 * C] * B + a
    BY <1>5, <1>6
  <2> HIDE DEF a, b, c, d, B
  <2>4. u \in Nat /\ w \in Nat /\ z \in Nat
    <3>1. \A x, y \in Nat : x * y \in Nat /\ x + y \in Nat
      OBVIOUS
    <3>2. u \in Nat
      BY <2>1, <3>1
    <3> HIDE DEF u
    <3>3. w \in Nat
      BY <2>1, <3>1, <3>2
    <3> HIDE DEF w
    <3> QED  BY <2>1, <3>1, <3>2, <3>3
  <2>5. f[1 * C] = d
    BY <2>1, <2>3
  <2>6. \A x \in Nat : x * B = B * x
    BY <2>1
  <2>7. f[2 * C] = u + c
    BY <2>1, <2>3, <2>5, <2>6
  <2>8. f[3 * C] = w + b
    <3>1. u + c = c + u /\ c + u \in Nat
      BY <2>1, <2>4
    <3> QED  BY <2>3, <2>6, <2>7, <3>1
  <2>9. f[4 * C] = z + a
    <3>1. w + b = b + w /\ b + w \in Nat
      BY <2>1, <2>4
    <3> QED  BY <2>3, <2>6, <2>8, <3>1
  <2>10. a + z = z + a
    BY <2>1, <2>4
  <2> QED  BY <2>2, <2>9, <2>10
<1> QED
  BY <1>0, <1>2, <1>8, DigitsIs DEF v, g

(* Zeros in front change nothing, and the last digits are the remainder.   *)
LEMMA PaddedNumber ==
  ASSUME NEW h \in Seq(Digit)
  PROVE  NumberOf(hexcopy(h)) = NumberOf(h) % Modulus
<1> DEFINE g == hexcopy(h)
           M == Len(h)
<1>1. g \in Seq(Digit) /\ Len(g) = Digits
  BY HexcopyType, HexAssumption DEF Digit
<1>2. M \in Nat /\ Digits \in Nat
  BY DigitsIs
<1>3. CASE M < Digits
  <2> DEFINE p == Digits - M
             zeros == [n \in 1..p |-> 0]
  <2>1. p \in Nat /\ zeros \in Seq(Digit) /\ Len(zeros) = p /\ \A n \in 1..p : zeros[n] = 0
    BY <1>2, <1>3, HexAssumption DEF Digit
  <2>2. g = zeros \o h
    BY <1>3 DEF hexcopy
  <2> HIDE DEF zeros
  <2>3. (\A n \in 1..p : g[n] = 0) /\ \A n \in 1..M : g[p + n] = h[n]
    BY <1>2, <2>1, <2>2
  <2> HIDE DEF g
  <2>4. PICK f : Reads(f, g) /\ NumberOf(g) = f[Digits]
    BY <1>1, NumberIsRead
  <2> DEFINE S == {n \in 0..p : f[n] = 0}
  <2>5. 0 \in S
    BY <2>1, <2>4 DEF Reads
  <2>6. ASSUME NEW n \in 0..(p - 1), n \in S PROVE n + 1 \in S
    <3>1. n + 1 \in 1..p /\ n + 1 \in 1..Digits /\ (n + 1) - 1 = n
      BY <1>2, <1>3, <2>1
    <3>2. f[n + 1] = f[n] * HexBase + g[n + 1]
      BY <1>1, <2>4, <3>1 DEF Reads
    <3>3. f[n] = 0 /\ g[n + 1] = 0 /\ 0 * HexBase = 0
      BY <2>3, <2>6, <3>1, PowersOfBase
    <3> QED  BY <3>1, <3>2, <3>3
  <2>7. p \in S
    <3>1. 0..p \subseteq S
      <4> HIDE DEF S, p
      <4> QED  BY <2>1, <2>5, <2>6, CountUp
    <3> QED  BY <2>1, <3>1
  <2>8. SubSeq(g, p + 1, Digits) = h
    <3> DEFINE u == SubSeq(g, p + 1, Digits)
    <3>1. u \in Seq(Digit) /\ Len(u) = M /\ \A n \in 1..M : u[n] = g[p + n]
      BY <1>1, <1>2, <1>3
    <3> HIDE DEF u
    <3>2. u \in Seq(Digit) /\ Len(u) = Len(h) /\ \A n \in 1..Len(u) : u[n] = h[n]
      BY <1>2, <2>3, <3>1
    <3> HIDE DEF M, p
    <3> QED  BY <3>2, SeqEqual DEF u
  <2>9. p \in 0..Len(g) /\ Digits \in p..Len(g) /\ Digits - p <= Digits /\ Digits - p = M
    BY <1>1, <1>2, <1>3
  <2> HIDE DEF p, M
  <2>10. /\ f[Digits] = f[p] * HexBase ^ (Digits - p) + NumberOf(h)
         /\ NumberOf(h) \in 0..(HexBase ^ (Digits - p) - 1)
    BY <1>1, <2>4, <2>8, <2>9, StretchRead
  <2>11. HexBase ^ M \in Nat /\ HexBase ^ M <= Modulus /\ Modulus \in Nat \ {0}
    <3>1. M \in 0..Digits /\ Digits \in 0..Digits /\ M <= Digits
      BY <1>2, <1>3
    <3>2. HexBase ^ M \in Nat \ {0} /\ HexBase ^ M <= HexBase ^ Digits
      BY <3>1, PowersOfBase, Zenon
    <3> QED  BY <3>2, ModulusIs
  <2>12. f[p] = 0 /\ 0 * HexBase ^ M = 0
    BY <2>7, <2>11
  <2>13. NumberOf(g) = NumberOf(h) /\ NumberOf(h) \in Nat /\ NumberOf(h) < Modulus
    BY <2>4, <2>9, <2>10, <2>11, <2>12
  <2> QED  BY <2>11, <2>13 DEF g
<1>4. CASE ~(M < Digits)
  <2> DEFINE a == M - Digits
  <2>1. a \in 0..M /\ M \in a..M /\ M - a <= Digits /\ M - a = Digits
    BY <1>2, <1>4
  <2>2. g = SubSeq(h, a + 1, M)
    BY <1>4 DEF hexcopy
  <2>3. PICK f : Reads(f, h) /\ NumberOf(h) = f[M]
    BY NumberIsRead
  <2> HIDE DEF a, g
  <2>4. /\ f[M] = f[a] * HexBase ^ Digits + NumberOf(g)
        /\ NumberOf(g) \in 0..(HexBase ^ Digits - 1)
    BY <2>1, <2>2, <2>3, StretchRead
  <2>5. f[a] \in Nat
    BY <2>1, <2>3 DEF Reads
  <2>6. \A q, r \in Nat, m \in Nat \ {0} : r < m => (q * m + r) % m = r
    OBVIOUS
  <2>7. NumberOf(g) \in Nat /\ NumberOf(g) < Modulus /\ Modulus \in Nat \ {0}
        /\ f[M] = f[a] * Modulus + NumberOf(g)
    BY <2>4, ModulusIs
  <2>8. NumberOf(h) % Modulus = NumberOf(g)
    BY <2>3, <2>5, <2>6, <2>7
  <2> QED  BY <2>8 DEF g
<1> QED
  BY <1>3, <1>4

-----------------------------------------------------------------------------
(***************************************************************************)
(* UInt256Hex: numbers written as digits                                   *)
(***************************************************************************)

(* All the digits of a value, before the zeros in front are left out.      *)
Written(v) ==
  [m \in 1..Digits |->
     (v[3 - (m - 1) \div ChunkDigits]
        \div HexBase ^ (ChunkDigits - 1 - ((m - 1) % ChunkDigits))) % HexBase]

(* Dividing twice is dividing by the product.                              *)
LEMMA DivTwice ==
  ASSUME NEW x \in Nat, NEW b \in Nat \ {0}, NEW p \in Nat \ {0}
  PROVE  /\ (x \div (b * p)) = ((x \div p) \div b)
         /\ ((x \div (b * p)) * b + ((x \div p) % b)) = x \div p
<1>1. x \div (b * p) = (x \div p) \div b
  OBVIOUS
<1>2. \A y \in Nat : ((y \div b) * b + (y % b)) = y
  OBVIOUS
<1>3. x \div p \in Nat
  OBVIOUS
<1> QED
  BY <1>1, <1>2, <1>3

(* The digits of a chunk are those of its number.                          *)
LEMMA ChunkWritten ==
  ASSUME NEW x \in Chunk, NEW u \in Seq(Digit), Len(u) = ChunkDigits,
         \A j \in 1..ChunkDigits : u[j] = (x \div HexBase ^ (ChunkDigits - j)) % HexBase
  PROVE  NumberOf(u) = x
<1> DEFINE C == ChunkDigits
<1>1. C \in Nat /\ Digits = 4 * C /\ x \in Nat /\ x < Base /\ Base \in Nat
  BY DigitsIs, BaseAssumption DEF Chunk
<1>2. PICK g : Reads(g, u) /\ NumberOf(u) = g[C]
  BY NumberIsRead
<1> DEFINE S == {n \in 0..C : g[n] = x \div HexBase ^ (C - n)}
<1>3. 0 \in S
  <2>1. C - 0 = C /\ HexBase ^ C = Base
    BY <1>1, PowersOfBase
  <2>2. x \div Base = 0
    BY <1>1
  <2>3. g[0] = 0
    BY <1>2 DEF Reads
  <2> QED  BY <1>1, <2>1, <2>2, <2>3
<1>4. ASSUME NEW n \in 0..(C - 1), n \in S PROVE n + 1 \in S
  <2> DEFINE m == C - (n + 1)
             p == HexBase ^ m
  <2>1. n + 1 \in 1..C /\ (n + 1) - 1 = n /\ m \in 0..(Digits - 1) /\ m + 1 = C - n /\ m \in 0..Digits
    BY <1>1
  <2>2. g[n + 1] = g[n] * HexBase + u[n + 1]
    BY <1>2, <2>1 DEF Reads
  <2>3. u[n + 1] = (x \div p) % HexBase
    BY <2>1
  <2>4. HexBase ^ (m + 1) = HexBase * p /\ p \in Nat \ {0} /\ HexBase \in Nat \ {0}
    BY <2>1, PowersOfBase
  <2>5. g[n] = x \div (HexBase * p)
    BY <1>4, <2>1, <2>4
  <2>6. g[n + 1] = x \div p
    <3> HIDE DEF p, S
    <3>1. (x \div (HexBase * p)) * HexBase + ((x \div p) % HexBase) = x \div p
      BY <1>1, <2>4, DivTwice
    <3> QED  BY <2>2, <2>3, <2>5, <3>1
  <2> QED  BY <2>1, <2>6
<1>5. 0..C \subseteq S
  <2> HIDE DEF S, C
  <2> QED  BY <1>1, <1>3, <1>4, CountUp
<1>6. C - C = 0 /\ HexBase ^ 0 = 1 /\ x \div 1 = x /\ C \in 0..C
  BY <1>1, PowersOfBase
<1> QED
  BY <1>2, <1>5, <1>6

(* What is written of a value has, chunk by chunk, its number.             *)
LEMMA WrittenParts ==
  ASSUME NEW v \in UInt
  PROVE  /\ Written(v) \in Seq(Digit) /\ Len(Written(v)) = Digits
         /\ \A q \in 0..3 : NumberOf(Part(Written(v), q)) = v[3 - q]
<1> DEFINE C == ChunkDigits
           all == Written(v)
<1>1. C \in Nat \ {0} /\ Digits = 4 * C /\ Digits \in Nat
  BY DigitsIs
<1>2. \A m \in 1..Digits : all[m] \in Digit
  <2> SUFFICES ASSUME NEW m \in 1..Digits PROVE all[m] \in Digit
    OBVIOUS
  <2> DEFINE c == (m - 1) \div C
             place == C - 1 - ((m - 1) % C)
  <2>1. m - 1 \in 0..(4 * C - 1)
    BY <1>1
  <2>2. c \in 0..3 /\ (m - 1) % C \in 0..(C - 1)
    BY <1>1, <2>1
  <2>3. 3 - c \in 0..3 /\ place \in 0..Digits
    BY <1>1, <2>2
  <2>4. v[3 - c] \in Nat /\ HexBase ^ place \in Nat \ {0} /\ HexBase \in Nat \ {0}
    BY <2>3, PowersOfBase, BaseAssumption DEF UInt, Chunk
  <2> DEFINE x == v[3 - c]
             p == HexBase ^ place
  <2>5. all[m] = (x \div p) % HexBase
    BY DEF Written
  <2> HIDE DEF x, p
  <2>6. (x \div p) % HexBase \in 0..(HexBase - 1)
    <3>1. x \in Nat /\ p \in Nat \ {0} /\ HexBase \in Nat \ {0}
      BY <2>4 DEF x, p
    <3>2. \A d \in Nat \ {0} : x \div d \in Nat
      BY <3>1
    <3>3. \A y \in Nat : y % HexBase \in 0..(HexBase - 1)
      BY <3>1
    <3> QED  BY <3>1, <3>2, <3>3
  <2> QED  BY <2>5, <2>6 DEF Digit
<1>3. all \in Seq(Digit) /\ Len(all) = Digits
  <2>1. all \in [1..Digits -> Digit]
    <3>1. all = [m \in 1..Digits |-> all[m]]
      BY DEF Written
    <3> HIDE DEF all
    <3> QED  BY <1>2, <3>1
  <2> HIDE DEF all
  <2> QED  BY <1>1, <2>1
<1>4. ASSUME NEW q \in 0..3 PROVE NumberOf(Part(all, q)) = v[3 - q]
  <2> DEFINE u == Part(all, q)
  <2>1. u \in Seq(Digit) /\ Len(u) = C
    BY <1>3, Stretches DEF Part
  <2>2. ASSUME NEW j \in 1..C PROVE u[j] = (v[3 - q] \div HexBase ^ (C - j)) % HexBase
    <3> DEFINE m == q * C + j
    <3>1. q = 0 \/ q = 1 \/ q = 2 \/ q = 3
      OBVIOUS
    <3>2. q * C \in Nat /\ (q + 1) * C = q * C + C /\ q * C + C <= 4 * C
      BY <1>1, <3>1
    <3>3. m \in 1..Digits /\ m - 1 = q * C + (j - 1) /\ j - 1 \in 0..(C - 1)
      BY <1>1, <3>2
    <3>4. (m - 1) \div C = q /\ (m - 1) % C = j - 1
      BY <1>1, <3>1, <3>3
    <3>5. C - 1 - (j - 1) = C - j
      BY <1>1
    <3>6. all[m] = (v[3 - q] \div HexBase ^ (C - j)) % HexBase
      BY <3>3, <3>4, <3>5 DEF Written
    <3>7. u[j] = all[m]
      <4> DEFINE a == q * C
                 b == (q + 1) * C
      <4>1. a \in 0..Len(all) /\ b \in 0..Len(all) /\ b = a + C /\ a \in Nat
        BY <1>1, <1>3, <3>2
      <4>2. u = SubSeq(all, a + 1, b)
        BY DEF Part
      <4> HIDE DEF all, a, b, u
      <4>3. u[j] = all[a + j]
        BY <1>1, <1>3, <4>1, <4>2
      <4> QED  BY <4>3 DEF a
    <3> QED  BY <3>6, <3>7
  <2>3. v[3 - q] \in Chunk
    BY DEF UInt
  <2> HIDE DEF u
  <2> QED  BY <2>1, <2>2, <2>3, ChunkWritten DEF u
<1> QED
  BY <1>3, <1>4

(* All digits read back as the value.                                      *)
LEMMA WrittenReadsBack ==
  ASSUME NEW v \in UInt, NEW h, hexcopy(h) = Written(v)
  PROVE  uint256_create_from_hex(h) = v
<1> DEFINE w == uint256_create_from_hex(h)
<1>1. DOMAIN w = 0..3 /\ w = [n \in 0..3 |-> w[n]]
      /\ \A n \in 0..3 : w[n] = strtoul(Part(Written(v), 3 - n))
  BY CreateIs
<1>2. \A q \in 0..3 : Part(Written(v), q) \in Seq(Digit)
  BY WrittenParts, Stretches DEF Part
<1>3. \A n \in 0..3 : 3 - n \in 0..3 /\ 3 - (3 - n) = n
  OBVIOUS
<1>4. \A n \in 0..3 : w[n] = v[n]
  BY <1>1, <1>2, <1>3, StrtoulDigits, WrittenParts
<1>5. v = [n \in 0..3 |-> v[n]]
  BY DEF UInt
<1> HIDE DEF w
<1> QED
  BY <1>1, <1>4, <1>5 DEF w

(* LeadingZeros counts the zeros in front.                                 *)
LEMMA LeadingZerosAre ==
  ASSUME NEW s \in Seq(Digit)
  PROVE  /\ LeadingZeros(s) \in 0..Len(s)
         /\ LeadingZeros(s) = Len(s) \/ s[LeadingZeros(s) + 1] # 0
         /\ \A m \in 1..LeadingZeros(s) : s[m] = 0
<1> DEFINE S == {n \in 0..Len(s) : \A m \in 1..n : s[m] = 0}
           P(n) == (n = Len(s) \/ s[n + 1] # 0) /\ \A m \in 1..n : s[m] = 0
<1>1. \E n \in 0..Len(s) : P(n)
  <2> SUFFICES ASSUME \A n \in 0..Len(s) : ~P(n) PROVE FALSE
    OBVIOUS
  <2>1. 0 \in S
    OBVIOUS
  <2>2. ASSUME NEW n \in 0..(Len(s) - 1), n \in S PROVE n + 1 \in S
    BY <2>2
  <2>3. Len(s) \in Nat
    OBVIOUS
  <2>4. 0..Len(s) \subseteq S
    <3> HIDE DEF S
    <3> QED  BY <2>1, <2>2, <2>3, CountUp
  <2> QED  BY <2>3, <2>4
<1>2. LeadingZeros(s) = CHOOSE n \in 0..Len(s) : P(n)
  BY DEF LeadingZeros
<1> HIDE DEF P
<1>3. LeadingZeros(s) \in 0..Len(s) /\ P(LeadingZeros(s))
  BY <1>1, <1>2
<1> QED
  BY <1>3 DEF P

(* A value is written without zeros in front and reads back.               *)
LEMMA FormatReadsBack ==
  ASSUME NEW v \in UInt
  PROVE  LET s == uint256_format_as_hex(v)
         IN  /\ s \in Seq(Digit) /\ s # <<>> /\ (s[1] = 0 => Len(s) = 1)
             /\ uint256_create_from_hex(s) = v
<1> DEFINE all == Written(v)
           z == leadingzeroindex(all)
           s == uint256_format_as_hex(v)
<1>1. all \in Seq(Digit) /\ Len(all) = Digits /\ Digits \in Nat /\ Digits > 0
  BY WrittenParts, DigitsIs
<1>2. s = SubSeq(all, z + 1, Digits)
  BY DEF uint256_format_as_hex, Written
<1>3. z \in 0..(Digits - 1) /\ (\A m \in 1..z : all[m] = 0) /\ (all[z + 1] = 0 => z = Digits - 1)
  BY <1>1, LeadingZerosAre DEF leadingzeroindex
<1> HIDE DEF all, z, s
<1>4. s \in Seq(Digit) /\ Len(s) = Digits - z /\ \A n \in 1..(Digits - z) : s[n] = all[z + n]
  BY <1>1, <1>2, <1>3
<1>5. s # <<>> /\ (s[1] = 0 => Len(s) = 1)
  BY <1>1, <1>3, <1>4
<1>6. hexcopy(s) = all
  <2>1. CASE z = 0
    <3>1. hexcopy(s) = SubSeq(s, Len(s) - Digits + 1, Len(s)) /\ s = SubSeq(all, 1, Digits)
      BY <1>1, <1>2, <1>4, <2>1 DEF hexcopy
    <3>2. s = all
      BY <1>1, <3>1
    <3> QED  BY <1>1, <3>1, <3>2
  <2>2. CASE z # 0
    <3> DEFINE zeros == [m \in 1..(Digits - Len(s)) |-> 0]
    <3>0. Digits - Len(s) = z /\ z \in Nat /\ Len(s) < Digits /\ Len(s) \in Nat
      BY <1>1, <1>3, <1>4, <2>2
    <3>1. hexcopy(s) = zeros \o s
      BY <3>0 DEF hexcopy
    <3>2. zeros \in Seq(Digit) /\ Len(zeros) = z /\ \A m \in 1..z : zeros[m] = 0
      BY <3>0, HexAssumption DEF Digit
    <3> HIDE DEF zeros
    <3>3. zeros \o s \in Seq(Digit) /\ Len(zeros \o s) = Digits
      <4>1. zeros \o s \in Seq(Digit)
        BY <1>4, <3>2
      <4>2. Len(zeros \o s) = Len(zeros) + Len(s)
        BY <1>4, <3>2
      <4>3. z + (Digits - z) = Digits
        BY <1>1, <3>0
      <4> QED  BY <1>4, <3>2, <4>1, <4>2, <4>3
    <3>4. \A m \in 1..Digits : (zeros \o s)[m] = all[m]
      <4> SUFFICES ASSUME NEW m \in 1..Digits PROVE (zeros \o s)[m] = all[m]
        OBVIOUS
      <4>1. CASE m <= z
        BY <1>3, <3>0, <3>2, <1>4, <4>1
      <4>2. CASE ~(m <= z)
        <5>1. m - z \in 1..(Digits - z) /\ z + (m - z) = m
          BY <1>1, <3>0, <4>2
        <5>2. (zeros \o s)[m] = s[m - z]
          BY <1>4, <3>0, <3>2, <5>1, <4>2, <1>1
        <5> QED  BY <1>4, <5>1, <5>2
      <4> QED  BY <4>1, <4>2
    <3>5. zeros \o s = all
      BY <1>1, <3>3, <3>4, SeqEqual
    <3> QED  BY <3>1, <3>5
  <2> QED  BY <2>1, <2>2
<1>7. uint256_create_from_hex(s) = v
  BY <1>6, WrittenReadsBack DEF all
<1> QED
  BY <1>4, <1>5, <1>7 DEF s

-----------------------------------------------------------------------------
(***************************************************************************)
(* UInt256: bits and shifts                                                *)
(***************************************************************************)

(* What the assumptions say of a chunk.                                    *)
LEMMA BitsIs == Bits \in Nat /\ Bits > 0 /\ Base \in Nat \ {0} /\ Base > 1
  BY BitsAssumption, BaseAssumption

(* One more bit of a number.                                               *)
LEMMA TakeBits ==
  ASSUME NEW n \in Nat, NEW p \in Nat \ {0}
  PROVE  /\ (n % (2 * p)) = ((n % p) + ((n \div p) % 2) * p)
         /\ n \div p \in Nat /\ n % p \in Nat /\ ((n \div p) % 2) \in {0, 1}
         /\ n < p => (n \div p = 0)
<1> DEFINE y == n \div p
           e == n % p
           z == y \div 2
           b == y % 2
<1>1. y \in Nat /\ e \in 0..(p - 1) /\ (y * p + e) = n
  OBVIOUS
<1> HIDE DEF y, e
<1>2. z \in Nat /\ b \in 0..1 /\ (z * 2 + b) = y
  BY <1>1
<1> HIDE DEF z, b
<1>3. n = z * (2 * p) + (b * p + e)
  <2>1. n = (z * 2 + b) * p + e
    BY <1>1, <1>2
  <2>2. (z * 2 + b) * p = z * (2 * p) + b * p
    BY <1>2
  <2>3. z * (2 * p) \in Nat /\ b * p \in Nat
    BY <1>2
  <2> QED  BY <1>1, <2>1, <2>2, <2>3
<1>4. b * p + e \in 0..(2 * p - 1)
  <2>1. b = 0 \/ b = 1
    BY <1>2
  <2> QED  BY <1>1, <2>1
<1>5. n % (2 * p) = b * p + e
  <2> DEFINE m == 2 * p
             f == b * p + e
  <2>1. m \in Nat \ {0} /\ f \in 0..(m - 1) /\ z \in Nat /\ n = z * m + f
    BY <1>2, <1>3, <1>4
  <2> HIDE DEF m, f
  <2>2. n % m = f
    BY <2>1
  <2> QED  BY <2>2 DEF m, f
<1>6. n < p => y = 0
  <2> SUFFICES ASSUME n < p, y >= 1 PROVE FALSE
    BY <1>1
  <2>1. y * p >= p
    BY <1>1
  <2> QED  BY <1>1, <2>1
<1>7. b * p \in Nat /\ b * p + e = e + b * p
  BY <1>1, <1>2
<1> QED
  BY <1>1, <1>2, <1>5, <1>6, <1>7 DEF y, e, b

(* A number below b in front of a multiple of b.                           *)
LEMMA DropLow ==
  ASSUME NEW b \in Nat \ {0}, NEW low \in 0..(b - 1), NEW up \in Nat
  PROVE  (low + b * up) \div b = up /\ ((low + b * up) % b) = low
<1>1. low + b * up = up * b + low
  OBVIOUS
<1>2. \A n \in Nat : n = up * b + low => n \div b = up /\ n % b = low
  OBVIOUS
<1>3. low + b * up \in Nat
  OBVIOUS
<1> QED
  BY <1>1, <1>2, <1>3

(* The bit of the lowest chunk is the bit of the whole value.              *)
LEMMA LowBit ==
  ASSUME NEW low \in Chunk, NEW up \in Nat, NEW place \in 0..(Bits - 1)
  PROVE  (((low + Base * up) \div 2 ^ place) % 2) = ((low \div 2 ^ place) % 2)
<1> DEFINE p == 2 ^ place
           h == 2 ^ (Bits - place - 1)
<1>1. /\ place \in 0..(4 * Bits) /\ Bits - place - 1 \in 0..(4 * Bits - 1) /\ Bits - place - 1 \in 0..(4 * Bits)
      /\ (Bits - place - 1) + 1 = Bits - place /\ Bits - place \in 0..(4 * Bits - place) /\ place + (Bits - place) = Bits
  BY BitsIs
<1>2. p \in Nat \ {0} /\ h \in Nat \ {0}
  BY <1>1, TwoPowers
<1>3. 2 ^ (Bits - place) = 2 * h
  BY <1>1, PowersDouble
<1>4. Base = p * 2 ^ (Bits - place)
  BY <1>1, TwoPowers
<1>5. low \in Nat
  BY BitsIs DEF Chunk
<1> HIDE DEF p, h
<1> DEFINE y == low \div p
           e == low % p
           w == h * up
<1>6. y \in Nat /\ e \in 0..(p - 1) /\ low = e + p * y
  BY <1>2, <1>5
<1>7. w \in Nat
  BY <1>2
<1>8. low + Base * up = e + p * (y + 2 * w)
  <2>1. Base * up = p * (2 * w)
    <3>1. Base = p * (2 * h)
      BY <1>3, <1>4
    <3>2. (p * (2 * h)) * up = p * (2 * (h * up))
      BY <1>2
    <3> QED  BY <3>1, <3>2
  <2> HIDE DEF w, y, e
  <2>2. p * (y + 2 * w) = p * y + p * (2 * w)
    BY <1>2, <1>6, <1>7
  <2>3. p * y \in Nat /\ p * (2 * w) \in Nat /\ e \in Nat
    BY <1>2, <1>6, <1>7
  <2> QED  BY <1>6, <2>1, <2>2, <2>3
<1> HIDE DEF y, e, w
<1>9. (low + Base * up) \div p = y + 2 * w
  <2>1. y + 2 * w \in Nat
    BY <1>6, <1>7
  <2> QED  BY <1>2, <1>6, <1>8, <2>1, DropLow
<1>10. (y + 2 * w) % 2 = y % 2
  BY <1>6, <1>7
<1> QED
  BY <1>9, <1>10 DEF y, p

(* The number the chunks from q on stand for. *)
ChunksFrom(v, q) == CASE q = 0 -> Value(v) [] q = 1 -> V1(v) [] q = 2 -> V2(v) [] q = 3 -> v[3] [] q = 4 -> 0

(* What is left of a value above a chunk.                                  *)
LEMMA TailIs ==
  ASSUME NEW v \in UInt
  PROVE  /\ \A q \in 0..4 : ChunksFrom(v, q) \in Nat
         /\ \A q \in 0..3 : ChunksFrom(v, q) = v[q] + Base * ChunksFrom(v, q + 1) /\ v[q] \in Chunk
<1>1. \A q \in 0..3 : v[q] \in Chunk /\ v[q] \in Nat
  BY BitsIs DEF UInt, Chunk
<1>2. V2(v) = v[2] + Base * v[3] /\ V1(v) = v[1] + Base * V2(v) /\ Value(v) = v[0] + Base * V1(v)
  BY DEF V1, V2, Value, Up
<1>3. V2(v) \in Nat /\ V1(v) \in Nat /\ Value(v) \in Nat
  BY <1>1, UpNat, ValueBounds DEF V1, V2
<1>4. \A q \in 0..4 : ChunksFrom(v, q) \in Nat
  <2> SUFFICES ASSUME NEW q \in 0..4 PROVE ChunksFrom(v, q) \in Nat
    OBVIOUS
  <2>1. q = 0 \/ q = 1 \/ q = 2 \/ q = 3 \/ q = 4
    OBVIOUS
  <2> QED  BY <1>1, <1>3, <2>1 DEF ChunksFrom
<1>5. v[3] = v[3] + Base * 0
  BY <1>1, BitsIs
<1>6. /\ ChunksFrom(v, 0) = Value(v) /\ ChunksFrom(v, 1) = V1(v) /\ ChunksFrom(v, 2) = V2(v)
      /\ ChunksFrom(v, 3) = v[3] /\ ChunksFrom(v, 4) = 0
  BY DEF ChunksFrom
<1>7. ASSUME NEW q \in 0..3 PROVE ChunksFrom(v, q) = v[q] + Base * ChunksFrom(v, q + 1)
  <2>1. q = 0 \/ q = 1 \/ q = 2 \/ q = 3
    OBVIOUS
  <2>2. 0 + 1 = 1 /\ 1 + 1 = 2 /\ 2 + 1 = 3 /\ 3 + 1 = 4
    OBVIOUS
  <2> QED  BY <1>2, <1>5, <1>6, <2>1, <2>2
<1> QED
  BY <1>1, <1>4, <1>7

(* Powers of Base. *)
Chunks(q) == CASE q = 0 -> 1 [] q = 1 -> Base [] q = 2 -> Base * Base [] q = 3 -> Base * (Base * Base)

(* The weights of the chunks.                                              *)
LEMMA ChunksIs ==
  ASSUME NEW q \in 0..3
  PROVE  /\ q * Bits \in 0..(3 * Bits) /\ 2 ^ (q * Bits) = Chunks(q) /\ Chunks(q) \in Nat \ {0}
<1>1. q = 0 \/ q = 1 \/ q = 2 \/ q = 3
  OBVIOUS
<1>2. /\ 0 * Bits = 0 /\ 1 * Bits = Bits /\ 2 * Bits = Bits + Bits /\ 3 * Bits = Bits + (Bits + Bits)
      /\ Bits \in 0..(4 * Bits) /\ Bits \in 0..(4 * Bits - Bits) /\ Bits + Bits \in 0..(4 * Bits - Bits)
  BY BitsIs
<1>3. /\ 2 ^ 0 = 1 /\ 2 ^ Bits = Base /\ 2 ^ (Bits + Bits) = Base * Base
      /\ 2 ^ (Bits + (Bits + Bits)) = Base * (Base * Base)
  BY <1>2, TwoPowers
<1>4. q * Bits \in 0..(3 * Bits) /\ q * Bits \in 0..(4 * Bits)
  BY <1>1, BitsIs
<1>5. 2 ^ (q * Bits) = Chunks(q)
  BY <1>1, <1>2, <1>3 DEF Chunks
<1> QED
  BY <1>4, <1>5, TwoPowers

(* What is left above a chunk is a quotient.                               *)
LEMMA TailDiv ==
  ASSUME NEW v \in UInt, NEW q \in 0..3
  PROVE  Value(v) \div Chunks(q) = ChunksFrom(v, q)
<1> DEFINE a == ChunksFrom(v, 0)
           b == ChunksFrom(v, 1)
           c == ChunksFrom(v, 2)
           d == ChunksFrom(v, 3)
<1>1. /\ a \in Nat /\ b \in Nat /\ c \in Nat /\ d \in Nat /\ a = Value(v)
  BY TailIs DEF ChunksFrom
<1>2. a = v[0] + Base * b /\ b = v[1] + Base * c /\ c = v[2] + Base * d
  <2>1. 0 + 1 = 1 /\ 1 + 1 = 2 /\ 2 + 1 = 3
    OBVIOUS
  <2> QED  BY <2>1, TailIs
<1>3. v[0] \in 0..(Base - 1) /\ v[1] \in 0..(Base - 1) /\ v[2] \in 0..(Base - 1) /\ Base \in Nat \ {0}
  BY BitsIs DEF UInt, Chunk
<1>4. a \div Base = b /\ b \div Base = c /\ c \div Base = d
  <2> DEFINE l0 == v[0]
             l1 == v[1]
             l2 == v[2]
  <2>1. /\ l0 \in 0..(Base - 1) /\ l1 \in 0..(Base - 1) /\ l2 \in 0..(Base - 1)
        /\ a = l0 + Base * b /\ b = l1 + Base * c /\ c = l2 + Base * d
    BY <1>2, <1>3
  <2> HIDE DEF a, b, c, d, l0, l1, l2
  <2> QED  BY <1>1, <1>3, <2>1, DropLow
<1>5. q = 0 \/ q = 1 \/ q = 2 \/ q = 3
  OBVIOUS
<1>6. ChunksFrom(v, q) = CASE q = 0 -> a [] q = 1 -> b [] q = 2 -> c [] q = 3 -> d
  BY <1>5
<1> HIDE DEF a, b, c, d
<1>7. a \div 1 = a
  BY <1>1
<1>8. a \div (Base * Base) = c
  <2>1. a \div (Base * Base) = (a \div Base) \div Base
    BY <1>1, <1>3, DivTwice
  <2> QED  BY <1>4, <2>1
<1>9. a \div (Base * (Base * Base)) = d
  <2>1. Base * Base \in Nat \ {0}
    BY <1>3
  <2>2. a \div (Base * (Base * Base)) = (a \div (Base * Base)) \div Base
    BY <1>1, <1>3, <2>1, DivTwice
  <2> QED  BY <1>4, <1>8, <2>2
<1> QED
  BY <1>1, <1>4, <1>5, <1>6, <1>7, <1>8, <1>9 DEF Chunks

(* A bit index, split into its chunk and its place there.                  *)
LEMMA IndexSplit ==
  ASSUME NEW n \in 0..(4 * Bits - 1)
  PROVE  /\ n \div Bits \in 0..3 /\ n % Bits \in 0..(Bits - 1)
         /\ ((n \div Bits) * Bits + (n % Bits)) = n
         /\ 2 ^ n = Chunks(n \div Bits) * 2 ^ (n % Bits)
         /\ 2 ^ n \in Nat \ {0} /\ 2 ^ (n % Bits) \in Nat \ {0}
<1> DEFINE q == n \div Bits
           place == n % Bits
<1>1. q \in Int /\ place \in 0..(Bits - 1) /\ (q * Bits + place) = n
  BY BitsIs
<1>2. q \in 0..3
  BY BitsIs
<1> HIDE DEF q, place
<1>3. 2 ^ (q * Bits) = Chunks(q) /\ q * Bits \in 0..(3 * Bits)
  BY <1>2, ChunksIs
<1>4. q * Bits \in 0..(4 * Bits) /\ place \in 0..(4 * Bits - q * Bits) /\ place \in 0..(4 * Bits) /\ n \in 0..(4 * Bits)
  BY <1>1, <1>3, BitsIs
<1>5. 2 ^ (q * Bits + place) = 2 ^ (q * Bits) * 2 ^ place
  BY <1>4, TwoPowers
<1>6. 2 ^ n \in Nat \ {0} /\ 2 ^ place \in Nat \ {0}
  BY <1>4, TwoPowers
<1>7. 2 ^ n = Chunks(q) * 2 ^ place
  BY <1>1, <1>3, <1>5
<1> QED
  BY <1>1, <1>2, <1>6, <1>7 DEF q, place

(* uint256_bit_is_set tests the bit of the number.                         *)
LEMMA BitIsSet ==
  ASSUME NEW v \in UInt, NEW n \in 0..(4 * Bits - 1)
  PROVE  uint256_bit_is_set(v, n) <=> ((Value(v) \div 2 ^ n) % 2) = 1
<1> DEFINE q == n \div Bits
           place == n % Bits
           P == 2 ^ place
           x == Value(v)
<1>1. q \in 0..3 /\ place \in 0..(Bits - 1) /\ 2 ^ n = Chunks(q) * P /\ P \in Nat \ {0}
  BY IndexSplit
<1>2. uint256_bit_is_set(v, n) <=> ((v[q] \div 2 ^ place) % 2) = 1
  BY DEF uint256_bit_is_set, Shr
<1> HIDE DEF q, place
<1>3. q + 1 \in 0..4 /\ ChunksFrom(v, q) = v[q] + Base * ChunksFrom(v, q + 1) /\ v[q] \in Chunk /\ ChunksFrom(v, q + 1) \in Nat
  BY <1>1, TailIs
<1>4. ((ChunksFrom(v, q) \div 2 ^ place) % 2) = ((v[q] \div 2 ^ place) % 2)
  BY <1>1, <1>3, LowBit
<1>5. x \div (Chunks(q) * P) = ChunksFrom(v, q) \div P
  <2>1. x \in Nat /\ Chunks(q) \in Nat \ {0} /\ Chunks(q) * P = P * Chunks(q)
    <3>1. Chunks(q) \in Nat \ {0}
      BY <1>1, ChunksIs
    <3>2. \A c, d \in Nat : c * d = d * c
      OBVIOUS
    <3> QED  BY <1>1, <3>1, <3>2, ValueBounds
  <2>2. x \div Chunks(q) = ChunksFrom(v, q)
    BY <1>1, TailDiv
  <2> HIDE DEF x, P
  <2>3. x \div (P * Chunks(q)) = (x \div Chunks(q)) \div P
    BY <1>1, <2>1, DivTwice
  <2> QED  BY <2>1, <2>2, <2>3
<1> QED
  BY <1>1, <1>2, <1>4, <1>5

(* A chunk moved up by t bits: what stays in it and what is carried.       *)
LEMMA ChunkShifted ==
  ASSUME NEW x \in Chunk, NEW P \in Nat \ {0}, NEW H \in Nat \ {0}, Base = P * H, x < H * H
  PROVE  LET lo == (x * P) % Base
             hi == x \div H
         IN  /\ lo \in Chunk /\ hi \in Chunk /\ hi \div H = 0
             /\ lo + Base * hi = P * x
<1> DEFINE y == x \div H
           e == x % H
<1>1. x \in Nat
  BY BitsIs DEF Chunk
<1>2. y \in Nat /\ e \in 0..(H - 1) /\ x = y * H + e
  BY <1>1
<1> HIDE DEF y, e
<1>3. y < H
  <2> SUFFICES ASSUME y >= H PROVE FALSE
    BY <1>2
  <2>1. y * H >= H * H
    BY <1>2
  <2>2. y * H \in Nat /\ H * H \in Nat
    BY <1>2
  <2> QED  BY <1>1, <1>2, <2>1, <2>2
<1>4. H <= Base
  <2>1. \A a, b \in Nat \ {0} : b <= a * b
    OBVIOUS
  <2> QED  BY <2>1
<1>5. e * P \in Nat /\ e * P <= Base - 1
  <2>1. e * P <= (H - 1) * P /\ (H - 1) * P = P * H - P
    BY <1>2
  <2>2. e * P \in Nat
    BY <1>2
  <2> QED  BY <2>1, <2>2, BitsIs
<1>6. x * P = e * P + Base * y
  <2>1. (y * H + e) * P = e * P + (P * H) * y
    BY <1>2
  <2> QED  BY <1>2, <2>1
<1> DEFINE z == e * P
<1>7. z \in 0..(Base - 1) /\ x * P = z + Base * y
  BY <1>5, <1>6, BitsIs
<1>8. (x * P) % Base = z
  <2>1. ((z + Base * y) % Base) = z
    <3> HIDE DEF z
    <3> QED  BY <1>2, <1>7, BitsIs, DropLow
  <2> HIDE DEF z
  <2> QED  BY <1>7, <2>1
<1>9. y \div H = 0
  BY <1>2, <1>3
<1>10. x * P = P * x
  BY <1>1
<1> QED
  BY <1>2, <1>3, <1>4, <1>7, <1>8, <1>9, <1>10, BitsIs DEF Chunk, y

(* A value of one chunk, shifted.                                          *)
Moved(q, lo, hi) == [m \in 0..3 |-> IF m = q THEN lo ELSE IF m = q + 1 THEN hi ELSE 0]

(* The loop of uint256_leftshift, when shift is no multiple of Bits.       *)
LEMMA ShiftLoop ==
  ASSUME NEW x \in Chunk, NEW q \in 0..3, NEW place \in 1..(Bits - 1),
         x < 2 ^ (Bits - place) * 2 ^ (Bits - place),
         NEW nv, \A m \in 0..3 : nv[m] = IF m = q THEN x ELSE 0,
         NEW f, f = [m \in 0..3 |->
                       IF m < q THEN 0
                       ELSE IF m = q THEN Shl(nv[m], place)
                       ELSE Plus(Shl(nv[m], place),
                                 Shr(IF m = q + 1 THEN nv[m - 1] ELSE f[m - 1], Bits - place))]
  PROVE  f = Moved(q, Shl(x, place), Shr(x, Bits - place))
<1> DEFINE H == 2 ^ (Bits - place)
           lo == Shl(x, place)
           hi == Shr(x, Bits - place)
           r == [m \in 0..3 |->
                       IF m < q THEN 0
                       ELSE IF m = q THEN Shl(nv[m], place)
                       ELSE Plus(Shl(nv[m], place),
                                 Shr(IF m = q + 1 THEN nv[m - 1] ELSE f[m - 1], Bits - place))]
<1>1. /\ place \in 0..(4 * Bits) /\ Bits - place \in 0..(4 * Bits - place) /\ Bits - place \in 0..(4 * Bits)
      /\ place + (Bits - place) = Bits
  BY BitsIs
<1>2. 2 ^ place \in Nat \ {0} /\ H \in Nat \ {0} /\ Base = 2 ^ place * H
  BY <1>1, TwoPowers
<1>3. lo \in Chunk /\ hi \in Chunk /\ Shr(hi, Bits - place) = 0
  <2> HIDE DEF H
  <2>1. LET l == (x * 2 ^ place) % Base
            h == x \div H
        IN  /\ l \in Chunk /\ h \in Chunk /\ h \div H = 0
            /\ l + Base * h = 2 ^ place * x
    <3>1. x < H * H
      BY DEF H
    <3> DEFINE P == 2 ^ place
    <3>2. P \in Nat \ {0} /\ Base = P * H
      BY <1>2
    <3> HIDE DEF P
    <3>3. LET l == (x * P) % Base
              h == x \div H
          IN  /\ l \in Chunk /\ h \in Chunk /\ h \div H = 0
              /\ l + Base * h = P * x
      BY <1>2, <3>1, <3>2, ChunkShifted
    <3> QED  BY <3>3 DEF P
  <2> QED  BY <2>1 DEF Shl, Shr, H
<1>4. Shl(0, place) = 0 /\ Shr(0, Bits - place) = 0
  <2>1. \A a \in Nat \ {0} : 0 * a = 0 /\ 0 \div a = 0 /\ 0 % a = 0
    OBVIOUS
  <2> QED  BY <1>2, <2>1, BitsIs DEF Shl, Shr
<1>5. \A y \in Chunk : Plus(0, y) = y
  BY BitsIs DEF Plus, Chunk
<1>6. 0 \in Chunk
  BY BitsIs DEF Chunk
<1>7. f = r
  OBVIOUS
<1>8. DOMAIN r = 0..3 /\ r = [m \in 0..3 |-> r[m]]
  OBVIOUS
<1>9. \A m \in 0..3 : r[m] = IF m < q THEN 0
                             ELSE IF m = q THEN Shl(nv[m], place)
                             ELSE Plus(Shl(nv[m], place),
                                       Shr(IF m = q + 1 THEN nv[m - 1] ELSE f[m - 1], Bits - place))
  OBVIOUS
<1> HIDE DEF r, lo, hi, H
<1>10. f[q] = lo /\ \A m \in 0..3 : m < q => f[m] = 0
  <2>1. \A m \in 0..3 : m < q => f[m] = 0
    BY <1>7, <1>9
  <2>2. f[q] = Shl(x, place)
    BY <1>7, <1>9
  <2> QED  BY <2>1, <2>2 DEF lo
<1>11. ASSUME q + 1 \in 0..3 PROVE f[q + 1] = hi
  <2>1. /\ nv[q + 1] = 0 /\ nv[(q + 1) - 1] = x /\ ~(q + 1 < q) /\ q + 1 # q
    BY <1>11
  <2>2. f[q + 1] = Plus(Shl(0, place), Shr(x, Bits - place))
    BY <1>7, <1>9, <1>11, <2>1
  <2>3. f[q + 1] = Plus(0, hi)
    BY <1>4, <2>2 DEF hi
  <2> QED  BY <1>3, <1>5, <2>3
<1>12. ASSUME q + 2 \in 0..3 PROVE f[q + 2] = 0
  <2>1. /\ nv[q + 2] = 0 /\ (q + 2) - 1 = q + 1 /\ ~(q + 2 < q) /\ q + 2 # q /\ q + 2 # q + 1
        /\ q + 1 \in 0..3
    BY <1>12
  <2>2. f[q + 2] = Plus(Shl(0, place), Shr(f[q + 1], Bits - place))
    BY <1>7, <1>9, <1>12, <2>1
  <2>3. f[q + 2] = Plus(0, 0)
    BY <1>3, <1>4, <1>11, <2>1, <2>2
  <2> QED  BY <1>5, <1>6, <2>3
<1>13. ASSUME q + 3 \in 0..3 PROVE f[q + 3] = 0
  <2>1. /\ nv[q + 3] = 0 /\ (q + 3) - 1 = q + 2 /\ ~(q + 3 < q) /\ q + 3 # q /\ q + 3 # q + 1
        /\ q + 2 \in 0..3
    BY <1>13
  <2>2. f[q + 3] = Plus(Shl(0, place), Shr(f[q + 2], Bits - place))
    BY <1>7, <1>9, <1>13, <2>1
  <2>3. f[q + 3] = Plus(0, 0)
    BY <1>4, <1>12, <2>1, <2>2
  <2> QED  BY <1>5, <1>6, <2>3
<1>14. \A m \in 0..3 : f[m] = IF m = q THEN lo ELSE IF m = q + 1 THEN hi ELSE 0
  <2> SUFFICES ASSUME NEW m \in 0..3
               PROVE  f[m] = IF m = q THEN lo ELSE IF m = q + 1 THEN hi ELSE 0
    OBVIOUS
  <2>1. m < q \/ m = q \/ m = q + 1 \/ m = q + 2 \/ m = q + 3
    OBVIOUS
  <2>2. CASE m < q
    BY <1>10, <2>2
  <2>3. CASE m = q
    BY <1>10, <2>3
  <2>4. CASE m = q + 1
    BY <1>11, <2>4
  <2>5. CASE m = q + 2
    BY <1>12, <2>5
  <2>6. CASE m = q + 3
    BY <1>13, <2>6
  <2> QED  BY <2>1, <2>2, <2>3, <2>4, <2>5, <2>6
<1>15. f = [m \in 0..3 |-> f[m]]
  BY <1>7, <1>8
<1> QED
  BY <1>14, <1>15 DEF Moved, lo, hi

(* Two chunks next to each other, moved up; what leaves the top is lost.   *)
LEMMA NumberShiftedUp ==
  ASSUME NEW q \in 0..3, NEW lo \in Chunk, NEW hi \in Chunk
  PROVE  /\ Moved(q, lo, hi) \in UInt
         /\ \E c \in Nat : Chunks(q) * (lo + Base * hi) = Value(Moved(q, lo, hi)) + c * Modulus
<1> DEFINE v == Moved(q, lo, hi)
<1>1. 0 \in Chunk
  BY BitsIs DEF Chunk
<1>2. v \in UInt
  BY <1>1 DEF Moved, UInt
<1> SUFFICES \E c \in Nat : Chunks(q) * (lo + Base * hi) = Value(v) + c * Modulus
  BY <1>2
<1>3. \A m \in 0..3 : v[m] = IF m = q THEN lo ELSE IF m = q + 1 THEN hi ELSE 0
  BY DEF Moved
<1> HIDE DEF v
<1>4. q = 0 \/ q = 1 \/ q = 2 \/ q = 3
  OBVIOUS
<1>5. /\ Base \in Nat /\ lo \in Nat /\ hi \in Nat /\ Base * 0 = 0 /\ lo + Base * hi \in Nat
      /\ Base * (lo + Base * hi) \in Nat /\ 0 + Base * (lo + Base * hi) = Base * (lo + Base * hi)
  <2>1. Base \in Nat /\ lo \in Nat /\ hi \in Nat
    BY BitsIs DEF Chunk
  <2>2. \A a, b \in Nat : a * b \in Nat /\ a + b \in Nat /\ 0 + a = a /\ a * 0 = 0
    OBVIOUS
  <2> QED  BY <2>1, <2>2
<1>6. Value(v) = v[0] + Base * (v[1] + Base * (v[2] + Base * v[3])) /\ Value(v) \in Nat
  BY <1>2, ValueBounds DEF Value
<1> DEFINE B == Base
           W == lo + B * hi
<1>7. CASE q = 0
  <2>1. v[0] = lo /\ v[1] = hi /\ v[2] = 0 /\ v[3] = 0
    BY <1>3, <1>7
  <2>2. Value(v) = lo + Base * (hi + Base * (0 + Base * 0))
    BY <1>6, <2>1
  <2>3. 0 + Base * 0 = 0 /\ hi + 0 = hi
    BY <1>5
  <2>4. Value(v) = W
    BY <1>5, <2>2, <2>3
  <2>5. Chunks(q) * W = Value(v) + 0 * Modulus
    <3>1. 1 * W = W /\ W + 0 * Modulus = W
      BY <1>2, <1>5, ValueBounds
    <3> HIDE DEF W
    <3> QED  BY <1>7, <2>4, <3>1 DEF Chunks
  <2> QED  BY <2>5
<1>8. CASE q = 1
  <2>1. v[0] = 0 /\ v[1] = lo /\ v[2] = hi /\ v[3] = 0
    BY <1>3, <1>8
  <2>2. Value(v) = 0 + Base * (lo + Base * (hi + Base * 0))
    BY <1>6, <2>1
  <2>3. hi + Base * 0 = hi
    BY <1>5
  <2>4. Value(v) = Base * W
    BY <1>5, <2>2, <2>3
  <2>5. Chunks(q) * W = Value(v) + 0 * Modulus
    <3>1. Base * W \in Nat /\ Modulus \in Nat
      BY <1>2, <1>5, ValueBounds
    <3>2. \A a, b \in Nat : a + 0 * b = a
      OBVIOUS
    <3> HIDE DEF W
    <3> QED  BY <1>8, <2>4, <3>1, <3>2 DEF Chunks
  <2> QED  BY <2>5
<1>9. CASE q = 2
  <2>1. v[0] = 0 /\ v[1] = 0 /\ v[2] = lo /\ v[3] = hi
    BY <1>3, <1>9
  <2>2. Value(v) = 0 + Base * (0 + Base * W)
    BY <1>6, <2>1
  <2>3. \A a, b \in Nat : 0 + a * (0 + a * b) = (a * a) * b /\ a * (a * b) = (a * a) * b /\ (a * a) * b \in Nat
    OBVIOUS
  <2>4. Value(v) = (Base * Base) * W /\ (Base * Base) * W \in Nat
    <3> HIDE DEF W
    <3>1. W \in Nat
      BY <1>5 DEF W
    <3> QED  BY <1>5, <2>2, <2>3, <3>1
  <2>5. Chunks(q) * W = Value(v) + 0 * Modulus
    <3>1. Modulus \in Nat
      BY <1>2, ValueBounds
    <3>2. \A a, b \in Nat : a + 0 * b = a
      OBVIOUS
    <3> HIDE DEF W
    <3> QED  BY <1>9, <2>4, <3>1, <3>2 DEF Chunks
  <2> QED  BY <2>5
<1>10. CASE q = 3
  <2>1. v[0] = 0 /\ v[1] = 0 /\ v[2] = 0 /\ v[3] = lo
    BY <1>3, <1>10
  <2>2. Value(v) = 0 + Base * (0 + Base * (0 + Base * lo))
    BY <1>6, <2>1
  <2>3. \A a, x, y \in Nat :
          (a * (a * a)) * (x + a * y)
            = (0 + a * (0 + a * (0 + a * x))) + y * (a * (a * (a * a)))
    <3> SUFFICES ASSUME NEW a \in Nat, NEW x \in Nat, NEW y \in Nat
                 PROVE (a * (a * a)) * (x + a * y)
                         = (0 + a * (0 + a * (0 + a * x))) + y * (a * (a * (a * a)))
      OBVIOUS
    <3> DEFINE d == a * (a * a)
    <3>1. d \in Nat
      OBVIOUS
    <3>2. 0 + a * (0 + a * (0 + a * x)) = d * x
      OBVIOUS
    <3>3. y * (a * (a * (a * a))) = d * (a * y)
      OBVIOUS
    <3>4. d * (x + a * y) = d * x + d * (a * y)
      <4> HIDE DEF d
      <4> QED  BY <3>1
    <3> QED  BY <3>2, <3>3, <3>4
  <2>4. Chunks(q) * W = Value(v) + hi * Modulus
    BY <1>5, <1>10, <2>2, <2>3 DEF Chunks, Modulus
  <2> QED  BY <1>5, <2>4
<1> QED
  BY <1>4, <1>7, <1>8, <1>9, <1>10

(* uint256_leftshift multiplies, as long as no carry reaches a third chunk. *)
LEMMA LeftshiftNarrow ==
  ASSUME NEW v \in UInt, v[1] = 0, v[2] = 0, v[3] = 0, NEW n \in 0..(4 * Bits - 1),
         LET H == 2 ^ (Bits - (n % Bits)) IN v[0] < H * H
  PROVE  /\ uint256_leftshift(v, n) \in UInt
         /\ \E c \in Nat : 2 ^ n * v[0] = Value(uint256_leftshift(v, n)) + c * Modulus
<1> DEFINE q == n \div Bits
           place == n % Bits
           x == v[0]
           nv == shift_n_chunks(v, q)
           s == uint256_leftshift(v, n)
           P == 2 ^ place
<1>1. q \in 0..3 /\ place \in 0..(Bits - 1) /\ 2 ^ n = Chunks(q) * P /\ P \in Nat \ {0}
  BY IndexSplit
<1>2. x \in Chunk /\ x \in Nat
  BY BitsIs DEF UInt, Chunk
<1>3. \A m \in 0..3 : nv[m] = IF m = q THEN x ELSE 0
  <2> HIDE DEF q
  <2> SUFFICES ASSUME NEW m \in 0..3 PROVE nv[m] = IF m = q THEN x ELSE 0
    OBVIOUS
  <2>1. nv[m] = IF m >= q THEN v[m - q] ELSE 0
    BY DEF shift_n_chunks
  <2>2. m - q = 0 \/ m - q = 1 \/ m - q = 2 \/ m - q = 3 \/ m < q
    BY <1>1
  <2>3. m - q = 0 <=> m = q
    BY <1>1
  <2>4. m < q => ~(m >= q)
    BY <1>1
  <2> QED  BY <2>1, <2>2, <2>3, <2>4
<1>4. nv = [m \in 0..3 |-> nv[m]]
  BY DEF shift_n_chunks
<1>5. \E lo, hi \in Chunk : s = Moved(q, lo, hi) /\ lo + Base * hi = P * x
  <2>1. CASE place = 0
    <3>1. s = nv
      BY <2>1 DEF uint256_leftshift
    <3> HIDE DEF s, nv, q
    <3>2. s = Moved(q, x, 0)
      BY <1>1, <1>3, <1>4, <3>1 DEF Moved
    <3>3. x + Base * 0 = P * x
      BY <1>2, <2>1, TwoPowers, BitsIs
    <3>4. 0 \in Chunk
      BY BitsIs DEF Chunk
    <3> QED  BY <1>2, <3>2, <3>3, <3>4
  <2>2. CASE place # 0
    <3> DEFINE Loop(f) == f = [m \in 0..3 |->
                       IF m < q THEN 0
                       ELSE IF m = q THEN Shl(nv[m], place)
                       ELSE Plus(Shl(nv[m], place),
                                 Shr(IF m = q + 1 THEN nv[m - 1] ELSE f[m - 1], Bits - place))]
               lo == Shl(x, place)
               hi == Shr(x, Bits - place)
               H == 2 ^ (Bits - place)
    <3>1. s = CHOOSE f : Loop(f)
      BY <2>2 DEF uint256_leftshift
    <3>2. x < H * H
      OBVIOUS
    <3> HIDE DEF s, nv, q, place, x
    <3>3. place \in 1..(Bits - 1)
      BY <1>1, <2>2, BitsIs
    <3>4. /\ place \in 0..(4 * Bits) /\ Bits - place \in 0..(4 * Bits - place) /\ Bits - place \in 0..(4 * Bits)
          /\ place + (Bits - place) = Bits
      BY <1>1, BitsIs
    <3>5. H \in Nat \ {0} /\ Base = P * H
      BY <3>4, TwoPowers
    <3>6. lo \in Chunk /\ hi \in Chunk /\ hi \div H = 0 /\ lo + Base * hi = P * x
      <4>1. LET l == (x * P) % Base
                h == x \div H
            IN  /\ l \in Chunk /\ h \in Chunk /\ h \div H = 0
                /\ l + Base * h = P * x
        <5> HIDE DEF P, H
        <5> QED  BY <1>1, <1>2, <3>2, <3>5, ChunkShifted
      <4> QED  BY <4>1 DEF Shl, Shr
    <3>7. Loop(Moved(q, lo, hi))
      <4> DEFINE f == Moved(q, lo, hi)
                 F(m) == IF m < q THEN 0
                         ELSE IF m = q THEN Shl(nv[m], place)
                         ELSE Plus(Shl(nv[m], place),
                                   Shr(IF m = q + 1 THEN nv[m - 1] ELSE f[m - 1], Bits - place))
      <4>1. f = [m \in 0..3 |-> f[m]]
            /\ \A m \in 0..3 : f[m] = IF m = q THEN lo ELSE IF m = q + 1 THEN hi ELSE 0
        BY DEF Moved
      <4>2. Shl(0, place) = 0 /\ Shr(0, Bits - place) = 0 /\ Shr(hi, Bits - place) = 0 /\ Plus(0, 0) = 0
        <5>1. \A a \in Nat \ {0} : 0 * a = 0 /\ 0 \div a = 0 /\ 0 % a = 0
          OBVIOUS
        <5>2. Plus(0, 0) = 0
          BY BitsIs DEF Plus
        <5>3. Shl(0, place) = 0
          BY <1>1, <5>1, BitsIs DEF Shl
        <5>4. Shr(0, Bits - place) = 0
          BY <3>5, <5>1 DEF Shr
        <5>5. Shr(hi, Bits - place) = 0
          <6>1. Shr(hi, Bits - place) = hi \div H
            BY DEF Shr
          <6> QED  BY <3>6, <6>1
        <5> QED  BY <5>2, <5>3, <5>4, <5>5
      <4>3. Plus(0, hi) = hi
        <5>1. \A y \in Chunk : Plus(0, y) = y
          BY BitsIs DEF Plus, Chunk
        <5> QED  BY <3>6, <5>1
      <4> HIDE DEF f, lo, hi
      <4>4. ASSUME NEW m \in 0..3 PROVE F(m) = f[m]
        <5>1. CASE m < q
          BY <1>1, <4>1, <5>1
        <5>2. CASE m = q
          BY <1>1, <1>3, <4>1, <5>2 DEF lo
        <5>3. CASE m = q + 1
          <6>1. m - 1 = q /\ ~(m < q) /\ m # q /\ nv[m] = 0 /\ nv[m - 1] = x
            BY <1>1, <1>3, <5>3
          <6>2. F(m) = Plus(0, hi)
            BY <4>2, <5>3, <6>1 DEF hi
          <6> QED  BY <4>1, <4>3, <5>3, <6>1, <6>2
        <5>4. CASE m > q + 1
          <6>1. m - 1 \in 0..3 /\ ~(m < q) /\ m # q /\ nv[m] = 0 /\ m # q + 1 /\ m - 1 # q
            BY <1>1, <1>3, <5>4
          <6>2. f[m - 1] = hi \/ f[m - 1] = 0
            BY <4>1, <6>1
          <6>3. Shr(f[m - 1], Bits - place) = 0
            BY <4>2, <6>2
          <6>4. F(m) = Plus(0, 0)
            BY <4>2, <6>1, <6>3
          <6> QED  BY <4>1, <4>2, <6>1, <6>4
        <5> QED  BY <1>1, <5>1, <5>2, <5>3, <5>4
      <4>5. f = [m \in 0..3 |-> F(m)]
        <5> HIDE DEF F
        <5> QED  BY <4>1, <4>4
      <4> QED  BY <4>5 DEF f
    <3>8. Loop(s)
      <4> HIDE DEF Loop
      <4> QED  BY <3>1, <3>7
    <3>9. s = Moved(q, lo, hi)
      <4> HIDE DEF lo, hi
      <4>1. s = Moved(q, Shl(x, place), Shr(x, Bits - place))
        BY <1>1, <1>2, <1>3, <3>2, <3>3, <3>8, ShiftLoop
      <4> QED  BY <4>1 DEF lo, hi
    <3> QED  BY <3>6, <3>9
  <2> QED  BY <2>1, <2>2
<1> HIDE DEF s, q, place, x
<1>6. PICK lo \in Chunk, hi \in Chunk : s = Moved(q, lo, hi) /\ lo + Base * hi = P * x
  BY <1>5
<1>7. s \in UInt /\ \E c \in Nat : Chunks(q) * (lo + Base * hi) = Value(s) + c * Modulus
  BY <1>1, <1>6, NumberShiftedUp
<1>8. Chunks(q) * (P * x) = 2 ^ n * x
  <2>1. Chunks(q) \in Nat \ {0}
    BY <1>1, ChunksIs
  <2>2. \A a, b, c \in Nat : a * (b * c) = (a * b) * c
    OBVIOUS
  <2> QED  BY <1>1, <1>2, <2>1, <2>2
<1> QED
  BY <1>6, <1>7, <1>8 DEF s, x

(* Whatever is shifted, chunks come out.                                   *)
LEMMA LeftshiftType ==
  ASSUME NEW v \in UInt, NEW n \in 0..(4 * Bits - 1)
  PROVE  uint256_leftshift(v, n) \in UInt
<1> DEFINE q == n \div Bits
           place == n % Bits
           nv == shift_n_chunks(v, q)
           s == uint256_leftshift(v, n)
<1>1. q \in 0..3 /\ place \in 0..(Bits - 1)
  BY IndexSplit
<1>2. 0 \in Chunk /\ \A x \in Nat : x % Base \in Chunk
  BY BitsIs DEF Chunk
<1>3. nv = [m \in 0..3 |-> nv[m]] /\ \A m \in 0..3 : nv[m] \in Chunk
  <2> HIDE DEF q
  <2>1. \A m \in 0..3 : nv[m] = IF m >= q THEN v[m - q] ELSE 0
    BY DEF shift_n_chunks
  <2>2. \A m \in 0..3 : m >= q => m - q \in 0..3
    BY <1>1
  <2>3. nv = [m \in 0..3 |-> nv[m]]
    BY DEF shift_n_chunks
  <2>4. \A m \in 0..3 : v[m] \in Chunk
    BY DEF UInt
  <2> QED  BY <1>2, <2>1, <2>2, <2>3, <2>4
<1>4. CASE place = 0
  <2>1. s = nv
    BY <1>4 DEF uint256_leftshift
  <2> HIDE DEF nv, s
  <2>2. s \in UInt
    BY <1>3, <2>1 DEF UInt
  <2> QED  BY <2>2 DEF s
<1>5. CASE place # 0
  <2> DEFINE F(m, above) ==
               IF m < q THEN 0
               ELSE IF m = q THEN Shl(nv[m], place)
               ELSE Plus(Shl(nv[m], place), Shr(IF m = q + 1 THEN nv[m - 1] ELSE above, Bits - place))
             Loop(f) == f = [m \in 0..3 |->
                       IF m < q THEN 0
                       ELSE IF m = q THEN Shl(nv[m], place)
                       ELSE Plus(Shl(nv[m], place),
                                 Shr(IF m = q + 1 THEN nv[m - 1] ELSE f[m - 1], Bits - place))]
  <2>1. s = CHOOSE f : Loop(f)
    BY <1>5 DEF uint256_leftshift
  <2> HIDE DEF s, nv, q, place
  <2>2. \E f : Loop(f)
    <3> DEFINE F0 == F(0, 0)
               F1 == F(1, F0)
               F2 == F(2, F1)
               F3 == F(3, F2)
               f == [m \in 0..3 |-> CASE m = 0 -> F0 [] m = 1 -> F1 [] m = 2 -> F2 [] m = 3 -> F3]
    <3>1. f[0] = F0 /\ f[1] = F1 /\ f[2] = F2 /\ f[3] = F3 /\ f = [m \in 0..3 |-> f[m]]
      <4> HIDE DEF F0, F1, F2, F3
      <4> QED  OBVIOUS
    <3> HIDE DEF f
    <3>2. \A x, y : F(0, x) = F(0, y)
      <4>1. 0 < q \/ 0 = q
        BY <1>1
      <4> QED  BY <4>1
    <3>3. /\ f[0] = F(0, f[0 - 1]) /\ f[1] = F(1, f[1 - 1])
          /\ f[2] = F(2, f[2 - 1]) /\ f[3] = F(3, f[3 - 1])
      <4>1. 1 - 1 = 0 /\ 2 - 1 = 1 /\ 3 - 1 = 2
        OBVIOUS
      <4> HIDE DEF F
      <4> QED  BY <3>1, <3>2, <4>1
    <3>4. \A m \in 0..3 : m = 0 \/ m = 1 \/ m = 2 \/ m = 3
      OBVIOUS
    <3>5. \A m \in 0..3 : f[m] = F(m, f[m - 1])
      <4> HIDE DEF F
      <4> QED  BY <3>3, <3>4
    <3>6. f = [m \in 0..3 |-> F(m, f[m - 1])]
      <4> HIDE DEF F
      <4> QED  BY <3>1, <3>5
    <3>7. Loop(f)
      BY <3>6
    <3> HIDE DEF Loop
    <3> QED  BY <3>7
  <2>3. Loop(s)
    <3> HIDE DEF Loop
    <3> QED  BY <2>1, <2>2
  <2>4. s = [m \in 0..3 |-> s[m]] /\ \A m \in 0..3 : s[m] = F(m, s[m - 1])
    <3> DEFINE r == [m \in 0..3 |-> F(m, s[m - 1])]
    <3>1. s = r
      BY <2>3
    <3>2. r = [m \in 0..3 |-> r[m]] /\ \A m \in 0..3 : r[m] = F(m, s[m - 1])
      <4> HIDE DEF F
      <4> QED  OBVIOUS
    <3> HIDE DEF r, F
    <3> QED  BY <3>1, <3>2
  <2>5. /\ place \in 0..(4 * Bits) /\ Bits - place \in 0..(4 * Bits)
    BY <1>1, BitsIs
  <2>6. 2 ^ place \in Nat \ {0} /\ 2 ^ (Bits - place) \in Nat \ {0}
    BY <2>5, TwoPowers
  <2>7. \A x \in Chunk : Shl(x, place) \in Chunk /\ Shr(x, Bits - place) \in Nat /\ x \in Nat
    <3> SUFFICES ASSUME NEW x \in Chunk
                 PROVE  Shl(x, place) \in Chunk /\ Shr(x, Bits - place) \in Nat /\ x \in Nat
      OBVIOUS
    <3>1. x \in Nat
      BY BitsIs DEF Chunk
    <3> DEFINE P == 2 ^ place
               H == 2 ^ (Bits - place)
    <3>2. x * P \in Nat /\ x \div H \in Nat
      <4> HIDE DEF P, H
      <4> QED  BY <2>6, <3>1 DEF P, H
    <3> QED  BY <1>2, <3>1, <3>2 DEF Shl, Shr
  <2>8. \A m \in 0..3 : \A above : (m > q + 1 => above \in Chunk) => F(m, above) \in Chunk
    <3> SUFFICES ASSUME NEW m \in 0..3, NEW above, m > q + 1 => above \in Chunk
                 PROVE  F(m, above) \in Chunk
      OBVIOUS
    <3>1. nv[m] \in Chunk
      BY <1>3
    <3>2. CASE m < q
      BY <1>2, <3>2
    <3>3. CASE m = q
      BY <1>1, <2>7, <3>1, <3>3
    <3>4. CASE m > q
      <4> DEFINE y == IF m = q + 1 THEN nv[m - 1] ELSE above
      <4>1. m - 1 \in 0..3 /\ (m # q + 1 => m > q + 1) /\ ~(m < q) /\ m # q
        BY <1>1, <3>4
      <4>2. y \in Chunk
        BY <1>3, <4>1
      <4>3. F(m, above) = Plus(Shl(nv[m], place), Shr(y, Bits - place))
        BY <4>1
      <4> HIDE DEF y
      <4>4. Shl(nv[m], place) \in Nat /\ Shr(y, Bits - place) \in Nat
        BY <2>7, <3>1, <4>2
      <4>5. \A a, b \in Nat : Plus(a, b) \in Chunk
        BY <1>2 DEF Plus
      <4> HIDE DEF F
      <4> QED  BY <4>3, <4>4, <4>5
    <3> HIDE DEF F
    <3> QED  BY <1>1, <3>2, <3>3, <3>4
  <2> HIDE DEF F, Loop
  <2>9. s[0] \in Chunk
    <3>1. ~(0 > q + 1)
      BY <1>1
    <3> QED  BY <2>4, <2>8, <3>1
  <2>10. s[1] \in Chunk
    <3>1. ~(1 > q + 1)
      BY <1>1
    <3> QED  BY <2>4, <2>8, <3>1
  <2>11. s[2] \in Chunk
    <3>1. s[2] = F(2, s[1])
      BY <2>4
    <3> QED  BY <2>8, <2>10, <3>1
  <2>12. s[3] \in Chunk
    <3>1. s[3] = F(3, s[2])
      BY <2>4
    <3> QED  BY <2>8, <2>11, <3>1
  <2>13. \A m \in 0..3 : s[m] \in Chunk
    <3>1. \A m \in 0..3 : m = 0 \/ m = 1 \/ m = 2 \/ m = 3
      OBVIOUS
    <3> QED  BY <2>9, <2>10, <2>11, <2>12, <3>1
  <2> QED  BY <2>4, <2>13 DEF UInt, s
<1> QED
  BY <1>4, <1>5

(* The operands of NarrowProduct, of any two values.                       *)
Narrow(l, r) ==
  \/ r[0] < 4 /\ \A m \in 1..3 : r[m] = 0
  \/ l[0] < 2 ^ (Bits \div 2 + 1) /\ \A m \in 1..3 : l[m] = 0 /\ r[m] = 0

(* Whenever such an operand is shifted, no carry reaches a third chunk.    *)
LEMMA NarrowShift ==
  ASSUME NEW l \in UInt, NEW r \in UInt, Narrow(l, r), NEW n \in 0..(4 * Bits - 1),
         uint256_bit_is_set(l, n)
  PROVE  LET H == 2 ^ (Bits - (n % Bits)) IN r[0] < H * H
<1> DEFINE place == n % Bits
           c == Bits - place
           H == 2 ^ c
<1>1. place \in 0..(Bits - 1) /\ c \in 1..Bits /\ c \in 0..(4 * Bits) /\ 1 \in 0..(4 * Bits) /\ Bits \in 0..(4 * Bits)
  BY IndexSplit, BitsIs
<1>2. H \in Nat \ {0} /\ 2 <= H
  <2>1. 1 <= c /\ \A m \in 0..(4 * Bits) : m <= c => 2 ^ m <= 2 ^ c
    BY <1>1, TwoPowers
  <2> DEFINE one == 1
  <2>2. 2 ^ one <= H /\ 2 ^ one = 2
    <3>1. one \in 0..(4 * Bits) /\ one <= c
      BY <1>1
    <3>2. 2 ^ one = 2
      BY TwoPowers
    <3> HIDE DEF one
    <3> QED  BY <2>1, <3>1, <3>2
  <2> HIDE DEF H
  <2> QED  BY <2>2, <1>1, TwoPowers DEF H
<1>3. r[0] \in Nat /\ r[0] < Base
  BY BitsIs DEF UInt, Chunk
<1>4. CASE r[0] < 4
  <2>1. 4 <= H * H
    <3> HIDE DEF H
    <3>1. 2 * 2 <= 2 * H /\ 2 * H <= H * H
      BY <1>2
    <3> QED  BY <1>2, <3>1
  <2>2. H * H \in Nat
    <3> HIDE DEF H
    <3> QED  BY <1>2
  <2> HIDE DEF H
  <2>3. r[0] < H * H
    BY <1>3, <1>4, <2>1, <2>2
  <2> QED  BY <2>3 DEF H
<1>5. CASE l[0] < 2 ^ (Bits \div 2 + 1) /\ \A m \in 1..3 : l[m] = 0
  <2> DEFINE half == Bits \div 2
  <2>1. half \in Nat /\ 2 * half <= Bits /\ Bits <= 2 * half + 1 /\ half + 1 \in 0..(4 * Bits) /\ half < Bits
    BY BitsIs
  <2>2. Value(l) = l[0] /\ l[0] \in Nat
    <3>1. l[1] = 0 /\ l[2] = 0 /\ l[3] = 0 /\ l[0] \in Nat
      BY <1>5, BitsIs DEF UInt, Chunk
    <3>2. Base * (0 + Base * (0 + Base * 0)) = 0
      BY BitsIs
    <3> QED  BY <3>1, <3>2 DEF Value
  <2>3. n <= half
    <3> SUFFICES ASSUME ~(n <= half) PROVE FALSE
      OBVIOUS
    <3>1. half + 1 <= n /\ n \in 0..(4 * Bits)
      BY <2>1, BitsIs
    <3>2. 2 ^ (half + 1) <= 2 ^ n /\ 2 ^ n \in Nat \ {0} /\ 2 ^ (half + 1) \in Nat
      BY <2>1, <3>1, TwoPowers
    <3>3. Value(l) < 2 ^ n
      <4> DEFINE A == 2 ^ (half + 1)
                 B == 2 ^ n
                 x == l[0]
      <4>1. x < A /\ A <= B /\ A \in Nat /\ B \in Nat /\ x \in Nat
        BY <1>5, <2>2, <3>2
      <4> HIDE DEF A, B, x
      <4>2. x < B
        BY <4>1
      <4> QED  BY <2>2, <4>2 DEF x, B
    <3>4. ((Value(l) \div 2 ^ n) % 2) = 1
      BY BitIsSet
    <3>5. Value(l) \div 2 ^ n = 0
      <4> DEFINE B == 2 ^ n
      <4>1. B \in Nat \ {0} /\ Value(l) < B
        BY <3>2, <3>3
      <4> HIDE DEF B
      <4>2. Value(l) \div B = 0
        BY <2>2, <4>1, TakeBits
      <4> QED  BY <4>2 DEF B
    <3>6. 0 % 2 = 0
      OBVIOUS
    <3> QED  BY <3>4, <3>5, <3>6
  <2>4. place = n
    BY <2>1, <2>3, BitsIs
  <2>5. c <= 2 * Bits /\ Bits <= c + c /\ c + c \in 0..(4 * Bits) /\ c \in 0..(4 * Bits - c)
    BY <1>1, <2>1, <2>3, <2>4, BitsIs
  <2>6. Base <= 2 ^ (c + c) /\ 2 ^ (c + c) = H * H
    BY <1>1, <2>5, TwoPowers
  <2>7. H * H \in Nat
    <3> HIDE DEF H
    <3> QED  BY <1>2
  <2> HIDE DEF H
  <2>8. r[0] < H * H
    BY <1>3, <2>6, <2>7, BitsIs
  <2> QED  BY <2>8 DEF H
<1> QED
  BY <1>4, <1>5 DEF Narrow

-----------------------------------------------------------------------------
(***************************************************************************)
(* MCUInt256: the functions together                                       *)
(***************************************************************************)

(* A number that is congruent and small enough is the remainder.           *)
LEMMA Remainder ==
  ASSUME NEW m \in Nat \ {0}, NEW n \in Nat, NEW small \in 0..(m - 1), NEW c \in Nat,
         n = small + c * m
  PROVE  n % m = small
<1>1. n = small + m * c
  OBVIOUS
<1> QED
  BY <1>1, DropLow

(* One iteration of uint256_mul, of narrow operands.                       *)
LEMMA MulStep ==
  ASSUME NEW l \in UInt, NEW r \in UInt, NEW p \in UInt, NEW n \in 0..(4 * Bits - 1),
         Narrow(l, r),
         Value(p) = ((Value(l) % 2 ^ n) * Value(r)) % Modulus
  PROVE  LET s == IF uint256_bit_is_set(l, n)
                    THEN uint256_add(p, uint256_leftshift(r, n)) ELSE p
         IN  Value(s) = ((Value(l) % 2 ^ (n + 1)) * Value(r)) % Modulus
<1> DEFINE B == 2 ^ n
           L == Value(l)
           R == Value(r)
           M == Modulus
           b == (L \div B) % 2
           low == L % B
           V == Value(p)
<1>1. L \in Nat /\ R \in Nat /\ M \in Nat \ {0} /\ V \in Nat /\ B \in Nat \ {0}
  BY ValueBounds, ModulusIs, IndexSplit
<1>2. 2 ^ (n + 1) = 2 * B
  BY PowersDouble
<1>3. V = (low * R) % M
  OBVIOUS
<1>4. uint256_bit_is_set(l, n) <=> b = 1
  BY BitIsSet
<1> HIDE DEF B, L, R, M, V
<1>5. /\ (L % (2 * B)) = low + b * B
      /\ low \in Nat /\ b \in {0, 1}
  BY <1>1, TakeBits
<1> HIDE DEF b, low
<1>6. CASE ~uint256_bit_is_set(l, n)
  <2>1. b = 0 /\ low + 0 * B = low
    BY <1>1, <1>4, <1>5, <1>6
  <2>2. (L % (2 * B)) = low
    BY <1>5, <2>1
  <2>3. V = ((L % (2 * B)) * R) % M
    BY <1>3, <2>2
  <2> QED  BY <1>2, <1>6, <2>3 DEF L, R, M, V
<1>7. CASE uint256_bit_is_set(l, n)
  <2> DEFINE moved == uint256_leftshift(r, n)
             s == uint256_add(p, moved)
             T == Value(moved)
             W == Value(s)
  <2>1. r[1] = 0 /\ r[2] = 0 /\ r[3] = 0 /\ R = r[0]
    <3>1. r[1] = 0 /\ r[2] = 0 /\ r[3] = 0
      BY DEF Narrow
    <3>2. Base * (0 + Base * (0 + Base * 0)) = 0
      BY BitsIs
    <3>3. r[0] \in Nat
      BY BitsIs DEF UInt, Chunk
    <3> QED  BY <3>1, <3>2, <3>3 DEF Value, R
  <2>2. moved \in UInt /\ \E c \in Nat : B * R = T + c * M
    <3>1. LET H == 2 ^ (Bits - (n % Bits)) IN r[0] < H * H
      BY <1>7, NarrowShift
    <3> QED  BY <2>1, <3>1, LeftshiftNarrow DEF B, M
  <2>3. s \in UInt /\ \E c \in {0, 1} : V + T = W + (IF c = 1 THEN M ELSE 0)
    BY <2>2, AddExact DEF V, M
  <2>4. T \in Nat /\ W \in 0..(M - 1)
    <3>1. W \in Nat /\ W < M /\ M \in Nat
      BY <2>3, ValueBounds DEF M
    <3> HIDE DEF W
    <3> QED  BY <2>2, <3>1, ValueBounds
  <2> HIDE DEF moved, s, T, W
  <2>5. PICK c1 \in Nat : B * R = T + c1 * M
    BY <2>2
  <2>6. PICK c2 \in {0, 1} : V + T = W + (IF c2 = 1 THEN M ELSE 0)
    BY <2>3
  <2>7. V + T = W + c2 * M
    BY <1>1, <2>4, <2>6
  <2> DEFINE c3 == (low * R) \div M
  <2>8. c3 \in Nat /\ low * R = V + c3 * M
    <3> DEFINE x == low * R
    <3>1. x \in Nat
      BY <1>1, <1>5
    <3> HIDE DEF x
    <3>2. x \div M \in Nat /\ x = (x \div M) * M + (x % M)
      BY <1>1, <3>1
    <3>3. (x \div M) * M \in Nat
      BY <1>1, <3>2
    <3>4. x = V + (x \div M) * M
      BY <1>1, <1>3, <3>1, <3>2, <3>3 DEF x
    <3> QED  BY <3>2, <3>4 DEF x
  <2> HIDE DEF c3
  <2>9. (low + b * B) * R = W + (c1 + c2 + c3) * M
    <3>1. b = 1
      BY <1>4, <1>7
    <3>2. (low + 1 * B) * R = low * R + B * R
      BY <1>1, <1>5
    <3>3. c1 * M \in Nat /\ c2 * M \in Nat /\ c3 * M \in Nat
      BY <1>1, <2>5, <2>6, <2>8
    <3>4. (c1 + c2 + c3) * M = c1 * M + c2 * M + c3 * M
      BY <1>1, <2>5, <2>6, <2>8
    <3>5. low * R + B * R = W + (c1 * M + c2 * M + c3 * M)
      BY <1>1, <2>4, <2>5, <2>7, <2>8, <3>3
    <3> QED  BY <3>1, <3>2, <3>4, <3>5
  <2>10. ((low + b * B) * R) % M = W
    <3> DEFINE x == (low + b * B) * R
               c == c1 + c2 + c3
    <3>1. c \in Nat /\ x = W + c * M
      BY <2>5, <2>6, <2>8, <2>9
    <3>2. x \in Nat
      BY <1>1, <1>5
    <3> HIDE DEF x, c
    <3>3. x % M = W
      BY <1>1, <2>4, <3>1, <3>2, Remainder
    <3> QED  BY <3>3 DEF x
  <2>11. W = ((L % (2 * B)) * R) % M
    BY <1>5, <2>10
  <2> QED  BY <1>2, <1>7, <2>11 DEF L, R, M, W, s, moved
<1> QED
  BY <1>6, <1>7

-----------------------------------------------------------------------------
(* The inductive invariant of the run.                                     *)
Held ==
  /\ hex \in Seq(Character) /\ stage \in {"parse", "multiply", "done"}
  /\ left \in UInt /\ right \in UInt /\ product \in UInt /\ i \in 0..(4 * Bits)
  /\ stage = "parse" => i = 0 /\ product = Zero
  /\ stage # "parse" => left = uint256_create_from_hex(hex)
  /\ stage = "done" => text = uint256_format_as_hex(product)
  /\ NarrowProduct

(* Narrow is what NarrowProduct asks for.                                  *)
LEMMA NarrowIs == Narrow(left, right) <=> NarrowRight \/ HalfLeft
  BY DEF Narrow, NarrowRight, HalfLeft

(* The product of no bits is 0.                                            *)
LEMMA ProductStarts ==
  ASSUME NEW l \in UInt, NEW r \in UInt
  PROVE  Value(Zero) = ((Value(l) % 2 ^ 0) * Value(r)) % Modulus
<1>1. Value(l) \in Nat /\ Value(r) \in Nat /\ Modulus \in Nat \ {0} /\ 2 ^ 0 = 1 /\ Value(Zero) = 0
  BY ValueBounds, ModulusIs, TwoPowers, Constants
<1>2. \A x \in Nat : x % 1 = 0 /\ 0 * x = 0
  OBVIOUS
<1>3. \A m \in Nat \ {0} : 0 % m = 0
  OBVIOUS
<1> QED
  BY <1>1, <1>2, <1>3

(* Held at first.                                                          *)
LEMMA HeldInit == MCInit => Held
<1> SUFFICES ASSUME MCInit PROVE Held
  OBVIOUS
<1>1. hex \in Seq(Character)
  <2>1. \A D : \A n \in Nat : [1..n -> D] \subseteq Seq(D)
    OBVIOUS
  <2>2. FullLength \subseteq Seq(Character)
    BY DigitsIs DEF FullLength, Character
  <2>3. Strings \subseteq Seq(Character)
    BY <2>1, LengthAssumption DEF Strings, Character
  <2> QED  BY <2>2, <2>3 DEF MCInit
<1>2. right \in UInt /\ left \in UInt /\ product \in UInt /\ product = Zero /\ i = 0
  <2>1. uint256_create_from_u64(1) \in UInt /\ uint256_create_from_u64(0) \in UInt
    BY Constants DEF One, Zero
  <2> QED  BY <2>1, OperandsAssumption DEF MCInit, Zero
<1>3. i \in 0..(4 * Bits)
  BY <1>2, BitsIs
<1>4. ProductSoFar
  BY <1>2, ProductStarts DEF ProductSoFar
<1> QED
  BY <1>1, <1>2, <1>3, <1>4 DEF MCInit, Held, NarrowProduct

(* Held after reading.                                                     *)
LEMMA HeldParse == Held /\ Parse => Held'
<1> SUFFICES ASSUME Held, Parse PROVE Held'
  OBVIOUS
<1>1. left' \in UInt
  BY CreateType DEF Held, Parse
<1>2. /\ right' \in UInt /\ product' = Zero /\ product' \in UInt /\ i' = 0 /\ i' \in 0..(4 * Bits)
      /\ hex' \in Seq(Character) /\ stage' = "multiply" /\ left' = uint256_create_from_hex(hex')
  BY DEF Held, Parse
<1>3. ProductSoFar'
  BY <1>1, <1>2, ProductStarts DEF ProductSoFar
<1> QED
  BY <1>1, <1>2, <1>3 DEF Held, NarrowProduct

(* Held after each bit.                                                    *)
LEMMA HeldMultiply == Held /\ Multiply => Held'
<1> SUFFICES ASSUME Held, Multiply PROVE Held'
  OBVIOUS
<1>1. i \in 0..(4 * Bits - 1) /\ i' = i + 1 /\ i' \in 0..(4 * Bits)
  BY BitsIs DEF Held, Multiply, uint256_mul
<1>2. /\ left' = left /\ right' = right /\ hex' = hex /\ text' = text /\ stage' = stage
      /\ left \in UInt /\ right \in UInt /\ product \in UInt
      /\ stage = "multiply" /\ hex \in Seq(Character) /\ left = uint256_create_from_hex(hex)
  BY DEF Held, Multiply, uint256_mul
<1>3. product' = IF uint256_bit_is_set(left, i)
                   THEN uint256_add(product, uint256_leftshift(right, i)) ELSE product
  BY DEF Multiply, uint256_mul
<1>4. product' \in UInt
  BY <1>1, <1>2, <1>3, LeftshiftType, AddExact
<1>5. ASSUME (NarrowRight \/ HalfLeft)' PROVE ProductSoFar'
  <2>1. NarrowRight \/ HalfLeft
    BY <1>2, <1>5 DEF NarrowRight, HalfLeft
  <2>2. Value(product) = ((Value(left) % 2 ^ i) * Value(right)) % Modulus /\ Narrow(left, right)
    BY <2>1, NarrowIs DEF Held, NarrowProduct, ProductSoFar
  <2>3. Value(product') = ((Value(left) % 2 ^ (i + 1)) * Value(right)) % Modulus
    BY <1>1, <1>2, <1>3, <2>2, MulStep
  <2> QED  BY <1>1, <1>2, <2>3 DEF ProductSoFar
<1> QED
  BY <1>1, <1>2, <1>4, <1>5 DEF Held, NarrowProduct

(* Held after writing.                                                     *)
LEMMA HeldFormat == Held /\ Format => Held'
<1> SUFFICES ASSUME Held, Format PROVE Held'
  OBVIOUS
<1>1. /\ left' = left /\ right' = right /\ product' = product /\ i' = i /\ hex' = hex
      /\ stage = "multiply" /\ stage' = "done" /\ text' = uint256_format_as_hex(product)
  BY DEF Format, mulVars
<1> QED
  BY <1>1 DEF Held, NarrowProduct, NarrowRight, HalfLeft, ProductSoFar

(* Held is an invariant of the conversions and the multiplication together: *)
(* what has been read, and each partial product, is the integer it stands  *)
(* for, as far as uint256_leftshift goes, and what was written reads back. *)
THEOREM AlwaysHeld == MCSpec => []Held
<1>1. Held /\ UNCHANGED allVars => Held'
  BY DEF Held, allVars, mulVars, NarrowProduct, NarrowRight, HalfLeft, ProductSoFar
<1>2. Held /\ [Parse \/ Multiply \/ Format]_allVars => Held'
  BY <1>1, HeldParse, HeldMultiply, HeldFormat
<1> QED
  BY HeldInit, <1>2, PTL DEF MCSpec

(* uint256_mul computes the product of the bits read so far, as long as    *)
(* uint256_leftshift has no carry to lose, for every size of a chunk.      *)
THEOREM MultipliesNarrow == MCSpec => []NarrowProduct
<1>1. Held => NarrowProduct
  BY DEF Held
<1> QED
  BY <1>1, AlwaysHeld, PTL

(* uint256_create_from_hex reads the number its digits stand for, and      *)
(* reads back what uint256_format_as_hex has written.                      *)
THEOREM HexReadsBack == MCSpec => []RoundTrip
<1>1. Held => RoundTrip
  <2> SUFFICES ASSUME Held PROVE RoundTrip
    OBVIOUS
  <2>1. ASSUME stage = "multiply", Other \notin {hex[m] : m \in DOMAIN hex}
        PROVE  Value(left) = NumberOf(hex) % Modulus
    <3>1. hex \in Seq(Digit)
      <4>1. hex \in Seq(Character) /\ Len(hex) \in Nat /\ hex = [n \in 1..Len(hex) |-> hex[n]]
        BY DEF Held
      <4>2. \A n \in 1..Len(hex) : hex[n] \in Digit
        BY <2>1, <4>1 DEF Character
      <4>3. hex \in [1..Len(hex) -> Digit]
        BY <4>1, <4>2
      <4> QED  BY <4>1, <4>3
    <3>2. left = uint256_create_from_hex(hex)
      BY <2>1 DEF Held
    <3> QED  BY <3>1, <3>2, CreateReads, PaddedNumber
  <2>2. ASSUME stage = "done"
        PROVE  /\ text # <<>> /\ (text[1] = 0 => Len(text) = 1)
               /\ uint256_create_from_hex(text) = product
    BY <2>2, FormatReadsBack DEF Held
  <2> QED  BY <2>1, <2>2 DEF RoundTrip
<1> QED
  BY <1>1, AlwaysHeld, PTL

(* uint256_add adds: no carry between the chunks is lost or made up, for   *)
(* every width of a chunk and all operands.                                *)
THEOREM AddsExactly == MCSpec => []AddIsExact
<1>1. Held => AddIsExact
  <2> SUFFICES ASSUME left \in UInt, right \in UInt PROVE AddIsExact
    BY DEF Held
  <2> DEFINE s == uint256_add(left, right)
  <2>1. PICK c \in {0, 1} : Value(left) + Value(right) = Value(s) + (IF c = 1 THEN Modulus ELSE 0)
    BY AddExact
  <2>2. Value(left) \in Nat /\ Value(right) \in Nat /\ Value(s) \in Nat /\ Modulus \in Nat
    BY AddExact, ValueBounds
  <2> HIDE DEF s
  <2>3. Value(s) \in {Value(left) + Value(right), Value(left) + Value(right) - Modulus}
    BY <2>1, <2>2
  <2> QED
    BY <2>3 DEF AddIsExact, s
<1> QED
  BY <1>1, AlwaysHeld, PTL

(* uint256_sub subtracts, by way of the inverted bits and the added one of *)
(* negate.                                                                 *)
THEOREM SubtractsExactly == MCSpec => []SubIsExact
<1>1. Held => SubIsExact
  BY SubExact DEF SubIsExact, Held
<1> QED
  BY <1>1, AlwaysHeld, PTL
=============================================================================
