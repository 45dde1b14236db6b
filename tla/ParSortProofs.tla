---------------------------- MODULE ParSortProofs ----------------------------
(***************************************************************************)
(* Proofs about ParSort, for every file whose number of elements fits in   *)
(* an int, every threshold and every fault.  First types, and that merge   *)
(* stays inside temparr.  Then that processes never race, and that an exit *)
(* with 0 hides nothing, by the tree of forks: two processes are either    *)
(* one below the other, and then the upper one does not touch the array    *)
(* while the lower one is alive, or in different branches, and then their  *)
(* ranges are apart.  Then what is left in the file: a process that        *)
(* returns has sorted its range, and unless a signal ends a process no     *)
(* element is ever lost.  Then that the processes implement SortContract,  *)
(* and last that the threshold bounds their number.                        *)
(***************************************************************************)
EXTENDS ParSort, TLAPS, SequenceTheorems, FiniteSetTheorems

-----------------------------------------------------------------------------
(* Part 1: types, and merge stays inside temparr.                          *)

-----------------------------------------------------------------------------
(* Paths.                                                                  *)

(* A path is a sequence of at most MaxDepth sides. *)
LEMMA PathIsSeq ==
  \A p : p \in Path <=> p \in Seq(Side) /\ Len(p) <= MaxDepth
<1> SUFFICES ASSUME NEW p PROVE p \in Path <=> p \in Seq(Side) /\ Len(p) <= MaxDepth
  OBVIOUS
<1>1. ASSUME p \in Path PROVE p \in Seq(Side) /\ Len(p) <= MaxDepth
  <2>1. PICK d \in 0..MaxDepth : p \in [1..d -> Side]
    BY <1>1 DEF Path
  <2>2. QED BY <2>1, ConstAssumption
<1>2. ASSUME p \in Seq(Side), Len(p) <= MaxDepth PROVE p \in Path
  <2>1. Len(p) \in 0..MaxDepth /\ p \in [1..Len(p) -> Side]
    BY <1>2, ConstAssumption
  <2>2. QED BY <2>1 DEF Path
<1>3. QED BY <1>1, <1>2

(* The child of a process above the depth limit is another process. *)
LEMMA ChildIsPath ==
  ASSUME NEW p \in Path, Len(p) < MaxDepth, NEW s \in Side
  PROVE  Child(p, s) \in Path /\ Len(Child(p, s)) = Len(p) + 1 /\ Child(p, s) # p
<1>1. p \in Seq(Side) /\ Len(p) \in Nat
  BY PathIsSeq
<1>2. Append(p, s) \in Seq(Side) /\ Len(Append(p, s)) = Len(p) + 1
  BY <1>1
<1>3. Len(Append(p, s)) <= MaxDepth
  BY <1>1, <1>2, ConstAssumption
<1>4. Append(p, s) \in Path
  BY <1>2, <1>3, PathIsSeq
<1>5. QED BY <1>1, <1>2, <1>4 DEF Child

LEMMA RootIsPath == Root \in Path /\ Len(Root) = 0
<1>1. Root \in Seq(Side) /\ Len(Root) = 0
  BY DEF Root
<1>2. Len(Root) <= MaxDepth
  BY <1>1, ConstAssumption
<1>3. Root \in Path
  BY <1>1, <1>2, PathIsSeq
<1>4. QED BY <1>1, <1>3

-----------------------------------------------------------------------------
(* Arithmetic.                                                             *)

(* A count whose double is below IntMod is not changed by the conversion   *)
(* to int.                                                                 *)
LEMMA CIntExact ==
  ASSUME NEW n \in Nat, 2 * n < IntMod
  PROVE  CInt(n) = n
<1>1. n % IntMod = n
  BY ConstAssumption
<1>2. QED BY <1>1 DEF CInt

(* Halving a count rounds down. *)
LEMMA HalfBetween ==
  ASSUME NEW n \in Nat
  PROVE  Half(n) \in 0..n
BY DEF Half

-----------------------------------------------------------------------------
(* The inductive invariant.                                                *)

(* The labels before the first fork. *)
Early == {"unused", "main", "begin", "qsort", "fork_l"}
HasForked(label, s) == label \notin Early /\ ~(label = "fork_r" /\ s = "r")

ArgsInv == \A p \in Path : lo[p] <= hi[p]

(* A child exists only after the fork of its side. *)
FreshInv ==
  \A p \in Path, s \in Side :
    Len(p) < MaxDepth /\ pc[Child(p, s)] # "unused" => HasForked(pc[p], s)

(* How far the merge of p is in either half, and in temparr. *)
CursorInv ==
  \A p \in Path :
    /\ pc[p] = "merge" => /\ taken[p] <= Mid(p) - lo[p]
                          /\ Len(temparr[p]) - taken[p] \in 0 .. hi[p] - Mid(p)
    /\ pc[p] = "copy" => Len(temparr[p]) = hi[p] - lo[p]
    /\ pc[p] \notin {"merge", "copy"} => temparr[p] = << >> /\ taken[p] = 0

TypeInv == TypeOK /\ ArgsInv /\ FreshInv /\ CursorInv

(* Every range lies in the file, and mid lies in the range. *)
LEMMA RangeFacts ==
  ASSUME FitsInt, TypeOK, ArgsInv, NEW p \in Path
  PROVE  /\ lo[p] \in Nat /\ hi[p] \in Nat /\ lo[p] <= hi[p] /\ hi[p] <= N
         /\ NumElements(p) = hi[p] - lo[p]
         /\ Mid(p) \in lo[p] .. hi[p]
         /\ Span(p) = lo[p] .. hi[p] - 1
         /\ Span(p) \subseteq Index
<1>1. lo[p] \in 0..N /\ hi[p] \in 0..N /\ lo[p] <= hi[p]
  BY DEF TypeOK, ArgsInv
<1>2. hi[p] - lo[p] \in Nat /\ 2 * (hi[p] - lo[p]) < IntMod
  BY <1>1, ConstAssumption DEF FitsInt
<1>3. NumElements(p) = hi[p] - lo[p]
  BY <1>2, CIntExact DEF NumElements
<1>4. Half(NumElements(p)) \in 0 .. hi[p] - lo[p]
  BY <1>2, <1>3, HalfBetween
<1>5. Mid(p) \in lo[p] .. hi[p]
  BY <1>1, <1>4 DEF Mid
<1>6. Span(p) = lo[p] .. hi[p] - 1
  BY <1>1, <1>3 DEF Span
<1>7. Span(p) \subseteq Index
  BY <1>1, <1>6, ConstAssumption DEF Index
<1>8. QED BY <1>1, <1>3, <1>5, <1>6, <1>7, ConstAssumption

(* Two children are the same only if parents and sides are. *)
LEMMA ChildInjective ==
  ASSUME NEW p \in Path, NEW q \in Path, NEW s \in Side, NEW t \in Side,
         Child(p, s) = Child(q, t)
  PROVE  p = q /\ s = t
<1>1. p \in Seq(Side) /\ q \in Seq(Side)
  BY PathIsSeq
<1>2. QED BY <1>1, AppendProperties DEF Child

LEMMA TypeInit == Init => TypeInv
<1> SUFFICES ASSUME Init PROVE TypeInv
  OBVIOUS
<1> USE ConstAssumption, RootIsPath
<1>1. TypeOK
  <2>1. arr \in [Index -> Index]
    BY DEF Init
  <2>2. temparr \in [Path -> Seq(Index)]
    BY DEF Init
  <2>3. pc \in [Path -> PC]
    BY DEF Init, PC
  <2>4. QED BY <2>1, <2>2, <2>3 DEF Init, TypeOK, Running
<1>2. ArgsInv
  BY DEF Init, ArgsInv
<1>3. FreshInv
  <2>1. ASSUME NEW p \in Path, NEW s \in Side, Len(p) < MaxDepth
        PROVE  pc[Child(p, s)] = "unused"
    <3>1. Child(p, s) \in Path /\ Len(Child(p, s)) # Len(Root)
      BY <2>1, ChildIsPath, PathIsSeq
    <3>2. QED BY <3>1 DEF Init
  <2>2. QED BY <2>1 DEF FreshInv
<1>4. CursorInv
  <2>1. \A p \in Path : pc[p] \notin {"merge", "copy"} /\ temparr[p] = << >> /\ taken[p] = 0
    BY DEF Init
  <2>2. QED BY <2>1 DEF CursorInv
<1>5. QED BY <1>1, <1>2, <1>3, <1>4 DEF TypeInv

(* A step of p that forks nothing leaves FreshInv: p never goes back to a  *)
(* label before a fork it has done.                                        *)
LEMMA FreshLocal ==
  ASSUME TypeOK, FreshInv, NEW p \in Path, NEW label \in PC,
         pc' = [pc EXCEPT ![p] = label], pc[p] # "unused",
         \A s \in Side : HasForked(pc[p], s) => HasForked(label, s)
  PROVE  FreshInv'
<1> SUFFICES ASSUME NEW q \in Path, NEW s \in Side,
                    Len(q) < MaxDepth, pc'[Child(q, s)] # "unused"
             PROVE  HasForked(pc'[q], s)
  BY DEF FreshInv
<1>1. Child(q, s) \in Path
  BY ChildIsPath
<1>2. pc[Child(q, s)] # "unused"
  BY <1>1 DEF TypeOK
<1>3. HasForked(pc[q], s)
  BY <1>2 DEF FreshInv
<1>4. QED BY <1>3 DEF TypeOK

(* A step of p that leaves its merge alone, and does not start or continue *)
(* one, leaves CursorInv.                                                  *)
LEMMA CursorLocal ==
  ASSUME TypeOK, CursorInv, NEW p \in Path, NEW label \in PC,
         pc' = [pc EXCEPT ![p] = label],
         pc[p] \notin {"merge", "copy"}, label \notin {"merge", "copy"},
         UNCHANGED <<lo, hi, temparr, taken>>
  PROVE  CursorInv'
<1> SUFFICES ASSUME NEW q \in Path
             PROVE  /\ pc'[q] = "merge" => /\ taken'[q] <= Mid(q)' - lo'[q]
                                           /\ Len(temparr'[q]) - taken'[q] \in 0 .. hi'[q] - Mid(q)'
                    /\ pc'[q] = "copy" => Len(temparr'[q]) = hi'[q] - lo'[q]
                    /\ pc'[q] \notin {"merge", "copy"} => temparr'[q] = << >> /\ taken'[q] = 0
  BY DEF CursorInv
<1>1. Mid(q)' = Mid(q)
  BY DEF Mid, NumElements
<1>2. CASE q = p
  <2>1. pc'[q] = label
    BY <1>2 DEF TypeOK
  <2>2. temparr[q] = << >> /\ taken[q] = 0
    BY <1>2 DEF CursorInv
  <2>3. QED BY <2>1, <2>2
<1>3. CASE q # p
  <2>1. pc'[q] = pc[q]
    BY <1>3 DEF TypeOK
  <2>2. QED BY <1>1, <2>1 DEF CursorInv
<1>4. QED BY <1>2, <1>3

(* The codes a process may end with are of the type of status. *)
StatusType == [Path -> ExitCode \union {Running, Killed}]

(* A step of p that only moves it, and leaves all data alone. *)
LEMMA MoveKeepsType ==
  ASSUME TypeInv, NEW p \in Path, NEW label \in PC,
         pc' = [pc EXCEPT ![p] = label],
         pc[p] \notin {"unused", "merge", "copy"}, label \notin {"merge", "copy"},
         \A s \in Side : HasForked(pc[p], s) => HasForked(label, s),
         UnchangedData, UnchangedArgs,
         status' \in StatusType, waitFailed' \in [Path -> BOOLEAN]
  PROVE  TypeInv'
<1> USE DEF TypeInv, UnchangedData, UnchangedArgs
<1>1. TypeOK'
  BY DEF TypeOK, StatusType
<1>2. ArgsInv'
  BY DEF ArgsInv
<1>3. FreshInv'
  BY FreshLocal
<1>4. CursorInv'
  BY CursorLocal
<1>5. QED BY <1>1, <1>2, <1>3, <1>4

(* The exit of a process, whatever its code. *)
LEMMA ExitKeepsType ==
  ASSUME TypeInv, NEW p \in Path, NEW c \in ExitCode, Exit(p, c),
         pc[p] \notin {"unused", "merge", "copy"},
         UnchangedData, UnchangedArgs, UNCHANGED waitFailed
  PROVE  TypeInv'
<1>1. pc' = [pc EXCEPT ![p] = "dead"] /\ "dead" \in PC
  BY DEF Exit, Goto, PC
<1>2. status' \in StatusType /\ waitFailed' \in [Path -> BOOLEAN]
  BY DEF Exit, TypeInv, TypeOK, StatusType
<1>3. \A s \in Side : HasForked("dead", s)
  BY DEF HasForked, Early
<1>4. QED BY <1>1, <1>2, <1>3, MoveKeepsType

(* The fork of side s, when the range [b, e) given to the child is valid. *)
LEMMA ForkKeepsType ==
  ASSUME TypeInv, NEW p \in Path, NEW s \in Side, NEW label \in PC,
         NEW b \in 0..N, NEW e \in 0..N, b <= e,
         ForkChild(p, s, label, b, e),
         \/ pc[p] = "fork_l" /\ s = "l" /\ label = "fork_r"
         \/ pc[p] = "fork_r" /\ s = "r" /\ label = "wait_l",
         UnchangedData, UNCHANGED waitFailed
  PROVE  TypeInv'
<1> DEFINE c == Child(p, s)
<1> USE DEF TypeInv
<1>1. c \in Path /\ c # p
  BY ChildIsPath DEF ForkChild
<1>2. pc[c] = "unused"
  BY DEF FreshInv, HasForked, Early, ForkChild
<1>3. /\ pc' \in [Path -> PC] /\ pc'[p] = label /\ pc'[c] = "begin"
      /\ \A q \in Path : q # p /\ q # c => pc'[q] = pc[q]
  BY <1>1 DEF ForkChild, TypeOK, PC
<1>4. /\ lo' \in [Path -> 0..N] /\ lo'[c] = b
      /\ hi' \in [Path -> 0..N] /\ hi'[c] = e
      /\ \A q \in Path : q # c => lo'[q] = lo[q] /\ hi'[q] = hi[q]
  BY <1>1 DEF ForkChild, TypeOK
<1>5. TypeOK'
  BY <1>3, <1>4 DEF TypeOK, UnchangedData, ForkChild
<1>6. ArgsInv'
  BY <1>4 DEF ArgsInv
<1>7. FreshInv'
  <2> SUFFICES ASSUME NEW q \in Path, NEW t \in Side,
                      Len(q) < MaxDepth, pc'[Child(q, t)] # "unused"
               PROVE  HasForked(pc'[q], t)
    BY DEF FreshInv
  <2>1. Child(q, t) \in Path
    BY ChildIsPath
  <2>2. CASE Child(q, t) = c
    <3>1. q = p /\ t = s
      BY <2>2, ChildInjective
    <3>2. QED BY <3>1, <1>3 DEF HasForked, Early
  <2>3. CASE Child(q, t) # c
    <3>1. pc[Child(q, t)] # "unused"
      BY <2>1, <2>3, <1>3
    <3>2. HasForked(pc[q], t)
      BY <3>1 DEF FreshInv
    <3>3. q # c
      BY <3>2, <1>2 DEF HasForked, Early
    <3>4. CASE q = p
      BY <3>2, <3>4, <1>3 DEF HasForked, Early
    <3>5. CASE q # p
      BY <3>2, <3>3, <3>5, <1>3
    <3>6. QED BY <3>4, <3>5
  <2>4. QED BY <2>2, <2>3
<1>8. CursorInv'
  <2> SUFFICES ASSUME NEW q \in Path
               PROVE  /\ pc'[q] = "merge" => /\ taken'[q] <= Mid(q)' - lo'[q]
                                             /\ Len(temparr'[q]) - taken'[q] \in 0 .. hi'[q] - Mid(q)'
                      /\ pc'[q] = "copy" => Len(temparr'[q]) = hi'[q] - lo'[q]
                      /\ pc'[q] \notin {"merge", "copy"} => temparr'[q] = << >> /\ taken'[q] = 0
    BY DEF CursorInv
  <2>1. temparr' = temparr /\ taken' = taken
    BY DEF UnchangedData
  <2>2. CASE q = p \/ q = c
    <3>1. pc[q] \notin {"merge", "copy"} /\ pc'[q] \notin {"merge", "copy"}
      BY <2>2, <1>2, <1>3
    <3>2. QED BY <2>1, <3>1 DEF CursorInv
  <2>3. CASE q # p /\ q # c
    <3>1. pc'[q] = pc[q] /\ lo'[q] = lo[q] /\ hi'[q] = hi[q]
      BY <2>3, <1>3, <1>4
    <3>2. Mid(q)' = Mid(q)
      BY <3>1 DEF Mid, NumElements
    <3>3. QED BY <2>1, <3>1, <3>2 DEF CursorInv
  <2>4. QED BY <2>2, <2>3
<1>9. QED BY <1>5, <1>6, <1>7, <1>8

(* Overwriting the range of p with elements of the file. *)
LEMMA OverwriteType ==
  ASSUME FitsInt, TypeInv, NEW p \in Path, NEW f,
         \A i \in Span(p) : f[i] \in Index
  PROVE  Overwrite(p, f) \in [Index -> Index]
BY DEF TypeInv, TypeOK, Overwrite

LEMMA ElementsAreIndices ==
  ASSUME FitsInt, TypeInv, NEW p \in Path
  PROVE  Elements(p) \subseteq Index
BY RangeFacts DEF TypeInv, TypeOK, Elements

(* At the memcpy, temparr holds one element for each index of the range. *)
LEMMA MergedType ==
  ASSUME FitsInt, TypeInv, NEW p \in Path, pc[p] = "copy"
  PROVE  \A i \in Span(p) : Merged(p)[i] \in Index
<1> SUFFICES ASSUME NEW i \in Span(p) PROVE Merged(p)[i] \in Index
  OBVIOUS
<1> USE DEF TypeInv
<1>1. /\ lo[p] \in Nat /\ hi[p] \in Nat /\ i \in lo[p] .. hi[p] - 1
      /\ Len(temparr[p]) = hi[p] - lo[p]
  BY RangeFacts DEF CursorInv
<1>2. temparr[p] \in Seq(Index) /\ i - lo[p] + 1 \in 1 .. Len(temparr[p])
  BY <1>1 DEF TypeOK
<1>3. temparr[p][i - lo[p] + 1] \in Index
  BY <1>2
<1>4. QED BY <1>3 DEF Merged

LEMMA QsortType ==
  ASSUME FitsInt, TypeInv, NEW p \in Path, Qsort(p)
  PROVE  TypeInv'
<1> USE DEF TypeInv
<1>1. PICK f \in [Span(p) -> Elements(p)] : arr' = Overwrite(p, f)
  BY DEF Qsort
<1>2. arr' \in [Index -> Index]
  BY <1>1, ElementsAreIndices, OverwriteType
<1>3. pc' = [pc EXCEPT ![p] = "return"] /\ "return" \in PC
  BY DEF Qsort, Goto, PC
<1>4. TypeOK'
  BY <1>2, <1>3 DEF TypeOK, Qsort, UnchangedArgs
<1>5. ArgsInv'
  BY DEF ArgsInv, Qsort, UnchangedArgs
<1>6. FreshInv'
  BY <1>3, FreshLocal DEF Qsort, HasForked, Early
<1>7. CursorInv'
  BY <1>3, CursorLocal DEF Qsort, UnchangedArgs
<1>8. QED BY <1>4, <1>5, <1>6, <1>7

(* The end of a merge or of its memcpy: the copy of temparr is dropped. *)
LEMMA DropKeepsType ==
  ASSUME TypeInv, NEW p \in Path, NEW label \in {"return", "dead"},
         pc[p] # "unused",
         pc' = [pc EXCEPT ![p] = label], arr' \in [Index -> Index],
         temparr' = [temparr EXCEPT ![p] = << >>],
         taken' = [taken EXCEPT ![p] = 0],
         status' \in StatusType,
         UNCHANGED <<key, waitFailed>>, UnchangedArgs
  PROVE  TypeInv'
<1> USE DEF TypeInv, UnchangedArgs
<1>1. label \in PC /\ label \notin {"merge", "copy"}
  BY DEF PC
<1>2. TypeOK'
  <2>1. temparr' \in [Path -> Seq(Index)] /\ taken' \in [Path -> Nat]
    BY DEF TypeOK
  <2>2. QED BY <1>1, <2>1 DEF TypeOK, StatusType
<1>3. ArgsInv'
  BY DEF ArgsInv
<1>4. FreshInv'
  BY <1>1, FreshLocal DEF HasForked, Early
<1>5. CursorInv'
  <2> SUFFICES ASSUME NEW q \in Path
               PROVE  /\ pc'[q] = "merge" => /\ taken'[q] <= Mid(q)' - lo'[q]
                                             /\ Len(temparr'[q]) - taken'[q] \in 0 .. hi'[q] - Mid(q)'
                      /\ pc'[q] = "copy" => Len(temparr'[q]) = hi'[q] - lo'[q]
                      /\ pc'[q] \notin {"merge", "copy"} => temparr'[q] = << >> /\ taken'[q] = 0
    BY DEF CursorInv
  <2>1. Mid(q)' = Mid(q)
    BY DEF Mid, NumElements
  <2>2. CASE q = p
    BY <1>1, <2>2 DEF TypeOK
  <2>3. CASE q # p
    BY <2>1, <2>3 DEF TypeOK, CursorInv
  <2>4. QED BY <2>2, <2>3
<1>6. QED BY <1>2, <1>3, <1>4, <1>5

LEMMA CopyType ==
  ASSUME FitsInt, TypeInv, NEW p \in Path, Copy(p)
  PROVE  TypeInv'
<1>1. arr' \in [Index -> Index]
  BY MergedType, OverwriteType DEF Copy
<1>2. status' \in StatusType
  BY DEF Copy, TypeInv, TypeOK, StatusType
<1>3. QED BY <1>1, <1>2, DropKeepsType DEF Copy, Goto

LEMMA KillType ==
  ASSUME FitsInt, TypeInv, NEW p \in Path, Kill(p)
  PROVE  TypeInv'
<1>1. arr' \in [Index -> Index]
  <2>1. CASE pc[p] = "qsort"
    <3>1. PICK f \in [Span(p) -> Elements(p)] : arr' = Overwrite(p, f)
      BY <2>1 DEF Kill
    <3>2. QED BY <3>1, ElementsAreIndices, OverwriteType
  <2>2. CASE pc[p] = "copy"
    <3>1. PICK S \in SUBSET Span(p) :
            arr' = [i \in Index |-> IF i \in S THEN Merged(p)[i] ELSE arr[i]]
      BY <2>2 DEF Kill
    <3>2. QED BY <2>2, <3>1, MergedType DEF TypeInv, TypeOK
  <2>3. CASE pc[p] \notin {"qsort", "copy"}
    BY <2>3 DEF Kill, TypeInv, TypeOK
  <2>4. QED BY <2>1, <2>2, <2>3
<1>2. status' \in StatusType /\ pc' = [pc EXCEPT ![p] = "dead"]
  BY DEF Kill, Exit, Goto, TypeInv, TypeOK, StatusType
<1>3. QED BY <1>1, <1>2, DropKeepsType DEF Kill

(* One element more in temparr, from the left or from the right half. *)
LEMMA TakeType ==
  ASSUME FitsInt, TypeInv, NEW p \in Path, pc[p] = "merge",
         TakeLeft(p) \/ TakeRight(p),
         UNCHANGED <<key, arr, pc, lo, hi, waitFailed, status>>
  PROVE  TypeInv'
<1> USE DEF TypeInv
<1> DEFINE n == Len(temparr[p])
<1>1. /\ lo[p] \in Nat /\ hi[p] \in Nat /\ hi[p] <= N
      /\ Mid(p) \in lo[p] .. hi[p] /\ Mid(p) \in Nat
  BY RangeFacts
<1>2. /\ n \in Nat /\ taken[p] \in Nat
      /\ taken[p] <= Mid(p) - lo[p] /\ n - taken[p] \in 0 .. hi[p] - Mid(p)
  BY DEF TypeOK, CursorInv
<1>2a. temparr[p] \in Seq(Index)
  BY DEF TypeOK
<1>3. TakeLeft(p) => Left(p) \in Index /\ taken[p] + 1 <= Mid(p) - lo[p]
  <2>1. HAVE TakeLeft(p)
  <2>2. Left(p) = lo[p] + taken[p] /\ ~(Left(p) >= Mid(p))
    BY <2>1 DEF TakeLeft, AtEndL, Left
  <2>3. QED BY SMTT(30), <1>1, <1>2, <2>2, ConstAssumption DEF Index
<1>4. TakeRight(p) => Right(p) \in Index /\ n + 1 - taken[p] <= hi[p] - Mid(p)
  <2>1. HAVE TakeRight(p)
  <2>2. Right(p) = Mid(p) + n - taken[p] /\ ~(Right(p) >= hi[p])
    BY <2>1 DEF TakeRight, AtEndR, Right
  <2>3. n + 1 - taken[p] <= hi[p] - Mid(p) /\ Right(p) \in Mid(p) .. hi[p] - 1
    <3> HIDE DEF n
    <3> QED BY <1>1, <1>2, <2>2
  <2>4. QED BY <1>1, <2>3, ConstAssumption DEF Index
<1>5. /\ temparr' \in [Path -> Seq(Index)] /\ Len(temparr'[p]) = n + 1
      /\ taken' \in [Path -> Nat]
      /\ \/ /\ taken'[p] = taken[p] + 1
            /\ taken[p] + 1 <= Mid(p) - lo[p]
         \/ /\ taken'[p] = taken[p]
            /\ n + 1 - taken[p] <= hi[p] - Mid(p)
  <2>1. CASE TakeLeft(p)
    <3>1. arr[Left(p)] \in Index
      BY <1>3, <2>1 DEF TypeOK
    <3>2. Append(temparr[p], arr[Left(p)]) \in Seq(Index) /\ Len(Append(temparr[p], arr[Left(p)])) = n + 1
      BY <1>2a, <3>1
    <3>3. QED BY <1>2, <1>3, <2>1, <3>2 DEF TakeLeft, TypeOK
  <2>2. CASE TakeRight(p)
    <3>1. arr[Right(p)] \in Index
      BY <1>4, <2>2 DEF TypeOK
    <3>2. Append(temparr[p], arr[Right(p)]) \in Seq(Index) /\ Len(Append(temparr[p], arr[Right(p)])) = n + 1
      BY <1>2a, <3>1
    <3>3. QED BY <1>2, <1>4, <2>2, <3>2 DEF TakeRight, TypeOK
  <2>3. QED BY <2>1, <2>2
<1>6. \A q \in Path : q # p => temparr'[q] = temparr[q] /\ taken'[q] = taken[q]
  BY DEF TakeLeft, TakeRight, TypeOK
<1>7. TypeOK'
  BY <1>5 DEF TypeOK
<1>8. ArgsInv' /\ FreshInv'
  BY DEF ArgsInv, FreshInv
<1>9. CursorInv'
  <2> SUFFICES ASSUME NEW q \in Path
               PROVE  /\ pc[q] = "merge" => /\ taken'[q] <= Mid(q) - lo[q]
                                            /\ Len(temparr'[q]) - taken'[q] \in 0 .. hi[q] - Mid(q)
                      /\ pc[q] = "copy" => Len(temparr'[q]) = hi[q] - lo[q]
                      /\ pc[q] \notin {"merge", "copy"} => temparr'[q] = << >> /\ taken'[q] = 0
    BY DEF CursorInv, Mid, NumElements
  <2>1. CASE q = p
    <3>1. /\ taken'[p] <= Mid(p) - lo[p]
          /\ Len(temparr'[p]) - taken'[p] \in 0 .. hi[p] - Mid(p)
      <4>1. n + 1 - (taken[p] + 1) = n - taken[p] /\ n + 1 - taken[p] >= 0
        <5> HIDE DEF n
        <5> QED BY <1>1, <1>2
      <4>2. CASE taken'[p] = taken[p] + 1 /\ taken[p] + 1 <= Mid(p) - lo[p]
        BY SMTT(30), <1>2, <1>5, <4>1, <4>2
      <4>3. CASE taken'[p] = taken[p] /\ n + 1 - taken[p] <= hi[p] - Mid(p)
        <5>1. n + 1 - taken[p] \in 0 .. hi[p] - Mid(p)
          <6> HIDE DEF n
          <6> QED BY <1>1, <1>2, <4>1, <4>3
        <5>2. QED BY SMTT(30), <1>2, <1>5, <4>3, <5>1
      <4>4. QED BY <1>5, <4>2, <4>3
    <3>2. QED BY <2>1, <3>1
  <2>2. CASE q # p
    BY <1>6, <2>2 DEF CursorInv
  <2>3. QED BY <2>1, <2>2
<1>10. QED BY <1>7, <1>8, <1>9

LEMMA MergeEndsType ==
  ASSUME FitsInt, TypeInv, NEW p \in Path, pc[p] = "merge", MergeEnds(p),
         UNCHANGED <<key, arr, lo, hi, waitFailed, status>>
  PROVE  TypeInv'
<1> USE DEF TypeInv
<1>1. pc' = [pc EXCEPT ![p] = "copy"] /\ "copy" \in PC
  BY DEF MergeEnds, Goto, PC
<1>2. temparr' = temparr /\ taken' = taken
  BY DEF MergeEnds
<1>3. TypeOK' /\ ArgsInv'
  BY <1>1, <1>2 DEF TypeOK, ArgsInv
<1>4. FreshInv'
  BY <1>1, FreshLocal DEF HasForked, Early
<1>5. Len(temparr[p]) = hi[p] - lo[p]
  <2> DEFINE n == Len(temparr[p])
  <2>1. lo[p] \in Nat /\ hi[p] \in Nat /\ Mid(p) \in lo[p] .. hi[p]
    BY RangeFacts
  <2>2. /\ taken[p] \in Nat /\ n \in Nat /\ taken[p] <= Mid(p) - lo[p]
        /\ n - taken[p] \in 0 .. hi[p] - Mid(p)
    BY DEF TypeOK, CursorInv
  <2>3. lo[p] + taken[p] >= Mid(p) /\ Mid(p) + n - taken[p] >= hi[p]
    BY DEF MergeEnds, AtEndL, AtEndR, Left, Right
  <2>4. n = hi[p] - lo[p]
    <3> HIDE DEF n
    <3> QED BY <2>1, <2>2, <2>3
  <2>5. QED BY <2>4
<1>6. CursorInv'
  <2> SUFFICES ASSUME NEW q \in Path
               PROVE  /\ pc'[q] = "merge" => /\ taken[q] <= Mid(q) - lo[q]
                                             /\ Len(temparr[q]) - taken[q] \in 0 .. hi[q] - Mid(q)
                      /\ pc'[q] = "copy" => Len(temparr[q]) = hi[q] - lo[q]
                      /\ pc'[q] \notin {"merge", "copy"} => temparr[q] = << >> /\ taken[q] = 0
    BY <1>2 DEF CursorInv, Mid, NumElements
  <2>1. CASE q = p
    BY <1>1, <1>5, <2>1 DEF TypeOK
  <2>2. CASE q # p
    BY <1>1, <2>2 DEF CursorInv, TypeOK
  <2>3. QED BY <2>1, <2>2
<1>7. QED BY <1>3, <1>4, <1>6

(* The codes of the tests on waitpid. *)
LEMMA CheckType ==
  ASSUME FitsInt, TypeInv, NEW p \in Path, Check(p)
  PROVE  TypeInv'
<1> USE DEF TypeInv
<1>1. UnchangedData /\ UnchangedArgs /\ UNCHANGED waitFailed /\ pc[p] = "check"
  BY DEF Check
<1>2. CASE Goto(p, "merge") /\ UNCHANGED status
  <2>1. pc' = [pc EXCEPT ![p] = "merge"] /\ "merge" \in PC
    BY <1>2 DEF Goto, PC
  <2>2. TypeOK' /\ ArgsInv'
    BY <1>1, <1>2, <2>1 DEF TypeOK, ArgsInv, UnchangedData, UnchangedArgs
  <2>3. FreshInv'
    BY <1>1, <2>1, FreshLocal DEF HasForked, Early
  <2>4. CursorInv'
    <3> SUFFICES ASSUME NEW q \in Path
                 PROVE  /\ pc'[q] = "merge" => /\ taken[q] <= Mid(q) - lo[q]
                                               /\ Len(temparr[q]) - taken[q] \in 0 .. hi[q] - Mid(q)
                        /\ pc'[q] = "copy" => Len(temparr[q]) = hi[q] - lo[q]
                        /\ pc'[q] \notin {"merge", "copy"} => temparr[q] = << >> /\ taken[q] = 0
      BY <1>1 DEF CursorInv, Mid, NumElements, UnchangedData, UnchangedArgs
    <3>1. CASE q = p
      <4>1. Len(temparr[q]) = 0 /\ taken[q] = 0
        BY <1>1, <3>1 DEF CursorInv
      <4>2. Mid(q) - lo[q] \in Nat /\ hi[q] - Mid(q) \in Nat
        BY RangeFacts
      <4>3. pc'[q] = "merge"
        BY <2>1, <3>1 DEF TypeOK
      <4>4. QED BY <4>1, <4>2, <4>3
    <3>2. CASE q # p
      BY <2>1, <3>2 DEF CursorInv, TypeOK
    <3>3. QED BY <3>1, <3>2
  <2>5. QED BY <2>2, <2>3, <2>4
<1>3. CASE \E c \in {10, 11, 12} : Exit(p, c)
  <2>1. {10, 11, 12} \subseteq ExitCode
    BY DEF ExitCode
  <2>2. QED BY <1>1, <1>3, <2>1, ExitKeepsType
<1>4. QED BY <1>2, <1>3 DEF Check

LEMMA TypeNext ==
  ASSUME FitsInt, TypeInv, [Next]_vars
  PROVE  TypeInv'
<1> USE DEF TypeInv
<1>1. ASSUME NEW p \in Path, Main(p) PROVE TypeInv'
  <2>1. CASE Goto(p, "begin") /\ UNCHANGED status
    BY <1>1, <2>1, MoveKeepsType
       DEF Main, Goto, HasForked, Early, PC, TypeOK, StatusType
  <2>2. CASE \E c \in 1..6 : Exit(p, c)
    BY <1>1, <2>2, ExitKeepsType DEF Main, ExitCode
  <2>3. QED BY <1>1, <2>1, <2>2 DEF Main
<1>2. ASSUME NEW p \in Path, Begin(p) PROVE TypeInv'
  <2>1. PICK label \in {"qsort", "fork_l"} : pc' = [pc EXCEPT ![p] = label]
    BY <1>2 DEF Begin, Goto
  <2>2. label \in PC /\ \A s \in Side : HasForked("begin", s) => HasForked(label, s)
    BY DEF PC, HasForked, Early
  <2>3. /\ pc[p] = "begin" /\ UnchangedData /\ UnchangedArgs
        /\ status' \in StatusType /\ waitFailed' \in [Path -> BOOLEAN]
    BY <1>2 DEF Begin, TypeOK, StatusType
  <2>4. QED BY <2>1, <2>2, <2>3, MoveKeepsType
<1>3. ASSUME NEW p \in Path, Qsort(p) PROVE TypeInv'
  BY <1>3, QsortType
<1>4. ASSUME NEW p \in Path, ForkLeft(p) PROVE TypeInv'
  <2>1. CASE ForkChild(p, "l", "fork_r", lo[p], Mid(p))
    <3>1. lo[p] \in 0..N /\ Mid(p) \in 0..N /\ lo[p] <= Mid(p)
      BY RangeFacts, ConstAssumption
    <3>2. "l" \in Side /\ "fork_r" \in PC
      BY DEF Side, PC
    <3>3. QED BY <1>4, <2>1, <3>1, <3>2, ForkKeepsType DEF ForkLeft
  <2>2. CASE ForkFails(p, 8)
    BY <1>4, <2>2, ExitKeepsType DEF ForkLeft, ForkFails, ExitCode
  <2>3. QED BY <1>4, <2>1, <2>2 DEF ForkLeft
<1>5. ASSUME NEW p \in Path, ForkRight(p) PROVE TypeInv'
  <2>1. CASE ForkChild(p, "r", "wait_l", Mid(p), hi[p])
    <3>1. Mid(p) \in 0..N /\ hi[p] \in 0..N /\ Mid(p) <= hi[p]
      BY RangeFacts, ConstAssumption
    <3>2. "r" \in Side /\ "wait_l" \in PC
      BY DEF Side, PC
    <3>3. QED BY <1>5, <2>1, <3>1, <3>2, ForkKeepsType DEF ForkRight
  <2>2. CASE ForkFails(p, 9)
    BY <1>5, <2>2, ExitKeepsType DEF ForkRight, ForkFails, ExitCode
  <2>3. QED BY <1>5, <2>1, <2>2 DEF ForkRight
<1>6. ASSUME NEW p \in Path, WaitLeft(p) PROVE TypeInv'
  <2>1. waitFailed' \in [Path -> BOOLEAN]
    BY <1>6 DEF WaitLeft, WaitPid, TypeOK
  <2>2. QED BY <1>6, <2>1, MoveKeepsType
            DEF WaitLeft, Goto, HasForked, Early, PC, TypeOK, StatusType
<1>7. ASSUME NEW p \in Path, WaitRight(p) PROVE TypeInv'
  <2>1. waitFailed' \in [Path -> BOOLEAN]
    BY <1>7 DEF WaitRight, WaitPid, TypeOK
  <2>2. QED BY <1>7, <2>1, MoveKeepsType
            DEF WaitRight, Goto, HasForked, Early, PC, TypeOK, StatusType
<1>8. ASSUME NEW p \in Path, Check(p) PROVE TypeInv'
  BY <1>8, CheckType
<1>9. ASSUME NEW p \in Path, Merge(p) PROVE TypeInv'
  <2>1. CASE TakeLeft(p) \/ TakeRight(p)
    BY <1>9, <2>1, TakeType DEF Merge, UnchangedArgs, TakeLeft, TakeRight
  <2>2. CASE MergeEnds(p)
    BY <1>9, <2>2, MergeEndsType DEF Merge, UnchangedArgs
  <2>3. QED BY <1>9, <2>1, <2>2 DEF Merge
<1>10. ASSUME NEW p \in Path, Copy(p) PROVE TypeInv'
  BY <1>10, CopyType
<1>11. ASSUME NEW p \in Path, Return(p) PROVE TypeInv'
  BY <1>11, ExitKeepsType DEF Return, ExitCode
<1>12. ASSUME NEW p \in Path, Kill(p) PROVE TypeInv'
  BY <1>12, KillType
<1>13. CASE UNCHANGED vars
  BY <1>13 DEF vars, TypeOK, ArgsInv, FreshInv, CursorInv, Mid, NumElements
<1>14. QED
  BY <1>1, <1>2, <1>3, <1>4, <1>5, <1>6, <1>7, <1>8, <1>9, <1>10, <1>11,
     <1>12, <1>13 DEF Next, Step, Ended

(* TypeOK holds throughout, for every file, threshold and fault: in        *)
(* particular, begin and end always lie in the mapped file.                *)
THEOREM TypeCorrect == ASSUME FitsInt PROVE Spec => []TypeOK
<1>1. Init => TypeInv
  BY TypeInit
<1>2. TypeInv /\ [Next]_vars => TypeInv'
  BY TypeNext
<1>3. TypeInv => TypeOK
  BY DEF TypeInv
<1>4. QED BY <1>1, <1>2, <1>3, PTL DEF Spec

(* The inductive invariant itself, for the modules that build on it. *)
THEOREM TypeInvHolds == ASSUME FitsInt PROVE Spec => []TypeInv
<1>1. Init => TypeInv
  BY TypeInit
<1>2. TypeInv /\ [Next]_vars => TypeInv'
  BY TypeNext
<1>3. QED BY <1>1, <1>2, PTL DEF Spec

(* No merge writes past its temparr, however the processes interleave. *)
THEOREM MergeFitsTemparr == ASSUME FitsInt PROVE Spec => []NoOverrun
<1>1. TypeInv => NoOverrun
  <2> SUFFICES ASSUME TypeInv, NEW p \in Path, pc[p] = "merge"
               PROVE  ~(Len(temparr[p]) > NumElements(p))
    BY DEF NoOverrun, OverrunsTemparr
  <2> DEFINE n == Len(temparr[p])
  <2>1. /\ lo[p] \in Nat /\ hi[p] \in Nat /\ NumElements(p) = hi[p] - lo[p]
        /\ Mid(p) \in lo[p] .. hi[p]
    BY RangeFacts DEF TypeInv
  <2>2. /\ n \in Nat /\ taken[p] \in Nat /\ taken[p] <= Mid(p) - lo[p]
        /\ n - taken[p] \in 0 .. hi[p] - Mid(p)
    BY DEF TypeInv, TypeOK, CursorInv
  <2>3. n <= hi[p] - lo[p]
    <3> HIDE DEF n
    <3> QED BY <2>1, <2>2
  <2>4. QED BY <2>1, <2>2, <2>3
<1>2. QED BY <1>1, TypeInvHolds, PTL

-----------------------------------------------------------------------------
(* Part 2: no race, and success is complete: proofs over the tree of forks. *)

-----------------------------------------------------------------------------
(* The tree of paths.                                                      *)

LEMMA PathFacts ==
  ASSUME NEW p \in Path
  PROVE  p \in Seq(Side) /\ Len(p) \in Nat
BY PathIsSeq

LEMMA SubtreeRefl ==
  ASSUME NEW p \in Path
  PROVE  InSubtree(p, p)
BY PathFacts DEF InSubtree

LEMMA RootAbove ==
  ASSUME NEW p \in Path
  PROVE  InSubtree(Root, p)
BY RootIsPath, PathFacts DEF InSubtree

(* What a fork adds to the subtrees. *)
LEMMA AboveChild ==
  ASSUME NEW p \in Path, NEW q \in Path, NEW s \in Side, Len(q) < MaxDepth
  PROVE  InSubtree(p, Child(q, s)) <=> p = Child(q, s) \/ InSubtree(p, q)
<1> DEFINE c == Child(q, s)
<1>1. /\ p \in Seq(Side) /\ Len(p) \in Nat /\ q \in Seq(Side) /\ Len(q) \in Nat
  BY PathFacts
<1>2. /\ c \in Path /\ c \in Seq(Side) /\ Len(c) = Len(q) + 1
      /\ \A i \in 1..Len(q) : c[i] = q[i]
  BY <1>1, ChildIsPath, PathFacts, AppendProperties DEF Child
<1>3. ASSUME InSubtree(p, q) PROVE InSubtree(p, c)
  BY <1>1, <1>2, <1>3 DEF InSubtree
<1>4. ASSUME p = c PROVE InSubtree(p, c)
  BY <1>2, <1>4, SubtreeRefl
<1>5. ASSUME InSubtree(p, c), p # c PROVE InSubtree(p, q)
  <2>1. Len(p) <= Len(q) + 1 /\ \A i \in 1..Len(p) : c[i] = p[i]
    BY <1>2, <1>5 DEF InSubtree
  <2>2. Len(p) # Len(q) + 1
    <3>1. SUFFICES ASSUME Len(p) = Len(c) PROVE FALSE
      BY <1>2
    <3>2. p = c
      BY <1>1, <1>2, <2>1, <3>1, SeqEqual
    <3>3. QED BY <3>2, <1>5
  <2>3. QED BY <1>1, <1>2, <2>1, <2>2 DEF InSubtree
<1>6. QED BY <1>3, <1>4, <1>5

(* A process strictly below p is below one of the children of p. *)
LEMMA BelowIsBelowChild ==
  ASSUME NEW p \in Path, NEW q \in Path, InSubtree(p, q), p # q
  PROVE  Len(p) < MaxDepth /\ \E s \in Side : InSubtree(Child(p, s), q)
<1>1. /\ p \in Seq(Side) /\ Len(p) \in Nat /\ q \in Seq(Side) /\ Len(q) \in Nat
      /\ Len(q) <= MaxDepth
  BY PathFacts, PathIsSeq
<1>2. Len(p) <= Len(q) /\ \A i \in 1..Len(p) : q[i] = p[i]
  BY DEF InSubtree
<1>3. Len(p) # Len(q)
  BY <1>1, <1>2, SeqEqual
<1>4. Len(p) < MaxDepth /\ Len(p) + 1 \in 1..Len(q)
  BY <1>1, <1>2, <1>3, ConstAssumption
<1>5. q[Len(p) + 1] \in Side
  BY <1>1, <1>4
<1>6. InSubtree(Child(p, q[Len(p) + 1]), q)
  <2> DEFINE c == Append(p, q[Len(p) + 1])
  <2>1. /\ Len(c) = Len(p) + 1 /\ c[Len(p) + 1] = q[Len(p) + 1]
        /\ \A i \in 1..Len(p) : c[i] = p[i]
    BY <1>1, <1>5, AppendProperties
  <2>2. \A i \in 1..Len(c) : q[i] = c[i]
    BY <1>1, <1>2, <2>1
  <2>3. Len(c) <= Len(q)
    BY <1>1, <1>4, <2>1
  <2>4. QED BY <2>2, <2>3 DEF InSubtree, Child
<1>7. QED BY <1>4, <1>5, <1>6

LEMMA SubtreeTrans ==
  ASSUME NEW p \in Path, NEW q \in Path, NEW r \in Path, InSubtree(p, q), InSubtree(q, r)
  PROVE  InSubtree(p, r)
BY PathFacts DEF InSubtree

LEMMA SubtreeAntisym ==
  ASSUME NEW p \in Path, NEW q \in Path, InSubtree(p, q), InSubtree(q, p)
  PROVE  p = q
<1>1. /\ p \in Seq(Side) /\ Len(p) \in Nat /\ q \in Seq(Side) /\ Len(q) \in Nat
  BY PathFacts
<1>2. Len(p) = Len(q) /\ \A i \in 1..Len(p) : q[i] = p[i]
  BY <1>1 DEF InSubtree
<1>3. QED BY <1>1, <1>2, SeqEqual

-----------------------------------------------------------------------------
(* The inductive invariant.                                                *)

Used(p) == pc[p] # "unused"

(* Exactly the dead processes have a status. *)
StatusInv == \A p \in Path : status[p] = Running <=> pc[p] # "dead"

(* A process is forked by a process, and its range lies in its parent's. *)
NestedInv ==
  \A p, q \in Path :
    InSubtree(p, q) /\ Used(q) => Used(p) /\ lo[p] <= lo[q] /\ hi[q] <= hi[p]

(* The two children of p share out its range at mid. *)
SplitInv ==
  \A p \in Path, s \in Side :
    Len(p) < MaxDepth /\ Used(Child(p, s)) =>
      IF s = "l" THEN hi[Child(p, s)] = Mid(p) ELSE lo[Child(p, s)] = Mid(p)

(* Processes in different branches have ranges apart. *)
DisjointInv ==
  \A p, q \in Path :
    Used(p) /\ Used(q) /\ ~InSubtree(p, q) /\ ~InSubtree(q, p) =>
      hi[p] <= lo[q] \/ hi[q] <= lo[p]

TreeInv == NestedInv /\ SplitInv /\ DisjointInv

(* What a process knows while it is in fork, waitpid and the tests. *)
WaitingFor(p) ==
  /\ pc[p] \in {"fork_r", "wait_l", "wait_r", "check"} => Len(p) < MaxDepth
  /\ pc[p] \in {"wait_r", "check"} /\ ~waitFailed[p] => pc[Child(p, "l")] = "dead"
  /\ pc[p] = "check" /\ ~waitFailed[p] => pc[Child(p, "r")] = "dead"
WaitInv == \A p \in Path : WaitingFor(p)

(* A process that is at work on the array, or has succeeded, has nothing   *)
(* but successful processes below it.                                      *)
Quiet(p) == pc[p] \in {"qsort", "merge", "copy", "return"} \/ status[p] = 0
BelowSucceeded(p) ==
  \A q \in Path : InSubtree(p, q) /\ p # q /\ Used(q) => status[q] = 0
QuietInv == \A p \in Path : Quiet(p) => BelowSucceeded(p)

RaceInv == TypeInv /\ StatusInv /\ TreeInv /\ WaitInv /\ QuietInv

-----------------------------------------------------------------------------
(* A step that forks nothing: process p goes from its label to another.    *)

MovesTo(p, label) ==
  /\ p \in Path /\ label \in PC /\ label # "unused"
  /\ pc[p] \notin {"unused", "dead"}
  /\ pc' = [pc EXCEPT ![p] = label]
  /\ UNCHANGED <<lo, hi>>

LEMMA MovedPc ==
  ASSUME TypeOK, NEW p, NEW label, MovesTo(p, label)
  PROVE  /\ pc'[p] = label
         /\ \A q \in Path : q # p => pc'[q] = pc[q]
         /\ \A q \in Path : Used(q)' <=> Used(q)
BY DEF TypeOK, MovesTo, Used

LEMMA TreeMove ==
  ASSUME TypeOK, TreeInv, NEW p, NEW label, MovesTo(p, label)
  PROVE  TreeInv'
<1>1. \A q \in Path : /\ Used(q)' <=> Used(q)
                      /\ Mid(q)' = Mid(q)
  BY MovedPc DEF MovesTo, Mid, NumElements
<1>2. lo' = lo /\ hi' = hi
  BY DEF MovesTo
<1>3. NestedInv'
  BY <1>1, <1>2 DEF TreeInv, NestedInv
<1>4. SplitInv'
  <2>1. \A q \in Path, s \in Side : Len(q) < MaxDepth => Child(q, s) \in Path
    BY ChildIsPath
  <2>2. QED BY <1>1, <1>2, <2>1 DEF TreeInv, SplitInv
<1>5. DisjointInv'
  BY <1>1, <1>2 DEF TreeInv, DisjointInv
<1>6. QED BY <1>3, <1>4, <1>5 DEF TreeInv

(* The status is set with the last move, by exit or by a signal. *)
StatusFits(p, label) ==
  IF label = "dead"
  THEN \E c \in ExitCode \union {Killed} : status' = [status EXCEPT ![p] = c]
  ELSE UNCHANGED status

LEMMA StatusMove ==
  ASSUME TypeOK, StatusInv, NEW p, NEW label, MovesTo(p, label), StatusFits(p, label)
  PROVE  StatusInv' /\ \A q \in Path : q # p => status'[q] = status[q]
<1>1. Running \notin ExitCode \union {Killed}
  BY DEF Running, ExitCode, Killed
<1>2. p \in Path /\ status[p] = Running
  BY DEF StatusInv, MovesTo
<1>3. \A q \in Path : q # p => status'[q] = status[q]
  BY DEF StatusFits, TypeOK
<1>4. status'[p] = Running <=> label # "dead"
  BY <1>1, <1>2 DEF StatusFits, TypeOK
<1>5. StatusInv'
  BY <1>2, <1>3, <1>4, MovedPc DEF StatusInv
<1>6. QED BY <1>3, <1>5

LEMMA WaitMove ==
  ASSUME TypeOK, WaitInv, NEW p, NEW label, MovesTo(p, label),
         \A q \in Path : q # p => waitFailed'[q] = waitFailed[q],
         WaitingFor(p)'
  PROVE  WaitInv'
<1> SUFFICES ASSUME NEW q \in Path, q # p PROVE WaitingFor(q)'
  BY DEF WaitInv
<1>1. pc'[q] = pc[q] /\ waitFailed'[q] = waitFailed[q] /\ WaitingFor(q)
  BY MovedPc DEF WaitInv
<1>2. ASSUME NEW s \in Side, Len(q) < MaxDepth, pc[Child(q, s)] = "dead"
      PROVE  pc'[Child(q, s)] = "dead"
  <2>1. Child(q, s) \in Path /\ Child(q, s) # p
    BY <1>2, ChildIsPath DEF MovesTo
  <2>2. QED BY <1>2, <2>1, MovedPc
<1>3. QED BY <1>1, <1>2 DEF WaitingFor, Side

(* No new work begins above a process that is not done. *)
LEMMA QuietMove ==
  ASSUME TypeOK, StatusInv, QuietInv, NEW p, NEW label, MovesTo(p, label),
         StatusFits(p, label), Quiet(p)' => BelowSucceeded(p)
  PROVE  QuietInv'
<1> SUFFICES ASSUME NEW a \in Path, Quiet(a)',
                    NEW b \in Path, InSubtree(a, b), a # b, Used(b)'
             PROVE  status'[b] = 0
  BY DEF QuietInv, BelowSucceeded
<1>1. Used(b) /\ \A q \in Path : q # p => status'[q] = status[q]
  BY MovedPc, StatusMove
<1>2. CASE a = p
  BY <1>1, <1>2 DEF BelowSucceeded
<1>3. CASE a # p
  <2>1. Quiet(a)
    BY <1>1, <1>3, MovedPc DEF Quiet
  <2>2. status[b] = 0
    BY <1>1, <2>1 DEF QuietInv, BelowSucceeded
  <2>3. b # p
    BY <2>2 DEF MovesTo, StatusInv, Running
  <2>4. QED BY <1>1, <2>2, <2>3
<1>4. QED BY <1>2, <1>3

-----------------------------------------------------------------------------
(* The fork of side s of process p, which gives the child c its half.      *)

HalfOf(p, s, b, e) ==
  \/ s = "l" /\ b = lo[p] /\ e = Mid(p)
  \/ s = "r" /\ b = Mid(p) /\ e = hi[p]

Forks(p, s, label, b, e) ==
  /\ p \in Path /\ s \in Side /\ label \in PC
  /\ HalfOf(p, s, b, e)
  /\ ForkChild(p, s, label, b, e)
  /\ \/ pc[p] = "fork_l" /\ s = "l" /\ label = "fork_r"
     \/ pc[p] = "fork_r" /\ s = "r" /\ label = "wait_l"
  /\ UNCHANGED waitFailed

LEMMA ForkEffect ==
  ASSUME FitsInt, TypeInv, NEW p, NEW s, NEW label, NEW b, NEW e,
         Forks(p, s, label, b, e)
  PROVE  LET c == Child(p, s) IN
         /\ p \in Path /\ c \in Path /\ c # p /\ Len(p) < MaxDepth
         /\ Used(p) /\ ~Used(c) /\ Used(c)'
         /\ pc'[p] = label /\ pc'[c] = "begin"
         /\ \A q \in Path : q # p /\ q # c => pc'[q] = pc[q]
         /\ \A q \in Path : q # c => Used(q)' = Used(q)
         /\ \A q \in Path : q # c => lo'[q] = lo[q] /\ hi'[q] = hi[q]
         /\ \A q \in Path : q # c => Mid(q)' = Mid(q)
         /\ lo'[c] = b /\ hi'[c] = e
         /\ lo[p] <= b /\ e <= hi[p]
         /\ lo[p] \in Nat /\ hi[p] \in Nat /\ Mid(p) \in lo[p] .. hi[p]
         /\ status' = status
<1> DEFINE c == Child(p, s)
<1> USE DEF TypeInv, Forks
<1>1. c \in Path /\ c # p /\ Len(p) < MaxDepth
  BY ChildIsPath DEF ForkChild
<1>2. ~Used(c)
  BY <1>1 DEF FreshInv, HasForked, Early, Used
<1>3. /\ pc'[p] = label /\ pc'[c] = "begin"
      /\ \A q \in Path : q # p /\ q # c => pc'[q] = pc[q]
  BY <1>1 DEF ForkChild, TypeOK
<1>4. /\ lo'[c] = b /\ hi'[c] = e
      /\ \A q \in Path : q # c => lo'[q] = lo[q] /\ hi'[q] = hi[q]
  BY <1>1 DEF ForkChild, TypeOK
<1>5. \A q \in Path : q # c => Mid(q)' = Mid(q)
  BY <1>4 DEF Mid, NumElements
<1>6. /\ lo[p] \in Nat /\ hi[p] \in Nat /\ Mid(p) \in lo[p] .. hi[p]
      /\ lo[p] <= b /\ e <= hi[p]
  BY RangeFacts DEF HalfOf
<1>7. \A q \in Path : q # c => Used(q)' = Used(q)
  BY <1>3 DEF Used
<1>8. Used(p) /\ Used(c)' /\ status' = status
  BY <1>3 DEF Used, ForkChild
<1>9. QED BY <1>1, <1>2, <1>3, <1>4, <1>5, <1>6, <1>7, <1>8

LEMMA ForkKeepsNested ==
  ASSUME FitsInt, TypeInv, TreeInv, NEW p, NEW s, NEW label, NEW b, NEW e,
         Forks(p, s, label, b, e)
  PROVE  NestedInv'
<1> DEFINE c == Child(p, s)
<1> SUFFICES ASSUME NEW u \in Path, NEW v \in Path, InSubtree(u, v), Used(v)'
             PROVE  Used(u)' /\ lo'[u] <= lo'[v] /\ hi'[v] <= hi'[u]
  BY DEF NestedInv
<1> USE ForkEffect DEF TreeInv
<1>1. CASE v = c
  <2>1. u = c \/ InSubtree(u, p)
    BY <1>1, AboveChild DEF Forks
  <2>2. CASE u = c
    <3>1. lo'[c] \in Nat /\ hi'[c] \in Nat
      BY RangeFacts DEF Forks, HalfOf, TypeInv
    <3>2. QED BY <1>1, <2>2, <3>1
  <2>3. CASE InSubtree(u, p) /\ u # c
    <3>1. Used(u) /\ lo[u] <= lo[p] /\ hi[p] <= hi[u]
      BY <2>3 DEF NestedInv
    <3>2. /\ lo[u] \in Nat /\ hi[u] \in Nat /\ lo[p] \in Nat /\ hi[p] \in Nat
          /\ b \in Nat /\ e \in Nat
      BY RangeFacts DEF Forks, HalfOf, TypeInv
    <3>3. QED BY <1>1, <2>3, <3>1, <3>2
  <2>4. QED BY <2>1, <2>2, <2>3
<1>2. CASE v # c
  <2>1. Used(v) /\ Used(u) /\ lo[u] <= lo[v] /\ hi[v] <= hi[u]
    BY <1>2 DEF NestedInv
  <2>2. u # c
    BY <2>1
  <2>3. QED BY <1>2, <2>1, <2>2
<1>3. QED BY <1>1, <1>2

LEMMA ForkKeepsSplit ==
  ASSUME FitsInt, TypeInv, TreeInv, NEW p, NEW s, NEW label, NEW b, NEW e,
         Forks(p, s, label, b, e)
  PROVE  SplitInv'
<1> DEFINE c == Child(p, s)
<1> SUFFICES ASSUME NEW u \in Path, NEW t \in Side, Len(u) < MaxDepth, Used(Child(u, t))'
             PROVE  IF t = "l" THEN hi'[Child(u, t)] = Mid(u)' ELSE lo'[Child(u, t)] = Mid(u)'
  BY DEF SplitInv
<1> USE ForkEffect DEF TreeInv
<1>1. Child(u, t) \in Path
  BY ChildIsPath
<1>2. CASE Child(u, t) = c
  <2>1. u = p /\ t = s
    BY <1>2, ChildInjective DEF Forks
  <2>2. QED BY <2>1 DEF Forks, HalfOf
<1>3. CASE Child(u, t) # c
  <2>1. Used(Child(u, t))
    BY <1>1, <1>3
  <2>2. Used(u)
    <3>1. InSubtree(u, Child(u, t))
      BY AboveChild, SubtreeRefl
    <3>2. QED BY <1>1, <2>1, <3>1 DEF NestedInv
  <2>3. u # c
    BY <2>2
  <2>4. QED BY <1>1, <1>3, <2>1, <2>3 DEF SplitInv
<1>4. QED BY <1>2, <1>3

(* The range of the new child is apart from that of every process v that   *)
(* is neither above nor below it: v is in another branch than p, or below  *)
(* the other child of p.                                                   *)
LEMMA ForkApart ==
  ASSUME FitsInt, TypeInv, TreeInv, NEW p, NEW s, NEW label, NEW b, NEW e,
         Forks(p, s, label, b, e),
         NEW v \in Path, Used(v),
         ~InSubtree(v, Child(p, s)), ~InSubtree(Child(p, s), v)
  PROVE  e <= lo[v] \/ hi[v] <= b
<1> DEFINE c == Child(p, s)
<1> USE ForkEffect DEF TreeInv
<1>1. ~InSubtree(v, p) /\ p # v
  BY AboveChild, SubtreeRefl DEF Forks
<1>2. /\ lo[p] \in Nat /\ hi[p] \in Nat /\ lo[v] \in Nat /\ hi[v] \in Nat
      /\ b \in Nat /\ e \in Nat /\ lo[p] <= b /\ e <= hi[p]
  BY RangeFacts DEF Forks, HalfOf, TypeInv
<1>3. CASE InSubtree(p, v)
  <2>1. PICK t \in Side : InSubtree(Child(p, t), v)
    BY <1>1, <1>3, BelowIsBelowChild
  <2>2. Child(p, t) \in Path /\ t # s
    BY <2>1, ChildIsPath
  <2>3. Used(Child(p, t)) /\ lo[Child(p, t)] <= lo[v] /\ hi[v] <= hi[Child(p, t)]
    BY <2>1, <2>2 DEF NestedInv
  <2>4. pc[p] = "fork_r" /\ s = "r" /\ t = "l"
    BY <2>2, <2>3 DEF TypeInv, FreshInv, HasForked, Early, Used, Forks, Side
  <2>5. hi[Child(p, t)] = Mid(p) /\ b = Mid(p)
    BY <2>3, <2>4 DEF SplitInv, Forks, HalfOf
  <2>6. QED BY <2>3, <2>5
<1>4. CASE ~InSubtree(p, v)
  <2>1. hi[p] <= lo[v] \/ hi[v] <= lo[p]
    BY <1>1, <1>4 DEF DisjointInv
  <2>2. QED BY <1>2, <2>1
<1>5. QED BY <1>3, <1>4

LEMMA ForkKeepsDisjoint ==
  ASSUME FitsInt, TypeInv, TreeInv, NEW p, NEW s, NEW label, NEW b, NEW e,
         Forks(p, s, label, b, e)
  PROVE  DisjointInv'
<1> DEFINE c == Child(p, s)
<1> SUFFICES ASSUME NEW u \in Path, NEW v \in Path, Used(u)', Used(v)',
                    ~InSubtree(u, v), ~InSubtree(v, u)
             PROVE  hi'[u] <= lo'[v] \/ hi'[v] <= lo'[u]
  BY DEF DisjointInv
<1> USE ForkEffect
<1>1. u # v
  BY SubtreeRefl
<1>2. CASE u = c
  BY <1>1, <1>2, ForkApart
<1>3. CASE v = c
  BY <1>1, <1>3, ForkApart
<1>4. CASE u # c /\ v # c
  BY <1>4 DEF TreeInv, DisjointInv
<1>5. QED BY <1>2, <1>3, <1>4

LEMMA ForkKeepsRest ==
  ASSUME FitsInt, RaceInv, NEW p, NEW s, NEW label, NEW b, NEW e,
         Forks(p, s, label, b, e)
  PROVE  StatusInv' /\ WaitInv' /\ QuietInv'
<1> DEFINE c == Child(p, s)
<1> USE ForkEffect DEF RaceInv
<1>1. pc[p] \in {"fork_l", "fork_r"} /\ label \in {"fork_r", "wait_l"}
  BY DEF Forks
<1>2. StatusInv'
  BY <1>1 DEF StatusInv, Used
<1>3. WaitInv'
  <2> SUFFICES ASSUME NEW q \in Path PROVE WaitingFor(q)'
    BY DEF WaitInv
  <2>1. CASE q = p \/ q = c
    BY <1>1, <2>1 DEF WaitingFor
  <2>2. CASE q # p /\ q # c
    <3>1. ASSUME NEW t \in Side, Len(q) < MaxDepth, pc[Child(q, t)] = "dead"
          PROVE  pc'[Child(q, t)] = "dead"
      <4>1. Child(q, t) \in Path /\ Child(q, t) # p /\ Child(q, t) # c
        BY <1>1, <3>1, ChildIsPath DEF Used
      <4>2. QED BY <3>1, <4>1
    <3>2. pc'[q] = pc[q] /\ waitFailed'[q] = waitFailed[q] /\ WaitingFor(q)
      BY <2>2 DEF WaitInv, Forks
    <3>3. QED BY <3>1, <3>2 DEF WaitingFor, Side
  <2>3. QED BY <2>1, <2>2
<1>4. QuietInv'
  <2> SUFFICES ASSUME NEW u \in Path, Quiet(u)',
                      NEW v \in Path, InSubtree(u, v), u # v, Used(v)'
               PROVE  status[v] = 0
    BY DEF QuietInv, BelowSucceeded
  <2>1. status[p] = Running /\ status[c] = Running
    BY <1>1 DEF StatusInv, Used
  <2>2. u # p /\ u # c
    BY <1>1, <2>1 DEF Quiet, Running
  <2>3. Quiet(u)
    BY <2>2 DEF Quiet
  <2>4. v # c
    <3>1. SUFFICES ASSUME v = c PROVE FALSE
      OBVIOUS
    <3>2. InSubtree(u, p)
      BY <2>2, <3>1, AboveChild DEF Forks
    <3>3. status[p] = 0
      BY <2>2, <2>3, <3>2 DEF QuietInv, BelowSucceeded
    <3>4. QED BY <2>1, <3>3 DEF Running
  <2>5. QED BY <2>3, <2>4 DEF QuietInv, BelowSucceeded
<1>5. QED BY <1>2, <1>3, <1>4

-----------------------------------------------------------------------------
(* The steps of one process.                                               *)

(* What a step that forks nothing has to show. *)
LEMMA RaceMove ==
  ASSUME RaceInv, NEW p, NEW label, MovesTo(p, label), StatusFits(p, label),
         \A q \in Path : q # p => waitFailed'[q] = waitFailed[q],
         WaitingFor(p)',
         Quiet(p)' => BelowSucceeded(p),
         TypeInv'
  PROVE  RaceInv'
BY TreeMove, StatusMove, WaitMove, QuietMove DEF RaceInv, TypeInv

(* The common case: p goes to a label where it waits for nobody. *)
LEMMA NotWaiting ==
  ASSUME TypeOK, NEW p, NEW label, MovesTo(p, label),
         label \notin {"fork_r", "wait_l", "wait_r", "check"}
  PROVE  WaitingFor(p)'
BY MovedPc DEF WaitingFor, MovesTo

LEMMA ExitKeepsRace ==
  ASSUME RaceInv, TypeInv', NEW p \in Path, NEW c \in ExitCode \union {Killed}, Exit(p, c),
         pc[p] \notin {"unused", "dead"}, c = 0 => Quiet(p),
         UNCHANGED <<lo, hi, waitFailed>>
  PROVE  RaceInv'
<1>1. MovesTo(p, "dead") /\ StatusFits(p, "dead")
  BY DEF MovesTo, StatusFits, Exit, Goto, PC
<1>2. TypeOK /\ pc'[p] = "dead" /\ status'[p] = c
  BY DEF RaceInv, TypeInv, TypeOK, Exit, Goto
<1>3. Quiet(p)' => BelowSucceeded(p)
  BY <1>2 DEF Quiet, RaceInv, QuietInv
<1>4. WaitingFor(p)'
  BY <1>1, <1>2, NotWaiting
<1>5. QED BY <1>1, <1>3, <1>4, RaceMove

(* Nothing is below a process that has not forked. *)
LEMMA NothingBelow ==
  ASSUME TypeInv, TreeInv, NEW p \in Path, pc[p] \in Early
  PROVE  BelowSucceeded(p)
<1> SUFFICES ASSUME NEW q \in Path, InSubtree(p, q), p # q, Used(q)
             PROVE  FALSE
  BY DEF BelowSucceeded
<1>1. PICK s \in Side : Len(p) < MaxDepth /\ InSubtree(Child(p, s), q)
  BY BelowIsBelowChild
<1>2. Child(p, s) \in Path
  BY <1>1, ChildIsPath
<1>3. Used(Child(p, s))
  BY <1>1, <1>2 DEF TreeInv, NestedInv
<1>4. HasForked(pc[p], s)
  BY <1>1, <1>3 DEF TypeInv, FreshInv, Used
<1>5. QED BY <1>4 DEF HasForked

(* When both children have exited with 0, all below p has. *)
LEMMA ChildrenDone ==
  ASSUME RaceInv, NEW p \in Path,
         \A s \in Side : Len(p) < MaxDepth => status[Child(p, s)] = 0
  PROVE  BelowSucceeded(p)
<1> SUFFICES ASSUME NEW q \in Path, InSubtree(p, q), p # q, Used(q)
             PROVE  status[q] = 0
  BY DEF BelowSucceeded
<1>1. PICK s \in Side : Len(p) < MaxDepth /\ InSubtree(Child(p, s), q)
  BY BelowIsBelowChild
<1>2. Child(p, s) \in Path /\ status[Child(p, s)] = 0
  BY <1>1, ChildIsPath
<1>3. CASE q = Child(p, s)
  BY <1>2, <1>3
<1>4. CASE q # Child(p, s)
  BY <1>1, <1>2, <1>4 DEF RaceInv, QuietInv, BelowSucceeded, Quiet
<1>5. QED BY <1>3, <1>4

LEMMA CheckKeepsRace ==
  ASSUME RaceInv, TypeInv', NEW p \in Path, Check(p)
  PROVE  RaceInv'
<1> USE DEF RaceInv
<1>1. pc[p] = "check" /\ UNCHANGED <<lo, hi, waitFailed>>
  BY DEF Check, UnchangedArgs
<1>2. CASE \E c \in {10, 11, 12} : Exit(p, c)
  <2>1. PICK c \in {10, 11, 12} : Exit(p, c)
    BY <1>2
  <2>2. c \in ExitCode /\ c # 0
    BY DEF ExitCode
  <2>3. QED BY <1>1, <2>1, <2>2, ExitKeepsRace
<1>3. CASE Goto(p, "merge") /\ UNCHANGED status /\ ~(\E c \in {10, 11, 12} : Exit(p, c))
  <2>1. MovesTo(p, "merge") /\ StatusFits(p, "merge")
    BY <1>1, <1>3 DEF MovesTo, StatusFits, Goto, PC
  <2>2. ~waitFailed[p] /\ \E wl \in WStatus(p, "l"), wr \in WStatus(p, "r") : {wl, wr} = {0}
    BY <1>3 DEF Check
  <2>3. /\ Len(p) < MaxDepth
        /\ pc[Child(p, "l")] = "dead" /\ pc[Child(p, "r")] = "dead"
    BY <1>1, <2>2 DEF WaitInv, WaitingFor
  <2>4. ASSUME NEW s \in Side PROVE status[Child(p, s)] = 0
    <3>1. Child(p, s) \in Path /\ pc[Child(p, s)] = "dead"
      BY <2>3, ChildIsPath DEF Side
    <3>2. status[Child(p, s)] # Running
      BY <3>1 DEF StatusInv
    <3>3. WStatus(p, s) = {status[Child(p, s)]}
      BY <3>2 DEF WStatus
    <3>4. 0 \in WStatus(p, s)
      BY <2>2 DEF Side
    <3>5. QED BY <3>3, <3>4
  <2>5. BelowSucceeded(p)
    BY <2>4, ChildrenDone
  <2>6. WaitingFor(p)'
    BY <2>1, NotWaiting DEF TypeInv
  <2>7. QED BY <1>1, <2>1, <2>5, <2>6, RaceMove
<1>4. QED BY <1>2, <1>3 DEF Check

(* waitpid returns for side s, or fails. *)
LEMMA WaitKeepsRace ==
  ASSUME RaceInv, TypeInv', NEW p \in Path, WaitLeft(p) \/ WaitRight(p)
  PROVE  RaceInv'
<1> USE DEF RaceInv, TypeInv
<1>1. /\ UNCHANGED <<lo, hi, status>>
      /\ \/ pc[p] = "wait_l" /\ WaitPid(p, "l") /\ Goto(p, "wait_r")
         \/ pc[p] = "wait_r" /\ WaitPid(p, "r") /\ Goto(p, "check")
  BY DEF WaitLeft, WaitRight, UnchangedArgs
<1>2. PICK label \in {"wait_r", "check"} : MovesTo(p, label) /\ Goto(p, label)
  BY <1>1 DEF MovesTo, Goto, PC
<1>3. StatusFits(p, label)
  BY <1>1, <1>2 DEF StatusFits
<1>4. \A q \in Path : q # p => waitFailed'[q] = waitFailed[q]
  BY <1>1 DEF WaitPid, TypeOK
<1>5. WaitingFor(p)'
  <2>1. pc'[p] = label /\ Len(p) < MaxDepth
    BY <1>1, <1>2, MovedPc DEF WaitInv, WaitingFor
  <2>2. \A s \in Side : Child(p, s) \in Path /\ Child(p, s) # p
    BY <2>1, ChildIsPath
  <2>3. \A s \in Side : pc'[Child(p, s)] = pc[Child(p, s)]
    BY <1>2, <2>2, MovedPc
  <2>4. waitFailed[p] => waitFailed'[p]
    BY <1>1 DEF WaitPid, TypeOK
  <2>5. CASE pc[p] = "wait_l"
    <3>1. label = "wait_r"
      BY <1>1, <1>2, <2>1, <2>5 DEF Goto, TypeOK
    <3>2. pc[Child(p, "l")] = "dead" \/ waitFailed'[p]
      BY <1>1, <2>5 DEF WaitPid, TypeOK
    <3>3. QED BY <2>1, <2>3, <3>1, <3>2 DEF WaitingFor, Side
  <2>6. CASE pc[p] = "wait_r"
    <3>1. pc[Child(p, "l")] = "dead" \/ waitFailed[p]
      BY <2>6 DEF WaitInv, WaitingFor
    <3>2. pc[Child(p, "r")] = "dead" \/ waitFailed'[p]
      BY <1>1, <2>6 DEF WaitPid, TypeOK
    <3>3. QED BY <2>1, <2>3, <2>4, <3>1, <3>2 DEF WaitingFor, Side
  <2>7. QED BY <1>1, <2>5, <2>6
<1>6. Quiet(p)' => BelowSucceeded(p)
  <2>1. pc'[p] = label /\ status'[p] = Running
    BY <1>1, <1>2, MovedPc DEF StatusInv, MovesTo
  <2>2. QED BY <1>2, <2>1 DEF Quiet, Running
<1>7. QED BY <1>2, <1>3, <1>4, <1>5, <1>6, RaceMove

LEMMA RaceInit == Init /\ TypeInv => RaceInv
<1> SUFFICES ASSUME Init, TypeInv PROVE RaceInv
  OBVIOUS
<1>1. \A p \in Path : /\ Used(p) <=> p = Root
                      /\ pc[p] \in {"main", "unused"} /\ status[p] = Running
  BY DEF Init, Used
<1>2. StatusInv
  BY <1>1 DEF StatusInv
<1>3. ASSUME NEW p \in Path, InSubtree(p, Root) PROVE p = Root
  BY <1>3, RootIsPath, RootAbove, SubtreeAntisym
<1>4. ASSUME NEW p \in Path, NEW s \in Side, Len(p) < MaxDepth PROVE ~Used(Child(p, s))
  BY <1>1, <1>4, ChildIsPath, PathFacts, RootIsPath
<1>5. TreeInv
  <2>1. NestedInv
    <3> SUFFICES ASSUME NEW p \in Path, NEW q \in Path, InSubtree(p, q), Used(q)
                 PROVE  Used(p) /\ lo[p] <= lo[q] /\ hi[q] <= hi[p]
      BY DEF NestedInv
    <3>1. p = q /\ lo[p] \in Nat /\ hi[p] \in Nat
      BY <1>1, <1>3, ConstAssumption DEF TypeInv, TypeOK
    <3>2. QED BY <3>1
  <2>2. SplitInv
    BY <1>4 DEF SplitInv
  <2>3. DisjointInv
    BY <1>1, SubtreeRefl DEF DisjointInv
  <2>4. QED BY <2>1, <2>2, <2>3 DEF TreeInv
<1>6. WaitInv
  BY <1>1 DEF WaitInv, WaitingFor
<1>7. QuietInv
  BY <1>1 DEF QuietInv, Quiet, Running
<1>8. QED BY <1>2, <1>5, <1>6, <1>7 DEF RaceInv

LEMMA RaceNext ==
  ASSUME FitsInt, RaceInv, TypeInv', [Next]_vars
  PROVE  RaceInv'
<1> USE DEF RaceInv
<1>1. ASSUME NEW p \in Path, Main(p) PROVE RaceInv'
  <2>1. CASE Goto(p, "begin") /\ UNCHANGED status
    <3>1. MovesTo(p, "begin") /\ StatusFits(p, "begin") /\ UNCHANGED waitFailed
      BY <1>1, <2>1 DEF Main, UnchangedArgs, MovesTo, StatusFits, Goto, PC
    <3>2. ~Quiet(p)'
      BY <1>1, <2>1, <3>1, MovedPc DEF Quiet, Main, StatusInv, Running, TypeInv
    <3>3. QED BY <3>1, <3>2, NotWaiting, RaceMove DEF TypeInv
  <2>2. CASE \E c \in 1..6 : Exit(p, c)
    <3>1. PICK c \in 1..6 : Exit(p, c)
      BY <2>2
    <3>2. c \in ExitCode /\ c # 0
      BY DEF ExitCode
    <3>3. QED BY <1>1, <3>1, <3>2, ExitKeepsRace DEF Main, UnchangedArgs
  <2>3. QED BY <1>1, <2>1, <2>2 DEF Main
<1>2. ASSUME NEW p \in Path, Begin(p) PROVE RaceInv'
  <2>1. PICK label \in {"qsort", "fork_l"} : MovesTo(p, label) /\ StatusFits(p, label)
    BY <1>2 DEF Begin, UnchangedArgs, MovesTo, StatusFits, Goto, PC
  <2>2. BelowSucceeded(p)
    BY <1>2, NothingBelow DEF Begin, Early
  <2>3. QED BY <1>2, <2>1, <2>2, NotWaiting, RaceMove DEF Begin, TypeInv
<1>3. ASSUME NEW p \in Path, Qsort(p) PROVE RaceInv'
  <2>1. MovesTo(p, "return") /\ StatusFits(p, "return") /\ UNCHANGED waitFailed
    BY <1>3 DEF Qsort, UnchangedArgs, MovesTo, StatusFits, Goto, PC
  <2>2. BelowSucceeded(p)
    BY <1>3 DEF Qsort, QuietInv, Quiet
  <2>3. QED BY <2>1, <2>2, NotWaiting, RaceMove DEF TypeInv
<1>4. ASSUME NEW p \in Path, ForkLeft(p) PROVE RaceInv'
  <2>1. CASE ForkChild(p, "l", "fork_r", lo[p], Mid(p))
    <3>1. Forks(p, "l", "fork_r", lo[p], Mid(p))
      BY <1>4, <2>1 DEF ForkLeft, Forks, HalfOf, Side, PC
    <3>2. QED BY <3>1, ForkKeepsNested, ForkKeepsSplit, ForkKeepsDisjoint,
                 ForkKeepsRest DEF TreeInv
  <2>2. CASE ForkFails(p, 8)
    <3>1. 8 \in ExitCode
      BY DEF ExitCode
    <3>2. QED BY <1>4, <2>2, <3>1, ExitKeepsRace DEF ForkLeft, ForkFails, UnchangedArgs
  <2>3. QED BY <1>4, <2>1, <2>2 DEF ForkLeft
<1>5. ASSUME NEW p \in Path, ForkRight(p) PROVE RaceInv'
  <2>1. CASE ForkChild(p, "r", "wait_l", Mid(p), hi[p])
    <3>1. Forks(p, "r", "wait_l", Mid(p), hi[p])
      BY <1>5, <2>1 DEF ForkRight, Forks, HalfOf, Side, PC
    <3>2. QED BY <3>1, ForkKeepsNested, ForkKeepsSplit, ForkKeepsDisjoint,
                 ForkKeepsRest DEF TreeInv
  <2>2. CASE ForkFails(p, 9)
    <3>1. 9 \in ExitCode
      BY DEF ExitCode
    <3>2. QED BY <1>5, <2>2, <3>1, ExitKeepsRace DEF ForkRight, ForkFails, UnchangedArgs
  <2>3. QED BY <1>5, <2>1, <2>2 DEF ForkRight
<1>6. ASSUME NEW p \in Path, WaitLeft(p) \/ WaitRight(p) PROVE RaceInv'
  BY <1>6, WaitKeepsRace
<1>7. ASSUME NEW p \in Path, Check(p) PROVE RaceInv'
  BY <1>7, CheckKeepsRace
<1>8. ASSUME NEW p \in Path, Merge(p) PROVE RaceInv'
  <2>1. PICK label \in {"merge", "copy"} : MovesTo(p, label)
    <3>1. CASE UNCHANGED pc
      <4>1. pc' = [pc EXCEPT ![p] = "merge"]
        BY <1>8, <3>1 DEF Merge, TypeInv, TypeOK
      <4>2. QED BY <1>8, <4>1 DEF Merge, UnchangedArgs, MovesTo, PC
    <3>2. CASE Goto(p, "copy")
      BY <1>8, <3>2 DEF Merge, UnchangedArgs, MovesTo, PC, Goto
    <3>3. QED BY <1>8, <3>1, <3>2 DEF Merge, TakeLeft, TakeRight, MergeEnds
  <2>2. BelowSucceeded(p)
    BY <1>8 DEF Merge, QuietInv, Quiet
  <2>3. StatusFits(p, label) /\ UNCHANGED waitFailed
    BY <1>8 DEF Merge, StatusFits
  <2>4. QED BY <2>1, <2>2, <2>3, NotWaiting, RaceMove DEF TypeInv
<1>9. ASSUME NEW p \in Path, Copy(p) PROVE RaceInv'
  <2>1. MovesTo(p, "return") /\ StatusFits(p, "return") /\ UNCHANGED waitFailed
    BY <1>9 DEF Copy, UnchangedArgs, MovesTo, StatusFits, Goto, PC
  <2>2. BelowSucceeded(p)
    BY <1>9 DEF Copy, QuietInv, Quiet
  <2>3. QED BY <2>1, <2>2, NotWaiting, RaceMove DEF TypeInv
<1>10. ASSUME NEW p \in Path, Return(p) PROVE RaceInv'
  <2>1. PICK c \in {0, 7} : Exit(p, c)
    BY <1>10 DEF Return
  <2>2. c \in ExitCode /\ Quiet(p)
    BY <1>10 DEF Return, Quiet, ExitCode
  <2>3. QED BY <1>10, <2>1, <2>2, ExitKeepsRace DEF Return, UnchangedArgs
<1>11. ASSUME NEW p \in Path, Kill(p) PROVE RaceInv'
  <2>1. Killed # 0
    BY DEF Killed
  <2>2. QED BY <1>11, <2>1, ExitKeepsRace DEF Kill, UnchangedArgs
<1>12. CASE UNCHANGED vars
  <2>1. \A p \in Path : (Used(p)' <=> Used(p)) /\ Mid(p)' = Mid(p)
    BY <1>12 DEF vars, Used, Mid, NumElements
  <2>2. TreeInv'
    <3>1. NestedInv' /\ DisjointInv'
      BY <1>12, <2>1 DEF vars, TreeInv, NestedInv, DisjointInv
    <3>2. SplitInv'
      BY <1>12 DEF vars, TreeInv, SplitInv, Mid, NumElements, Used
    <3>3. QED BY <3>1, <3>2 DEF TreeInv
  <2>3. StatusInv' /\ WaitInv'
    BY <1>12 DEF vars, StatusInv, WaitInv, WaitingFor
  <2>4. QuietInv'
    BY <1>12, <2>1 DEF vars, QuietInv, Quiet, BelowSucceeded
  <2>5. QED BY <2>2, <2>3, <2>4
<1>13. QED
  BY <1>1, <1>2, <1>3, <1>4, <1>5, <1>6, <1>7, <1>8, <1>9, <1>10, <1>11, <1>12
     DEF Next, Step, Ended

THEOREM RaceInvHolds == ASSUME FitsInt PROVE Spec => []RaceInv
<1>1. Init => TypeInv
  BY TypeInit
<1>2. Init /\ TypeInv => RaceInv
  BY RaceInit
<1>3. TypeInv /\ [Next]_vars => TypeInv'
  BY TypeNext
<1>4. RaceInv /\ TypeInv' /\ [Next]_vars => RaceInv'
  BY RaceNext
<1>5. RaceInv => TypeInv
  BY DEF RaceInv
<1>6. QED BY <1>1, <1>2, <1>3, <1>4, <1>5, PTL DEF Spec

(* No two processes ever work on a common element: whatever the number of  *)
(* elements and the threshold, and whichever fork, waitpid or process has  *)
(* failed.                                                                 *)
THEOREM RaceFree == ASSUME FitsInt PROVE Spec => []NoRace
<1>1. RaceInv => NoRace
  <2> SUFFICES ASSUME RaceInv, NEW p \in Path, NEW q \in Path, p # q,
                      Accessing(p), Accessing(q)
               PROVE  Touched(p) \intersect Touched(q) = {}
    BY DEF NoRace
  <2> USE DEF RaceInv
  <2>1. /\ Used(p) /\ Used(q) /\ Quiet(p) /\ Quiet(q)
        /\ status[p] = Running /\ status[q] = Running
    BY DEF Accessing, Used, Quiet, StatusInv
  <2>2. ~InSubtree(p, q) /\ ~InSubtree(q, p)
    BY <2>1 DEF QuietInv, BelowSucceeded, Running
  <2>3. hi[p] <= lo[q] \/ hi[q] <= lo[p]
    BY <2>1, <2>2 DEF TreeInv, DisjointInv
  <2>4. /\ lo[p] \in Nat /\ hi[p] \in Nat /\ lo[q] \in Nat /\ hi[q] \in Nat
    BY RangeFacts DEF TypeInv
  <2>5. QED BY <2>3, <2>4 DEF Touched
<1>2. QED BY <1>1, RaceInvHolds, PTL

(* A process that exits with 0 leaves nothing behind that is running or    *)
(* has failed.                                                             *)
THEOREM SuccessComplete == ASSUME FitsInt PROVE Spec => []SuccessIsComplete
<1>1. RaceInv => SuccessIsComplete
  <2> SUFFICES ASSUME RaceInv, NEW p \in Path, NEW q \in Path,
                      status[p] = 0, InSubtree(p, q), pc[q] # "unused"
               PROVE  status[q] = 0
    BY DEF SuccessIsComplete
  <2>1. CASE p = q
    BY <2>1
  <2>2. CASE p # q
    BY <2>2 DEF RaceInv, QuietInv, Quiet, BelowSucceeded, Used
  <2>3. QED BY <2>1, <2>2
<1>2. QED BY <1>1, RaceInvHolds, PTL

(* The parent never tests a wstatus that waitpid has not set. *)
THEOREM NoUnsetWstatus == ASSUME FitsInt PROVE Spec => []WstatusIsSet
<1>1. RaceInv => WstatusIsSet
  BY DEF RaceInv, WaitInv, WaitingFor, WstatusIsSet, Side
<1>2. QED BY <1>1, RaceInvHolds, PTL

-----------------------------------------------------------------------------
(* Part 3: what is left in the file.                                       *)

-----------------------------------------------------------------------------
(* The inductive invariant.                                                *)

(* The indices b .. e-1 of the file are sorted. *)
InOrder(b, e) ==
  \A i, j \in Index : b <= i /\ i < j /\ j < e => key[arr[i]] <= key[arr[j]]
SortedRange(p) == InOrder(lo[p], hi[p])

(* The root has the whole file, and a child the outer end of its parent's  *)
(* range; the inner end is mid, by SplitInv.                               *)
ShareInv ==
  /\ lo[Root] = 0 /\ hi[Root] = N
  /\ \A p \in Path, s \in Side :
       Len(p) < MaxDepth /\ Used(Child(p, s)) =>
         IF s = "l" THEN lo[Child(p, s)] = lo[p] ELSE hi[Child(p, s)] = hi[p]

(* A process that has sorted its range leaves it sorted as long as its     *)
(* parent has not begun to write.                                          *)
Waits(p) == pc[p] \in {"fork_r", "wait_l", "wait_r", "check"}
ResultInv ==
  /\ \A p \in Path : pc[p] = "return" => SortedRange(p)
  /\ \A p \in Path, s \in Side :
       Waits(p) /\ Len(p) < MaxDepth /\ status[Child(p, s)] = 0 => SortedRange(Child(p, s))
  /\ status[Root] = 0 => SortedRange(Root)

(* What merge has taken from the two halves, and what is left of them. *)
Done(p) == {i \in Index : \/ lo[p] <= i /\ i < Left(p)
                          \/ Mid(p) <= i /\ i < Right(p)}
Todo(p) == {i \in Index : \/ Left(p) <= i /\ i < Mid(p)
                          \/ Right(p) <= i /\ i < hi[p]}
Position(p) == 1 .. Len(temparr[p])

SortedTemparr(p) ==
  \A k, l \in Position(p) : k < l => key[temparr[p][k]] <= key[temparr[p][l]]

Merging(p) ==
  /\ InOrder(lo[p], Mid(p)) /\ InOrder(Mid(p), hi[p])
  /\ \A k \in Position(p), i \in Todo(p) : key[temparr[p][k]] <= key[arr[i]]
  /\ SortedTemparr(p)
  /\ {temparr[p][k] : k \in Position(p)} = {arr[i] : i \in Done(p)}

Copying(p) ==
  /\ SortedTemparr(p)
  /\ {temparr[p][k] : k \in Position(p)} = Elements(p)

MergeInv ==
  \A p \in Path : /\ pc[p] = "merge" => Merging(p)
                  /\ pc[p] = "copy" => Copying(p)

OrderInv == ShareInv /\ ResultInv /\ MergeInv /\ DataKept

-----------------------------------------------------------------------------
(* Ranges that nobody writes to.                                           *)

(* A process that writes to the array stays out of the range of every      *)
(* process that is done with what is below it, unless it is above.         *)
LEMMA WriterApart ==
  ASSUME FitsInt, RaceInv, NEW q \in Path, pc[q] \in {"qsort", "copy"},
         NEW p \in Path, Used(p), p # q, Quiet(p), ~InSubtree(q, p)
  PROVE  hi[p] <= lo[q] \/ hi[q] <= lo[p]
<1> USE DEF RaceInv
<1>1. Used(q) /\ status[q] # 0
  BY DEF Used, StatusInv, Running
<1>2. ~InSubtree(p, q)
  BY <1>1 DEF QuietInv, BelowSucceeded
<1>3. QED BY <1>1, <1>2 DEF TreeInv, DisjointInv

(* q writes at most to its own range, and only in qsort and memcpy. *)
WritesOwn(q) ==
  /\ key' = key
  /\ \A i \in Index : (i \in Span(q) /\ pc[q] \in {"qsort", "copy"}) \/ arr'[i] = arr[i]

LEMMA RangeUntouched ==
  ASSUME FitsInt, RaceInv, NEW q \in Path, WritesOwn(q),
         NEW p \in Path, Used(p), p # q, Quiet(p), ~InSubtree(q, p)
  PROVE  \A i \in Index : lo[p] <= i /\ i < hi[p] => arr'[i] = arr[i]
<1> SUFFICES ASSUME NEW i \in Index, lo[p] <= i, i < hi[p], arr'[i] # arr[i]
             PROVE  FALSE
  OBVIOUS
<1>1. i \in Span(q) /\ pc[q] \in {"qsort", "copy"}
  BY DEF WritesOwn
<1>2. /\ lo[p] \in Nat /\ hi[p] \in Nat /\ lo[q] \in Nat /\ hi[q] \in Nat
      /\ Span(q) = lo[q] .. hi[q] - 1
  BY RangeFacts DEF RaceInv, TypeInv
<1>3. hi[p] <= lo[q] \/ hi[q] <= lo[p]
  BY <1>1, WriterApart
<1>4. QED BY <1>1, <1>2, <1>3

LEMMA RangeKept ==
  ASSUME TypeOK, NEW p \in Path, SortedRange(p), key' = key,
         lo'[p] = lo[p], hi'[p] = hi[p],
         \A i \in Index : lo[p] <= i /\ i < hi[p] => arr'[i] = arr[i]
  PROVE  SortedRange(p)'
<1>1. lo[p] \in Int /\ hi[p] \in Int /\ Index \subseteq Int
  BY ConstAssumption DEF TypeOK, Index
<1>2. \A i, j \in Index : lo[p] <= i /\ i < j /\ j < hi[p] =>
        /\ arr'[i] = arr[i] /\ arr'[j] = arr[j] /\ key[arr[i]] <= key[arr[j]]
  BY <1>1 DEF SortedRange, InOrder
<1>3. QED BY <1>2 DEF SortedRange, InOrder

(* A merge reads within the two halves. *)
LEMMA MergeCursors ==
  ASSUME FitsInt, TypeInv, NEW p \in Path, pc[p] = "merge"
  PROVE  Left(p) \in lo[p] .. Mid(p) /\ Right(p) \in Mid(p) .. hi[p]
<1> DEFINE n == Len(temparr[p])
<1>1. lo[p] \in Nat /\ hi[p] \in Nat /\ Mid(p) \in lo[p] .. hi[p]
  BY RangeFacts DEF TypeInv
<1>2. /\ n \in Nat /\ taken[p] \in Nat /\ taken[p] <= Mid(p) - lo[p]
      /\ n - taken[p] \in 0 .. hi[p] - Mid(p)
  BY DEF TypeInv, TypeOK, CursorInv
<1>3. Left(p) = lo[p] + taken[p] /\ Right(p) = Mid(p) + n - taken[p]
  BY DEF Left, Right
<1> HIDE DEF n
<1>4. QED BY <1>1, <1>2, <1>3

(* The merge of p does not change while nothing it has read does. *)
LEMMA MergeKept ==
  ASSUME FitsInt, RaceInv, NEW p \in Path, key' = key,
         lo'[p] = lo[p], hi'[p] = hi[p], temparr'[p] = temparr[p], taken'[p] = taken[p],
         \A i \in Index : lo[p] <= i /\ i < hi[p] => arr'[i] = arr[i]
  PROVE  /\ pc[p] = "merge" /\ Merging(p) => Merging(p)'
         /\ Copying(p) => Copying(p)'
<1>1. /\ lo[p] \in Nat /\ hi[p] \in Nat /\ Mid(p) \in lo[p] .. hi[p]
      /\ Span(p) = lo[p] .. hi[p] - 1 /\ Span(p) \subseteq Index /\ Index \subseteq Int
  BY RangeFacts, ConstAssumption DEF Index, RaceInv, TypeInv
<1>2. Mid(p)' = Mid(p) /\ Left(p)' = Left(p) /\ Right(p)' = Right(p) /\ Span(p)' = Span(p)
  BY DEF Mid, Left, Right, Span, NumElements
<1>3. Position(p)' = Position(p) /\ Done(p)' = Done(p) /\ Todo(p)' = Todo(p)
  BY <1>2 DEF Position, Done, Todo
<1>4. SortedTemparr(p) => SortedTemparr(p)'
  BY <1>3 DEF SortedTemparr
<1>5. ASSUME Copying(p) PROVE Copying(p)'
  <2>1. \A i \in Span(p) : arr'[i] = arr[i]
    BY <1>1
  <2>2. Elements(p)' = Elements(p)
    BY <1>2, <2>1 DEF Elements
  <2>3. QED BY <1>3, <1>4, <1>5, <2>2 DEF Copying
<1>6. ASSUME pc[p] = "merge", Merging(p) PROVE Merging(p)'
  <2>1. Left(p) \in lo[p] .. Mid(p) /\ Right(p) \in Mid(p) .. hi[p]
    BY <1>6, MergeCursors DEF RaceInv, TypeInv
  <2>2. \A i \in Todo(p) \union Done(p) : i \in Index /\ lo[p] <= i /\ i < hi[p]
    <3>1. \A i \in Todo(p) : i \in Index /\ lo[p] <= i /\ i < hi[p]
      BY <1>1, <2>1 DEF Todo
    <3>2. \A i \in Done(p) : i \in Index /\ lo[p] <= i /\ i < hi[p]
      BY <1>1, <2>1 DEF Done
    <3>3. QED BY <3>1, <3>2
  <2>3. \A i \in Todo(p) \union Done(p) : i \in Index /\ arr'[i] = arr[i]
    BY <2>2
  <2>4. InOrder(lo[p], Mid(p))' /\ InOrder(Mid(p), hi[p])'
    <3>1. InOrder(lo[p], Mid(p)) /\ InOrder(Mid(p), hi[p])
      BY <1>6 DEF Merging
    <3>2. \A i, j \in Index : lo[p] <= i /\ i < j /\ j < Mid(p) =>
            arr'[i] = arr[i] /\ arr'[j] = arr[j] /\ key[arr[i]] <= key[arr[j]]
      <4> SUFFICES ASSUME NEW i \in Index, NEW j \in Index,
                          lo[p] <= i, i < j, j < Mid(p)
                   PROVE  arr'[i] = arr[i] /\ arr'[j] = arr[j] /\ key[arr[i]] <= key[arr[j]]
        OBVIOUS
      <4>1. lo[p] <= j /\ j < hi[p] /\ i < hi[p]
        BY <1>1
      <4>2. QED BY <3>1, <4>1 DEF InOrder
    <3>3. \A i, j \in Index : Mid(p) <= i /\ i < j /\ j < hi[p] =>
            arr'[i] = arr[i] /\ arr'[j] = arr[j] /\ key[arr[i]] <= key[arr[j]]
      <4> SUFFICES ASSUME NEW i \in Index, NEW j \in Index,
                          Mid(p) <= i, i < j, j < hi[p]
                   PROVE  arr'[i] = arr[i] /\ arr'[j] = arr[j] /\ key[arr[i]] <= key[arr[j]]
        OBVIOUS
      <4>1. lo[p] <= i /\ lo[p] <= j /\ i < hi[p]
        BY <1>1
      <4>2. QED BY <3>1, <4>1 DEF InOrder
    <3>4. QED BY <1>2, <3>2, <3>3 DEF InOrder
  <2>5. (\A k \in Position(p), i \in Todo(p) : key[temparr[p][k]] <= key[arr[i]])'
    BY <1>3, <1>6, <2>3 DEF Merging
  <2>6. {arr[i] : i \in Done(p)}' = {arr[i] : i \in Done(p)}
    BY <1>3, <2>3
  <2>7. {temparr[p][k] : k \in Position(p)}' = {temparr[p][k] : k \in Position(p)}
    BY <1>3
  <2>8. QED BY <1>4, <1>6, <2>4, <2>5, <2>6, <2>7 DEF Merging
<1>7. QED BY <1>5, <1>6

-----------------------------------------------------------------------------
(* A step that forks nothing, seen from the other processes.               *)

(* No element is lost: no process has ended by a signal so far unless this *)
(* step ends q by one.                                                     *)
KeepsElements(q) ==
  status'[q] = Killed \/ {arr'[i] : i \in Index} = {arr[i] : i \in Index}

LEMMA DataMove ==
  ASSUME RaceInv, DataKept, NEW q, NEW label, MovesTo(q, label), StatusFits(q, label),
         KeepsElements(q)
  PROVE  DataKept'
<1> SUFFICES ASSUME \A p \in Path : status'[p] # Killed PROVE IsPermuted'
  BY DEF DataKept
<1> USE DEF RaceInv, TypeInv
<1>1. q \in Path /\ status[q] = Running
  BY DEF MovesTo, StatusInv
<1>2. \A p \in Path : status[p] # Killed
  BY <1>1, StatusMove DEF Running, Killed
<1>3. {arr[i] : i \in Index} = Index
  BY <1>2 DEF DataKept, IsPermuted
<1>4. {arr'[i] : i \in Index} = Index
  BY <1>1, <1>3 DEF KeepsElements
<1>5. QED BY <1>4 DEF IsPermuted

LEMMA ResultMove ==
  ASSUME FitsInt, RaceInv, ResultInv, NEW q, NEW label,
         MovesTo(q, label), StatusFits(q, label), WritesOwn(q),
         label \in {"fork_r", "wait_l", "wait_r", "check"} => Waits(q),
         status'[q] = 0 => pc[q] = "return",
         label = "return" => SortedRange(q)'
  PROVE  ResultInv'
<1> USE DEF RaceInv, TypeInv
<1>1. /\ q \in Path /\ pc'[q] = label /\ lo' = lo /\ hi' = hi /\ key' = key
      /\ \A p \in Path : p # q => pc'[p] = pc[p] /\ status'[p] = status[p]
  <2>1. q \in Path /\ lo' = lo /\ hi' = hi /\ key' = key
    BY DEF MovesTo, WritesOwn
  <2>2. pc'[q] = label /\ \A p \in Path : p # q => pc'[p] = pc[p]
    BY MovedPc
  <2>3. \A p \in Path : p # q => status'[p] = status[p]
    BY StatusMove
  <2>4. QED BY <2>1, <2>2, <2>3
<1>2. pc[q] \notin {"unused", "dead"} /\ status[q] = Running
  BY DEF MovesTo, StatusInv
<1>3. pc[q] = "return" => SortedRange(q)'
  <2>1. SUFFICES ASSUME pc[q] = "return" PROVE SortedRange(q)'
    OBVIOUS
  <2>2. \A i \in Index : arr'[i] = arr[i]
    BY <2>1 DEF WritesOwn
  <2>3. QED BY <1>1, <2>1, <2>2, RangeKept DEF ResultInv
<1>4. ASSUME NEW p \in Path, p # q, pc[p] = "return" PROVE SortedRange(p)'
  <2>1. Used(p) /\ Quiet(p) /\ status[p] # 0
    BY <1>4 DEF Used, Quiet, StatusInv, Running
  <2>2. CASE pc[q] \in {"qsort", "copy"}
    <3>1. ~InSubtree(q, p)
      BY <1>1, <1>4, <2>1, <2>2 DEF QuietInv, BelowSucceeded, Quiet
    <3>2. QED BY <1>1, <1>4, <2>1, <3>1, RangeUntouched, RangeKept DEF ResultInv
  <2>3. CASE pc[q] \notin {"qsort", "copy"}
    BY <1>1, <1>4, <2>3, RangeKept DEF ResultInv, WritesOwn
  <2>4. QED BY <2>2, <2>3
<1>5. ASSUME NEW p \in Path, NEW s \in Side, Waits(p)', Len(p) < MaxDepth,
             status'[Child(p, s)] = 0
      PROVE  SortedRange(Child(p, s))'
  <2> DEFINE c == Child(p, s)
  <2>1. c \in Path /\ c # p
    BY <1>5, ChildIsPath
  <2>2. Waits(p)
    BY <1>1, <1>5 DEF Waits
  <2>3. CASE c = q
    BY <1>3, <1>5, <2>3
  <2>4. CASE c # q
    <3>1. status[c] = 0
      BY <1>1, <1>5, <2>1, <2>4
    <3>2. SortedRange(c) /\ Quiet(c) /\ Used(c)
      BY <1>5, <2>1, <2>2, <3>1 DEF ResultInv, Quiet, Used, StatusInv, Running
    <3>3. CASE pc[q] \in {"qsort", "copy"}
      <4>1. ~InSubtree(q, p)
        <5>1. p # q /\ Used(p) /\ status[p] # 0
          BY <2>2, <3>3 DEF Waits, Used, StatusInv, Running
        <5>2. QED BY <1>1, <3>3, <5>1 DEF QuietInv, BelowSucceeded, Quiet
      <4>2. ~InSubtree(q, c)
        BY <1>1, <1>5, <2>4, <4>1, AboveChild
      <4>3. QED BY <1>1, <2>1, <2>4, <3>2, <4>2, RangeUntouched, RangeKept
    <3>4. CASE pc[q] \notin {"qsort", "copy"}
      BY <1>1, <2>1, <3>2, <3>4, RangeKept DEF WritesOwn
    <3>5. QED BY <3>3, <3>4
  <2>5. QED BY <2>3, <2>4
<1>6. ASSUME status'[Root] = 0 PROVE SortedRange(Root)'
  <2>1. CASE q = Root
    BY <1>3, <1>6, <2>1
  <2>2. CASE q # Root
    <3>1. status[Root] = 0 /\ Used(q)
      BY <1>1, <1>2, <1>6, <2>2, RootIsPath DEF Used
    <3>2. status[q] = 0
      BY <1>1, <2>2, <3>1, RootAbove, RootIsPath DEF QuietInv, Quiet, BelowSucceeded
    <3>3. QED BY <1>2, <3>2 DEF Running
  <2>3. QED BY <2>1, <2>2
<1>7. ASSUME NEW p \in Path, pc'[p] = "return" PROVE SortedRange(p)'
  <2>1. CASE p = q
    BY <1>1, <1>7, <2>1
  <2>2. CASE p # q
    BY <1>1, <1>4, <1>7, <2>2
  <2>3. QED BY <2>1, <2>2
<1>8. QED BY <1>5, <1>6, <1>7 DEF ResultInv

LEMMA MergeMove ==
  ASSUME FitsInt, RaceInv, MergeInv, NEW q, NEW label,
         MovesTo(q, label), WritesOwn(q),
         \A p \in Path : p # q => temparr'[p] = temparr[p] /\ taken'[p] = taken[p],
         label = "merge" => Merging(q)',
         label = "copy" => Copying(q)'
  PROVE  MergeInv'
<1> USE DEF RaceInv, TypeInv
<1> SUFFICES ASSUME NEW p \in Path
             PROVE  /\ pc'[p] = "merge" => Merging(p)'
                    /\ pc'[p] = "copy" => Copying(p)'
  BY DEF MergeInv
<1>1. CASE p = q
  BY <1>1, MovedPc
<1>2. CASE p # q
  <2>1. /\ q \in Path /\ lo' = lo /\ hi' = hi /\ key' = key /\ pc'[p] = pc[p]
    BY <1>2, MovedPc DEF MovesTo, WritesOwn
  <2>2. SUFFICES ASSUME pc[p] \in {"merge", "copy"}
                 PROVE  \A i \in Index : lo[p] <= i /\ i < hi[p] => arr'[i] = arr[i]
    BY <1>2, <2>1, MergeKept DEF MergeInv
  <2>3. Used(p) /\ Quiet(p) /\ status[p] # 0
    BY <2>2 DEF Used, Quiet, StatusInv, Running
  <2>4. CASE pc[q] \in {"qsort", "copy"}
    <3>1. ~InSubtree(q, p)
      BY <1>2, <2>1, <2>3, <2>4 DEF QuietInv, BelowSucceeded, Quiet
    <3>2. QED BY <1>2, <2>1, <2>3, <3>1, RangeUntouched
  <2>5. CASE pc[q] \notin {"qsort", "copy"}
    BY <2>5 DEF WritesOwn
  <2>6. QED BY <2>4, <2>5
<1>3. QED BY <1>1, <1>2

(* All a step that forks nothing has to show. *)
OrderStep(q, label) ==
  /\ MovesTo(q, label) /\ StatusFits(q, label) /\ WritesOwn(q) /\ KeepsElements(q)
  /\ \A p \in Path : p # q => temparr'[p] = temparr[p] /\ taken'[p] = taken[p]
  /\ label \in {"fork_r", "wait_l", "wait_r", "check"} => Waits(q)
  /\ status'[q] = 0 => pc[q] = "return"

LEMMA OrderMove ==
  ASSUME FitsInt, RaceInv, OrderInv, NEW q, NEW label, OrderStep(q, label),
         label = "return" => SortedRange(q)',
         label = "merge" => Merging(q)',
         label = "copy" => Copying(q)'
  PROVE  OrderInv'
<1>1. ResultInv'
  BY ResultMove DEF OrderInv, OrderStep
<1>2. MergeInv'
  BY MergeMove DEF OrderInv, OrderStep
<1>3. DataKept'
  BY DataMove DEF OrderInv, OrderStep
<1>4. ShareInv'
  <2>1. lo' = lo /\ hi' = hi /\ \A p \in Path : Used(p)' <=> Used(p)
    <3>1. TypeOK /\ MovesTo(q, label)
      BY DEF RaceInv, TypeInv, OrderStep
    <3>2. \A p \in Path : Used(p)' <=> Used(p)
      BY <3>1, MovedPc
    <3>3. QED BY <3>1, <3>2 DEF MovesTo
  <2>2. QED BY <2>1, ChildIsPath DEF OrderInv, ShareInv
<1>5. QED BY <1>1, <1>2, <1>3, <1>4 DEF OrderInv

LEMMA ForkOrder ==
  ASSUME FitsInt, RaceInv, OrderInv, NEW p, NEW s, NEW label, NEW b, NEW e,
         Forks(p, s, label, b, e), UnchangedData
  PROVE  OrderInv'
<1> DEFINE c == Child(p, s)
<1> USE ForkEffect DEF RaceInv, TypeInv, OrderInv
<1>1. key' = key /\ arr' = arr /\ temparr' = temparr /\ taken' = taken
  BY DEF UnchangedData
<1>2. ASSUME NEW q \in Path, q # c, SortedRange(q) PROVE SortedRange(q)'
  BY <1>1, <1>2, RangeKept
<1>3. ResultInv'
  <2>1. ASSUME NEW q \in Path, pc'[q] = "return" PROVE SortedRange(q)'
    <3>1. q # p /\ q # c
      BY <2>1 DEF Forks
    <3>2. QED BY <1>2, <2>1, <3>1 DEF ResultInv
  <2>2. ASSUME NEW q \in Path, NEW t \in Side, Waits(q)', Len(q) < MaxDepth,
               status'[Child(q, t)] = 0
        PROVE  SortedRange(Child(q, t))'
    <3>1. Child(q, t) \in Path /\ pc[Child(q, t)] = "dead"
      BY <2>2, ChildIsPath DEF StatusInv, Running
    <3>2. Child(q, t) # c
      BY <3>1 DEF Used
    <3>3. HasForked(pc[q], t)
      BY <2>2, <3>1 DEF FreshInv
    <3>4. Waits(q)
      <4>1. CASE q = p
        BY <3>3, <4>1 DEF Waits, HasForked, Early, Forks
      <4>2. CASE q = c
        BY <2>2, <4>2 DEF Waits
      <4>3. CASE q # p /\ q # c
        BY <2>2, <4>3 DEF Waits
      <4>4. QED BY <4>1, <4>2, <4>3
    <3>5. QED BY <1>2, <2>2, <3>1, <3>2, <3>4 DEF ResultInv
  <2>3. status'[Root] = 0 => SortedRange(Root)'
    <3>1. SUFFICES ASSUME status[Root] = 0 PROVE SortedRange(Root)'
      OBVIOUS
    <3>2. Root # c
      BY <3>1, RootIsPath DEF StatusInv, Running, Used
    <3>3. QED BY <1>2, <3>1, <3>2, RootIsPath DEF ResultInv
  <2>4. QED BY <2>1, <2>2, <2>3 DEF ResultInv
<1>4. MergeInv'
  <2> SUFFICES ASSUME NEW q \in Path, pc'[q] \in {"merge", "copy"}
               PROVE  /\ pc'[q] = "merge" => Merging(q)'
                      /\ pc'[q] = "copy" => Copying(q)'
    BY DEF MergeInv
  <2>1. q # p /\ q # c /\ pc'[q] = pc[q]
    BY DEF Forks
  <2>2. QED BY <1>1, <2>1, MergeKept DEF MergeInv
<1>5. DataKept'
  BY <1>1 DEF DataKept, IsPermuted
<1>6. ShareInv'
  <2>1. lo'[Root] = 0 /\ hi'[Root] = N
    <3>1. Root # c
      BY RootIsPath, ChildIsPath, PathFacts DEF Forks
    <3>2. QED BY <3>1, RootIsPath DEF ShareInv
  <2>2. ASSUME NEW q \in Path, NEW t \in Side, Len(q) < MaxDepth, Used(Child(q, t))'
        PROVE  IF t = "l" THEN lo'[Child(q, t)] = lo'[q] ELSE hi'[Child(q, t)] = hi'[q]
    <3>1. Child(q, t) \in Path
      BY <2>2, ChildIsPath
    <3>2. CASE Child(q, t) = c
      <4>1. q = p /\ t = s
        BY <3>2, ChildInjective DEF Forks
      <4>2. QED BY <4>1 DEF Forks, HalfOf
    <3>3. CASE Child(q, t) # c
      <4>1. Used(Child(q, t))
        BY <2>2, <3>1, <3>3
      <4>2. HasForked(pc[q], t)
        BY <2>2, <4>1 DEF FreshInv, Used
      <4>3. q # c
        BY <4>2 DEF HasForked, Early, Used
      <4>4. QED BY <2>2, <3>1, <3>3, <4>1, <4>3 DEF ShareInv
    <3>4. QED BY <3>2, <3>3
  <2>3. QED BY <2>1, <2>2 DEF ShareInv
<1>7. QED BY <1>3, <1>4, <1>5, <1>6

-----------------------------------------------------------------------------
(* The loop of merge.                                                      *)

(* What one more element does to the cursors. *)
LEMMA CursorsMove ==
  ASSUME FitsInt, TypeInv, NEW p \in Path, pc[p] = "merge",
         NEW v \in Index, NEW d \in {0, 1},
         temparr' = [temparr EXCEPT ![p] = Append(@, v)],
         taken' = [taken EXCEPT ![p] = @ + d], UNCHANGED <<lo, hi>>
  PROVE  /\ Mid(p)' = Mid(p) /\ Left(p)' = Left(p) + d
         /\ Right(p)' = Right(p) + 1 - d
         /\ Len(temparr'[p]) = Len(temparr[p]) + 1
         /\ temparr'[p][Len(temparr[p]) + 1] = v
         /\ \A k \in Position(p) : temparr'[p][k] = temparr[p][k]
<1> USE DEF TypeInv
<1>n. PICK n \in Nat : n = Len(temparr[p])
  BY DEF TypeOK
<1>1. temparr[p] \in Seq(Index) /\ taken[p] \in Nat
  BY DEF TypeOK
<1>2. temparr'[p] = Append(temparr[p], v) /\ taken'[p] = taken[p] + d
  BY DEF TypeOK
<1>3. /\ Len(temparr'[p]) = n + 1 /\ temparr'[p][n + 1] = v
      /\ \A k \in 1 .. n : temparr'[p][k] = temparr[p][k]
  BY <1>n, <1>1, <1>2, AppendProperties
<1>4. Mid(p)' = Mid(p)
  BY DEF Mid, NumElements
<1>5. Left(p)' = lo[p] + taken[p] + d
  BY <1>1, <1>2, RangeFacts DEF Left
<1>6. Right(p)' = Mid(p) + (n + 1) - (taken[p] + d)
  BY <1>2, <1>3, <1>4 DEF Right
<1>7. Left(p) = lo[p] + taken[p] /\ Right(p) = Mid(p) + n - taken[p]
  BY <1>n DEF Left, Right
<1>8. lo[p] \in Int /\ Mid(p) \in Int
  BY RangeFacts
<1>9. Left(p)' = Left(p) + d /\ Right(p)' = Right(p) + 1 - d
  <2>1. d \in Int
    OBVIOUS
  <2>2. Left(p)' = Left(p) + d
    BY <2>1, <1>1, <1>5, <1>7, <1>8
  <2>3. Mid(p) + (n + 1) - (taken[p] + d) = (Mid(p) + n - taken[p]) + 1 - d
    <3>1. PICK m \in Int, t \in Int : m = Mid(p) /\ t = taken[p]
      BY <1>1, <1>8
    <3>2. m + (n + 1) - (t + d) = (m + n - t) + 1 - d
      BY <2>1
    <3>3. QED BY <3>1, <3>2
  <2>4. Right(p)' = Right(p) + 1 - d
    BY <2>3, <1>6, <1>7
  <2>5. QED BY <2>2, <2>4
<1>10. \A k \in Position(p) : temparr'[p][k] = temparr[p][k]
  BY <1>n, <1>3 DEF Position
<1>11. QED BY <1>n, <1>3, <1>4, <1>9, <1>10

(* An element that no remaining one is below may go to temparr next. *)
LEMMA MergeOn ==
  ASSUME FitsInt, RaceInv, NEW p \in Path, pc[p] = "merge", Merging(p),
         NEW x \in Todo(p), \A i \in Todo(p) : key[arr[x]] <= key[arr[i]],
         Len(temparr'[p]) = Len(temparr[p]) + 1,
         temparr'[p][Len(temparr[p]) + 1] = arr[x],
         \A k \in Position(p) : temparr'[p][k] = temparr[p][k],
         UNCHANGED <<key, arr, lo, hi>>, Mid(p)' = Mid(p),
         Todo(p)' \subseteq Todo(p), Done(p)' = Done(p) \union {x}
  PROVE  Merging(p)'
<1> DEFINE n == Len(temparr[p])
<1>1. n \in Nat /\ Position(p) = 1 .. n /\ Position(p)' = 1 .. n + 1
  BY DEF RaceInv, TypeInv, TypeOK, Position
<1>2. /\ temparr'[p][n + 1] = arr[x]
      /\ \A k \in 1 .. n : temparr'[p][k] = temparr[p][k]
  BY <1>1
<1>3. /\ \A k \in 1 .. n, i \in Todo(p) : key[temparr[p][k]] <= key[arr[i]]
      /\ \A k, l \in 1 .. n : k < l => key[temparr[p][k]] <= key[temparr[p][l]]
      /\ {temparr[p][k] : k \in 1 .. n} = {arr[i] : i \in Done(p)}
  BY <1>1 DEF Merging, SortedTemparr
<1> HIDE DEF n
<1>4. \A k \in 1 .. n + 1 : k \in 1 .. n \/ k = n + 1
  BY <1>1
<1>5. ASSUME NEW k \in 1 .. n + 1, NEW i \in Todo(p)'
      PROVE  key[temparr'[p][k]] <= key[arr[i]]
  BY <1>2, <1>3, <1>4
<1>6. ASSUME NEW k \in 1 .. n + 1, NEW l \in 1 .. n + 1, k < l
      PROVE  key[temparr'[p][k]] <= key[temparr'[p][l]]
  <2>1. k \in 1 .. n
    BY <1>1, <1>6
  <2>2. CASE l \in 1 .. n
    BY <1>2, <1>3, <1>6, <2>1, <2>2
  <2>3. CASE l = n + 1
    BY <1>2, <1>3, <2>1, <2>3
  <2>4. QED BY <1>4, <2>2, <2>3
<1>7. {temparr'[p][k] : k \in 1 .. n + 1} = {arr[i] : i \in Done(p)'}
  <2>1. {temparr'[p][k] : k \in 1 .. n + 1} = {temparr'[p][k] : k \in 1 .. n} \union {arr[x]}
    BY <1>1, <1>2, <1>4
  <2>2. {temparr'[p][k] : k \in 1 .. n} = {temparr[p][k] : k \in 1 .. n}
    BY <1>2
  <2>3. {arr[i] : i \in Done(p)'} = {arr[i] : i \in Done(p)} \union {arr[x]}
    OBVIOUS
  <2>4. QED BY <1>3, <2>1, <2>2, <2>3
<1>8. InOrder(lo[p], Mid(p))' /\ InOrder(Mid(p), hi[p])'
  BY DEF Merging, InOrder
<1>9. SortedTemparr(p)'
  BY <1>1, <1>6 DEF SortedTemparr
<1>10. (\A k \in Position(p), i \in Todo(p) : key[temparr[p][k]] <= key[arr[i]])'
  BY <1>1, <1>5
<1>11. ({temparr[p][k] : k \in Position(p)} = {arr[i] : i \in Done(p)})'
  BY <1>1, <1>7
<1>12. QED BY <1>8, <1>9, <1>10, <1>11 DEF Merging

LEMMA KeyIsInt ==
  ASSUME TypeOK, NEW i \in Index
  PROVE  key[arr[i]] \in Int
BY ConstAssumption DEF TypeOK

LEMMA TakeLeftOrder ==
  ASSUME FitsInt, RaceInv, NEW p \in Path, pc[p] = "merge", Merging(p), TakeLeft(p),
         UNCHANGED <<key, arr, lo, hi>>
  PROVE  Merging(p)'
<1> DEFINE x == Left(p)
<1> USE DEF RaceInv, TypeInv
<1>1. /\ lo[p] \in Nat /\ hi[p] \in Nat /\ hi[p] <= N /\ Mid(p) \in lo[p] .. hi[p]
      /\ x \in lo[p] .. Mid(p) /\ Right(p) \in Mid(p) .. hi[p]
  BY RangeFacts, MergeCursors
<1>2. x < Mid(p) /\ x \in Index /\ x \in Todo(p)
  BY <1>1, ConstAssumption DEF TakeLeft, AtEndL, Index, Todo
<1>3. arr[x] \in Index
  BY <1>2 DEF TypeOK
<1>4. /\ temparr' = [temparr EXCEPT ![p] = Append(@, arr[x])]
      /\ taken' = [taken EXCEPT ![p] = @ + 1] /\ UNCHANGED <<lo, hi>>
  BY DEF TakeLeft
<1>5. /\ Mid(p)' = Mid(p) /\ Left(p)' = x + 1 /\ Right(p)' = Right(p)
      /\ Len(temparr'[p]) = Len(temparr[p]) + 1
      /\ temparr'[p][Len(temparr[p]) + 1] = arr[x]
      /\ \A k \in Position(p) : temparr'[p][k] = temparr[p][k]
  <2>1. /\ Mid(p)' = Mid(p) /\ Left(p)' = x + 1 /\ Right(p)' = Right(p) + 1 - 1
        /\ Len(temparr'[p]) = Len(temparr[p]) + 1
        /\ temparr'[p][Len(temparr[p]) + 1] = arr[x]
        /\ \A k \in Position(p) : temparr'[p][k] = temparr[p][k]
    BY <1>3, <1>4, CursorsMove
  <2>2. QED BY <1>1, <2>1
<1>6. \A i \in Todo(p) : key[arr[x]] <= key[arr[i]]
  <2> SUFFICES ASSUME NEW i \in Todo(p) PROVE key[arr[x]] <= key[arr[i]]
    OBVIOUS
  <2>1. i \in Index /\ i \in Int /\ Index \subseteq Int
    BY ConstAssumption DEF Todo, Index
  <2>2. CASE i < Mid(p)
    <3>1. i = x \/ x < i
      BY <1>1, <2>1, <2>2 DEF Todo
    <3>2. QED BY <1>1, <1>2, <2>1, <2>2, <3>1, KeyIsInt DEF Merging, InOrder
  <2>3. CASE i >= Mid(p)
    <3>1. Right(p) <= i /\ i < hi[p]
      BY <1>1, <2>1, <2>3 DEF Todo
    <3>2. ~AtEndR(p) /\ Right(p) \in Index
      BY <1>1, <2>1, <3>1, ConstAssumption DEF AtEndR, Index
    <3>3. key[arr[x]] <= key[arr[Right(p)]]
      BY <1>2, <3>2, KeyIsInt DEF TakeLeft, Cmp, Compare
    <3>4. i = Right(p) \/ Right(p) < i
      BY <1>1, <2>1, <3>1
    <3>5. key[arr[Right(p)]] <= key[arr[i]]
      BY <1>1, <2>1, <3>1, <3>2, <3>4, KeyIsInt DEF Merging, InOrder
    <3>6. key[arr[x]] \in Int /\ key[arr[i]] \in Int
      BY <1>2, <2>1, KeyIsInt
    <3>7. key[arr[Right(p)]] \in Int
      BY <3>2, KeyIsInt
    <3>8. QED BY <3>3, <3>5, <3>6, <3>7
  <2>4. QED BY <1>1, <2>1, <2>2, <2>3
<1>7. Todo(p)' \subseteq Todo(p) /\ Done(p)' = Done(p) \union {x}
  <2>1. Index \subseteq Int /\ lo'[p] = lo[p] /\ hi'[p] = hi[p]
    BY ConstAssumption DEF Index
  <2>2. \A i : i \in Todo(p)' <=> i \in Index /\ ((x + 1 <= i /\ i < Mid(p)) \/ (Right(p) <= i /\ i < hi[p]))
    BY <1>5, <2>1 DEF Todo
  <2>3. \A i : i \in Done(p)' <=> i \in Index /\ ((lo[p] <= i /\ i < x + 1) \/ (Mid(p) <= i /\ i < Right(p)))
    BY <1>5, <2>1 DEF Done
  <2>4. \A i \in Index : x + 1 <= i <=> x <= i /\ i # x
    BY <1>1, <2>1
  <2>5. \A i \in Index : i < x + 1 <=> i < x \/ i = x
    BY <1>1, <2>1
  <2>6. Todo(p)' \subseteq Todo(p)
    BY <2>2, <2>4 DEF Todo
  <2>7. \A i : i \in Done(p) <=> i \in Index /\ ((lo[p] <= i /\ i < x) \/ (Mid(p) <= i /\ i < Right(p)))
    BY DEF Done
  <2>8. x \in Index /\ lo[p] <= x
    BY <1>1, <1>2
  <2>9. \A i : i \in Done(p)' <=> i \in Done(p) \/ i = x
    BY <2>3, <2>5, <2>7, <2>8
  <2>10. Done(p)' = Done(p) \union {x}
    BY <2>9
  <2>11. QED BY <2>6, <2>10
<1>8. QED BY <1>2, <1>5, <1>6, <1>7, MergeOn

LEMMA TakeRightOrder ==
  ASSUME FitsInt, RaceInv, NEW p \in Path, pc[p] = "merge", Merging(p), TakeRight(p),
         UNCHANGED <<key, arr, lo, hi>>
  PROVE  Merging(p)'
<1> DEFINE x == Right(p)
<1> USE DEF RaceInv, TypeInv
<1>1. /\ lo[p] \in Nat /\ hi[p] \in Nat /\ hi[p] <= N /\ Mid(p) \in lo[p] .. hi[p]
      /\ Left(p) \in lo[p] .. Mid(p) /\ x \in Mid(p) .. hi[p]
  BY RangeFacts, MergeCursors
<1>2. x < hi[p] /\ x \in Index /\ x \in Todo(p)
  BY <1>1, ConstAssumption DEF TakeRight, AtEndR, Index, Todo
<1>3. arr[x] \in Index
  BY <1>2 DEF TypeOK
<1>4. /\ temparr' = [temparr EXCEPT ![p] = Append(@, arr[x])]
      /\ taken' = [taken EXCEPT ![p] = @ + 0] /\ UNCHANGED <<lo, hi>>
  BY DEF TakeRight, TypeOK
<1>5. /\ Mid(p)' = Mid(p) /\ Left(p)' = Left(p) /\ Right(p)' = x + 1
      /\ Len(temparr'[p]) = Len(temparr[p]) + 1
      /\ temparr'[p][Len(temparr[p]) + 1] = arr[x]
      /\ \A k \in Position(p) : temparr'[p][k] = temparr[p][k]
  <2>1. /\ Mid(p)' = Mid(p) /\ Left(p)' = Left(p) + 0 /\ Right(p)' = x + 1 - 0
        /\ Len(temparr'[p]) = Len(temparr[p]) + 1
        /\ temparr'[p][Len(temparr[p]) + 1] = arr[x]
        /\ \A k \in Position(p) : temparr'[p][k] = temparr[p][k]
    BY <1>3, <1>4, CursorsMove
  <2>2. QED BY <1>1, <2>1
<1>6. \A i \in Todo(p) : key[arr[x]] <= key[arr[i]]
  <2> SUFFICES ASSUME NEW i \in Todo(p) PROVE key[arr[x]] <= key[arr[i]]
    OBVIOUS
  <2>1. i \in Index /\ i \in Int /\ Index \subseteq Int
    BY ConstAssumption DEF Todo, Index
  <2>2. CASE i >= Mid(p)
    <3>1. (i = x \/ x < i) /\ i < hi[p]
      BY <1>1, <2>1, <2>2 DEF Todo
    <3>2. QED BY <1>1, <1>2, <2>1, <2>2, <3>1, KeyIsInt DEF Merging, InOrder
  <2>3. CASE i < Mid(p)
    <3>1. Left(p) <= i
      BY <1>1, <2>1, <2>3 DEF Todo
    <3>2. ~AtEndL(p) /\ Left(p) \in Index
      BY <1>1, <2>1, <2>3, <3>1, ConstAssumption DEF AtEndL, Index
    <3>3. key[arr[x]] <= key[arr[Left(p)]]
      BY <1>2, <3>2, KeyIsInt DEF TakeRight, Cmp, Compare
    <3>4. i = Left(p) \/ Left(p) < i
      BY <1>1, <2>1, <3>1
    <3>5. key[arr[Left(p)]] <= key[arr[i]]
      BY <1>1, <2>1, <2>3, <3>1, <3>2, <3>4, KeyIsInt DEF Merging, InOrder
    <3>6. key[arr[x]] \in Int /\ key[arr[i]] \in Int
      BY <1>2, <2>1, KeyIsInt
    <3>7. key[arr[Left(p)]] \in Int
      BY <3>2, KeyIsInt
    <3>8. QED BY <3>3, <3>5, <3>6, <3>7
  <2>4. QED BY <1>1, <2>1, <2>2, <2>3
<1>7. Todo(p)' \subseteq Todo(p) /\ Done(p)' = Done(p) \union {x}
  <2>1. Index \subseteq Int /\ lo'[p] = lo[p] /\ hi'[p] = hi[p]
    BY ConstAssumption DEF Index
  <2>2. \A i : i \in Todo(p)' <=> i \in Index /\ ((Left(p) <= i /\ i < Mid(p)) \/ (x + 1 <= i /\ i < hi[p]))
    BY <1>5, <2>1 DEF Todo
  <2>3. \A i : i \in Done(p)' <=> i \in Index /\ ((lo[p] <= i /\ i < Left(p)) \/ (Mid(p) <= i /\ i < x + 1))
    BY <1>5, <2>1 DEF Done
  <2>4. \A i \in Index : x + 1 <= i <=> x <= i /\ i # x
    BY <1>1, <2>1
  <2>5. \A i \in Index : i < x + 1 <=> i < x \/ i = x
    BY <1>1, <2>1
  <2>6. Todo(p)' \subseteq Todo(p)
    BY <2>2, <2>4 DEF Todo
  <2>7. \A i : i \in Done(p) <=> i \in Index /\ ((lo[p] <= i /\ i < Left(p)) \/ (Mid(p) <= i /\ i < x))
    BY DEF Done
  <2>8. x \in Index /\ Mid(p) <= x
    BY <1>1, <1>2
  <2>9. \A i : i \in Done(p)' <=> i \in Done(p) \/ i = x
    BY <2>3, <2>5, <2>7, <2>8
  <2>10. Done(p)' = Done(p) \union {x}
    BY <2>9
  <2>11. QED BY <2>6, <2>10
<1>8. QED BY <1>2, <1>5, <1>6, <1>7, MergeOn

(* When both halves are used up, temparr holds the range of p. *)
LEMMA MergeEndsOrder ==
  ASSUME FitsInt, RaceInv, NEW p \in Path, pc[p] = "merge", Merging(p), MergeEnds(p),
         UNCHANGED <<key, arr, lo, hi>>
  PROVE  Copying(p)'
<1> USE DEF RaceInv, TypeInv
<1>1. /\ lo[p] \in Nat /\ hi[p] \in Nat /\ hi[p] <= N /\ Mid(p) \in lo[p] .. hi[p]
      /\ Left(p) \in lo[p] .. Mid(p) /\ Right(p) \in Mid(p) .. hi[p]
      /\ Span(p) = lo[p] .. hi[p] - 1
  BY RangeFacts, MergeCursors
<1>2. Left(p) = Mid(p) /\ Right(p) = hi[p]
  BY <1>1 DEF MergeEnds, AtEndL, AtEndR
<1>3. Done(p) = Span(p)
  BY <1>1, <1>2, ConstAssumption DEF Done, Index
<1>4. SortedTemparr(p) /\ {temparr[p][k] : k \in Position(p)} = Elements(p)
  BY <1>3 DEF Merging, Elements
<1>5. temparr' = temparr /\ Position(p)' = Position(p) /\ Elements(p)' = Elements(p)
  BY DEF MergeEnds, Position, Elements, Span, NumElements
<1>6. QED BY <1>4, <1>5 DEF Copying, SortedTemparr

-----------------------------------------------------------------------------
(* Writing the range of p.                                                 *)

LEMMA OverwriteKeeps ==
  ASSUME FitsInt, RaceInv, NEW p \in Path, pc[p] \in {"qsort", "copy"}, NEW f,
         key' = key, arr' = Overwrite(p, f), {f[i] : i \in Span(p)} = Elements(p)
  PROVE  WritesOwn(p) /\ KeepsElements(p)
<1>1. Span(p) \subseteq Index
  BY RangeFacts DEF RaceInv, TypeInv
<1>2. \A i \in Index : arr'[i] = IF i \in Span(p) THEN f[i] ELSE arr[i]
  BY DEF Overwrite
<1>3. WritesOwn(p)
  BY <1>2 DEF WritesOwn
<1>4. {arr'[i] : i \in Index} = {arr[i] : i \in Index}
  <2>1. {arr'[i] : i \in Index} = Elements(p) \union {arr[i] : i \in Index \ Span(p)}
    <3>1. {arr'[i] : i \in Index}
            = {f[i] : i \in Span(p)} \union {arr[i] : i \in Index \ Span(p)}
      BY <1>1, <1>2
    <3>2. QED BY <3>1
  <2>2. {arr[i] : i \in Index} = Elements(p) \union {arr[i] : i \in Index \ Span(p)}
    BY <1>1 DEF Elements
  <2>3. QED BY <2>1, <2>2
<1>5. QED BY <1>3, <1>4 DEF KeepsElements

LEMMA OverwriteSorts ==
  ASSUME FitsInt, RaceInv, NEW p \in Path, NEW f,
         UNCHANGED <<key, lo, hi>>, arr' = Overwrite(p, f),
         \A i, j \in Span(p) : i < j => key[f[i]] <= key[f[j]]
  PROVE  SortedRange(p)'
<1>1. /\ Span(p) = lo[p] .. hi[p] - 1 /\ lo[p] \in Nat /\ hi[p] \in Nat
      /\ Index \subseteq Int
  BY RangeFacts, ConstAssumption DEF RaceInv, TypeInv, Index
<1>2. ASSUME NEW i \in Index, lo[p] <= i, i < hi[p]
      PROVE  i \in Span(p) /\ arr'[i] = f[i]
  <2>1. i \in Span(p)
    BY <1>1, <1>2
  <2>2. QED BY <2>1 DEF Overwrite
<1>3. ASSUME NEW i \in Index, NEW j \in Index, lo[p] <= i, i < j, j < hi[p]
      PROVE  key[arr'[i]] <= key[arr'[j]]
  <2>1. lo[p] <= j /\ i < hi[p]
    BY <1>1, <1>3
  <2>2. QED BY <1>2, <1>3, <2>1
<1>4. lo'[p] = lo[p] /\ hi'[p] = hi[p] /\ key' = key
  OBVIOUS
<1>5. \A i, j \in Index : lo'[p] <= i /\ i < j /\ j < hi'[p] =>
        key'[arr'[i]] <= key'[arr'[j]]
  BY <1>3, <1>4
<1>6. QED BY <1>5 DEF SortedRange, InOrder

(* At the memcpy, temparr is a sorted copy of the range. *)
LEMMA MergedSorted ==
  ASSUME FitsInt, RaceInv, NEW p \in Path, pc[p] = "copy", Copying(p)
  PROVE  /\ {Merged(p)[i] : i \in Span(p)} = Elements(p)
         /\ \A i, j \in Span(p) : i < j => key[Merged(p)[i]] <= key[Merged(p)[j]]
<1> USE DEF RaceInv, TypeInv
<1>1. /\ Span(p) = lo[p] .. hi[p] - 1 /\ lo[p] \in Nat /\ hi[p] \in Nat
      /\ Position(p) = 1 .. hi[p] - lo[p]
  BY RangeFacts DEF CursorInv, Position
<1>2. \A i \in Span(p) : /\ i \in Int /\ i - lo[p] + 1 \in Position(p)
                         /\ Merged(p)[i] = temparr[p][i - lo[p] + 1]
  BY <1>1 DEF Merged
<1>3. \A k \in Position(p) : k + lo[p] - 1 \in Span(p) /\ (k + lo[p] - 1) - lo[p] + 1 = k
  BY <1>1
<1>4. {Merged(p)[i] : i \in Span(p)} = {temparr[p][k] : k \in Position(p)}
  <2>1. ASSUME NEW i \in Span(p)
        PROVE  \E k \in Position(p) : Merged(p)[i] = temparr[p][k]
    BY <1>2
  <2>2. ASSUME NEW k \in Position(p)
        PROVE  \E i \in Span(p) : Merged(p)[i] = temparr[p][k]
    <3>1. /\ k + lo[p] - 1 \in Span(p)
          /\ Merged(p)[k + lo[p] - 1] = temparr[p][(k + lo[p] - 1) - lo[p] + 1]
      BY <1>2, <1>3
    <3>2. QED BY <1>3, <3>1
  <2>3. QED BY <2>1, <2>2
<1>5. ASSUME NEW i \in Span(p), NEW j \in Span(p), i < j
      PROVE  key[Merged(p)[i]] <= key[Merged(p)[j]]
  <2>1. i - lo[p] + 1 < j - lo[p] + 1
    BY <1>1, <1>2, <1>5
  <2>2. QED BY <1>2, <2>1 DEF Copying, SortedTemparr
<1>6. QED BY <1>4, <1>5 DEF Copying

-----------------------------------------------------------------------------
(* The steps of one process.                                               *)

(* A step that touches neither the array nor any merge. *)
LEMMA QuietOrder ==
  ASSUME FitsInt, RaceInv, OrderInv, NEW q, NEW label, MovesTo(q, label),
         StatusFits(q, label), UnchangedData,
         label \notin {"return", "merge", "copy"},
         label \in {"fork_r", "wait_l", "wait_r", "check"} => Waits(q),
         status'[q] = 0 => pc[q] = "return"
  PROVE  OrderInv'
<1>1. OrderStep(q, label)
  BY DEF OrderStep, UnchangedData, WritesOwn, KeepsElements
<1>2. QED BY <1>1, OrderMove

LEMMA ExitOrder ==
  ASSUME FitsInt, RaceInv, OrderInv, NEW p \in Path, NEW c \in ExitCode, Exit(p, c),
         pc[p] \notin {"unused", "dead"}, c = 0 => pc[p] = "return",
         UnchangedData, UnchangedArgs
  PROVE  OrderInv'
<1>1. MovesTo(p, "dead") /\ StatusFits(p, "dead")
  BY DEF MovesTo, StatusFits, Exit, Goto, PC, UnchangedArgs
<1>2. status'[p] = c
  BY DEF RaceInv, TypeInv, TypeOK, Exit
<1>3. QED BY <1>1, <1>2, QuietOrder

LEMMA QsortOrder ==
  ASSUME FitsInt, RaceInv, OrderInv, NEW p \in Path, Qsort(p)
  PROVE  OrderInv'
<1>1. PICK f \in [Span(p) -> Elements(p)] : SortedOrder(p, f) /\ arr' = Overwrite(p, f)
  BY DEF Qsort
<1>2. WritesOwn(p) /\ KeepsElements(p)
  BY <1>1, OverwriteKeeps DEF Qsort, SortedOrder
<1>3. SortedRange(p)'
  BY <1>1, OverwriteSorts DEF Qsort, SortedOrder, UnchangedArgs
<1>4. MovesTo(p, "return") /\ StatusFits(p, "return")
  BY DEF Qsort, UnchangedArgs, MovesTo, StatusFits, Goto, PC
<1>5. status'[p] # 0
  BY DEF Qsort, RaceInv, StatusInv, Running
<1>6. OrderStep(p, "return")
  BY <1>2, <1>4, <1>5 DEF OrderStep, Qsort
<1>7. QED BY <1>3, <1>6, OrderMove

LEMMA CopyOrder ==
  ASSUME FitsInt, RaceInv, OrderInv, NEW p \in Path, Copy(p)
  PROVE  OrderInv'
<1>1. pc[p] = "copy" /\ Copying(p)
  BY DEF Copy, OrderInv, MergeInv
<1>2. arr' = Overwrite(p, Merged(p)) /\ UNCHANGED <<key, lo, hi, status>>
  BY DEF Copy, UnchangedArgs
<1>3. WritesOwn(p) /\ KeepsElements(p)
  BY <1>1, <1>2, MergedSorted, OverwriteKeeps
<1>4. SortedRange(p)'
  BY <1>1, <1>2, MergedSorted, OverwriteSorts
<1>5. MovesTo(p, "return") /\ StatusFits(p, "return")
  BY <1>1, <1>2 DEF Copy, MovesTo, StatusFits, Goto, PC
<1>6. status'[p] # 0
  BY <1>1, <1>2 DEF RaceInv, StatusInv, Running
<1>7. \A r \in Path : r # p => temparr'[r] = temparr[r] /\ taken'[r] = taken[r]
  BY DEF Copy, RaceInv, TypeInv, TypeOK
<1>8. OrderStep(p, "return")
  BY <1>3, <1>5, <1>6, <1>7 DEF OrderStep
<1>9. QED BY <1>4, <1>8, OrderMove

LEMMA KillOrder ==
  ASSUME FitsInt, RaceInv, OrderInv, NEW p \in Path, Kill(p)
  PROVE  OrderInv'
<1>1. /\ pc[p] \notin {"unused", "dead"} /\ key' = key /\ UNCHANGED <<lo, hi>>
      /\ Exit(p, Killed)
  BY DEF Kill, UnchangedArgs
<1>2. MovesTo(p, "dead") /\ StatusFits(p, "dead")
  BY <1>1 DEF MovesTo, StatusFits, Exit, Goto, PC
<1>3. status'[p] = Killed /\ Killed # 0
  BY <1>1 DEF RaceInv, TypeInv, TypeOK, Exit, Killed
<1>4. WritesOwn(p)
  <2>1. CASE pc[p] = "qsort"
    BY <1>1, <2>1 DEF Kill, WritesOwn, Overwrite
  <2>2. CASE pc[p] = "copy"
    <3>1. PICK S \in SUBSET Span(p) :
            arr' = [i \in Index |-> IF i \in S THEN Merged(p)[i] ELSE arr[i]]
      BY <2>2 DEF Kill
    <3>2. QED BY <1>1, <2>2, <3>1 DEF WritesOwn
  <2>3. CASE pc[p] \notin {"qsort", "copy"}
    BY <1>1, <2>3 DEF Kill, WritesOwn
  <2>4. QED BY <2>1, <2>2, <2>3
<1>5. \A r \in Path : r # p => temparr'[r] = temparr[r] /\ taken'[r] = taken[r]
  BY DEF Kill, RaceInv, TypeInv, TypeOK
<1>6. OrderStep(p, "dead")
  BY <1>2, <1>3, <1>4, <1>5 DEF OrderStep, KeepsElements
<1>7. QED BY <1>6, OrderMove

LEMMA MergeOrder ==
  ASSUME FitsInt, RaceInv, OrderInv, NEW p \in Path, Merge(p)
  PROVE  OrderInv'
<1>1. /\ pc[p] = "merge" /\ Merging(p) /\ UNCHANGED <<key, arr, lo, hi, status>>
  BY DEF Merge, OrderInv, MergeInv, UnchangedArgs
<1>2. WritesOwn(p) /\ KeepsElements(p) /\ status'[p] # 0
  BY <1>1 DEF WritesOwn, KeepsElements, RaceInv, StatusInv, Running
<1>3. CASE TakeLeft(p) \/ TakeRight(p)
  <2>1. pc' = [pc EXCEPT ![p] = "merge"]
    BY <1>1, <1>3 DEF TakeLeft, TakeRight, RaceInv, TypeInv, TypeOK
  <2>2. MovesTo(p, "merge") /\ StatusFits(p, "merge")
    BY <1>1, <2>1 DEF MovesTo, StatusFits, PC
  <2>3. \A r \in Path : r # p => temparr'[r] = temparr[r] /\ taken'[r] = taken[r]
    BY <1>3 DEF TakeLeft, TakeRight, RaceInv, TypeInv, TypeOK
  <2>4. OrderStep(p, "merge")
    BY <1>2, <2>2, <2>3 DEF OrderStep
  <2>5. Merging(p)'
    BY <1>1, <1>3, TakeLeftOrder, TakeRightOrder
  <2>6. QED BY <2>4, <2>5, OrderMove
<1>4. CASE MergeEnds(p)
  <2>1. MovesTo(p, "copy") /\ StatusFits(p, "copy")
    BY <1>1, <1>4 DEF MergeEnds, MovesTo, StatusFits, Goto, PC
  <2>2. OrderStep(p, "copy")
    BY <1>2, <1>4, <2>1 DEF OrderStep, MergeEnds
  <2>3. Copying(p)'
    BY <1>1, <1>4, MergeEndsOrder
  <2>4. QED BY <2>2, <2>3, OrderMove
<1>5. QED BY <1>3, <1>4 DEF Merge

(* When both children have exited with 0, the two halves are sorted. *)
LEMMA HalvesSorted ==
  ASSUME FitsInt, RaceInv, OrderInv, NEW p \in Path, pc[p] = "check", Len(p) < MaxDepth,
         status[Child(p, "l")] = 0, status[Child(p, "r")] = 0
  PROVE  InOrder(lo[p], Mid(p)) /\ InOrder(Mid(p), hi[p])
<1>1. ASSUME NEW s \in Side
      PROVE  SortedRange(Child(p, s)) /\ Used(Child(p, s))
  <2>1. Child(p, s) \in Path /\ status[Child(p, s)] = 0
    BY ChildIsPath DEF Side
  <2>2. SortedRange(Child(p, s))
    BY <2>1 DEF OrderInv, ResultInv, Waits
  <2>3. QED BY <2>1, <2>2 DEF RaceInv, StatusInv, Running, Used
<1>2. /\ lo[Child(p, "l")] = lo[p] /\ hi[Child(p, "l")] = Mid(p)
      /\ lo[Child(p, "r")] = Mid(p) /\ hi[Child(p, "r")] = hi[p]
  BY <1>1 DEF RaceInv, TreeInv, SplitInv, OrderInv, ShareInv, Side
<1>3. QED BY <1>1, <1>2 DEF SortedRange, Side

(* A merge that has taken nothing yet. *)
LEMMA MergeStarts ==
  ASSUME FitsInt, RaceInv, NEW p \in Path, pc[p] = "check",
         InOrder(lo[p], Mid(p)), InOrder(Mid(p), hi[p]),
         UNCHANGED <<key, arr, lo, hi, temparr, taken>>
  PROVE  Merging(p)'
<1> USE DEF RaceInv, TypeInv
<1>1. temparr[p] = << >> /\ taken[p] = 0
  BY DEF CursorInv
<1>2. lo[p] \in Int /\ Mid(p) \in Int /\ Index \subseteq Int
  BY RangeFacts, ConstAssumption DEF Index
<1>3. Position(p) = {}
  BY <1>1 DEF Position
<1>4. Left(p) = lo[p] /\ Right(p) = Mid(p)
  BY <1>1, <1>2 DEF Left, Right
<1>5. Done(p) = {}
  <2>1. \A i \in Index : /\ ~(lo[p] <= i /\ i < Left(p))
                         /\ ~(Mid(p) <= i /\ i < Right(p))
    BY <1>2, <1>4
  <2>2. QED BY <2>1 DEF Done
<1>6. Merging(p)
  <2>1. {temparr[p][k] : k \in Position(p)} = {} /\ {arr[i] : i \in Done(p)} = {}
    BY <1>3, <1>5
  <2>2. SortedTemparr(p) /\ \A k \in Position(p), i \in Todo(p) : key[temparr[p][k]] <= key[arr[i]]
    BY <1>3 DEF SortedTemparr
  <2>3. QED BY <2>1, <2>2 DEF Merging
<1>7. /\ Mid(p)' = Mid(p) /\ Left(p)' = Left(p) /\ Right(p)' = Right(p)
      /\ Position(p)' = Position(p)
  BY DEF Mid, NumElements, Left, Right, Position
<1>8. Done(p)' = Done(p) /\ Todo(p)' = Todo(p)
  BY <1>7 DEF Done, Todo
<1>9. QED BY <1>6, <1>7, <1>8 DEF Merging, SortedTemparr, InOrder

LEMMA CheckOrder ==
  ASSUME FitsInt, RaceInv, OrderInv, NEW p \in Path, Check(p)
  PROVE  OrderInv'
<1> USE DEF RaceInv
<1>1. pc[p] = "check" /\ UnchangedData /\ UnchangedArgs
  BY DEF Check
<1>2. CASE \E c \in {10, 11, 12} : Exit(p, c)
  <2>1. PICK c \in {10, 11, 12} : Exit(p, c)
    BY <1>2
  <2>2. c \in ExitCode /\ c # 0
    BY DEF ExitCode
  <2>3. QED BY <1>1, <2>1, <2>2, ExitOrder
<1>3. CASE Goto(p, "merge") /\ UNCHANGED status /\ ~(\E c \in {10, 11, 12} : Exit(p, c))
  <2>1. MovesTo(p, "merge") /\ StatusFits(p, "merge")
    BY <1>1, <1>3 DEF MovesTo, StatusFits, Goto, PC, UnchangedArgs
  <2>2. ~waitFailed[p] /\ \E wl \in WStatus(p, "l"), wr \in WStatus(p, "r") : {wl, wr} = {0}
    BY <1>3 DEF Check
  <2>3. /\ Len(p) < MaxDepth
        /\ pc[Child(p, "l")] = "dead" /\ pc[Child(p, "r")] = "dead"
    BY <1>1, <2>2 DEF WaitInv, WaitingFor
  <2>4. ASSUME NEW s \in Side PROVE status[Child(p, s)] = 0
    <3>1. Child(p, s) \in Path /\ pc[Child(p, s)] = "dead"
      BY <2>3, ChildIsPath DEF Side
    <3>2. status[Child(p, s)] # Running
      BY <3>1 DEF StatusInv
    <3>3. WStatus(p, s) = {status[Child(p, s)]}
      BY <3>2 DEF WStatus
    <3>4. 0 \in WStatus(p, s)
      BY <2>2 DEF Side
    <3>5. QED BY <3>3, <3>4
  <2>5. Merging(p)'
    <3>1. status[Child(p, "l")] = 0 /\ status[Child(p, "r")] = 0
      BY <2>4 DEF Side
    <3>2. InOrder(lo[p], Mid(p)) /\ InOrder(Mid(p), hi[p])
      BY <1>1, <2>3, <3>1, HalvesSorted
    <3>3. QED BY <1>1, <3>2, MergeStarts DEF UnchangedData, UnchangedArgs
  <2>6. status'[p] # 0
    BY <1>1, <1>3 DEF StatusInv, Running
  <2>7. OrderStep(p, "merge")
    BY <1>1, <2>1, <2>6 DEF OrderStep, UnchangedData, WritesOwn, KeepsElements
  <2>8. QED BY <2>5, <2>7, OrderMove
<1>4. QED BY <1>2, <1>3 DEF Check

LEMMA WaitOrder ==
  ASSUME FitsInt, RaceInv, OrderInv, NEW p \in Path, WaitLeft(p) \/ WaitRight(p)
  PROVE  OrderInv'
<1>1. /\ UnchangedData /\ UNCHANGED <<lo, hi, status>>
      /\ \/ pc[p] = "wait_l" /\ Goto(p, "wait_r")
         \/ pc[p] = "wait_r" /\ Goto(p, "check")
  BY DEF WaitLeft, WaitRight, UnchangedArgs
<1>2. PICK label \in {"wait_r", "check"} : MovesTo(p, label)
  BY <1>1 DEF MovesTo, Goto, PC
<1>3. StatusFits(p, label) /\ status'[p] # 0 /\ Waits(p)
  BY <1>1, <1>2 DEF StatusFits, RaceInv, StatusInv, Running, Waits
<1>4. QED BY <1>1, <1>2, <1>3, QuietOrder

LEMMA EntryOrder ==
  ASSUME FitsInt, RaceInv, OrderInv, NEW p \in Path, Main(p) \/ Begin(p)
  PROVE  OrderInv'
<1>1. UnchangedData /\ UnchangedArgs /\ pc[p] \in {"main", "begin"}
  BY DEF Main, Begin
<1>2. CASE \E label \in {"begin", "qsort", "fork_l"} : Goto(p, label) /\ UNCHANGED status
  <2>1. PICK label \in {"begin", "qsort", "fork_l"} : Goto(p, label) /\ UNCHANGED status
    BY <1>2
  <2>2. MovesTo(p, label) /\ StatusFits(p, label) /\ status'[p] # 0
    BY <1>1, <2>1 DEF MovesTo, StatusFits, Goto, PC, UnchangedArgs, RaceInv, StatusInv, Running
  <2>3. QED BY <1>1, <2>2, QuietOrder
<1>3. CASE \E c \in 1 .. 6 : Exit(p, c)
  <2>1. PICK c \in 1 .. 6 : Exit(p, c)
    BY <1>3
  <2>2. c \in ExitCode /\ c # 0
    BY DEF ExitCode
  <2>3. QED BY <1>1, <2>1, <2>2, ExitOrder
<1>4. QED BY <1>2, <1>3 DEF Main, Begin

LEMMA OrderInit == Init => OrderInv
<1> SUFFICES ASSUME Init PROVE OrderInv
  OBVIOUS
<1>1. \A p \in Path : /\ Used(p) <=> p = Root
                      /\ pc[p] \in {"main", "unused"} /\ status[p] = Running
  BY DEF Init, Used
<1>2. ShareInv
  <2>1. lo[Root] = 0 /\ hi[Root] = N
    BY RootIsPath DEF Init
  <2>2. ASSUME NEW p \in Path, NEW s \in Side, Len(p) < MaxDepth PROVE ~Used(Child(p, s))
    BY <1>1, <2>2, ChildIsPath, PathFacts, RootIsPath
  <2>3. QED BY <2>1, <2>2 DEF ShareInv
<1>3. ResultInv
  BY <1>1, RootIsPath DEF ResultInv, Waits, Running
<1>4. MergeInv
  BY <1>1 DEF MergeInv
<1>5. DataKept
  BY DEF Init, DataKept, IsPermuted
<1>6. QED BY <1>2, <1>3, <1>4, <1>5 DEF OrderInv

LEMMA OrderNext ==
  ASSUME FitsInt, RaceInv, OrderInv, [Next]_vars
  PROVE  OrderInv'
<1>1. ASSUME NEW p \in Path, ForkLeft(p) PROVE OrderInv'
  <2>1. CASE ForkChild(p, "l", "fork_r", lo[p], Mid(p))
    <3>1. Forks(p, "l", "fork_r", lo[p], Mid(p))
      BY <1>1, <2>1 DEF ForkLeft, Forks, HalfOf, Side, PC
    <3>2. QED BY <1>1, <3>1, ForkOrder DEF ForkLeft
  <2>2. CASE ForkFails(p, 8)
    <3>1. 8 \in ExitCode
      BY DEF ExitCode
    <3>2. QED BY <1>1, <2>2, <3>1, ExitOrder DEF ForkLeft, ForkFails
  <2>3. QED BY <1>1, <2>1, <2>2 DEF ForkLeft
<1>2. ASSUME NEW p \in Path, ForkRight(p) PROVE OrderInv'
  <2>1. CASE ForkChild(p, "r", "wait_l", Mid(p), hi[p])
    <3>1. Forks(p, "r", "wait_l", Mid(p), hi[p])
      BY <1>2, <2>1 DEF ForkRight, Forks, HalfOf, Side, PC
    <3>2. QED BY <1>2, <3>1, ForkOrder DEF ForkRight
  <2>2. CASE ForkFails(p, 9)
    <3>1. 9 \in ExitCode
      BY DEF ExitCode
    <3>2. QED BY <1>2, <2>2, <3>1, ExitOrder DEF ForkRight, ForkFails
  <2>3. QED BY <1>2, <2>1, <2>2 DEF ForkRight
<1>3. ASSUME NEW p \in Path, Return(p) PROVE OrderInv'
  <2>1. PICK c \in {0, 7} : Exit(p, c)
    BY <1>3 DEF Return
  <2>2. c \in ExitCode
    BY DEF ExitCode
  <2>3. QED BY <1>3, <2>1, <2>2, ExitOrder DEF Return
<1>4. CASE UNCHANGED vars
  <2>1. \A p \in Path : Used(p)' = Used(p) /\ SortedRange(p)' = SortedRange(p)
    BY <1>4 DEF vars, Used, SortedRange, InOrder
  <2>2. ShareInv' /\ ResultInv' /\ DataKept'
    BY <1>4, <2>1 DEF vars, OrderInv, ShareInv, ResultInv, DataKept, IsPermuted, Waits,
                      Used, SortedRange, InOrder
  <2>3. MergeInv'
    BY <1>4, MergeKept DEF vars, OrderInv, MergeInv, RaceInv, TypeInv
  <2>4. QED BY <2>2, <2>3 DEF OrderInv
<1>5. QED
  BY <1>1, <1>2, <1>3, <1>4, EntryOrder, QsortOrder, WaitOrder, CheckOrder, MergeOrder,
     CopyOrder, KillOrder
     DEF Next, Step, Ended

THEOREM OrderInvHolds == ASSUME FitsInt PROVE Spec => []OrderInv
<1>1. Init => OrderInv
  BY OrderInit
<1>2. RaceInv /\ OrderInv /\ [Next]_vars => OrderInv'
  BY OrderNext
<1>3. QED BY <1>1, <1>2, RaceInvHolds, PTL DEF Spec

-----------------------------------------------------------------------------
(* What a reader of the file may rely on.                                  *)

(* Unless a signal ends a process, the file holds every element exactly    *)
(* once at every moment, whatever else fails.                              *)
THEOREM ElementsKept == ASSUME FitsInt PROVE Spec => []DataKept
<1>1. OrderInv => DataKept
  BY DEF OrderInv
<1>2. QED BY <1>1, OrderInvHolds, PTL

(* After an exit with 0 nobody was killed: whoever was forked has exited   *)
(* with 0 as well.                                                         *)
LEMMA NobodyKilled ==
  ASSUME RaceInv, status[Root] = 0
  PROVE  \A p \in Path : status[p] # Killed
<1> SUFFICES ASSUME NEW p \in Path, status[p] = Killed PROVE FALSE
  OBVIOUS
<1>1. Root \in Path /\ p # Root /\ Used(p)
  BY RootIsPath DEF RaceInv, StatusInv, Running, Killed, Used
<1>2. status[p] = 0
  BY <1>1, RootAbove DEF RaceInv, QuietInv, Quiet, BelowSucceeded
<1>3. QED BY <1>2 DEF Killed

(* When the program exits with 0 the file is sorted and holds the elements *)
(* it held at the start.                                                   *)
THEOREM SortedAtExit == ASSUME FitsInt PROVE Spec => []SortedOnSuccess
<1>1. RaceInv /\ OrderInv => SortedOnSuccess
  <2> SUFFICES ASSUME RaceInv, OrderInv, status[Root] = 0 PROVE IsSorted /\ IsPermuted
    BY DEF SortedOnSuccess
  <2>1. IsPermuted
    BY NobodyKilled DEF OrderInv, DataKept
  <2>2. InOrder(0, N)
    BY DEF OrderInv, ResultInv, ShareInv, SortedRange
  <2>3. ASSUME NEW i \in 1 .. N-1 PROVE ~(key[arr[i]] < key[arr[i-1]])
    <3>1. i \in Index /\ i-1 \in Index /\ 0 <= i-1 /\ i-1 < i /\ i < N
      BY ConstAssumption DEF Index
    <3>2. key[arr[i-1]] <= key[arr[i]]
      BY <2>2, <3>1 DEF InOrder
    <3>3. key[arr[i]] \in Int /\ key[arr[i-1]] \in Int
      BY <3>1, ConstAssumption DEF RaceInv, TypeInv, TypeOK
    <3>4. QED BY <3>2, <3>3
  <2>4. QED BY <2>1, <2>3 DEF IsSorted
<1>2. QED BY <1>1, RaceInvHolds, OrderInvHolds, PTL

-----------------------------------------------------------------------------
(* Part 4: the processes implement SortContract.                           *)

(* What a step of process q shows to a reader of the file who also sees    *)
(* the exit codes.                                                         *)
Effect(q) ==
  /\ q \in Path /\ pc[q] \notin {"unused", "dead"} /\ key' = key
  /\ \/ UNCHANGED status
     \/ status' = [status EXCEPT ![q] = Killed]
     \/ \E c \in ExitCode : /\ status' = [status EXCEPT ![q] = c]
                            /\ c = 0 => pc[q] = "return"
                            /\ arr' = arr

LEMMA StepHasEffect ==
  ASSUME NEW p \in Path, Step(p) \/ Kill(p)
  PROVE  Effect(p)
<1>1. CASE Kill(p)
  BY <1>1 DEF Kill, Exit, Effect
<1>2. CASE Qsort(p) \/ Copy(p)
  BY <1>2 DEF Qsort, Copy, Effect
<1>3. CASE Merge(p)
  BY <1>3 DEF Merge, Effect
<1>4. CASE Begin(p) \/ WaitLeft(p) \/ WaitRight(p)
  BY <1>4 DEF Begin, WaitLeft, WaitRight, UnchangedData, Effect
<1>5. CASE Main(p)
  <2>1. 5 \in ExitCode /\ 1 .. 6 \subseteq ExitCode /\ 0 \notin 1 .. 6
    BY DEF ExitCode
  <2>2. QED BY <1>5, <2>1 DEF Main, Exit, UnchangedData, Effect
<1>6. CASE ForkLeft(p) \/ ForkRight(p)
  <2>1. 8 \in ExitCode /\ 9 \in ExitCode
    BY DEF ExitCode
  <2>2. QED BY <1>6, <2>1 DEF ForkLeft, ForkRight, ForkChild, ForkFails, Exit, UnchangedData,
                              Effect
<1>7. CASE Check(p)
  <2>1. 10 \in ExitCode /\ 11 \in ExitCode /\ 12 \in ExitCode
    BY DEF ExitCode
  <2>2. QED BY <1>7, <2>1 DEF Check, Exit, UnchangedData, Effect
<1>8. CASE Return(p)
  <2>1. 0 \in ExitCode /\ 7 \in ExitCode
    BY DEF ExitCode
  <2>2. QED BY <1>8, <2>1 DEF Return, Exit, UnchangedData, Effect
<1>9. QED BY <1>1, <1>2, <1>3, <1>4, <1>5, <1>6, <1>7, <1>8 DEF Step

(* As long as a process is alive the program has not succeeded. *)
LEMMA AliveNoSuccess ==
  ASSUME RaceInv, NEW q \in Path, pc[q] \notin {"unused", "dead"}
  PROVE  status[Root] # 0 /\ status[q] = Running
<1>1. status[q] = Running /\ Used(q)
  BY DEF RaceInv, StatusInv, Used
<1>2. SUFFICES ASSUME status[Root] = 0 PROVE FALSE
  BY <1>1
<1>3. q # Root
  BY <1>1, <1>2 DEF Running
<1>4. status[q] = 0
  BY <1>1, <1>2, <1>3, RootIsPath, RootAbove DEF RaceInv, QuietInv, Quiet, BelowSucceeded
<1>5. QED BY <1>1, <1>4 DEF Running

(* The contract's view of the values. *)
LEMMA ContractView ==
  /\ Contract!Slot = Index
  /\ Contract!Permuted(arr) = IsPermuted
  /\ Contract!InOrder(arr) <=> \A i, j \in Index : i < j => key[arr[i]] <= key[arr[j]]
BY DEF Contract!Slot, Contract!Permuted, Contract!InOrder, Index, IsPermuted

LEMMA RearrangeMaps ==
  ASSUME RaceInv, RaceInv', DataKept', NEW q, Effect(q),
         UNCHANGED status \/ status' = [status EXCEPT ![q] = Killed]
  PROVE  Contract!Rearrange
<1>1. status \in [Path -> ExitCode \union {Running, Killed}]
  BY DEF RaceInv, TypeInv, TypeOK
<1>2. q \in Path /\ status[q] = Running /\ status[Root] # 0
  BY AliveNoSuccess DEF Effect
<1>3. Outcome # "success"
  BY <1>2 DEF Outcome, Running
<1>4. arr' \in [Contract!Slot -> Contract!Slot]
  BY ContractView DEF RaceInv, TypeInv, TypeOK
<1>5. Torn' \/ Contract!Permuted(arr')
  BY ContractView DEF Torn, DataKept, IsPermuted, Contract!Permuted
<1>6. Torn => Torn'
  <2> SUFFICES ASSUME NEW p \in Path, status[p] = Killed PROVE Torn'
    BY DEF Torn
  <2>1. status'[p] = Killed
    BY <1>1, <1>2
  <2>2. QED BY <2>1 DEF Torn
<1>7. Outcome' \in IF Torn' /\ Outcome = "running" THEN {"running", "failure"} ELSE {Outcome}
  <2>1. CASE UNCHANGED status
    BY <2>1 DEF Outcome
  <2>2. CASE status' = [status EXCEPT ![q] = Killed]
    <3>1. Torn'
      BY <1>1, <1>2, <2>2 DEF Torn
    <3>2. CASE q = Root
      <4>1. Outcome = "running" /\ Outcome' = "failure"
        BY <1>1, <1>2, <2>2, <3>2 DEF Outcome, Running, Killed
      <4>2. QED BY <3>1, <4>1
    <3>3. CASE q # Root
      <4>1. Outcome' = Outcome /\ Outcome \in {"running", "failure"}
        BY <1>1, <1>2, <2>2, <3>3, RootIsPath DEF Outcome
      <4>2. QED BY <3>1, <4>1
    <3>4. QED BY <3>2, <3>3
  <2>3. QED BY <2>1, <2>2
<1>8. QED BY <1>3, <1>4, <1>5, <1>6, <1>7 DEF Contract!Rearrange, Effect

LEMMA ExitMaps ==
  ASSUME FitsInt, RaceInv, RaceInv', OrderInv, NEW q, Effect(q), NEW c \in ExitCode,
         status' = [status EXCEPT ![q] = c], c = 0 => pc[q] = "return", arr' = arr
  PROVE  [Contract!Next]_(Contract!cvars)
<1>1. status \in [Path -> ExitCode \union {Running, Killed}]
  BY DEF RaceInv, TypeInv, TypeOK
<1>2. q \in Path /\ status[q] = Running /\ status[Root] # 0 /\ key' = key
  BY AliveNoSuccess DEF Effect
<1>3. c # Killed /\ c # Running /\ Running # Killed
  BY DEF ExitCode, Killed, Running
<1>4. Torn' = Torn
  <2>1. \A p \in Path : status'[p] = Killed <=> status[p] = Killed
    BY <1>1, <1>2, <1>3
  <2>2. QED BY <2>1 DEF Torn
<1>5. CASE q # Root
  <2>1. status'[Root] = status[Root]
    BY <1>1, <1>2, <1>5, RootIsPath
  <2>2. Outcome' = Outcome
    BY <2>1 DEF Outcome
  <2>3. QED BY <1>2, <1>4, <2>2 DEF Contract!cvars
<1>6. CASE q = Root /\ c # 0
  <2>1. Outcome = "running" /\ Outcome' = "failure"
    BY <1>1, <1>2, <1>3, <1>6 DEF Outcome
  <2>2. QED BY <1>2, <1>4, <2>1 DEF Contract!Next, Contract!Fail
<1>7. CASE q = Root /\ c = 0
  <2>1. status'[Root] = 0 /\ pc[Root] = "return"
    BY <1>1, <1>2, <1>7
  <2>2. Outcome = "running" /\ Outcome' = "success"
    BY <1>2, <1>7, <2>1 DEF Outcome, Running
  <2>3. ~Torn
    <3>1. ASSUME NEW p \in Path, Used(p), p # Root PROVE status[p] = 0
      BY <2>1, <3>1, RootIsPath, RootAbove DEF RaceInv, QuietInv, Quiet, BelowSucceeded
    <3>2. ASSUME NEW p \in Path PROVE status[p] \in {0, Running}
      BY <1>2, <1>7, <3>1, <3>2 DEF RaceInv, StatusInv, Used
    <3>3. QED BY <3>2 DEF Torn, Killed, Running
  <2>4. Contract!Permuted(arr)
    BY <2>3, ContractView DEF Torn, OrderInv, DataKept
  <2>5. Contract!InOrder(arr)
    <3>1. InOrder(0, N)
      BY <2>1, RootIsPath DEF OrderInv, ResultInv, ShareInv, SortedRange
    <3>2. \A i, j \in Index : 0 <= i /\ j < N
      BY ConstAssumption DEF Index
    <3>3. \A i, j \in Index : i < j => key[arr[i]] <= key[arr[j]]
      BY <3>1, <3>2 DEF InOrder
    <3>4. QED BY <3>3, ContractView
  <2>6. QED BY <1>2, <1>4, <2>2, <2>3, <2>4, <2>5 DEF Contract!Next, Contract!Succeed
<1>8. QED BY <1>5, <1>6, <1>7

LEMMA InitMaps == Init => Contract!Init
<1> SUFFICES ASSUME Init PROVE Contract!Init
  OBVIOUS
<1>1. \A p \in Path : status[p] = Running
  BY DEF Init
<1>2. Outcome = "running" /\ Torn = FALSE
  BY <1>1, RootIsPath DEF Outcome, Torn, Running, Killed
<1>3. QED BY <1>2, ContractView DEF Init, Contract!Init

LEMMA NextMaps ==
  ASSUME FitsInt, RaceInv, RaceInv', OrderInv, OrderInv', [Next]_vars
  PROVE  [Contract!Next]_(Contract!cvars)
<1>1. ASSUME NEW p \in Path, Step(p) \/ Kill(p)
      PROVE  [Contract!Next]_(Contract!cvars)
  <2>1. Effect(p)
    BY <1>1, StepHasEffect
  <2>2. CASE UNCHANGED status \/ status' = [status EXCEPT ![p] = Killed]
    BY <2>1, <2>2, RearrangeMaps DEF OrderInv, Contract!Next
  <2>3. CASE \E c \in ExitCode : /\ status' = [status EXCEPT ![p] = c]
                                 /\ c = 0 => pc[p] = "return"
                                 /\ arr' = arr
    BY <2>1, <2>3, ExitMaps
  <2>4. QED BY <2>1, <2>2, <2>3 DEF Effect
<1>2. CASE UNCHANGED vars
  BY <1>2 DEF vars, Contract!cvars, Outcome, Torn
<1>3. QED BY <1>1, <1>2 DEF Next, Ended

(* Whatever the number of elements, the threshold and the failures, the    *)
(* processes of the parallel sort together keep the contract: among others *)
(* nothing changes the file after an exit with 0.                          *)
THEOREM ImplementsContract == ASSUME FitsInt PROVE Spec => KeepsContract
<1>1. Init => Contract!Init
  BY InitMaps
<1>2. RaceInv /\ RaceInv' /\ OrderInv /\ OrderInv' /\ [Next]_vars
        => [Contract!Next]_(Contract!cvars)
  BY NextMaps
<1>3. QED BY <1>1, <1>2, RaceInvHolds, OrderInvHolds, PTL DEF Spec, KeepsContract, Contract!Spec

-----------------------------------------------------------------------------
(* Part 5: how many processes there are.                                   *)

(* p has forked at least one child. *)
Split(p) == Len(p) < MaxDepth /\ \E s \in Side : Used(Child(p, s))

(* Only a range longer than the threshold is forked over. *)
SplitsLong ==
  \A p \in Path :
    pc[p] \in {"fork_l", "fork_r"} \/ Split(p) => hi[p] - lo[p] > Threshold

BoundInv == RaceInv /\ SplitsLong

(* A step that leaves the forks as they are. *)
LEMMA SplitsMove ==
  ASSUME RaceInv, SplitsLong, NEW p, NEW label, MovesTo(p, label),
         label = "fork_l" => hi[p] - lo[p] > Threshold, label # "fork_r"
  PROVE  SplitsLong'
<1> SUFFICES ASSUME NEW q \in Path, pc'[q] \in {"fork_l", "fork_r"} \/ Split(q)'
             PROVE  hi'[q] - lo'[q] > Threshold
  BY DEF SplitsLong
<1> USE DEF RaceInv, TypeInv
<1>1. lo' = lo /\ hi' = hi
  BY DEF MovesTo
<1>2. CASE Split(q)'
  <2>1. PICK s \in Side : Len(q) < MaxDepth /\ Used(Child(q, s))'
    BY <1>2 DEF Split
  <2>2. Child(q, s) \in Path
    BY <2>1, ChildIsPath
  <2>3. Used(Child(q, s))
    BY <2>1, <2>2, MovedPc DEF Used, Child
  <2>4. QED BY <1>1, <2>1, <2>3 DEF SplitsLong, Split
<1>3. CASE pc'[q] \in {"fork_l", "fork_r"} /\ q # p
  BY <1>1, <1>3, MovedPc DEF SplitsLong
<1>4. CASE pc'[q] \in {"fork_l", "fork_r"} /\ q = p
  BY <1>1, <1>4, MovedPc
<1>5. QED BY <1>2, <1>3, <1>4

(* A fork: the process was about to fork before, and its child has no      *)
(* children yet.                                                           *)
LEMMA ForkKeepsSplits ==
  ASSUME FitsInt, RaceInv, SplitsLong, NEW p, NEW s, NEW label, NEW b, NEW e,
         Forks(p, s, label, b, e)
  PROVE  SplitsLong'
<1> DEFINE c == Child(p, s)
<1> SUFFICES ASSUME NEW q \in Path, pc'[q] \in {"fork_l", "fork_r"} \/ Split(q)'
             PROVE  hi'[q] - lo'[q] > Threshold
  BY DEF SplitsLong
<1> USE DEF RaceInv
<1>1. /\ p \in Path /\ c \in Path /\ c # p /\ ~Used(c)
      /\ pc'[c] = "begin"
      /\ \A r \in Path : r # p /\ r # c => pc'[r] = pc[r]
      /\ \A r \in Path : r # c => Used(r)' = Used(r)
      /\ \A r \in Path : r # c => lo'[r] = lo[r] /\ hi'[r] = hi[r]
  BY ForkEffect
<1>2. q # c
  <2>1. SUFFICES ASSUME q = c, Split(c)' PROVE FALSE
    BY <1>1
  <2>2. PICK t \in Side : Len(c) < MaxDepth /\ Used(Child(c, t))'
    BY <2>1 DEF Split
  <2>3. Child(c, t) \in Path /\ Child(c, t) # c
    BY <1>1, <2>2, ChildIsPath
  <2>4. Used(Child(c, t))
    BY <1>1, <2>2, <2>3 DEF Used
  <2>5. HasForked(pc[c], t)
    BY <1>1, <2>2, <2>4 DEF TypeInv, FreshInv, Used
  <2>6. QED BY <1>1, <2>5 DEF HasForked, Early, Used
<1>3. CASE q = p
  <2>1. pc[p] \in {"fork_l", "fork_r"}
    BY DEF Forks
  <2>2. QED BY <1>1, <1>2, <1>3, <2>1 DEF SplitsLong
<1>4. CASE q # p
  <2>1. CASE pc'[q] \in {"fork_l", "fork_r"}
    BY <1>1, <1>2, <1>4, <2>1 DEF SplitsLong
  <2>2. CASE Split(q)'
    <3>1. PICK t \in Side : Len(q) < MaxDepth /\ Used(Child(q, t))'
      BY <2>2 DEF Split
    <3>2. Child(q, t) \in Path
      BY <3>1, ChildIsPath
    <3>3. Child(q, t) # c
      BY <1>1, <1>4, ChildInjective DEF Forks
    <3>4. Used(Child(q, t))
      BY <1>1, <3>1, <3>2, <3>3 DEF Used
    <3>5. QED BY <1>1, <1>2, <3>1, <3>4 DEF SplitsLong, Split
  <2>3. QED BY <2>1, <2>2
<1>5. QED BY <1>3, <1>4

LEMMA BoundInit == Init /\ RaceInv => SplitsLong
<1> SUFFICES ASSUME Init, RaceInv, NEW p \in Path,
                    pc[p] \in {"fork_l", "fork_r"} \/ Split(p)
             PROVE  FALSE
  BY DEF SplitsLong
<1>1. \A q \in Path : pc[q] = IF q = Root THEN "main" ELSE "unused"
  BY DEF Init
<1>2. PICK s \in Side : Len(p) < MaxDepth /\ Used(Child(p, s))
  BY <1>1 DEF Split
<1>3. Child(p, s) \in Path /\ Len(Child(p, s)) = Len(p) + 1 /\ Len(p) \in Nat
  BY <1>2, ChildIsPath, PathFacts
<1>4. Child(p, s) = Root
  BY <1>1, <1>2, <1>3 DEF Used
<1>5. QED BY <1>3, <1>4, RootIsPath

LEMMA BoundNext ==
  ASSUME FitsInt, BoundInv, [Next]_vars
  PROVE  SplitsLong'
<1> USE DEF BoundInv
<1>1. ASSUME NEW p \in Path, Begin(p) PROVE SplitsLong'
  <2>1. MovesTo(p, IF IsBaseCase(p) THEN "qsort" ELSE "fork_l")
    BY <1>1 DEF Begin, UnchangedArgs, MovesTo, Goto, PC
  <2>2. ~IsBaseCase(p) => hi[p] - lo[p] > Threshold
    <3>1. /\ NumElements(p) = hi[p] - lo[p] /\ hi[p] - lo[p] \in Nat
      BY RangeFacts DEF RaceInv, TypeInv
    <3>2. QED BY <3>1, ConstAssumption DEF IsBaseCase
  <2>3. QED BY <2>1, <2>2, SplitsMove
<1>2. ASSUME NEW p \in Path, ForkLeft(p) PROVE SplitsLong'
  <2>1. CASE ForkChild(p, "l", "fork_r", lo[p], Mid(p))
    <3>1. Forks(p, "l", "fork_r", lo[p], Mid(p))
      BY <1>2, <2>1 DEF ForkLeft, Forks, HalfOf, Side, PC
    <3>2. QED BY <3>1, ForkKeepsSplits
  <2>2. CASE ForkFails(p, 8)
    <3>1. MovesTo(p, "dead")
      BY <1>2, <2>2 DEF ForkLeft, ForkFails, UnchangedArgs, Exit, Goto, MovesTo, PC
    <3>2. QED BY <3>1, SplitsMove
  <2>3. QED BY <1>2, <2>1, <2>2 DEF ForkLeft
<1>3. ASSUME NEW p \in Path, ForkRight(p) PROVE SplitsLong'
  <2>1. CASE ForkChild(p, "r", "wait_l", Mid(p), hi[p])
    <3>1. Forks(p, "r", "wait_l", Mid(p), hi[p])
      BY <1>3, <2>1 DEF ForkRight, Forks, HalfOf, Side, PC
    <3>2. QED BY <3>1, ForkKeepsSplits
  <2>2. CASE ForkFails(p, 9)
    <3>1. MovesTo(p, "dead")
      BY <1>3, <2>2 DEF ForkRight, ForkFails, UnchangedArgs, Exit, Goto, MovesTo, PC
    <3>2. QED BY <3>1, SplitsMove
  <2>3. QED BY <1>3, <2>1, <2>2 DEF ForkRight
<1>4. ASSUME NEW p \in Path, Merge(p) PROVE SplitsLong'
  <2>1. CASE Goto(p, "copy")
    <3>1. MovesTo(p, "copy")
      BY <1>4, <2>1 DEF Merge, UnchangedArgs, Goto, MovesTo, PC
    <3>2. QED BY <3>1, SplitsMove
  <2>2. CASE UNCHANGED pc
    <3>1. pc' = [pc EXCEPT ![p] = "merge"]
      BY <1>4, <2>2 DEF Merge, RaceInv, TypeInv, TypeOK
    <3>2. MovesTo(p, "merge")
      BY <1>4, <3>1 DEF Merge, UnchangedArgs, MovesTo, PC
    <3>3. QED BY <3>2, SplitsMove
  <2>3. QED BY <1>4, <2>1, <2>2 DEF Merge, TakeLeft, TakeRight, MergeEnds
<1>5. ASSUME NEW p \in Path,
             \/ Main(p) \/ Qsort(p) \/ WaitLeft(p) \/ WaitRight(p) \/ Check(p)
             \/ Copy(p) \/ Return(p) \/ Kill(p)
      PROVE SplitsLong'
  <2>1. pc[p] \notin {"unused", "dead"} /\ UNCHANGED <<lo, hi>>
    BY <1>5 DEF Main, Qsort, WaitLeft, WaitRight, Check, Copy, Return, Kill, UnchangedArgs
  <2>2. \E label \in {"begin", "return", "wait_r", "check", "merge", "dead"} :
          pc' = [pc EXCEPT ![p] = label]
    BY <1>5 DEF Main, Qsort, WaitLeft, WaitRight, Check, Copy, Return, Kill, Exit, Goto
  <2>3. PICK label \in {"begin", "return", "wait_r", "check", "merge", "dead"} :
          pc' = [pc EXCEPT ![p] = label]
    BY <2>2
  <2>4. MovesTo(p, label)
    BY <2>1, <2>3 DEF MovesTo, PC
  <2>5. QED BY <2>4, SplitsMove
<1>6. CASE UNCHANGED vars
  BY <1>6 DEF vars, SplitsLong, Split, Used, Child
<1>7. QED
  BY <1>1, <1>2, <1>3, <1>4, <1>5, <1>6 DEF Next, Step, Ended

THEOREM BoundInvHolds == ASSUME FitsInt PROVE Spec => []BoundInv
<1>1. Init /\ RaceInv => SplitsLong
  BY BoundInit
<1>2. BoundInv /\ [Next]_vars => SplitsLong'
  BY BoundNext
<1>3. BoundInv <=> RaceInv /\ SplitsLong
  BY DEF BoundInv
<1>4. QED BY <1>1, <1>2, <1>3, RaceInvHolds, PTL DEF Spec

-----------------------------------------------------------------------------
(* The points at which ranges are split.                                   *)

(* Numbers that are m apart have different quotients by m. *)
LEMMA QuotientsGrow ==
  ASSUME NEW m \in Nat \ {0}, NEW x \in Nat, NEW y \in Nat, x + m <= y
  PROVE  x \div m \in Nat /\ y \div m \in Nat /\ x \div m < y \div m
<1>1. \A z \in Nat : /\ z \div m \in Nat
                     /\ m * (z \div m) <= z /\ z < m * (z \div m) + m
  OBVIOUS
<1> DEFINE d == x \div m
           e == y \div m
<1>2. d \in Nat /\ e \in Nat /\ x < m * d + m /\ m * d <= x /\ y < m * e + m
  BY <1>1
<1>3. SUFFICES ASSUME e <= d PROVE FALSE
  BY <1>2
<1> HIDE DEF d, e
<1>4. m * e <= m * d
  BY <1>2, <1>3
<1>5. m * d \in Nat /\ m * e \in Nat
  BY <1>2
<1>6. QED BY <1>2, <1>4, <1>5

(* Each half of a range that is split has at least MinLeaf elements. *)
LEMMA SplitRoom ==
  ASSUME FitsInt, Threshold > 0, BoundInv, NEW p \in Path, Split(p)
  PROVE  /\ MinLeaf \in Nat \ {0}
         /\ lo[p] \in Nat /\ hi[p] \in Nat /\ Mid(p) \in Nat /\ hi[p] <= N
         /\ lo[p] + MinLeaf <= Mid(p) /\ Mid(p) + MinLeaf <= hi[p]
<1>1. /\ lo[p] \in Nat /\ hi[p] \in Nat /\ lo[p] <= hi[p] /\ hi[p] <= N
      /\ NumElements(p) = hi[p] - lo[p]
  BY RangeFacts DEF BoundInv, RaceInv, TypeInv
<1>2. hi[p] - lo[p] > Threshold
  BY DEF BoundInv, SplitsLong
<1>3. Mid(p) = lo[p] + ((hi[p] - lo[p]) \div 2)
  BY <1>1 DEF Mid, Half
<1>4. QED BY <1>1, <1>2, <1>3, ConstAssumption DEF MinLeaf

(* Two processes split at points at least MinLeaf apart: one of them works *)
(* on a half of the other, or their ranges are apart.                      *)
LEMMA SplitBelow ==
  ASSUME FitsInt, Threshold > 0, BoundInv, NEW p \in Path, NEW q \in Path,
         Split(p), Split(q), p # q, InSubtree(p, q)
  PROVE  Mid(p) + MinLeaf <= Mid(q) \/ Mid(q) + MinLeaf <= Mid(p)
<1> USE DEF BoundInv, RaceInv, TreeInv
<1>1. PICK s \in Side : Len(p) < MaxDepth /\ InSubtree(Child(p, s), q)
  BY BelowIsBelowChild
<1>2. Child(p, s) \in Path
  BY <1>1, ChildIsPath
<1>3. Used(q)
  <2>1. PICK t \in Side : Len(q) < MaxDepth /\ Used(Child(q, t))
    BY DEF Split
  <2>2. Child(q, t) \in Path /\ InSubtree(q, Child(q, t))
    BY <2>1, ChildIsPath, AboveChild, SubtreeRefl
  <2>3. QED BY <2>1, <2>2 DEF NestedInv
<1>4. /\ Used(Child(p, s)) /\ lo[Child(p, s)] <= lo[q] /\ hi[q] <= hi[Child(p, s)]
  BY <1>1, <1>2, <1>3 DEF NestedInv
<1>5. IF s = "l" THEN hi[q] <= Mid(p) ELSE Mid(p) <= lo[q]
  BY <1>1, <1>4 DEF SplitInv
<1>6. QED BY <1>5, SplitRoom

LEMMA SplitsApart ==
  ASSUME FitsInt, Threshold > 0, BoundInv, NEW p \in Path, NEW q \in Path,
         Split(p), Split(q), p # q
  PROVE  Mid(p) + MinLeaf <= Mid(q) \/ Mid(q) + MinLeaf <= Mid(p)
<1> USE DEF BoundInv, RaceInv, TreeInv
<1>1. CASE InSubtree(p, q)
  BY <1>1, SplitBelow
<1>2. CASE InSubtree(q, p)
  BY <1>2, SplitBelow
<1>3. CASE ~InSubtree(p, q) /\ ~InSubtree(q, p)
  <2>1. \A r \in Path : Split(r) => Used(r)
    <3> SUFFICES ASSUME NEW r \in Path, Split(r) PROVE Used(r)
      OBVIOUS
    <3>1. PICK t \in Side : Len(r) < MaxDepth /\ Used(Child(r, t))
      BY DEF Split
    <3>2. QED BY <3>1 DEF TypeInv, FreshInv, HasForked, Early, Used
  <2>2. hi[p] <= lo[q] \/ hi[q] <= lo[p]
    BY <1>3, <2>1 DEF DisjointInv
  <2>3. QED BY <2>2, SplitRoom
<1>4. QED BY <1>1, <1>2, <1>3

-----------------------------------------------------------------------------
(* Counting: a forked process is named by its side and the point at which  *)
(* its parent splits, in units of MinLeaf.                                 *)

(* Every process but the top-level one is a child. *)
LEMMA HasParent ==
  ASSUME NEW q \in Path, q # Root
  PROVE  \E p \in Path, s \in Side : Len(p) < MaxDepth /\ q = Child(p, s)
<1>1. q \in Seq(Side) /\ Len(q) \in Nat /\ Len(q) <= MaxDepth
  BY PathFacts, PathIsSeq
<1>2. Len(q) # 0
  BY <1>1 DEF Root
<1> DEFINE p == [i \in 1 .. Len(q) - 1 |-> q[i]]
<1>3. /\ p \in Seq(Side) /\ Len(p) = Len(q) - 1
      /\ \A i \in 1 .. Len(q) - 1 : p[i] = q[i]
  <2>1. Len(q) - 1 \in Nat /\ p \in [1 .. Len(q) - 1 -> Side]
    BY <1>1, <1>2
  <2>2. QED BY <2>1
<1> HIDE DEF p
<1>4. q[Len(q)] \in Side
  BY <1>1, <1>2
<1>5. Append(p, q[Len(q)]) = q
  <2> DEFINE r == Append(p, q[Len(q)])
  <2>1. /\ r \in Seq(Side) /\ Len(r) = Len(q)
        /\ \A i \in 1 .. Len(q) - 1 : r[i] = q[i]
        /\ r[Len(q)] = q[Len(q)]
    BY <1>1, <1>2, <1>3, <1>4, AppendProperties
  <2>2. \A i \in 1 .. Len(q) : r[i] = q[i]
    BY <1>1, <2>1
  <2> HIDE DEF r
  <2>3. r = q
    BY <1>1, <2>1, <2>2, SeqEqual
  <2>4. QED BY <2>3 DEF r
<1>6. p \in Path /\ Len(p) < MaxDepth
  BY <1>1, <1>2, <1>3, PathIsSeq, ConstAssumption
<1>7. QED BY <1>4, <1>5, <1>6 DEF Child

(* With k the quotient of the last point, there are at most 2 * k forks. *)
LEMMA ForksAreFew ==
  ASSUME FitsInt, Threshold > 0, BoundInv, NEW k \in Nat,
         \A p \in Path : Split(p) => Mid(p) \div MinLeaf \in 1..k
  PROVE  IsFiniteSet(Forked \ {Root}) /\ Cardinality(Forked \ {Root}) <= 2 * k
<1> DEFINE F == Forked \ {Root}
           T == Side \X (1..k)
           Names(q, t) == \E p \in Path, s \in Side :
                            /\ Len(p) < MaxDepth /\ q = Child(p, s)
                            /\ t = <<s, Mid(p) \div MinLeaf>>
           f == [q \in F |-> CHOOSE t \in T : Names(q, t)]
<1>1. \A q \in F : \E t \in T : Names(q, t)
  <2> SUFFICES ASSUME NEW q \in F PROVE \E t \in T : Names(q, t)
    OBVIOUS
  <2>1. q \in Path /\ Used(q) /\ q # Root
    BY DEF Forked, Used
  <2>2. PICK p \in Path, s \in Side : Len(p) < MaxDepth /\ q = Child(p, s)
    BY <2>1, HasParent
  <2>3. Split(p)
    BY <2>1, <2>2 DEF Split
  <2>4. <<s, Mid(p) \div MinLeaf>> \in T
    BY <2>3
  <2>5. QED BY <2>2, <2>4
<1>2. \A q \in F : f[q] \in T /\ Names(q, f[q])
  <2> HIDE DEF Names, T
  <2>1. QED BY <1>1
<1>3. ASSUME NEW q \in F, NEW r \in F, f[q] = f[r] PROVE q = r
  <2> DEFINE t == f[q]
  <2>1. Names(q, t) /\ Names(r, t)
    <3> HIDE DEF Names, f, F
    <3> QED BY <1>2, <1>3
  <2> HIDE DEF f, t
  <2>2. PICK p \in Path, s \in Side : /\ Len(p) < MaxDepth /\ q = Child(p, s)
                                      /\ t = <<s, Mid(p) \div MinLeaf>>
    BY <2>1
  <2>3. PICK u \in Path, v \in Side : /\ Len(u) < MaxDepth /\ r = Child(u, v)
                                      /\ t = <<v, Mid(u) \div MinLeaf>>
    BY <2>1
  <2>4. s = v /\ Mid(p) \div MinLeaf = Mid(u) \div MinLeaf
    BY <2>2, <2>3
  <2>5. Split(p) /\ Split(u)
    BY <2>2, <2>3 DEF Split, Forked, Used
  <2>6. SUFFICES ASSUME p # u PROVE FALSE
    BY <2>2, <2>3, <2>4
  <2>7. Mid(p) + MinLeaf <= Mid(u) \/ Mid(u) + MinLeaf <= Mid(p)
    BY <2>5, <2>6, SplitsApart
  <2>8. MinLeaf \in Nat \ {0} /\ Mid(p) \in Nat /\ Mid(u) \in Nat
    BY <2>5, SplitRoom
  <2>9. QED BY <2>4, <2>7, <2>8, QuotientsGrow
<1>4. f \in Injection(F, T)
  <2>1. f \in [F -> T]
    <3> HIDE DEF Names, T, F
    <3> QED BY <1>2
  <2>2. IsInjective(f)
    <3> HIDE DEF F
    <3>1. DOMAIN f = F
      OBVIOUS
    <3> HIDE DEF f
    <3>2. QED BY <1>3, <3>1 DEF IsInjective
  <2>3. QED BY <2>1, <2>2 DEF Injection
<1>5. IsFiniteSet(T) /\ Cardinality(T) = 2 * k
  <2>1. IsFiniteSet(1..k) /\ Cardinality(1..k) = k
    BY FS_Interval
  <2>2. IsFiniteSet({"l"}) /\ Cardinality({"l"}) = 1
    BY FS_Singleton
  <2>3. IsFiniteSet(Side) /\ Cardinality(Side) = 2
    <3>1. Side = {"l"} \union {"r"} /\ "r" \notin {"l"}
      BY DEF Side
    <3>2. QED BY <2>2, <3>1, FS_AddElement
  <2>4. IsFiniteSet(Side \X (1..k)) /\ Cardinality(Side \X (1..k)) = 2 * k
    BY <2>1, <2>3, FS_Product
  <2>5. QED BY <2>4
<1>6. IsFiniteSet(F) /\ Cardinality(F) <= Cardinality(T)
  <2> HIDE DEF F, T, f
  <2> QED BY <1>4, <1>5, FS_Injection
<1>7. QED BY <1>5, <1>6

(* The threshold bounds the number of processes, whatever the file holds   *)
(* and whatever fails: one process up to threshold elements, and else      *)
(* fewer than two for every MinLeaf elements.  With a threshold of 0,      *)
(* which main accepts, there is no such bound.                             *)
THEOREM ProcessesAreBounded ==
  ASSUME FitsInt, Threshold > 0
  PROVE  Spec => []ProcessBound
<1>1. BoundInv => ProcessBound
  <2> SUFFICES ASSUME BoundInv PROVE ProcessBound
    OBVIOUS
  <2> DEFINE k == IF N <= Threshold THEN 0 ELSE N \div MinLeaf - 1
  <2>1. k \in Nat
    <3>1. CASE N <= Threshold
      BY <3>1
    <3>2. CASE N > Threshold
      <4>1. MinLeaf \in Nat \ {0} /\ 0 + MinLeaf <= N
        BY <3>2, ConstAssumption DEF MinLeaf
      <4>2. 0 \div MinLeaf \in Nat /\ N \div MinLeaf \in Nat
            /\ 0 \div MinLeaf < N \div MinLeaf
        BY <4>1, QuotientsGrow, ConstAssumption
      <4>3. QED BY <3>2, <4>2
    <3>3. QED BY <3>1, <3>2, ConstAssumption
  <2>2. ASSUME NEW p \in Path, Split(p) PROVE Mid(p) \div MinLeaf \in 1..k
    <3>1. /\ MinLeaf \in Nat \ {0}
          /\ lo[p] \in Nat /\ hi[p] \in Nat /\ Mid(p) \in Nat /\ hi[p] <= N
          /\ lo[p] + MinLeaf <= Mid(p) /\ Mid(p) + MinLeaf <= hi[p]
      BY <2>2, SplitRoom
    <3>2. N > Threshold
      BY <2>2, <3>1, ConstAssumption DEF BoundInv, SplitsLong
    <3>3. /\ 0 + MinLeaf <= Mid(p) /\ Mid(p) + MinLeaf <= N
      BY <3>1, ConstAssumption
    <3>4. /\ 0 \div MinLeaf \in Nat /\ Mid(p) \div MinLeaf \in Nat
          /\ 0 \div MinLeaf < Mid(p) \div MinLeaf
      BY <3>1, <3>3, QuotientsGrow
    <3>5. Mid(p) \div MinLeaf < N \div MinLeaf /\ N \div MinLeaf \in Nat
      BY <3>1, <3>3, QuotientsGrow, ConstAssumption
    <3>6. QED BY <3>2, <3>4, <3>5, ConstAssumption
  <2> HIDE DEF k
  <2>3. /\ IsFiniteSet(Forked \ {Root})
        /\ Cardinality(Forked \ {Root}) <= 2 * k
    BY <2>1, <2>2, ForksAreFew
  <2>4. /\ Cardinality(Forked \ {Root}) \in Nat
        /\ IsFiniteSet((Forked \ {Root}) \union {Root})
        /\ Cardinality((Forked \ {Root}) \union {Root})
             = Cardinality(Forked \ {Root}) + 1
    BY <2>3, FS_AddElement, FS_CardinalityType
  <2>5. /\ Cardinality(Forked) \in Nat
        /\ Cardinality(Forked) <= Cardinality((Forked \ {Root}) \union {Root})
    <3>1. Forked \in SUBSET ((Forked \ {Root}) \union {Root})
      OBVIOUS
    <3>2. QED BY <2>4, <3>1, FS_Subset, FS_CardinalityType
  <2>6. Cardinality(Forked) <= 2 * k + 1
    BY <2>1, <2>3, <2>4, <2>5
  <2>7. CASE N <= Threshold
    BY <2>6, <2>7 DEF k, ProcessBound
  <2>8. CASE ~(N <= Threshold)
    <3>1. k = N \div MinLeaf - 1
      BY <2>8 DEF k
    <3>2. N \div MinLeaf \in Int
      <4>1. MinLeaf \in Nat \ {0}
        BY ConstAssumption DEF MinLeaf
      <4>2. QED BY <4>1, ConstAssumption
    <3>3. 2 * k + 1 = 2 * (N \div MinLeaf) - 1
      BY <3>1, <3>2
    <3>4. QED BY <2>6, <2>8, <3>3 DEF ProcessBound
  <2>9. QED BY <2>7, <2>8
<1>2. QED BY <1>1, BoundInvHolds, PTL
=============================================================================
