------------------------------ MODULE CacheSim ------------------------------
(***************************************************************************)
(* The cache simulator csf_assign03: main reads a trace of loads and       *)
(* stores and keeps, for each, the blocks of a set-associative cache, its  *)
(* timestamps and its statistics.  The data in the blocks is not simulated *)
(* by the program; the history variable unsaved recalls which blocks hold  *)
(* a store that memory has not seen.  Block.offset is written and never    *)
(* read by the program, and left out.                                      *)
(***************************************************************************)
EXTENDS CacheAddress, FiniteSets, Sequences

CONSTANTS
  NumSets, BlocksPerSet, BytesPerBlock,  \* the sizes on the command line
  CounterMod,   \* 2^32 in the program: the values of an unsigned counter
  Address,      \* the addresses of the trace
  MaxTrace      \* bound: the number of lines of the trace

(* What main accepts, except BlocksPerSet, which it does not test. *)
SizesAssumption ==
  /\ WordBits \in Nat \ {0}
  /\ NumSets \in PowersOfTwo
  /\ BytesPerBlock \in PowersOfTwo /\ BytesPerBlock >= 4
  /\ NumSets * BytesPerBlock < 2^WordBits
  /\ BlocksPerSet \in Nat \ {0}
  /\ CounterMod \in Nat \ {0}
  /\ Address \subseteq Unsigned
  /\ MaxTrace \in Nat

VARIABLES
  wa, wb, lru,  \* the flags main sets from the command line
  line,         \* the line of the trace read last: ls and memaddress of main
  sets,         \* sets[i]: struct Sets
  stats,        \* the counters of struct Cache
  unsaved       \* history: blocks <<index, tag, how>> with a store that is
                \* not in memory, how being whether that store hit or missed

vars == <<wa, wb, lru, line, sets, stats, unsaved>>

SetIndex == 0 .. NumSets-1
Way == 0 .. BlocksPerSet-1
NoLine == << >>
Unsaved == SetIndex \X Unsigned \X {"hit", "miss"}

Tag(a) == get_tag(a, BytesPerBlock, NumSets)
Index(a) == get_index(a, BytesPerBlock, NumSets)

Plus(n, k) == (n + k) % CounterMod

-----------------------------------------------------------------------------
(* buildCache *)
EmptyBlock == [tag |-> 0, valid |-> FALSE, load_ts |-> 0, access_ts |-> 0,
               dirty |-> FALSE]
EmptySet == [blocks |-> [j \in Way |-> EmptyBlock], filled |-> 0,
             access_ts_counter |-> 0, load_ts_counter |-> 0]
NoStats == [total_loads |-> 0, total_stores |-> 0, load_hits |-> 0,
            load_misses |-> 0, store_hits |-> 0, store_misses |-> 0,
            total_cycles |-> 0]

(* main compares each mode with one spelling, and rejects write-back only  *)
(* together with the exact word no-write-allocate: any other word gets     *)
(* write-back without allocation past the test.                            *)
Accepts(store_miss, store_hit) ==
  ~(store_hit = "write-back" /\ store_miss = "no-write-allocate")

Init ==
  /\ \E store_miss \in {"write-allocate", "no-write-allocate", "other"},
        store_hit \in {"write-back", "write-through"} :
       /\ Accepts(store_miss, store_hit)
       /\ wa = (store_miss = "write-allocate")
       /\ wb = (store_hit = "write-back")
  /\ lru \in BOOLEAN
  /\ line = NoLine
  /\ sets = [i \in SetIndex |-> EmptySet]
  /\ stats = NoStats
  /\ unsaved = {}

-----------------------------------------------------------------------------
(* The scan over the blocks of a set s.                                    *)
Matching(s, t) == {j \in Way : s.blocks[j].valid /\ s.blocks[j].tag = t}
Empties(s) == {j \in Way : ~s.blocks[j].valid}
First(J) == CHOOSE j \in J : \A k \in J : j <= k

OldestOf(ts) == First({j \in Way : \A k \in Way : ts[j] <= ts[k]})

AccessTs(s) == [j \in Way |-> s.blocks[j].access_ts]
LoadTs(s) == [j \in Way |-> s.blocks[j].load_ts]

(* Where load_miss puts the block. *)
Victim(s) ==
  IF Empties(s) # {} THEN First(Empties(s))
  ELSE IF lru THEN OldestOf(AccessTs(s)) ELSE OldestOf(LoadTs(s))

(* Mutant: a store does not count as an access. *)
TouchNothing(s, t) == s

(* A hit gives the block the current access timestamp. *)
Touch(s, t) ==
  [s EXCEPT !.blocks = [j \in Way |->
     IF j \in Matching(s, t) THEN [@[j] EXCEPT !.access_ts = s.access_ts_counter]
     ELSE @[j]]]

Fill(s, t) ==
  LET j == Victim(s) IN
  [s EXCEPT !.filled = IF Empties(s) # {} THEN @ + 1 ELSE @,
            !.blocks[j] = [tag |-> t, valid |-> TRUE,
                           load_ts |-> s.load_ts_counter,
                           access_ts |-> s.access_ts_counter,
                           dirty |-> Empties(s) # {} /\ @.dirty]]

(* Mutant: the dirty block that is replaced is not transferred. *)
WritesBackNever(s) == FALSE

(* The victim was dirty: its transfer to memory is charged as well. *)
WritesBack(s) == Empties(s) = {} /\ s.blocks[Victim(s)].dirty

MemoryTransfer == (BytesPerBlock \div 4) * 100

(* Mutant: load does not advance the timestamp counters. *)
TickedNothing(s) == s

(* load on set s, whose timestamp counters it advances first. *)
Ticked(s) == [s EXCEPT !.access_ts_counter = Plus(@, 1),
                       !.load_ts_counter = Plus(@, 1)]

LoadSet(s, t) ==
  IF Matching(s, t) # {} THEN Touch(Ticked(s), t) ELSE Fill(Ticked(s), t)

LoadCycles(s, t) ==
  IF Matching(s, t) # {} THEN 1
  ELSE MemoryTransfer + 2 + (IF WritesBack(s) THEN MemoryTransfer ELSE 0)

Misses(s, t) == Matching(s, t) = {}

(* Blocks of set i that reach memory when t is brought into it. *)
Saved(i, t) ==
  IF Misses(sets[i], t) /\ WritesBack(sets[i])
  THEN {<<i, sets[i].blocks[Victim(sets[i])].tag, how>> : how \in {"hit", "miss"}}
  ELSE {}

(* A write-back store to t in set i, which memory does not see. *)
Pending(i, t) ==
  IF ~wb THEN {} ELSE {<<i, t, IF Misses(sets[i], t) THEN "miss" ELSE "hit">>}

TraceLeft == stats.total_loads + stats.total_stores < MaxTrace

(* The next line of the trace: ls says whether it is a load or a store.    *)
Read(ls, a) == TraceLeft /\ line' = <<ls, a>>

Load(a) ==
  LET i == Index(a)  t == Tag(a)  s == sets[i] IN
  /\ Read("l", a)
  /\ sets' = [sets EXCEPT ![i] = LoadSet(s, t)]
  /\ stats' = [stats EXCEPT
                 !.total_loads = Plus(@, 1),
                 !.load_hits = IF Misses(s, t) THEN @ ELSE Plus(@, 1),
                 !.load_misses = IF Misses(s, t) THEN Plus(@, 1) ELSE @,
                 !.total_cycles = Plus(@, LoadCycles(s, t))]
  /\ unsaved' = unsaved \ Saved(i, t)
  /\ UNCHANGED <<wa, wb, lru>>

-----------------------------------------------------------------------------
(* Mutant: write-back does not mark the block. *)
WriteHitClean(s, t) == Touch(s, t)

WriteHit(s, t) ==
  LET touched == Touch(s, t) IN
  [touched EXCEPT !.blocks = [j \in Way |->
     IF j \in Matching(s, t) /\ wb THEN [@[j] EXCEPT !.dirty = TRUE] ELSE @[j]]]

(* store on set s.  A miss in write-allocate mode runs load, which ticks   *)
(* the counters again and leaves the block as a load does: clean.          *)
StoreSet(s, t) ==
  LET ticked == [s EXCEPT !.access_ts_counter = Plus(@, 1)] IN
  IF Matching(s, t) # {} THEN WriteHit(ticked, t)
  ELSE IF wa THEN LoadSet(ticked, t) ELSE ticked

StoreCycles(s, t) ==
  IF Matching(s, t) # {} THEN IF wb THEN 1 ELSE 100
  ELSE (IF wa THEN LoadCycles(s, t) ELSE 0) + (IF wb THEN 0 ELSE 100)

(* Mutant: the load miss counted by load is left in place. *)
StoreKeepsLoadMiss(a) ==
  LET i == Index(a)  t == Tag(a)  s == sets[i] IN
  /\ Read("s", a)
  /\ sets' = [sets EXCEPT ![i] = StoreSet(s, t)]
  /\ stats' = [stats EXCEPT
                 !.total_stores = Plus(@, 1),
                 !.store_hits = IF Misses(s, t) THEN @ ELSE Plus(@, 1),
                 !.store_misses = IF Misses(s, t) THEN Plus(@, 1) ELSE @,
                 !.load_misses = IF Misses(s, t) /\ wa THEN Plus(@, 1) ELSE @,
                 !.total_cycles = Plus(@, StoreCycles(s, t))]
  /\ unsaved' = (IF wa THEN unsaved \ Saved(i, t) ELSE unsaved)
                \union Pending(i, t)
  /\ UNCHANGED <<wa, wb, lru>>

(* load_misses is incremented by load and decremented again by store_miss. *)
Store(a) ==
  LET i == Index(a)  t == Tag(a)  s == sets[i] IN
  /\ Read("s", a)
  /\ sets' = [sets EXCEPT ![i] = StoreSet(s, t)]
  /\ stats' = [stats EXCEPT
                 !.total_stores = Plus(@, 1),
                 !.store_hits = IF Misses(s, t) THEN @ ELSE Plus(@, 1),
                 !.store_misses = IF Misses(s, t) THEN Plus(@, 1) ELSE @,
                 !.total_cycles = Plus(@, StoreCycles(s, t))]
  /\ unsaved' = (IF wa THEN unsaved \ Saved(i, t) ELSE unsaved)
                \union Pending(i, t)
  /\ UNCHANGED <<wa, wb, lru>>

Next == \E a \in Address : Load(a) \/ Store(a)

Spec == Init /\ [][Next]_vars

(* The main loop reads the trace to its end. *)
FairSpec == Spec /\ WF_vars(Next)

-----------------------------------------------------------------------------
(* Properties.                                                             *)

Counter == 0 .. CounterMod-1
BlockType == [tag : Unsigned, valid : BOOLEAN, load_ts : Counter,
              access_ts : Counter, dirty : BOOLEAN]
SetType == [blocks : [Way -> BlockType], filled : 0 .. BlocksPerSet,
            access_ts_counter : Counter, load_ts_counter : Counter]
StatsType == [total_loads : Counter, total_stores : Counter,
              load_hits : Counter, load_misses : Counter,
              store_hits : Counter, store_misses : Counter,
              total_cycles : Counter]

(* Every variable has its type. *)
TypeOK ==
  /\ wa \in BOOLEAN /\ wb \in BOOLEAN /\ lru \in BOOLEAN
  /\ line \in {NoLine} \union ({"l", "s"} \X Address)
  /\ sets \in [SetIndex -> SetType]
  /\ stats \in StatsType
  /\ unsaved \subseteq Unsaved

Valid(s) == {j \in Way : s.blocks[j].valid}

(* What the scans of load and store rely on in every set: no two blocks    *)
(* hold the same tag (a hit would be counted twice), blocks are filled     *)
(* from the front and counted by filled, an empty block is clean, and no   *)
(* two blocks share a timestamp (the block to evict is unique).            *)
WellFormed ==
  \A i \in SetIndex :
    LET s == sets[i] IN
    /\ Valid(s) = 0 .. s.filled-1
    /\ \A j \in Way \ Valid(s) : ~s.blocks[j].dirty
    /\ \A j, k \in Valid(s) :
         j # k => /\ s.blocks[j].tag # s.blocks[k].tag
                  /\ s.blocks[j].access_ts # s.blocks[k].access_ts
                  /\ s.blocks[j].load_ts # s.blocks[k].load_ts

(* The debugging check left in main.cpp 108-116: every access is counted   *)
(* once, as a hit or as a miss of its kind, although a store miss goes     *)
(* through load, which counts a load miss of its own.                      *)
EveryAccessCounted ==
  /\ stats.total_loads = Plus(stats.load_hits, stats.load_misses)
  /\ stats.total_stores = Plus(stats.store_hits, stats.store_misses)

(* main.cpp 23: a dirty block that is evicted has to be written back to    *)
(* memory.  The dirty bit of a block never goes away but with the block,   *)
(* in a step that charges two transfers: one out, one in.                  *)
DirtyLeavesPaid ==
  [][\A i \in SetIndex, j \in Way :
       sets[i].blocks[j].dirty /\ ~sets'[i].blocks[j].dirty =>
         /\ sets'[i].blocks[j].tag # sets[i].blocks[j].tag
         /\ stats'.total_cycles >= stats.total_cycles + 2 * MemoryTransfer]_vars

Dirty(b) == \E j \in Way : /\ sets[b[1]].blocks[j].valid
                           /\ sets[b[1]].blocks[j].tag = b[2]
                           /\ sets[b[1]].blocks[j].dirty

(* main.cpp 23: for write-back a store writes to the cache only and marks  *)
(* the block dirty; if the block is evicted later, it has to be written    *)
(* back to memory.  So a store that memory has not seen is in a dirty      *)
(* block.                                                                  *)
NoStoreLost == \A b \in unsaved : Dirty(b)

(* NoStoreLost as far as the code keeps it: the store of a hit is not lost *)
(* until the block is written back.                                        *)
NoHitStoreLost == \A b \in unsaved : b[3] = "hit" => Dirty(b)

=============================================================================
