--------------------------- MODULE CacheInclusion ---------------------------
(***************************************************************************)
(* Two simulators of csf_assign03 run on the same trace with the same      *)
(* modes, one with FewWays and one with ManyWays blocks in each set: the   *)
(* comparison csf_assign03/README.txt makes between cache shapes.          *)
(***************************************************************************)
EXTENDS Integers

CONSTANTS
  WordBits, NumSets, BytesPerBlock, CounterMod, Address, MaxTrace,
  FewWays, ManyWays

VARIABLES wa, wb, lru, line, fewSets, fewStats, fewUnsaved,
          manySets, manyStats, manyUnsaved

vars == <<wa, wb, lru, line, fewSets, fewStats, fewUnsaved,
          manySets, manyStats, manyUnsaved>>

Few == INSTANCE CacheRefinement WITH BlocksPerSet <- FewWays,
         sets <- fewSets, stats <- fewStats, unsaved <- fewUnsaved
Many == INSTANCE CacheRefinement WITH BlocksPerSet <- ManyWays,
          sets <- manySets, stats <- manyStats, unsaved <- manyUnsaved

ASSUME WaysAssumption ==
  /\ FewWays <= ManyWays
  /\ Few!SizesAssumption /\ Many!SizesAssumption
  /\ Few!PowersDouble

Init == Few!Init /\ Many!Init

Load(a) == Few!Load(a) /\ Many!Load(a)
Store(a) == Few!Store(a) /\ Many!Store(a)

Next == \E a \in Address : Load(a) \/ Store(a)

Spec == Init /\ [][Next]_vars

-----------------------------------------------------------------------------
(* Properties: those of CacheSim, of both caches, and one that compares    *)
(* them.                                                                   *)

(* The scans of load and store find sets in order (CacheSim!WellFormed).   *)
WellFormed == Few!WellFormed /\ Many!WellFormed

(* Every access is a hit or a miss, once (CacheSim!EveryAccessCounted).    *)
EveryAccessCounted == Few!EveryAccessCounted /\ Many!EveryAccessCounted

(* A store that hit with write-back is in a dirty block until it is in     *)
(* memory (CacheSim!NoHitStoreLost).                                       *)
NoHitStoreLost == Few!NoHitStoreLost /\ Many!NoHitStoreLost

(* Dirty blocks leave with their transfer to memory charged                *)
(* (CacheSim!DirtyLeavesPaid).                                             *)
DirtyLeavesPaid == Few!DirtyLeavesPaid /\ Many!DirtyLeavesPaid

(* Each is the cache of the usage text (CacheRefinement!KeepsContract).    *)
KeepsContract == Few!KeepsContract /\ Many!KeepsContract

(* tag and index name the block of every address, for all sizes that fit   *)
(* in a word (CacheRefinement!EveryAddressNamed).                          *)
EveryAddressNamed == Few!EveryAddressNamed

(* With lru, more ways never hurt: whatever mode handles the stores, the   *)
(* larger cache holds all the smaller one holds, and has missed no more    *)
(* often.  (fifo has no such property.)                                    *)
LruInclusion ==
  lru => /\ \A i \in Few!SetIndex :
              Few!TagsIn(fewSets[i]) \subseteq Many!TagsIn(manySets[i])
         /\ manyStats.load_misses <= fewStats.load_misses
         /\ manyStats.store_misses <= fewStats.store_misses
=============================================================================
