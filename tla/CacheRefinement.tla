-------------------------- MODULE CacheRefinement --------------------------
(***************************************************************************)
(* The simulator of CacheSim, with its timestamps, is the cache of         *)
(* CacheContract: the order in which a set's blocks are to be evicted is   *)
(* the order of their timestamps.                                          *)
(***************************************************************************)
EXTENDS CacheSim

(* j is newer than k in s, by the timestamp that counts. *)
Newer(s, j, k) ==
  IF lru THEN s.blocks[j].access_ts > s.blocks[k].access_ts
  ELSE s.blocks[j].load_ts > s.blocks[k].load_ts

(* What a set holds, and in which order: the state of CacheContract. *)
TagsIn(s) == {s.blocks[j].tag : j \in Valid(s)}
Content(s) ==
  [tags |-> TagsIn(s),
   newer |-> {p \in TagsIn(s) \X TagsIn(s) :
                \E j, k \in Valid(s) :
                  Newer(s, j, k) /\ p = <<s.blocks[j].tag, s.blocks[k].tag>>}]

(* The memory is a row of blocks that are dealt to the sets in turn.       *)
Block(a) == a \div BytesPerBlock

Contract == INSTANCE CacheContract WITH
  Sets <- SetIndex,
  Ways <- BlocksPerSet,
  Tags <- {Block(a) \div NumSets : a \in Address},
  allocate <- wa,
  access <- IF line = NoLine THEN << >>
            ELSE <<line[1], Block(line[2]) % NumSets, Block(line[2]) \div NumSets>>,
  resident <- [i \in SetIndex |-> Content(sets[i])],
  count <- [load_hits |-> stats.load_hits, load_misses |-> stats.load_misses,
            store_hits |-> stats.store_hits, store_misses |-> stats.store_misses]

(* main.cpp 20, 25 and 26: the hits and misses reported are those of a     *)
(* cache that evicts the block that has not been accessed the longest      *)
(* (lru) or that has been in the cache the longest (fifo), and that is not *)
(* modified by a store miss without write-allocate.                        *)
KeepsContract == Contract!Spec

(* tag and index name the block of every address, for all sizes whose      *)
(* fields fit in a word: two addresses share a set and a tag just when     *)
(* they lie in the same block (get_tag, get_index).  It says nothing of    *)
(* the trace and is looked at before its first line.                       *)
EveryAddressNamed ==
  line = NoLine =>
    \A a \in Unsigned, numsets \in PowersOfTwo, bytesperblock \in PowersOfTwo :
      bytesperblock >= 4 /\ numsets * bytesperblock < 2^WordBits =>
        NamesBlock(a, bytesperblock, numsets)
=============================================================================
