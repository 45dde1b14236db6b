--------------------------- MODULE CacheContract ---------------------------
(***************************************************************************)
(* The set-associative cache that the usage text of csf_assign03/main.cpp  *)
(* describes: without timestamps, and without counters that can wrap.      *)
(* Each set holds the tags of its blocks and which of them is newer than   *)
(* which: by last access for lru, by arrival for fifo.                     *)
(***************************************************************************)
EXTENDS Naturals, FiniteSets

CONSTANTS
  Sets,   \* the indices of the sets
  Ways,   \* blocks in each set
  Tags    \* the tags a block may have

VARIABLES
  lru,       \* lru, or else fifo
  allocate,  \* a store that misses brings the block in
  access,    \* the last access: "l" for load or "s" for store, set, tag
  resident,  \* resident[i]: the tags in set i, and their order
  count      \* load_hits, load_misses, store_hits, store_misses

cvars == <<lru, allocate, access, resident, count>>

Init ==
  /\ lru \in BOOLEAN
  /\ allocate \in BOOLEAN
  /\ access = << >>
  /\ resident = [i \in Sets |-> [tags |-> {}, newer |-> {}]]
  /\ count = [load_hits |-> 0, load_misses |-> 0,
              store_hits |-> 0, store_misses |-> 0]

Holds(i, t) == t \in resident[i].tags

(* s without the block t, and s with t as its newest block. *)
Without(s, t) ==
  [tags |-> s.tags \ {t},
   newer |-> {p \in s.newer : p[1] # t /\ p[2] # t}]

WithNewest(s, t) ==
  [tags |-> s.tags \union {t},
   newer |-> Without(s, t).newer \union {<<t, u>> : u \in s.tags \ {t}}]

Oldest(s) == CHOOSE t \in s.tags : \A u \in s.tags \ {t} : <<u, t>> \in s.newer

Use(s, t) == IF lru THEN WithNewest(s, t) ELSE s

(* The oldest block leaves when the set is full. *)
Bring(s, t) ==
  WithNewest(IF Cardinality(s.tags) = Ways THEN Without(s, Oldest(s)) ELSE s, t)

Counted(what) == count' = [count EXCEPT ![what] = @ + 1]
SetBecomes(i, s) == resident' = [resident EXCEPT ![i] = s]

LoadHit(i, t) ==
  /\ access' = <<"l", i, t>> /\ Holds(i, t)
  /\ SetBecomes(i, Use(resident[i], t)) /\ Counted("load_hits")

LoadMiss(i, t) ==
  /\ access' = <<"l", i, t>> /\ ~Holds(i, t)
  /\ SetBecomes(i, Bring(resident[i], t)) /\ Counted("load_misses")

StoreHit(i, t) ==
  /\ access' = <<"s", i, t>> /\ Holds(i, t)
  /\ SetBecomes(i, Use(resident[i], t)) /\ Counted("store_hits")

(* Without write-allocate a store miss does not modify the cache. *)
StoreMiss(i, t) ==
  /\ access' = <<"s", i, t>> /\ ~Holds(i, t)
  /\ SetBecomes(i, IF allocate THEN Bring(resident[i], t) ELSE resident[i])
  /\ Counted("store_misses")

Next ==
  /\ \E i \in Sets, t \in Tags :
       LoadHit(i, t) \/ LoadMiss(i, t) \/ StoreHit(i, t) \/ StoreMiss(i, t)
  /\ UNCHANGED <<lru, allocate>>

Spec == Init /\ [][Next]_cvars
=============================================================================
