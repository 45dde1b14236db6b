------------------------ MODULE CacheInclusionProofs ------------------------
(***************************************************************************)
(* Proofs about the two caches of CacheInclusion: what CacheProofs proves  *)
(* of one cache holds of both, and with lru the one with more ways holds   *)
(* all that the other holds.                                               *)
(***************************************************************************)
EXTENDS CacheInclusion, FiniteSetTheorems, TLAPS

(* The theorems of CacheProofs, for either cache.                          *)
FewP == INSTANCE CacheProofs WITH BlocksPerSet <- FewWays,
          sets <- fewSets, stats <- fewStats, unsaved <- fewUnsaved
ManyP == INSTANCE CacheProofs WITH BlocksPerSet <- ManyWays,
           sets <- manySets, stats <- manyStats, unsaved <- manyUnsaved

LEMMA FewSized == FewP!Sized
BY WaysAssumption
   DEF FewP!Sized, FewP!SizesAssumption, FewP!PowersDouble, FewP!PowersOfTwo,
       FewP!Unsigned, Few!SizesAssumption, Few!PowersOfTwo, Few!Unsigned,
       Few!PowersDouble

(* The definitions of Few are those of FewP.                              *)
LEMMA FewOperators ==
  /\ Few!SetIndex = FewP!SetIndex /\ Few!Way = FewP!Way
  /\ \A a : Few!Index(a) = FewP!Index(a) /\ Few!Tag(a) = FewP!Tag(a)
  /\ \A s, t : /\ Few!Misses(s, t) <=> FewP!Misses(s, t)
               /\ Few!LoadSet(s, t) = FewP!LoadSet(s, t)
               /\ Few!StoreSet(s, t) = FewP!StoreSet(s, t)
               /\ Few!LoadCycles(s, t) = FewP!LoadCycles(s, t)
               /\ Few!StoreCycles(s, t) = FewP!StoreCycles(s, t)
  /\ \A i, t : /\ Few!Saved(i, t) = FewP!Saved(i, t)
               /\ Few!Pending(i, t) = FewP!Pending(i, t)
  /\ \A n, k : Few!Plus(n, k) = FewP!Plus(n, k)
  /\ \A s : Few!Valid(s) = FewP!Valid(s)
  /\ Few!MemoryTransfer = FewP!MemoryTransfer
<1>1. Few!SetIndex = FewP!SetIndex /\ Few!Way = FewP!Way
  BY DEF Few!SetIndex, Few!Way, FewP!SetIndex, FewP!Way
<1>2. /\ \A n : Few!Log2(n) = FewP!Log2(n)
      /\ \A a, n : /\ Few!ShiftLeft(a, n) = FewP!ShiftLeft(a, n)
                   /\ Few!ShiftRight(a, n) = FewP!ShiftRight(a, n)
  BY DEF Few!Log2, Few!ShiftLeft, Few!ShiftRight, FewP!Log2,
       FewP!ShiftLeft, FewP!ShiftRight
<1>3. \A a : Few!Index(a) = FewP!Index(a) /\ Few!Tag(a) = FewP!Tag(a)
  BY <1>2 DEF Few!Index, Few!Tag, Few!get_index, Few!get_tag, FewP!Index,
       FewP!Tag, FewP!get_index, FewP!get_tag
<1>4. /\ \A n, k : Few!Plus(n, k) = FewP!Plus(n, k)
      /\ Few!MemoryTransfer = FewP!MemoryTransfer
  BY DEF Few!Plus, Few!MemoryTransfer, FewP!Plus, FewP!MemoryTransfer
<1>5. /\ \A s, t : Few!Matching(s, t) = FewP!Matching(s, t)
      /\ \A s : /\ Few!Empties(s) = FewP!Empties(s)
               /\ Few!Valid(s) = FewP!Valid(s)
               /\ Few!AccessTs(s) = FewP!AccessTs(s)
               /\ Few!LoadTs(s) = FewP!LoadTs(s)
  BY <1>1 DEF Few!Matching, Few!Empties, Few!Valid, Few!AccessTs, Few!LoadTs,
       FewP!Matching, FewP!Empties, FewP!Valid, FewP!AccessTs,
       FewP!LoadTs
<1>6. \A J : Few!First(J) = FewP!First(J)
  BY DEF Few!First, FewP!First
<1>7. \A ts : Few!OldestOf(ts) = FewP!OldestOf(ts)
  BY <1>1, <1>6 DEF Few!OldestOf, FewP!OldestOf
<1>8. \A s : Few!Victim(s) = FewP!Victim(s)
  BY <1>5, <1>6, <1>7 DEF Few!Victim, FewP!Victim
<1>9. \A s : Few!WritesBack(s) <=> FewP!WritesBack(s)
  BY <1>5, <1>8 DEF Few!WritesBack, FewP!WritesBack
<1>10. \A s, t : Few!Misses(s, t) <=> FewP!Misses(s, t)
  BY <1>5 DEF Few!Misses, FewP!Misses
<1>11. \A s, t : Few!Touch(s, t) = FewP!Touch(s, t)
  BY <1>1, <1>5 DEF Few!Touch, FewP!Touch
<1>12. \A s, t : Few!Fill(s, t) = FewP!Fill(s, t)
  BY <1>5, <1>8 DEF Few!Fill, FewP!Fill
<1>13. \A s : Few!Ticked(s) = FewP!Ticked(s)
  BY <1>4 DEF Few!Ticked, FewP!Ticked
<1>14. \A s, t : Few!LoadSet(s, t) = FewP!LoadSet(s, t)
  BY <1>5, <1>11, <1>12, <1>13 DEF Few!LoadSet, FewP!LoadSet
<1>15. \A s, t : Few!WriteHit(s, t) = FewP!WriteHit(s, t)
  BY <1>1, <1>5, <1>11 DEF Few!WriteHit, FewP!WriteHit
<1>16. \A s, t : Few!StoreSet(s, t) = FewP!StoreSet(s, t)
  BY <1>4, <1>5, <1>14, <1>15 DEF Few!StoreSet, FewP!StoreSet
<1>17. \A s, t : Few!LoadCycles(s, t) = FewP!LoadCycles(s, t)
  BY <1>4, <1>5, <1>9 DEF Few!LoadCycles, FewP!LoadCycles
<1>18. \A s, t : Few!StoreCycles(s, t) = FewP!StoreCycles(s, t)
  BY <1>5, <1>17 DEF Few!StoreCycles, FewP!StoreCycles
<1>19. \A i, t : /\ Few!Saved(i, t) = FewP!Saved(i, t)
                 /\ Few!Pending(i, t) = FewP!Pending(i, t)
  BY <1>8, <1>9, <1>10 DEF Few!Saved, Few!Pending, FewP!Saved, FewP!Pending
<1> QED
  BY <1>1, <1>3, <1>4, <1>5, <1>10, <1>14, <1>16, <1>17, <1>18, <1>19

LEMMA FewInit == Few!Init => FewP!Init
BY DEF Few!Init, Few!Accepts, Few!NoLine, Few!SetIndex, Few!EmptySet,
       Few!EmptyBlock, Few!Way, Few!NoStats, FewP!Init,
       FewP!Accepts, FewP!NoLine, FewP!SetIndex, FewP!EmptySet,
       FewP!EmptyBlock, FewP!Way, FewP!NoStats

LEMMA FewLoad == \A a : Few!Load(a) => FewP!Load(a)
BY FewOperators DEF Few!Load, Few!Read, Few!TraceLeft, FewP!Load, FewP!Read,
       FewP!TraceLeft

LEMMA FewStore == \A a : Few!Store(a) => FewP!Store(a)
BY FewOperators DEF Few!Store, Few!Read, Few!TraceLeft, FewP!Store, FewP!Read,
       FewP!TraceLeft

(* A behaviour of the two caches is one of Few.                           *)
LEMMA FewSpec == Spec => FewP!Spec
<1>1. Init => FewP!Init
  BY FewInit DEF Init
<1>2. Next => FewP!Next
  BY FewLoad, FewStore DEF Next, Load, Store, FewP!Next
<1>3. UNCHANGED vars => UNCHANGED FewP!vars
  BY DEF vars, FewP!vars
<1> QED
  BY <1>1, <1>2, <1>3, PTL DEF Spec, FewP!Spec

LEMMA ManySized == ManyP!Sized
BY WaysAssumption
   DEF ManyP!Sized, ManyP!SizesAssumption, ManyP!PowersDouble, ManyP!PowersOfTwo,
       ManyP!Unsigned, Many!SizesAssumption, Many!PowersOfTwo, Many!Unsigned,
       Few!PowersDouble

(* The definitions of Many are those of ManyP.                              *)
LEMMA ManyOperators ==
  /\ Many!SetIndex = ManyP!SetIndex /\ Many!Way = ManyP!Way
  /\ \A a : Many!Index(a) = ManyP!Index(a) /\ Many!Tag(a) = ManyP!Tag(a)
  /\ \A s, t : /\ Many!Misses(s, t) <=> ManyP!Misses(s, t)
               /\ Many!LoadSet(s, t) = ManyP!LoadSet(s, t)
               /\ Many!StoreSet(s, t) = ManyP!StoreSet(s, t)
               /\ Many!LoadCycles(s, t) = ManyP!LoadCycles(s, t)
               /\ Many!StoreCycles(s, t) = ManyP!StoreCycles(s, t)
  /\ \A i, t : /\ Many!Saved(i, t) = ManyP!Saved(i, t)
               /\ Many!Pending(i, t) = ManyP!Pending(i, t)
  /\ \A n, k : Many!Plus(n, k) = ManyP!Plus(n, k)
  /\ \A s : Many!Valid(s) = ManyP!Valid(s)
  /\ Many!MemoryTransfer = ManyP!MemoryTransfer
<1>1. Many!SetIndex = ManyP!SetIndex /\ Many!Way = ManyP!Way
  BY DEF Many!SetIndex, Many!Way, ManyP!SetIndex, ManyP!Way
<1>2. /\ \A n : Many!Log2(n) = ManyP!Log2(n)
      /\ \A a, n : /\ Many!ShiftLeft(a, n) = ManyP!ShiftLeft(a, n)
                   /\ Many!ShiftRight(a, n) = ManyP!ShiftRight(a, n)
  BY DEF Many!Log2, Many!ShiftLeft, Many!ShiftRight, ManyP!Log2,
       ManyP!ShiftLeft, ManyP!ShiftRight
<1>3. \A a : Many!Index(a) = ManyP!Index(a) /\ Many!Tag(a) = ManyP!Tag(a)
  BY <1>2 DEF Many!Index, Many!Tag, Many!get_index, Many!get_tag, ManyP!Index,
       ManyP!Tag, ManyP!get_index, ManyP!get_tag
<1>4. /\ \A n, k : Many!Plus(n, k) = ManyP!Plus(n, k)
      /\ Many!MemoryTransfer = ManyP!MemoryTransfer
  BY DEF Many!Plus, Many!MemoryTransfer, ManyP!Plus, ManyP!MemoryTransfer
<1>5. /\ \A s, t : Many!Matching(s, t) = ManyP!Matching(s, t)
      /\ \A s : /\ Many!Empties(s) = ManyP!Empties(s)
               /\ Many!Valid(s) = ManyP!Valid(s)
               /\ Many!AccessTs(s) = ManyP!AccessTs(s)
               /\ Many!LoadTs(s) = ManyP!LoadTs(s)
  BY <1>1 DEF Many!Matching, Many!Empties, Many!Valid, Many!AccessTs,
       Many!LoadTs, ManyP!Matching, ManyP!Empties, ManyP!Valid,
       ManyP!AccessTs, ManyP!LoadTs
<1>6. \A J : Many!First(J) = ManyP!First(J)
  BY DEF Many!First, ManyP!First
<1>7. \A ts : Many!OldestOf(ts) = ManyP!OldestOf(ts)
  BY <1>1, <1>6 DEF Many!OldestOf, ManyP!OldestOf
<1>8. \A s : Many!Victim(s) = ManyP!Victim(s)
  BY <1>5, <1>6, <1>7 DEF Many!Victim, ManyP!Victim
<1>9. \A s : Many!WritesBack(s) <=> ManyP!WritesBack(s)
  BY <1>5, <1>8 DEF Many!WritesBack, ManyP!WritesBack
<1>10. \A s, t : Many!Misses(s, t) <=> ManyP!Misses(s, t)
  BY <1>5 DEF Many!Misses, ManyP!Misses
<1>11. \A s, t : Many!Touch(s, t) = ManyP!Touch(s, t)
  BY <1>1, <1>5 DEF Many!Touch, ManyP!Touch
<1>12. \A s, t : Many!Fill(s, t) = ManyP!Fill(s, t)
  BY <1>5, <1>8 DEF Many!Fill, ManyP!Fill
<1>13. \A s : Many!Ticked(s) = ManyP!Ticked(s)
  BY <1>4 DEF Many!Ticked, ManyP!Ticked
<1>14. \A s, t : Many!LoadSet(s, t) = ManyP!LoadSet(s, t)
  BY <1>5, <1>11, <1>12, <1>13 DEF Many!LoadSet, ManyP!LoadSet
<1>15. \A s, t : Many!WriteHit(s, t) = ManyP!WriteHit(s, t)
  BY <1>1, <1>5, <1>11 DEF Many!WriteHit, ManyP!WriteHit
<1>16. \A s, t : Many!StoreSet(s, t) = ManyP!StoreSet(s, t)
  BY <1>4, <1>5, <1>14, <1>15 DEF Many!StoreSet, ManyP!StoreSet
<1>17. \A s, t : Many!LoadCycles(s, t) = ManyP!LoadCycles(s, t)
  BY <1>4, <1>5, <1>9 DEF Many!LoadCycles, ManyP!LoadCycles
<1>18. \A s, t : Many!StoreCycles(s, t) = ManyP!StoreCycles(s, t)
  BY <1>5, <1>17 DEF Many!StoreCycles, ManyP!StoreCycles
<1>19. \A i, t : /\ Many!Saved(i, t) = ManyP!Saved(i, t)
                 /\ Many!Pending(i, t) = ManyP!Pending(i, t)
  BY <1>8, <1>9, <1>10 DEF Many!Saved, Many!Pending, ManyP!Saved, ManyP!Pending
<1> QED
  BY <1>1, <1>3, <1>4, <1>5, <1>10, <1>14, <1>16, <1>17, <1>18, <1>19

LEMMA ManyInit == Many!Init => ManyP!Init
BY DEF Many!Init, Many!Accepts, Many!NoLine, Many!SetIndex,
       Many!EmptySet, Many!EmptyBlock, Many!Way, Many!NoStats,
       ManyP!Init, ManyP!Accepts, ManyP!NoLine, ManyP!SetIndex,
       ManyP!EmptySet, ManyP!EmptyBlock, ManyP!Way, ManyP!NoStats

LEMMA ManyLoad == \A a : Many!Load(a) => ManyP!Load(a)
BY ManyOperators DEF Many!Load, Many!Read, Many!TraceLeft, ManyP!Load, ManyP!Read,
       ManyP!TraceLeft

LEMMA ManyStore == \A a : Many!Store(a) => ManyP!Store(a)
BY ManyOperators DEF Many!Store, Many!Read, Many!TraceLeft, ManyP!Store, ManyP!Read,
       ManyP!TraceLeft

(* A behaviour of the two caches is one of Many.                           *)
LEMMA ManySpec == Spec => ManyP!Spec
<1>1. Init => ManyP!Init
  BY ManyInit DEF Init
<1>2. Next => ManyP!Next
  BY ManyLoad, ManyStore DEF Next, Load, Store, ManyP!Next
<1>3. UNCHANGED vars => UNCHANGED ManyP!vars
  BY DEF vars, ManyP!vars
<1> QED
  BY <1>1, <1>2, <1>3, PTL DEF Spec, ManyP!Spec

-----------------------------------------------------------------------------
(* With lru, the larger cache holds what the smaller one holds.            *)

(* Set c is a part of set d, with the order of d.                          *)
Within(c, d) ==
  /\ c.tags \subseteq d.tags
  /\ \A x, y \in c.tags : <<x, y>> \in c.newer <=> <<x, y>> \in d.newer

Less(s, t) == FewP!Contract!Without(s, t)
Renewed(s, t) == FewP!Contract!WithNewest(s, t)

LEMMA SameOperators ==
  /\ \A s, t : FewP!Contract!Without(s, t) = Less(s, t)
  /\ \A s, t : ManyP!Contract!Without(s, t) = Less(s, t)
  /\ \A s, t : FewP!Contract!WithNewest(s, t) = Renewed(s, t)
  /\ \A s, t : ManyP!Contract!WithNewest(s, t) = Renewed(s, t)
BY DEF Less, Renewed, FewP!Contract!Without, ManyP!Contract!Without,
       FewP!Contract!WithNewest, ManyP!Contract!WithNewest

LEMMA LessOf ==
  ASSUME NEW s, NEW t
  PROVE /\ Less(s, t).tags = s.tags \ {t}
        /\ \A x, y : <<x, y>> \in Less(s, t).newer
                       <=> <<x, y>> \in s.newer /\ x # t /\ y # t
BY DEF Less, FewP!Contract!Without

LEMMA RenewedOf ==
  ASSUME NEW s, NEW t
  PROVE /\ Renewed(s, t).tags = s.tags \union {t}
        /\ \A x, y : <<x, y>> \in Renewed(s, t).newer
                       <=> \/ <<x, y>> \in s.newer /\ x # t /\ y # t
                           \/ x = t /\ y \in s.tags \ {t}
<1>1. Renewed(s, t) =
        [tags |-> s.tags \union {t},
         newer |-> Less(s, t).newer \union {<<t, u>> : u \in s.tags \ {t}}]
  BY DEF Renewed, Less, FewP!Contract!WithNewest
<1>2. /\ Renewed(s, t).tags = s.tags \union {t}
      /\ Renewed(s, t).newer = Less(s, t).newer \union {<<t, u>> : u \in s.tags \ {t}}
  BY <1>1
<1>3. \A x, y : <<x, y>> \in {<<t, u>> : u \in s.tags \ {t}}
                <=> x = t /\ y \in s.tags \ {t}
  OBVIOUS
<1> QED
  BY <1>2, <1>3, LessOf

LEMMA WithinRenewed ==
  ASSUME NEW c, NEW d, NEW t, Within(c, d)
  PROVE Within(Renewed(c, t), Renewed(d, t))
BY RenewedOf DEF Within

LEMMA WithinLarger ==
  ASSUME NEW c, NEW d, NEW t, Within(c, d), t \notin c.tags
  PROVE Within(c, Renewed(d, t)) /\ Within(c, Less(d, t))
BY RenewedOf, LessOf DEF Within

LEMMA WithinLess ==
  ASSUME NEW c, NEW d, NEW t, Within(c, d)
  PROVE Within(Less(c, t), d) /\ Within(Less(c, t), Less(d, t))
BY LessOf DEF Within

OldestIn(s, o) == o \in s.tags /\ \A w \in s.tags \ {o} : <<w, o>> \in s.newer

(* The oldest block of the larger set is that of the smaller one if it is  *)
(* there.                                                                  *)
LEMMA OldestWithin ==
  ASSUME NEW c, NEW d, Within(c, d),
         \A x, y : <<x, y>> \in c.newer => <<y, x>> \notin c.newer,
         NEW o, NEW x, OldestIn(c, o), OldestIn(d, x), x \in c.tags
  PROVE x = o
<1>1. SUFFICES ASSUME x # o PROVE FALSE
  OBVIOUS
<1>2. <<x, o>> \in c.newer /\ <<o, x>> \in d.newer
  BY <1>1 DEF OldestIn, Within
<1>3. <<o, x>> \in c.newer
  BY <1>2 DEF OldestIn, Within
<1> QED
  BY <1>2, <1>3

FewContent(i) == FewP!Content(fewSets[i])
ManyContent(i) == ManyP!Content(manySets[i])

(* Set i of the smaller cache is a part of that of the larger one, all of  *)
(* it while the smaller one has room.                                      *)
Included(i) ==
  /\ Within(FewContent(i), ManyContent(i))
  /\ ManyContent(i).tags \subseteq FewContent(i).tags \/ fewSets[i].filled = FewWays

(* What the two sets of an access hold, and how full they are.             *)
LEMMA SetFacts ==
  ASSUME FewP!CacheInv, ManyP!CacheInv, NEW i \in FewP!SetIndex
  PROVE /\ Cardinality(FewContent(i).tags) = fewSets[i].filled
        /\ Cardinality(ManyContent(i).tags) = manySets[i].filled
        /\ fewSets[i].filled \in 0 .. FewWays
        /\ FewWays <= ManyWays /\ FewWays \in Nat /\ ManyWays \in Nat
        /\ \A x, y : <<x, y>> \in FewContent(i).newer => <<y, x>> \notin FewContent(i).newer
<1>1. i \in ManyP!SetIndex
  BY DEF FewP!SetIndex, ManyP!SetIndex
<1>2. fewSets[i] \in FewP!SetType /\ FewP!Good(fewSets[i])
  BY FewSized, FewP!CacheInvFacts
<1>3. manySets[i] \in ManyP!SetType /\ ManyP!Good(manySets[i])
  BY <1>1, ManySized, ManyP!CacheInvFacts
<1>4. FewP!Tidy(fewSets[i]) /\ ManyP!Tidy(manySets[i])
  BY <1>2, <1>3 DEF FewP!Good, ManyP!Good
<1>5. FewContent(i).tags = FewP!TagsIn(fewSets[i])
  BY DEF FewContent, FewP!Content
<1>6. ManyContent(i).tags = ManyP!TagsIn(manySets[i])
  BY DEF ManyContent, ManyP!Content
<1>7. /\ FewP!Cardinality(FewP!TagsIn(fewSets[i])) = fewSets[i].filled
      /\ ManyP!Cardinality(ManyP!TagsIn(manySets[i])) = manySets[i].filled
  BY <1>2, <1>3, <1>4, FewSized, ManySized, FewP!TagsCounted, ManyP!TagsCounted
<1>8. \A x, y : <<x, y>> \in FewContent(i).newer => <<y, x>> \notin FewContent(i).newer
  BY <1>2, <1>4, FewSized, FewP!NewerIsStrict DEF FewContent
<1>9. fewSets[i].filled \in 0 .. FewWays
  BY <1>2 DEF FewP!SetType
<1>10. FewWays <= ManyWays /\ FewWays \in Nat /\ ManyWays \in Nat
  BY WaysAssumption DEF Few!SizesAssumption, Many!SizesAssumption
<1>11. \A S : FewP!Cardinality(S) = Cardinality(S) /\ ManyP!Cardinality(S) = Cardinality(S)
  BY DEF FewP!Cardinality, ManyP!Cardinality, Cardinality
<1> QED
  BY <1>5, <1>6, <1>7, <1>8, <1>9, <1>10, <1>11

(* The condition of CacheProofs!NoWrap, for both caches.                   *)
NoWrap == 2 * MaxTrace < CounterMod

LEMMA SameAddress ==
  /\ ManyP!SetIndex = FewP!SetIndex
  /\ \A a : ManyP!Index(a) = FewP!Index(a) /\ ManyP!Tag(a) = FewP!Tag(a)
<1>1. ManyP!SetIndex = FewP!SetIndex
  BY DEF ManyP!SetIndex, FewP!SetIndex
<1>2. /\ \A n : ManyP!Log2(n) = FewP!Log2(n)
      /\ \A a, n : /\ ManyP!ShiftLeft(a, n) = FewP!ShiftLeft(a, n)
                   /\ ManyP!ShiftRight(a, n) = FewP!ShiftRight(a, n)
  BY DEF ManyP!Log2, ManyP!ShiftLeft, ManyP!ShiftRight, FewP!Log2,
       FewP!ShiftLeft, FewP!ShiftRight
<1> QED
  BY <1>1, <1>2 DEF ManyP!Index, ManyP!Tag, ManyP!get_index, ManyP!get_tag,
       FewP!Index, FewP!Tag, FewP!get_index, FewP!get_tag

BothInv == FewP!CacheInv /\ ManyP!CacheInv

(* The set an access is about, before (c and d) and after (e and f).       *)
LEMMA OneAccess ==
  ASSUME NoWrap, BothInv, NEW a \in Address, Load(a) \/ Store(a), lru
  PROVE LET i == FewP!Index(a)
            t == FewP!Tag(a)
            c == FewContent(i)
            d == ManyContent(i)
            e == FewP!Content(fewSets'[i])
            f == ManyP!Content(manySets'[i])
            brings == line'[1] = "l" \/ wa
        IN
        /\ i \in FewP!SetIndex
        /\ \A k \in FewP!SetIndex \ {i} :
             fewSets'[k] = fewSets[k] /\ manySets'[k] = manySets[k]
        /\ t \in c.tags => e = Renewed(c, t)
        /\ t \notin c.tags /\ ~brings => e = c
        /\ t \notin c.tags /\ brings /\ fewSets[i].filled # FewWays => e = Renewed(c, t)
        /\ t \notin c.tags /\ brings /\ fewSets[i].filled = FewWays =>
             \E o : OldestIn(c, o) /\ e = Renewed(Less(c, o), t)
        /\ t \in d.tags => f = Renewed(d, t)
        /\ t \notin d.tags /\ ~brings => f = d
        /\ t \notin d.tags /\ brings /\ manySets[i].filled # ManyWays => f = Renewed(d, t)
        /\ t \notin d.tags /\ brings /\ manySets[i].filled = ManyWays =>
             \E o : OldestIn(d, o) /\ f = Renewed(Less(d, o), t)
        /\ fewSets[i].filled = FewWays => fewSets'[i].filled = FewWays
<1> DEFINE i == FewP!Index(a)
<1> DEFINE t == FewP!Tag(a)
<1> DEFINE c == FewContent(i)
<1> DEFINE d == ManyContent(i)
<1>1. FewP!Load(a) \/ FewP!Store(a)
  BY FewLoad, FewStore DEF Load, Store
<1>2. ManyP!Load(a) \/ ManyP!Store(a)
  BY ManyLoad, ManyStore DEF Load, Store
<1>3. FewP!NoWrap /\ ManyP!NoWrap
  BY DEF NoWrap, FewP!NoWrap, ManyP!NoWrap
<1>4. /\ i \in FewP!SetIndex
      /\ \A k \in FewP!SetIndex \ {i} : fewSets'[k] = fewSets[k]
      /\ t \in c.tags => FewP!Content(fewSets'[i]) = FewP!Contract!WithNewest(c, t)
      /\ t \notin c.tags /\ (line'[1] = "l" \/ wa) =>
           FewP!Content(fewSets'[i]) = FewP!Contract!Bring(c, t)
      /\ t \notin c.tags /\ ~(line'[1] = "l" \/ wa) => FewP!Content(fewSets'[i]) = c
      /\ fewSets[i].filled = FewWays => fewSets'[i].filled = FewWays
  BY <1>1, <1>3, FewSized, FewP!LruAccess DEF BothInv, FewContent
<1>5. /\ \A k \in FewP!SetIndex \ {i} : manySets'[k] = manySets[k]
      /\ t \in d.tags => ManyP!Content(manySets'[i]) = ManyP!Contract!WithNewest(d, t)
      /\ t \notin d.tags /\ (line'[1] = "l" \/ wa) =>
           ManyP!Content(manySets'[i]) = ManyP!Contract!Bring(d, t)
      /\ t \notin d.tags /\ ~(line'[1] = "l" \/ wa) => ManyP!Content(manySets'[i]) = d
  <2>1. i = ManyP!Index(a) /\ t = ManyP!Tag(a) /\ ManyP!SetIndex = FewP!SetIndex
    BY SameAddress
  <2> QED
    BY <1>2, <1>3, <2>1, ManySized, ManyP!LruAccess DEF BothInv, ManyContent
<1>6. /\ fewSets[i].filled # FewWays =>
           FewP!Contract!Bring(c, t) = Renewed(c, t)
      /\ fewSets[i].filled = FewWays =>
           \E o : OldestIn(c, o) /\ FewP!Contract!Bring(c, t) = Renewed(Less(c, o), t)
  <2>1. fewSets[i] \in FewP!SetType /\ FewP!Tidy(fewSets[i])
    BY <1>4, FewSized, FewP!CacheInvFacts DEF BothInv, FewP!Good
  <2> QED
    BY <2>1, FewSized, FewP!BringEvicts, SameOperators DEF FewContent, OldestIn
<1>7. /\ manySets[i].filled # ManyWays =>
           ManyP!Contract!Bring(d, t) = Renewed(d, t)
      /\ manySets[i].filled = ManyWays =>
           \E o : OldestIn(d, o) /\ ManyP!Contract!Bring(d, t) = Renewed(Less(d, o), t)
  <2>1. manySets[i] \in ManyP!SetType /\ ManyP!Tidy(manySets[i])
    BY <1>4, SameAddress, ManySized, ManyP!CacheInvFacts DEF BothInv, ManyP!Good
  <2> QED
    BY <2>1, ManySized, ManyP!BringEvicts, SameOperators DEF ManyContent, OldestIn
<1> HIDE DEF i, t, c, d
<1> QED
  BY <1>4, <1>5, <1>6, <1>7, SameOperators DEF i, t, c, d

(* An access keeps the smaller cache within the larger one.                *)
LEMMA AccessKeepsIncluded ==
  ASSUME NoWrap, BothInv, NEW a \in Address, Load(a) \/ Store(a), lru,
         \A k \in FewP!SetIndex : Included(k)
  PROVE LET i == FewP!Index(a)
            e == FewP!Content(fewSets'[i])
            f == ManyP!Content(manySets'[i])
        IN /\ Within(e, f)
           /\ f.tags \subseteq e.tags \/ fewSets'[i].filled = FewWays
<1> DEFINE i == FewP!Index(a)
<1> DEFINE t == FewP!Tag(a)
<1> DEFINE c == FewContent(i)
<1> DEFINE d == ManyContent(i)
<1> DEFINE e == FewP!Content(fewSets'[i])
<1> DEFINE f == ManyP!Content(manySets'[i])
<1> DEFINE brings == line'[1] = "l" \/ wa
<1> DEFINE full == fewSets[i].filled = FewWays
<1> DEFINE manyFull == manySets[i].filled = ManyWays
<1>1. /\ i \in FewP!SetIndex
      /\ t \in c.tags => e = Renewed(c, t)
      /\ t \notin c.tags /\ ~brings => e = c
      /\ t \notin c.tags /\ brings /\ ~full => e = Renewed(c, t)
      /\ t \notin c.tags /\ brings /\ full =>
           \E o : OldestIn(c, o) /\ e = Renewed(Less(c, o), t)
      /\ full => fewSets'[i].filled = FewWays
  BY OneAccess
<1>2. /\ t \in d.tags => f = Renewed(d, t)
      /\ t \notin d.tags /\ ~brings => f = d
      /\ t \notin d.tags /\ brings /\ ~manyFull => f = Renewed(d, t)
      /\ t \notin d.tags /\ brings /\ manyFull =>
           \E o : OldestIn(d, o) /\ f = Renewed(Less(d, o), t)
  BY OneAccess
<1>3. /\ Cardinality(c.tags) = fewSets[i].filled
      /\ Cardinality(d.tags) = manySets[i].filled
      /\ fewSets[i].filled \in 0 .. FewWays
      /\ FewWays <= ManyWays /\ FewWays \in Nat /\ ManyWays \in Nat
      /\ \A x, y : <<x, y>> \in c.newer => <<y, x>> \notin c.newer
  BY <1>1, SetFacts DEF BothInv
<1>4. Within(c, d) /\ (d.tags \subseteq c.tags \/ full)
  BY <1>1 DEF Included
<1>5. c.tags \subseteq d.tags
  BY <1>4 DEF Within
<1>6. ~full => c.tags = d.tags /\ ~manyFull
  <2>1. ~full => c.tags = d.tags
    BY <1>4, <1>5
  <2> QED
    BY <1>3, <2>1
<1> HIDE DEF i, t, c, d, e, f, brings, full, manyFull
(* What remains to be seen is that e is within f and, if there was room,   *)
(* holds as much.                                                          *)
<1>7. SUFFICES Within(e, f) /\ (~full => f.tags \subseteq e.tags)
  BY <1>1 DEF i, e, f, full
<1>8. CASE t \in c.tags
  <2>1. e = Renewed(c, t) /\ f = Renewed(d, t)
    BY <1>1, <1>2, <1>5, <1>8
  <2> QED
    BY <1>4, <1>6, <2>1, WithinRenewed, RenewedOf
<1>9. CASE t \notin c.tags /\ t \in d.tags
  <2>1. full /\ f = Renewed(d, t)
    BY <1>2, <1>6, <1>9
  <2>2. CASE ~brings
    BY <1>1, <1>4, <1>9, <2>1, <2>2, WithinLarger
  <2>3. CASE brings
    BY <1>1, <1>4, <1>9, <2>1, <2>3, WithinLess, WithinRenewed
  <2> QED
    BY <2>2, <2>3
<1>10. CASE t \notin d.tags /\ ~brings
  BY <1>1, <1>2, <1>4, <1>5, <1>6, <1>10
<1>11. CASE t \notin d.tags /\ brings /\ ~full
  <2>1. e = Renewed(c, t) /\ f = Renewed(d, t)
    BY <1>1, <1>2, <1>5, <1>6, <1>11
  <2> QED
    BY <1>4, <1>6, <1>11, <2>1, WithinRenewed, RenewedOf
<1>12. CASE t \notin d.tags /\ brings /\ full
  <2>1. PICK o : OldestIn(c, o) /\ e = Renewed(Less(c, o), t)
    BY <1>1, <1>5, <1>12
  <2>2. CASE ~manyFull
    <3>1. f = Renewed(d, t)
      BY <1>2, <1>12, <2>2
    <3> QED
      BY <1>4, <1>12, <2>1, <3>1, WithinLess, WithinRenewed
  <2>3. CASE manyFull
    <3>1. PICK x : OldestIn(d, x) /\ f = Renewed(Less(d, x), t)
      BY <1>2, <1>12, <2>3
    <3>2. Within(Less(c, o), Less(d, x))
      <4>1. CASE x \in c.tags
        <5>1. x = o
          BY <1>3, <1>4, <2>1, <3>1, <4>1, OldestWithin
        <5> QED
          BY <1>4, <5>1, WithinLess
      <4>2. CASE x \notin c.tags
        <5>1. Within(c, Less(d, x))
          BY <1>4, <4>2, WithinLarger
        <5> QED
          BY <5>1, WithinLess
      <4> QED
        BY <4>1, <4>2
    <3> QED
      BY <1>12, <2>1, <3>1, <3>2, WithinRenewed
  <2> QED
    BY <2>2, <2>3
<1> QED
  BY <1>8, <1>9, <1>10, <1>11, <1>12, <1>5

(* No more misses: a miss of the larger cache is one of the smaller.       *)
FewerMisses ==
  /\ manyStats.load_misses <= fewStats.load_misses
  /\ manyStats.store_misses <= fewStats.store_misses

InclusionInv ==
  /\ BothInv /\ FewP!HitsInv /\ ManyP!HitsInv
  /\ lru => FewerMisses /\ \A i \in FewP!SetIndex : Included(i)

LEMMA AccessKeepsFewer ==
  ASSUME NoWrap, InclusionInv, NEW a \in Address, Load(a) \/ Store(a), lru
  PROVE FewerMisses'
<1> DEFINE i == FewP!Index(a)
<1> DEFINE t == FewP!Tag(a)
<1> DEFINE fewMiss == FewP!Misses(fewSets[i], t)
<1> DEFINE manyMiss == ManyP!Misses(manySets[i], t)
<1>1. i = ManyP!Index(a) /\ t = ManyP!Tag(a)
  BY SameAddress
<1>2. i \in FewP!SetIndex
  BY FewSized, FewP!AddressFields
<1>3. manyMiss => fewMiss
  <2>1. Within(FewContent(i), ManyContent(i))
    BY <1>2 DEF InclusionInv, Included
  <2>2. t \in FewContent(i).tags => t \in ManyContent(i).tags
    BY <2>1 DEF Within
  <2>3. t \in FewContent(i).tags <=> ~fewMiss
    BY FewP!HeldMatches DEF FewContent, FewP!Misses
  <2>4. t \in ManyContent(i).tags <=> ~manyMiss
    BY ManyP!HeldMatches DEF ManyContent, ManyP!Misses
  <2> QED
    BY <2>2, <2>3, <2>4
<1>4. FewP!NoWrap /\ ManyP!NoWrap
  BY DEF NoWrap, FewP!NoWrap, ManyP!NoWrap
<1>5. /\ FewP!CacheInv /\ ManyP!CacheInv /\ FewP!HitsInv /\ ManyP!HitsInv
      /\ FewerMisses
  BY DEF InclusionInv, BothInv
<1>6. /\ fewStats.load_misses \in Nat /\ fewStats.store_misses \in Nat
      /\ manyStats.load_misses \in Nat /\ manyStats.store_misses \in Nat
  <2>1. FewP!Counter \subseteq Nat /\ ManyP!Counter \subseteq Nat
    BY FewSized, ManySized, FewP!SizesAreNumbers, ManyP!SizesAreNumbers
       DEF FewP!Counter, ManyP!Counter
  <2> QED
    BY <1>5, <2>1 DEF FewP!CacheInv, FewP!TypeInv, FewP!TypeOK, FewP!StatsType,
       ManyP!CacheInv, ManyP!TypeInv, ManyP!TypeOK, ManyP!StatsType
<1>7. CASE Load(a)
  <2>1. FewP!Load(a) /\ ManyP!Load(a)
    BY <1>7, FewLoad, ManyLoad DEF Load
  <2>2. /\ fewStats'.load_misses = IF fewMiss THEN fewStats.load_misses + 1
                                   ELSE fewStats.load_misses
        /\ fewStats'.store_misses = fewStats.store_misses
    BY <1>4, <1>5, <2>1, FewSized, FewP!HitsAreCounted
  <2>3. /\ manyStats'.load_misses = IF manyMiss THEN manyStats.load_misses + 1
                                    ELSE manyStats.load_misses
        /\ manyStats'.store_misses = manyStats.store_misses
    BY <1>1, <1>4, <1>5, <2>1, ManySized, ManyP!HitsAreCounted
  <2> HIDE DEF fewMiss, manyMiss
  <2> QED
    BY <1>3, <1>5, <1>6, <2>2, <2>3 DEF FewerMisses
<1>8. CASE Store(a)
  <2>1. FewP!Store(a) /\ ManyP!Store(a)
    BY <1>8, FewStore, ManyStore DEF Store
  <2>2. /\ fewStats'.store_misses = IF fewMiss THEN fewStats.store_misses + 1
                                    ELSE fewStats.store_misses
        /\ fewStats'.load_misses = fewStats.load_misses
    BY <1>4, <1>5, <2>1, FewSized, FewP!HitsAreCounted
  <2>3. /\ manyStats'.store_misses = IF manyMiss THEN manyStats.store_misses + 1
                                     ELSE manyStats.store_misses
        /\ manyStats'.load_misses = manyStats.load_misses
    BY <1>1, <1>4, <1>5, <2>1, ManySized, ManyP!HitsAreCounted
  <2> HIDE DEF fewMiss, manyMiss
  <2> QED
    BY <1>3, <1>5, <1>6, <2>2, <2>3 DEF FewerMisses
<1> QED
  BY <1>7, <1>8

LEMMA StepOfBoth ==
  ASSUME [Next]_vars
  PROVE [FewP!Next]_(FewP!vars) /\ [ManyP!Next]_(ManyP!vars)
<1>1. Next => FewP!Next /\ ManyP!Next
  BY FewLoad, FewStore, ManyLoad, ManyStore
     DEF Next, Load, Store, FewP!Next, ManyP!Next
<1>2. UNCHANGED vars => UNCHANGED FewP!vars /\ UNCHANGED ManyP!vars
  BY DEF vars, FewP!vars, ManyP!vars
<1> QED
  BY <1>1, <1>2

LEMMA InclusionInvStep ==
  ASSUME NoWrap, InclusionInv, [Next]_vars
  PROVE InclusionInv'
<1>1. FewP!NoWrap /\ ManyP!NoWrap
  BY DEF NoWrap, FewP!NoWrap, ManyP!NoWrap
<1>2. FewP!CacheInv /\ ManyP!CacheInv /\ FewP!HitsInv /\ ManyP!HitsInv
  BY DEF InclusionInv, BothInv
<1>3. BothInv'
  BY <1>1, <1>2, StepOfBoth, FewSized, ManySized, FewP!CacheInvStep,
     ManyP!CacheInvStep DEF BothInv
<1>4. CASE UNCHANGED vars
  <2>1. FewP!HitsInv' /\ ManyP!HitsInv'
    BY <1>2, <1>4 DEF FewP!HitsInv, FewP!Accesses, ManyP!HitsInv, ManyP!Accesses, vars
  <2>2. lru' = lru /\ FewerMisses' = FewerMisses
    BY <1>4 DEF FewerMisses, vars
  <2>3. \A i : FewContent(i)' = FewContent(i) /\ ManyContent(i)' = ManyContent(i)
    BY <1>4 DEF vars, FewContent, FewP!Content, FewP!TagsIn, FewP!Newer, FewP!Valid,
       ManyContent, ManyP!Content, ManyP!TagsIn, ManyP!Newer, ManyP!Valid
  <2>4. \A i : Included(i) => Included(i)'
    BY <1>4, <2>3 DEF vars, Included, Within
  <2>5. FewP!SetIndex' = FewP!SetIndex
    BY DEF FewP!SetIndex
  <2> QED
    BY <1>3, <2>1, <2>2, <2>4, <2>5 DEF InclusionInv
<1>5. CASE Next
  <2>1. PICK a \in Address : Load(a) \/ Store(a)
    BY <1>5 DEF Next
  <2>2. FewP!Load(a) \/ FewP!Store(a)
    BY <2>1, FewLoad, FewStore DEF Load, Store
  <2>3. ManyP!Load(a) \/ ManyP!Store(a)
    BY <2>1, ManyLoad, ManyStore DEF Load, Store
  <2>4. FewP!HitsInv'
    BY <1>1, <1>2, <2>2, FewSized, FewP!HitsAreCounted
  <2>5. ManyP!HitsInv'
    BY <1>1, <1>2, <2>3, ManySized, ManyP!HitsAreCounted
  <2>6. lru' = lru
    BY <2>2 DEF FewP!Load, FewP!Store
  <2>7. ASSUME lru
        PROVE FewerMisses' /\ \A k \in FewP!SetIndex : Included(k)'
    <3>1. FewerMisses'
      BY <2>1, <2>7, AccessKeepsFewer
    <3>2. BothInv /\ \A k \in FewP!SetIndex : Included(k)
      BY <2>7 DEF InclusionInv
    <3> DEFINE i == FewP!Index(a)
    <3>3. \A k \in FewP!SetIndex \ {i} :
            fewSets'[k] = fewSets[k] /\ manySets'[k] = manySets[k]
      BY <2>1, <2>7, <3>2, OneAccess
    <3>4. \A k : /\ FewContent(k)' = FewP!Content(fewSets'[k])
                /\ ManyContent(k)' = ManyP!Content(manySets'[k])
      BY <2>6 DEF FewContent, FewP!Content, FewP!TagsIn, FewP!Newer, FewP!Valid,
         ManyContent, ManyP!Content, ManyP!TagsIn, ManyP!Newer, ManyP!Valid
    <3>5. Included(i)'
      BY <2>1, <2>7, <3>2, <3>4, AccessKeepsIncluded DEF Included, Within
    <3>6. ASSUME NEW k \in FewP!SetIndex, k # i
          PROVE Included(k)'
      BY <3>2, <3>3, <3>4, <3>6 DEF Included, Within, FewContent, ManyContent
    <3> QED
      BY <3>1, <3>5, <3>6
  <2>8. FewP!SetIndex' = FewP!SetIndex
    BY DEF FewP!SetIndex
  <2> QED
    BY <1>3, <2>4, <2>5, <2>6, <2>7, <2>8 DEF InclusionInv
<1> QED
  BY <1>4, <1>5

LEMMA InitInclusion ==
  ASSUME Init
  PROVE InclusionInv
<1>1. FewP!Init /\ ManyP!Init
  BY FewInit, ManyInit DEF Init
<1>2. BothInv
  BY <1>1, FewSized, ManySized, FewP!InitCacheInv, ManyP!InitCacheInv DEF BothInv
<1>3. FewP!HitsInv /\ ManyP!HitsInv
  BY <1>1 DEF FewP!Init, FewP!NoStats, FewP!HitsInv, FewP!Accesses,
     ManyP!Init, ManyP!NoStats, ManyP!HitsInv, ManyP!Accesses
<1>4. FewerMisses
  BY <1>1 DEF FewP!Init, FewP!NoStats, ManyP!Init, ManyP!NoStats, FewerMisses
<1>5. ASSUME NEW i \in FewP!SetIndex
      PROVE Included(i)
  <2>1. FewP!Valid(fewSets[i]) = {}
    BY <1>1 DEF FewP!Init, FewP!Valid, FewP!EmptySet, FewP!EmptyBlock
  <2>2. ManyP!Valid(manySets[i]) = {}
    BY <1>1, SameAddress DEF ManyP!Init, ManyP!Valid, ManyP!EmptySet, ManyP!EmptyBlock
  <2>3. FewContent(i).tags = {} /\ ManyContent(i).tags = {}
    BY <2>1, <2>2 DEF FewContent, FewP!Content, FewP!TagsIn, ManyContent,
       ManyP!Content, ManyP!TagsIn
  <2> QED
    BY <2>3 DEF Included, Within
<1> QED
  BY <1>2, <1>3, <1>4, <1>5 DEF InclusionInv

(* With lru, more ways never hurt: the larger cache holds all the smaller  *)
(* one holds, and has missed no more often.                                *)
THEOREM MoreWaysNeverHurt == NoWrap => (Spec => []LruInclusion)
<1> SUFFICES ASSUME NoWrap PROVE Spec => []LruInclusion
  OBVIOUS
<1>1. Init => InclusionInv
  BY InitInclusion
<1>2. InclusionInv /\ [Next]_vars => InclusionInv'
  BY InclusionInvStep
<1>3. InclusionInv => LruInclusion
  <2>1. Few!SetIndex = FewP!SetIndex
    BY DEF Few!SetIndex, FewP!SetIndex
  <2>2. \A s : Few!TagsIn(s) = FewP!Content(s).tags /\ Many!TagsIn(s) = ManyP!Content(s).tags
    BY DEF Few!TagsIn, Many!TagsIn, Few!Valid, Many!Valid, Few!Way, Many!Way,
       FewP!Content, ManyP!Content, FewP!TagsIn, ManyP!TagsIn, FewP!Valid,
       ManyP!Valid, FewP!Way, ManyP!Way
  <2> QED
    BY <2>1, <2>2 DEF InclusionInv, LruInclusion, FewerMisses, Included, Within,
       FewContent, ManyContent
<1> QED
  BY <1>1, <1>2, <1>3, PTL DEF Spec

-----------------------------------------------------------------------------
(* What CacheProofs proves of one cache, of both.                          *)

LEMMA NoWrapOfBoth == NoWrap => FewP!NoWrap /\ ManyP!NoWrap
BY DEF NoWrap, FewP!NoWrap, ManyP!NoWrap

(* The scans of load and store find the sets of both caches in order.      *)
THEOREM BothWellFormed == NoWrap => (Spec => []WellFormed)
<1> SUFFICES ASSUME NoWrap PROVE Spec => []WellFormed
  OBVIOUS
<1>1. FewP!Spec => []FewP!WellFormed
  BY FewSized, NoWrapOfBoth, FewP!SetsAreWellFormed
<1>2. ManyP!Spec => []ManyP!WellFormed
  BY ManySized, NoWrapOfBoth, ManyP!SetsAreWellFormed
<1>3. FewP!WellFormed => Few!WellFormed
  BY FewOperators DEF FewP!WellFormed, Few!WellFormed
<1>4. ManyP!WellFormed => Many!WellFormed
  BY ManyOperators DEF ManyP!WellFormed, Many!WellFormed
<1> QED
  BY <1>1, <1>2, <1>3, <1>4, FewSpec, ManySpec, PTL DEF WellFormed

(* Every access is counted once, as a hit or as a miss of its kind.        *)
THEOREM BothCounted == Spec => []EveryAccessCounted
<1>1. FewP!Spec => []FewP!EveryAccessCounted
  BY FewSized, FewP!AccessesAreCounted
<1>2. ManyP!Spec => []ManyP!EveryAccessCounted
  BY ManySized, ManyP!AccessesAreCounted
<1>3. FewP!EveryAccessCounted => Few!EveryAccessCounted
  BY FewOperators DEF FewP!EveryAccessCounted, Few!EveryAccessCounted
<1>4. ManyP!EveryAccessCounted => Many!EveryAccessCounted
  BY ManyOperators DEF ManyP!EveryAccessCounted, Many!EveryAccessCounted
<1> QED
  BY <1>1, <1>2, <1>3, <1>4, FewSpec, ManySpec, PTL DEF EveryAccessCounted

(* A store that hit with write-back is in a dirty block until the block is *)
(* written back.                                                           *)
THEOREM BothKeepHitStores == Spec => []NoHitStoreLost
<1>1. FewP!Spec => []FewP!NoHitStoreLost
  BY FewSized, FewP!HitStoresAreKept
<1>2. ManyP!Spec => []ManyP!NoHitStoreLost
  BY ManySized, ManyP!HitStoresAreKept
<1>3. FewP!NoHitStoreLost => Few!NoHitStoreLost
  BY FewOperators DEF FewP!NoHitStoreLost, Few!NoHitStoreLost, FewP!Dirty, Few!Dirty
<1>4. ManyP!NoHitStoreLost => Many!NoHitStoreLost
  BY ManyOperators DEF ManyP!NoHitStoreLost, Many!NoHitStoreLost, ManyP!Dirty, Many!Dirty
<1> QED
  BY <1>1, <1>2, <1>3, <1>4, FewSpec, ManySpec, PTL DEF NoHitStoreLost

(* tag and index name the block of every address, for all sizes that fit   *)
(* in a word.                                                              *)
THEOREM AddressesAreNamed == Spec => []EveryAddressNamed
<1>1. EveryAddressNamed
  <2>1. /\ Few!Unsigned = FewP!Unsigned /\ Few!PowersOfTwo = FewP!PowersOfTwo
        /\ \A a, n, k : Few!NamesBlock(a, n, k) <=> FewP!NamesBlock(a, n, k)
    <3>1. /\ Few!Unsigned = FewP!Unsigned /\ Few!PowersOfTwo = FewP!PowersOfTwo
          /\ \A n : Few!Log2(n) = FewP!Log2(n)
          /\ \A a, n : /\ Few!ShiftLeft(a, n) = FewP!ShiftLeft(a, n)
                       /\ Few!ShiftRight(a, n) = FewP!ShiftRight(a, n)
      BY DEF Few!Unsigned, Few!PowersOfTwo, Few!Log2, Few!ShiftLeft, Few!ShiftRight,
         FewP!Unsigned, FewP!PowersOfTwo, FewP!Log2, FewP!ShiftLeft, FewP!ShiftRight
    <3>2. \A a, n, k : /\ Few!get_tag(a, n, k) = FewP!get_tag(a, n, k)
                       /\ Few!get_index(a, n, k) = FewP!get_index(a, n, k)
      BY <3>1 DEF Few!get_tag, Few!get_index, FewP!get_tag, FewP!get_index
    <3> QED
      BY <3>1, <3>2 DEF Few!NamesBlock, FewP!NamesBlock
  <2>2. WordBits \in Nat \ {0} /\ FewP!PowersDouble
    BY FewSized DEF FewP!Sized, FewP!SizesAssumption
  <2> QED
    BY <2>1, <2>2, FewP!CutNamesBlock DEF EveryAddressNamed, Few!EveryAddressNamed
<1> QED
  BY <1>1, PTL

(* The trace is too short for the cycles to wrap (CacheProofs!CyclesFit).  *)
CyclesFit == MaxTrace * (2 * ((BytesPerBlock \div 4) * 100) + 102) < CounterMod

(* Dirty blocks leave with their transfer to memory charged.               *)
THEOREM BothPay == CyclesFit => (Spec => DirtyLeavesPaid)
<1> SUFFICES ASSUME CyclesFit PROVE Spec => DirtyLeavesPaid
  OBVIOUS
<1> DEFINE FewStep ==
      \A i \in Few!SetIndex, j \in Few!Way :
        fewSets[i].blocks[j].dirty /\ ~fewSets'[i].blocks[j].dirty =>
          /\ fewSets'[i].blocks[j].tag # fewSets[i].blocks[j].tag
          /\ fewStats'.total_cycles >= fewStats.total_cycles + 2 * Few!MemoryTransfer
<1> DEFINE ManyStep ==
      \A i \in Many!SetIndex, j \in Many!Way :
        manySets[i].blocks[j].dirty /\ ~manySets'[i].blocks[j].dirty =>
          /\ manySets'[i].blocks[j].tag # manySets[i].blocks[j].tag
          /\ manyStats'.total_cycles >= manyStats.total_cycles + 2 * Many!MemoryTransfer
<1>1. FewP!CyclesFit /\ ManyP!CyclesFit
  BY DEF CyclesFit, FewP!CyclesFit, FewP!MemoryTransfer, ManyP!CyclesFit,
     ManyP!MemoryTransfer
<1>2. FewP!Spec => FewP!DirtyLeavesPaid
  BY <1>1, FewSized, FewP!DirtyBlocksPay
<1>3. ManyP!Spec => ManyP!DirtyLeavesPaid
  BY <1>1, ManySized, ManyP!DirtyBlocksPay
<1>4. FewP!PaidStep => FewStep
  BY FewOperators DEF FewP!PaidStep
<1>5. ManyP!PaidStep => ManyStep
  BY ManyOperators DEF ManyP!PaidStep
<1>6. FewP!DirtyLeavesPaid <=> [][FewP!PaidStep]_(FewP!vars)
  BY DEF FewP!DirtyLeavesPaid, FewP!PaidStep
<1>7. ManyP!DirtyLeavesPaid <=> [][ManyP!PaidStep]_(ManyP!vars)
  BY DEF ManyP!DirtyLeavesPaid, ManyP!PaidStep
<1>8. Few!DirtyLeavesPaid <=> [][FewStep]_(Few!vars)
  BY DEF Few!DirtyLeavesPaid
<1>9. Many!DirtyLeavesPaid <=> [][ManyStep]_(Many!vars)
  BY DEF Many!DirtyLeavesPaid
<1>10. Few!vars = FewP!vars /\ Many!vars = ManyP!vars
  BY DEF Few!vars, FewP!vars, Many!vars, ManyP!vars
<1> HIDE DEF FewStep, ManyStep
<1>11. [FewP!PaidStep]_(FewP!vars) => [FewStep]_(Few!vars)
  BY <1>4 DEF Few!vars, FewP!vars
<1>12. [ManyP!PaidStep]_(ManyP!vars) => [ManyStep]_(Many!vars)
  BY <1>5 DEF Many!vars, ManyP!vars
<1> QED
  BY <1>2, <1>3, <1>6, <1>7, <1>8, <1>9, <1>11, <1>12, FewSpec, ManySpec, PTL
     DEF DirtyLeavesPaid

(* The steps of the contract that FewP shows are those that Few shows.     *)
LEMMA FewContract ==
  /\ FewP!Contract!Init => Few!Contract!Init
  /\ FewP!Contract!Next => Few!Contract!Next
  /\ UNCHANGED FewP!Contract!cvars => UNCHANGED Few!Contract!cvars
<1> DEFINE resident == [i \in FewP!SetIndex |-> FewP!Content(fewSets[i])]
<1>1. Few!SetIndex = FewP!SetIndex
  BY FewOperators
<1>2. \A s : Few!Content(s) = FewP!Content(s)
  BY FewOperators DEF Few!Content, FewP!Content, Few!TagsIn, FewP!TagsIn,
     Few!Newer, FewP!Newer
<1>3. [i \in Few!SetIndex |-> Few!Content(fewSets[i])] = resident
  BY <1>1, <1>2
<1>4. [i \in Few!SetIndex |-> Few!Content(fewSets[i])]' = resident'
  BY FewOperators DEF Few!Content, FewP!Content, Few!TagsIn, FewP!TagsIn,
     Few!Newer, FewP!Newer, Few!Valid, FewP!Valid, Few!Way, FewP!Way,
     Few!SetIndex, FewP!SetIndex
<1>5. /\ Few!NoLine = << >> /\ FewP!NoLine = << >>
      /\ \A a : Few!Block(a) = a \div BytesPerBlock /\ FewP!Block(a) = a \div BytesPerBlock
  BY DEF Few!NoLine, FewP!NoLine, Few!Block, FewP!Block
<1>6. \A s, t : /\ Few!Contract!WithNewest(s, t) = FewP!Contract!WithNewest(s, t)
               /\ Few!Contract!Use(s, t) = FewP!Contract!Use(s, t)
               /\ Few!Contract!Bring(s, t) = FewP!Contract!Bring(s, t)
  <2>1. \A s, t : /\ Few!Contract!Without(s, t) = FewP!Contract!Without(s, t)
                 /\ Few!Contract!Oldest(s) = FewP!Contract!Oldest(s)
    BY DEF Few!Contract!Without, FewP!Contract!Without, Few!Contract!Oldest,
       FewP!Contract!Oldest
  <2>2. \A s, t : Few!Contract!WithNewest(s, t) = FewP!Contract!WithNewest(s, t)
    BY <2>1 DEF Few!Contract!WithNewest, FewP!Contract!WithNewest
  <2>3. \A S : Few!Contract!Cardinality(S) = FewP!Contract!Cardinality(S)
    BY DEF Few!Contract!Cardinality, FewP!Contract!Cardinality
  <2> QED
    BY <2>1, <2>2, <2>3 DEF Few!Contract!Use, FewP!Contract!Use,
       Few!Contract!Bring, FewP!Contract!Bring
<1>7. \A i, t : Few!Contract!Holds(i, t) <=> FewP!Contract!Holds(i, t)
  BY <1>1, <1>2 DEF Few!Contract!Holds, FewP!Contract!Holds
<1>8. \A i, s : FewP!Contract!SetBecomes(i, s) => Few!Contract!SetBecomes(i, s)
  BY <1>3, <1>4 DEF Few!Contract!SetBecomes, FewP!Contract!SetBecomes
<1>9. \A what : FewP!Contract!Counted(what) => Few!Contract!Counted(what)
  BY DEF Few!Contract!Counted, FewP!Contract!Counted
<1>10. \A i, t : FewP!Contract!LoadHit(i, t) => Few!Contract!LoadHit(i, t)
  BY <1>3, <1>6, <1>7, <1>8, <1>9
     DEF Few!Contract!LoadHit, FewP!Contract!LoadHit, Few!NoLine, FewP!NoLine,
       Few!Block, FewP!Block
<1>11. \A i, t : FewP!Contract!LoadMiss(i, t) => Few!Contract!LoadMiss(i, t)
  BY <1>3, <1>6, <1>7, <1>8, <1>9
     DEF Few!Contract!LoadMiss, FewP!Contract!LoadMiss, Few!NoLine, FewP!NoLine,
       Few!Block, FewP!Block
<1>12. \A i, t : FewP!Contract!StoreHit(i, t) => Few!Contract!StoreHit(i, t)
  BY <1>3, <1>6, <1>7, <1>8, <1>9
     DEF Few!Contract!StoreHit, FewP!Contract!StoreHit, Few!NoLine, FewP!NoLine,
       Few!Block, FewP!Block
<1>13. \A i, t : FewP!Contract!StoreMiss(i, t) => Few!Contract!StoreMiss(i, t)
  BY <1>3, <1>6, <1>7, <1>8, <1>9
     DEF Few!Contract!StoreMiss, FewP!Contract!StoreMiss, Few!NoLine, FewP!NoLine,
       Few!Block, FewP!Block
<1>14. FewP!Contract!Next => Few!Contract!Next
  BY <1>1, <1>5, <1>10, <1>11, <1>12, <1>13 DEF Few!Contract!Next, FewP!Contract!Next
<1>15. FewP!Contract!Init => Few!Contract!Init
  BY <1>1, <1>3, <1>5 DEF Few!Contract!Init, FewP!Contract!Init
<1>16. UNCHANGED FewP!Contract!cvars => UNCHANGED Few!Contract!cvars
  BY <1>3, <1>4 DEF Few!Contract!cvars, FewP!Contract!cvars, Few!NoLine, FewP!NoLine,
     Few!Block, FewP!Block
<1> QED
  BY <1>14, <1>15, <1>16

(* The steps of the contract that ManyP shows are those that Many shows.     *)
LEMMA ManyContract ==
  /\ ManyP!Contract!Init => Many!Contract!Init
  /\ ManyP!Contract!Next => Many!Contract!Next
  /\ UNCHANGED ManyP!Contract!cvars => UNCHANGED Many!Contract!cvars
<1> DEFINE resident == [i \in ManyP!SetIndex |-> ManyP!Content(manySets[i])]
<1>1. Many!SetIndex = ManyP!SetIndex
  BY ManyOperators
<1>2. \A s : Many!Content(s) = ManyP!Content(s)
  BY ManyOperators DEF Many!Content, ManyP!Content, Many!TagsIn, ManyP!TagsIn,
     Many!Newer, ManyP!Newer
<1>3. [i \in Many!SetIndex |-> Many!Content(manySets[i])] = resident
  BY <1>1, <1>2
<1>4. [i \in Many!SetIndex |-> Many!Content(manySets[i])]' = resident'
  BY ManyOperators DEF Many!Content, ManyP!Content, Many!TagsIn, ManyP!TagsIn,
     Many!Newer, ManyP!Newer, Many!Valid, ManyP!Valid, Many!Way, ManyP!Way,
     Many!SetIndex, ManyP!SetIndex
<1>5. /\ Many!NoLine = << >> /\ ManyP!NoLine = << >>
      /\ \A a : Many!Block(a) = a \div BytesPerBlock /\ ManyP!Block(a) = a \div BytesPerBlock
  BY DEF Many!NoLine, ManyP!NoLine, Many!Block, ManyP!Block
<1>6. \A s, t : /\ Many!Contract!WithNewest(s, t) = ManyP!Contract!WithNewest(s, t)
               /\ Many!Contract!Use(s, t) = ManyP!Contract!Use(s, t)
               /\ Many!Contract!Bring(s, t) = ManyP!Contract!Bring(s, t)
  <2>1. \A s, t : /\ Many!Contract!Without(s, t) = ManyP!Contract!Without(s, t)
                 /\ Many!Contract!Oldest(s) = ManyP!Contract!Oldest(s)
    BY DEF Many!Contract!Without, ManyP!Contract!Without, Many!Contract!Oldest,
       ManyP!Contract!Oldest
  <2>2. \A s, t : Many!Contract!WithNewest(s, t) = ManyP!Contract!WithNewest(s, t)
    BY <2>1 DEF Many!Contract!WithNewest, ManyP!Contract!WithNewest
  <2>3. \A S : Many!Contract!Cardinality(S) = ManyP!Contract!Cardinality(S)
    BY DEF Many!Contract!Cardinality, ManyP!Contract!Cardinality
  <2> QED
    BY <2>1, <2>2, <2>3 DEF Many!Contract!Use, ManyP!Contract!Use,
       Many!Contract!Bring, ManyP!Contract!Bring
<1>7. \A i, t : Many!Contract!Holds(i, t) <=> ManyP!Contract!Holds(i, t)
  BY <1>1, <1>2 DEF Many!Contract!Holds, ManyP!Contract!Holds
<1>8. \A i, s : ManyP!Contract!SetBecomes(i, s) => Many!Contract!SetBecomes(i, s)
  BY <1>3, <1>4 DEF Many!Contract!SetBecomes, ManyP!Contract!SetBecomes
<1>9. \A what : ManyP!Contract!Counted(what) => Many!Contract!Counted(what)
  BY DEF Many!Contract!Counted, ManyP!Contract!Counted
<1>10. \A i, t : ManyP!Contract!LoadHit(i, t) => Many!Contract!LoadHit(i, t)
  BY <1>3, <1>6, <1>7, <1>8, <1>9
     DEF Many!Contract!LoadHit, ManyP!Contract!LoadHit, Many!NoLine, ManyP!NoLine,
       Many!Block, ManyP!Block
<1>11. \A i, t : ManyP!Contract!LoadMiss(i, t) => Many!Contract!LoadMiss(i, t)
  BY <1>3, <1>6, <1>7, <1>8, <1>9
     DEF Many!Contract!LoadMiss, ManyP!Contract!LoadMiss, Many!NoLine, ManyP!NoLine,
       Many!Block, ManyP!Block
<1>12. \A i, t : ManyP!Contract!StoreHit(i, t) => Many!Contract!StoreHit(i, t)
  BY <1>3, <1>6, <1>7, <1>8, <1>9
     DEF Many!Contract!StoreHit, ManyP!Contract!StoreHit, Many!NoLine, ManyP!NoLine,
       Many!Block, ManyP!Block
<1>13. \A i, t : ManyP!Contract!StoreMiss(i, t) => Many!Contract!StoreMiss(i, t)
  BY <1>3, <1>6, <1>7, <1>8, <1>9
     DEF Many!Contract!StoreMiss, ManyP!Contract!StoreMiss, Many!NoLine, ManyP!NoLine,
       Many!Block, ManyP!Block
<1>14. ManyP!Contract!Next => Many!Contract!Next
  BY <1>1, <1>5, <1>10, <1>11, <1>12, <1>13 DEF Many!Contract!Next, ManyP!Contract!Next
<1>15. ManyP!Contract!Init => Many!Contract!Init
  BY <1>1, <1>3, <1>5 DEF Many!Contract!Init, ManyP!Contract!Init
<1>16. UNCHANGED ManyP!Contract!cvars => UNCHANGED Many!Contract!cvars
  BY <1>3, <1>4 DEF Many!Contract!cvars, ManyP!Contract!cvars, Many!NoLine, ManyP!NoLine,
     Many!Block, ManyP!Block
<1> QED
  BY <1>14, <1>15, <1>16

(* Each is the cache of the usage text: one that evicts the block not      *)
(* accessed the longest (lru) or there the longest (fifo).                 *)
THEOREM BothKeepContract == NoWrap => (Spec => KeepsContract)
<1> SUFFICES ASSUME NoWrap PROVE Spec => KeepsContract
  OBVIOUS
<1>1. FewP!Spec => FewP!KeepsContract
  BY FewSized, NoWrapOfBoth, FewP!ImplementsContract
<1>2. ManyP!Spec => ManyP!KeepsContract
  BY ManySized, NoWrapOfBoth, ManyP!ImplementsContract
<1>3. [FewP!Contract!Next]_(FewP!Contract!cvars) => [Few!Contract!Next]_(Few!Contract!cvars)
  BY FewContract
<1>4. [ManyP!Contract!Next]_(ManyP!Contract!cvars) => [Many!Contract!Next]_(Many!Contract!cvars)
  BY ManyContract
<1> QED
  BY <1>1, <1>2, <1>3, <1>4, FewContract, ManyContract, FewSpec, ManySpec, PTL
     DEF KeepsContract, Few!KeepsContract, Many!KeepsContract, Few!Contract!Spec,
       Many!Contract!Spec, FewP!KeepsContract, ManyP!KeepsContract,
       FewP!Contract!Spec, ManyP!Contract!Spec
=============================================================================
