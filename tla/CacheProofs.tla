---------------------------- MODULE CacheProofs ----------------------------
(***************************************************************************)
(* Proofs about one cache of CacheSim, for every size of the cache, every  *)
(* trace and every replacement and store mode.                             *)
(***************************************************************************)
EXTENDS CacheRefinement, FiniteSetTheorems, WellFoundedInduction, TLAPS

-----------------------------------------------------------------------------
(* Induction over the numbers, for sets: < is well founded.                *)

LEMMA NatOrder ==
  \E R : /\ \A T : T \subseteq Nat /\ T # {} =>
                     \E x \in T : \A y \in T : ~(<<y, x>> \in R)
         /\ \A x, y \in Nat : <<y, x>> \in R <=> y < x
<1> DEFINE R == OpToRel(<, Nat)
<1>1. IsWellFoundedOn(R, Nat)
  BY NatLessThanWellFounded
<1>2. ASSUME NEW T, T \subseteq Nat, T # {}
      PROVE \E x \in T : \A y \in T : ~(<<y, x>> \in R)
  BY <1>1, <1>2, WFMin
<1>3. \A x, y \in Nat : <<y, x>> \in R <=> y < x
  BY DEF OpToRel
<1> QED
  BY <1>2, <1>3

(* Every set of numbers that is not empty has a least number. *)
LEMMA LeastNumber ==
  ASSUME NEW T, T \subseteq Nat, T # {}
  PROVE \E m \in T : \A n \in T : m <= n
<1>1. PICK R : /\ \A U : U \subseteq Nat /\ U # {} =>
                           \E x \in U : \A y \in U : ~(<<y, x>> \in R)
               /\ \A x, y \in Nat : <<y, x>> \in R <=> y < x
  BY NatOrder
<1>2. PICK x \in T : \A y \in T : ~(<<y, x>> \in R)
  BY <1>1
<1>3. \A y \in T : ~(y < x)
  BY <1>1, <1>2
<1>4. \A y \in T : x <= y
  BY ONLY <1>3, T \subseteq Nat
<1> QED
  BY <1>4

(* A set that holds 0 and every successor up to N holds 0 .. N. *)
LEMMA CountUp ==
  ASSUME NEW S, NEW N \in Nat, 0 \in S,
         \A n \in 0 .. N-1 : n \in S => n+1 \in S
  PROVE 0 .. N \subseteq S
<1> DEFINE T == {n \in 0 .. N : n \notin S}
<1>1. ASSUME T # {}
      PROVE FALSE
  <2>1. PICK m \in T : \A n \in T : m <= n
    <3>1. T \subseteq Nat
      OBVIOUS
    <3> HIDE DEF T
    <3> QED
      BY <1>1, <3>1, LeastNumber
  <2>2. m # 0 /\ m-1 \in 0 .. N-1 /\ m-1 \in S
    BY <2>1
  <2>3. (m-1) + 1 \in S
    BY <2>2
  <2> QED
    BY <2>1, <2>3
<1> QED
  BY <1>1

-----------------------------------------------------------------------------
(* The powers of two that the field widths select.                         *)

LEMMA PowersPositive ==
  ASSUME WordBits \in Nat, PowersDouble
  PROVE \A n \in 0 .. WordBits : 2^n \in Nat \ {0}
<1> DEFINE S == {n \in 0 .. WordBits : 2^n \in Nat \ {0}}
<1>1. 0 \in S
  OBVIOUS
<1>2. ASSUME NEW n \in 0 .. WordBits-1, n \in S
      PROVE n+1 \in S
  <2>1. 2^(n+1) = 2 * 2^n
    BY DEF PowersDouble
  <2> QED
    BY <1>2, <2>1
<1>3. 0 .. WordBits \subseteq S
  <2> HIDE DEF S
  <2> QED
    BY <1>1, <1>2, CountUp
<1> QED
  BY <1>3

LEMMA PowersAdd ==
  ASSUME WordBits \in Nat, PowersDouble, NEW m \in 0 .. WordBits
  PROVE \A n \in 0 .. WordBits-m : 2^(m+n) = 2^m * 2^n
<1> DEFINE S == {n \in 0 .. WordBits-m : 2^(m+n) = 2^m * 2^n}
<1>0. \A n \in 0 .. WordBits : 2^n \in Nat \ {0}
  BY PowersPositive
<1>1. 0 \in S
  BY <1>0
<1>2. ASSUME NEW n \in 0 .. (WordBits-m)-1, n \in S
      PROVE n+1 \in S
  <2>1. 2^(n+1) = 2 * 2^n
    BY DEF PowersDouble
  <2>2. 2^((m+n)+1) = 2 * 2^(m+n)
    BY DEF PowersDouble
  <2>3. \A x, y \in Nat : 2 * (x * y) = x * (2 * y)
    OBVIOUS
  <2>4. 2^m \in Nat /\ 2^n \in Nat
    BY <1>0
  <2>5. 2^(m+(n+1)) = 2 * (2^m * 2^n)
    <3>1. m+(n+1) = (m+n)+1
      OBVIOUS
    <3> QED
      BY <1>2, <2>2, <3>1
  <2> QED
    BY <2>1, <2>3, <2>4, <2>5
<1>3. 0 .. WordBits-m \subseteq S
  <2> HIDE DEF S
  <2> QED
    BY <1>1, <1>2, CountUp
<1> QED
  BY <1>3

LEMMA PowersIncrease ==
  ASSUME WordBits \in Nat, PowersDouble,
         NEW m \in 0 .. WordBits, NEW n \in 0 .. WordBits, m < n
  PROVE 2 * 2^m <= 2^n
<1>1. 2^n = 2^(m+1) * 2^(n-(m+1))
  <2>1. \A k \in 0 .. WordBits-(m+1) : 2^((m+1)+k) = 2^(m+1) * 2^k
    BY PowersAdd
  <2>2. n = (m+1) + (n-(m+1)) /\ n-(m+1) \in 0 .. WordBits-(m+1)
    OBVIOUS
  <2> QED
    BY <2>1, <2>2
<1>2. 2^(m+1) = 2 * 2^m
  BY DEF PowersDouble
<1>3. 2^m \in Nat \ {0} /\ 2^(n-(m+1)) \in Nat \ {0}
  BY PowersPositive
<1>4. \A x, y \in Nat \ {0} : x <= x * y
  OBVIOUS
<1>5. 2^(m+1) \in Nat \ {0}
  BY <1>2, <1>3
<1> QED
  BY <1>1, <1>2, <1>3, <1>4, <1>5

LEMMA Log2OfPower ==
  ASSUME WordBits \in Nat, PowersDouble, NEW k \in 0 .. WordBits-1
  PROVE Log2(2^k) = k
<1>0. \A n \in 0 .. WordBits : 2^n \in Nat \ {0}
  BY PowersPositive
<1>1. k \in 0..WordBits /\ 2^k <= 2^k /\ 2^k < 2^(k+1)
  BY <1>0 DEF PowersDouble
<1>2. ASSUME NEW j \in 0..WordBits, 2^j <= 2^k, 2^k < 2^(j+1)
      PROVE j = k
  <2>1. ~(k < j)
    BY <1>0, <1>2, PowersIncrease
  <2>2. ~(j < k)
    <3>1. ASSUME j < k
          PROVE FALSE
      <4>1. 2^(j+1) = 2 * 2^j
        BY <3>1 DEF PowersDouble
      <4>2. 2 * 2^j <= 2^k
        BY <3>1, PowersIncrease
      <4> QED
        BY <1>0, <1>2, <4>1, <4>2
    <3> QED
      BY <3>1
  <2> QED
    BY <2>1, <2>2
<1> QED
  BY <1>1, <1>2 DEF Log2

-----------------------------------------------------------------------------
(* How an address is cut.                                                  *)

(* Shifting a left until only r of it is left, and back: B, S and M are    *)
(* the powers of two for the offset, the index and the tag.                *)
LEMMA CutArithmetic ==
  ASSUME NEW a \in Nat, NEW B \in Nat \ {0}, NEW S \in Nat \ {0},
         NEW M \in Nat \ {0}
  PROVE LET index == ((a * M) % (B * S * M)) \div (B * M)
        IN  /\ index \in 0 .. S-1
            /\ (a \div (B * S)) * S + index = a \div B
<1> DEFINE d == a \div B
<1> DEFINE o == a % B
<1> DEFINE q == d \div S
<1> DEFINE x == d % S
<1>1. d \in Nat /\ o \in 0 .. B-1 /\ a = d * B + o
  OBVIOUS
<1>2. q \in Nat /\ x \in 0 .. S-1 /\ d = q * S + x
  BY <1>1
<1> HIDE DEF d, o, q, x
<1>3. x * B + o \in 0 .. B*S-1 /\ a = q * (B*S) + (x*B + o)
  BY <1>1, <1>2
<1>4. a \div (B*S) = q
  BY <1>1, <1>2, <1>3
<1>5. (a * M) % (B*S*M) = (x*B + o) * M
  <2>1. \A k \in Nat \ {0}, n, r \in Nat : r < k => (n * k + r) % k = r
    OBVIOUS
  <2>2. \A k, m \in Nat \ {0}, n, r \in Nat :
          r < k => /\ (n * k + r) * m = n * (k * m) + r * m
                   /\ k * m \in Nat \ {0}
                   /\ r * m \in Nat /\ r * m < k * m
    OBVIOUS
  <2>3. B * S \in Nat \ {0}
    OBVIOUS
  <2>4. a * M = q * (B*S*M) + (x*B + o) * M
    BY <1>2, <1>3, <2>2, <2>3
  <2>5. /\ (x*B + o) * M \in Nat /\ (x*B + o) * M < B*S*M
        /\ B*S*M \in Nat \ {0}
    BY <1>2, <1>3, <2>2, <2>3
  <2> QED
    BY <1>2, <2>1, <2>4, <2>5
<1>6. ((x*B + o) * M) \div (B*M) = x
  BY <1>1, <1>2, <1>3
<1> QED
  BY <1>1, <1>2, <1>4, <1>5, <1>6 DEF d

(* tag and index name the block of an address, for all sizes that fit.     *)
LEMMA CutNamesBlock ==
  ASSUME WordBits \in Nat \ {0}, PowersDouble,
         NEW a \in Unsigned, NEW numsets \in PowersOfTwo,
         NEW bytesperblock \in PowersOfTwo,
         bytesperblock >= 4, numsets * bytesperblock < 2^WordBits
  PROVE /\ NamesBlock(a, bytesperblock, numsets)
        /\ get_tag(a, bytesperblock, numsets) \in Unsigned
<1>0. \A n \in 0 .. WordBits : 2^n \in Nat \ {0}
  BY PowersPositive
<1>1. PICK b \in 0 .. WordBits-1 : bytesperblock = 2^b
  BY DEF PowersOfTwo
<1>2. PICK c \in 0 .. WordBits-1 : numsets = 2^c
  BY DEF PowersOfTwo
<1>3. Log2(bytesperblock) = b /\ Log2(numsets) = c
  BY <1>1, <1>2, Log2OfPower
<1>4. b + c < WordBits
  <2>1. ASSUME b + c >= WordBits
        PROVE FALSE
    <3>1. 2^b * 2^(WordBits-b) = 2^WordBits
      <4>1. \A n \in 0 .. WordBits-b : 2^(b+n) = 2^b * 2^n
        BY PowersAdd
      <4>2. WordBits-b \in 0 .. WordBits-b /\ b + (WordBits-b) = WordBits
        OBVIOUS
      <4> QED
        BY <4>1, <4>2
    <3>2. 2^(WordBits-b) <= 2^c
      <4>1. WordBits-b \in 0 .. WordBits /\ (WordBits-b = c \/ WordBits-b < c)
        BY <2>1
      <4>2. ASSUME WordBits-b < c
            PROVE 2 * 2^(WordBits-b) <= 2^c
        BY <4>1, <4>2, PowersIncrease
      <4> QED
        BY <1>0, <4>1, <4>2
    <3>3. \A x, y, z \in Nat : y <= z => x * y <= z * x
      OBVIOUS
    <3>4. 2^b \in Nat /\ 2^c \in Nat /\ 2^(WordBits-b) \in Nat /\ 2^WordBits \in Nat
      BY <1>0
    <3>5. 2^b * 2^(WordBits-b) <= 2^c * 2^b
      BY <3>2, <3>3, <3>4
    <3>6. 2^c * 2^b < 2^WordBits
      BY <1>1, <1>2
    <3>7. 2^c * 2^b \in Nat
      BY <3>4
    <3> QED
      BY <3>1, <3>4, <3>5, <3>6, <3>7
  <2> QED
    BY <2>1
<1> DEFINE M == 2^(WordBits - (b + c))
<1>5. 2^(b+c) = 2^b * 2^c
  <2>1. \A n \in 0 .. WordBits-b : 2^(b+n) = 2^b * 2^n
    BY PowersAdd
  <2> QED
    BY <1>4, <2>1
<1>6. 2^WordBits = 2^b * 2^c * M
  <2>1. \A n \in 0 .. WordBits-(b+c) : 2^((b+c)+n) = 2^(b+c) * 2^n
    BY <1>4, PowersAdd
  <2>2. WordBits-(b+c) \in 0 .. WordBits-(b+c) /\ (b+c) + (WordBits-(b+c)) = WordBits
    BY <1>4
  <2> QED
    BY <1>5, <2>1, <2>2
<1>7. 2^(WordBits-c) = 2^b * M
  <2>1. \A n \in 0 .. WordBits-b : 2^(b+n) = 2^b * 2^n
    BY PowersAdd
  <2>2. WordBits-(b+c) \in 0 .. WordBits-b /\ b + (WordBits-(b+c)) = WordBits-c
    BY <1>4
  <2> QED
    BY <2>1, <2>2
<1>8. M \in Nat \ {0} /\ 2^b \in Nat \ {0} /\ 2^c \in Nat \ {0}
  BY <1>0, <1>4
<1>9. a \in Nat /\ a < 2^WordBits
  <2>1. 2^WordBits \in Nat
    BY <1>0
  <2> QED
    BY <2>1 DEF Unsigned
<1> HIDE DEF M
<1>10. get_tag(a, bytesperblock, numsets) = a \div (2^b * 2^c)
  BY <1>3, <1>5 DEF get_tag, ShiftRight
<1>11. numsets # 1 =>
         get_index(a, bytesperblock, numsets)
           = ((a * M) % (2^b * 2^c * M)) \div (2^b * M)
  BY <1>3, <1>6, <1>7 DEF get_index, ShiftRight, ShiftLeft, M
<1>14. get_tag(a, bytesperblock, numsets) \in Unsigned
  <2>1. \A x \in Nat, y \in Nat \ {0} : x \div y \in Nat /\ x \div y <= x
    OBVIOUS
  <2>2. 2^b * 2^c \in Nat \ {0}
    BY <1>8
  <2>3. 2^WordBits \in Nat
    BY <1>0
  <2> QED
    BY <1>9, <1>10, <2>1, <2>2, <2>3 DEF Unsigned
<1>12. CASE numsets # 1
  <2>1. LET index == ((a * M) % (2^b * 2^c * M)) \div (2^b * M)
        IN  /\ index \in 0 .. 2^c-1
            /\ (a \div (2^b * 2^c)) * 2^c + index = a \div 2^b
    BY <1>8, <1>9, CutArithmetic
  <2> QED
    BY <1>1, <1>2, <1>10, <1>11, <1>12, <1>14, <2>1 DEF NamesBlock
<1>13. CASE numsets = 1
  <2>1. get_index(a, bytesperblock, numsets) = 0
    BY <1>13 DEF get_index
  <2>2. a \div (2^b * 1) = a \div 2^b
    BY <1>8, <1>9
  <2>3. a \div 2^b \in Nat
    BY <1>8, <1>9
  <2>4. get_tag(a, bytesperblock, numsets) = a \div 2^b
    BY <1>2, <1>10, <1>13, <2>2
  <2> QED
    BY <1>1, <1>13, <1>14, <2>1, <2>3, <2>4 DEF NamesBlock
<1> QED
  BY <1>12, <1>13

(* The sizes are those main accepts; doubling is what is used of ^.        *)
Sized == SizesAssumption /\ PowersDouble

LEMMA AddressFields ==
  ASSUME Sized, NEW a \in Address
  PROVE /\ Index(a) \in SetIndex
        /\ Tag(a) \in Unsigned
        /\ Index(a) = Block(a) % NumSets
        /\ Tag(a) = Block(a) \div NumSets
<1>1. /\ NamesBlock(a, BytesPerBlock, NumSets)
      /\ get_tag(a, BytesPerBlock, NumSets) \in Unsigned
  BY CutNamesBlock DEF Sized, SizesAssumption
<1>2. NumSets \in Nat \ {0}
  BY PowersPositive DEF Sized, SizesAssumption, PowersOfTwo
<1>3. \A q \in Nat, n \in Nat \ {0}, r \in Nat :
        r < n => (q * n + r) % n = r /\ (q * n + r) \div n = q
  OBVIOUS
<1>4. 2^WordBits \in Nat
  BY PowersPositive DEF Sized, SizesAssumption
<1>5. Tag(a) \in Nat /\ Index(a) \in 0 .. NumSets-1
  BY <1>1, <1>4 DEF NamesBlock, Tag, Index, Unsigned
<1>6. Tag(a) * NumSets + Index(a) = Block(a)
  BY <1>1 DEF NamesBlock, Tag, Index, Block
<1>7. Index(a) = Block(a) % NumSets /\ Tag(a) = Block(a) \div NumSets
  <2>1. Index(a) \in Nat /\ Index(a) < NumSets
    BY <1>2, <1>5
  <2>2. /\ (Tag(a) * NumSets + Index(a)) % NumSets = Index(a)
        /\ (Tag(a) * NumSets + Index(a)) \div NumSets = Tag(a)
    BY <1>2, <1>3, <1>5, <2>1
  <2> QED
    BY <1>6, <2>2
<1> QED
  BY <1>1, <1>5, <1>7 DEF SetIndex, Tag

-----------------------------------------------------------------------------
(* The block that a miss replaces.                                         *)

LEMMA FirstIsLeast ==
  ASSUME NEW J, J \subseteq Way, J # {}
  PROVE First(J) \in J /\ \A k \in J : First(J) <= k
<1>1. J \subseteq Nat
  BY DEF Way
<1>2. \E j \in J : \A k \in J : j <= k
  BY <1>1, LeastNumber
<1> QED
  BY <1>2 DEF First

LEMMA OldestOfIsOldest ==
  ASSUME Sized, NEW ts \in [Way -> Nat]
  PROVE OldestOf(ts) \in Way /\ \A k \in Way : ts[OldestOf(ts)] <= ts[k]
<1> DEFINE T == {ts[j] : j \in Way}
<1> DEFINE J == {j \in Way : \A k \in Way : ts[j] <= ts[k]}
<1>1. 0 \in Way
  BY DEF Sized, SizesAssumption, Way
<1>2. T \subseteq Nat /\ T # {}
  BY <1>1
<1>3. PICK m \in T : \A n \in T : m <= n
  <2> HIDE DEF T
  <2> QED
    BY <1>2, LeastNumber
<1>4. J \subseteq Way /\ J # {}
  BY <1>3
<1>5. First(J) \in J
  <2> HIDE DEF J
  <2> QED
    BY <1>4, FirstIsLeast
<1> QED
  BY <1>5 DEF OldestOf

LEMMA VictimIsOldest ==
  ASSUME Sized, NEW s \in SetType
  PROVE /\ Victim(s) \in Way
        /\ Empties(s) # {} => /\ Victim(s) \in Empties(s)
                              /\ \A k \in Empties(s) : Victim(s) <= k
        /\ Empties(s) = {} =>
             \A k \in Way :
               IF lru THEN s.blocks[Victim(s)].access_ts <= s.blocks[k].access_ts
               ELSE s.blocks[Victim(s)].load_ts <= s.blocks[k].load_ts
<1>1. Empties(s) \subseteq Way
  BY DEF Empties
<1>2. AccessTs(s) \in [Way -> Nat] /\ LoadTs(s) \in [Way -> Nat]
  BY DEF AccessTs, LoadTs, SetType, BlockType, Counter
<1>3. CASE Empties(s) # {}
  BY <1>1, <1>3, FirstIsLeast DEF Victim
<1>4. CASE Empties(s) = {} /\ lru
  <2>1. Victim(s) = OldestOf(AccessTs(s))
    BY <1>4 DEF Victim
  <2>2. Victim(s) \in Way /\ \A k \in Way : AccessTs(s)[Victim(s)] <= AccessTs(s)[k]
    BY <1>2, <2>1, OldestOfIsOldest
  <2> QED
    BY <1>4, <2>2 DEF AccessTs
<1>5. CASE Empties(s) = {} /\ ~lru
  <2>1. Victim(s) = OldestOf(LoadTs(s))
    BY <1>5 DEF Victim
  <2>2. Victim(s) \in Way /\ \A k \in Way : LoadTs(s)[Victim(s)] <= LoadTs(s)[k]
    BY <1>2, <2>1, OldestOfIsOldest
  <2> QED
    BY <1>5, <2>2 DEF LoadTs
<1> QED
  BY <1>3, <1>4, <1>5

-----------------------------------------------------------------------------
(* What load and store make of one set.                                    *)

LEMMA PlusCounts ==
  ASSUME Sized, NEW n \in Nat, NEW k \in Nat
  PROVE /\ Plus(n, k) \in Counter
        /\ n + k < CounterMod => Plus(n, k) = n + k
BY DEF Plus, Counter, Sized, SizesAssumption

LEMMA TickedShape ==
  ASSUME Sized, NEW s \in SetType
  PROVE /\ Ticked(s) \in SetType
        /\ Ticked(s).blocks = s.blocks
        /\ Ticked(s).filled = s.filled
        /\ Ticked(s).access_ts_counter = Plus(s.access_ts_counter, 1)
        /\ Ticked(s).load_ts_counter = Plus(s.load_ts_counter, 1)
<1>1. /\ Plus(s.access_ts_counter, 1) \in Counter
      /\ Plus(s.load_ts_counter, 1) \in Counter
  BY PlusCounts DEF SetType, Counter
<1> QED
  BY <1>1 DEF Ticked, SetType

LEMMA TouchShape ==
  ASSUME NEW s \in SetType, NEW t
  PROVE /\ Touch(s, t) \in SetType
        /\ Touch(s, t).filled = s.filled
        /\ Touch(s, t).access_ts_counter = s.access_ts_counter
        /\ Touch(s, t).load_ts_counter = s.load_ts_counter
        /\ \A j \in Way :
             /\ Touch(s, t).blocks[j].tag = s.blocks[j].tag
             /\ Touch(s, t).blocks[j].valid = s.blocks[j].valid
             /\ Touch(s, t).blocks[j].load_ts = s.blocks[j].load_ts
             /\ Touch(s, t).blocks[j].dirty = s.blocks[j].dirty
             /\ Touch(s, t).blocks[j].access_ts =
                  IF j \in Matching(s, t) THEN s.access_ts_counter
                  ELSE s.blocks[j].access_ts
BY DEF Touch, SetType, BlockType

LEMMA WriteHitShape ==
  ASSUME NEW s \in SetType, NEW t
  PROVE /\ WriteHit(s, t) \in SetType
        /\ WriteHit(s, t).filled = s.filled
        /\ WriteHit(s, t).access_ts_counter = s.access_ts_counter
        /\ WriteHit(s, t).load_ts_counter = s.load_ts_counter
        /\ \A j \in Way :
             /\ WriteHit(s, t).blocks[j].tag = s.blocks[j].tag
             /\ WriteHit(s, t).blocks[j].valid = s.blocks[j].valid
             /\ WriteHit(s, t).blocks[j].load_ts = s.blocks[j].load_ts
             /\ WriteHit(s, t).blocks[j].dirty =
                  IF j \in Matching(s, t) /\ wb THEN TRUE ELSE s.blocks[j].dirty
             /\ WriteHit(s, t).blocks[j].access_ts =
                  IF j \in Matching(s, t) THEN s.access_ts_counter
                  ELSE s.blocks[j].access_ts
<1> DEFINE u == Touch(s, t)
<1>1. u \in SetType
  BY TouchShape
<1>3. /\ WriteHit(s, t) \in SetType
      /\ WriteHit(s, t).filled = u.filled
      /\ WriteHit(s, t).access_ts_counter = u.access_ts_counter
      /\ WriteHit(s, t).load_ts_counter = u.load_ts_counter
      /\ \A j \in Way :
           /\ WriteHit(s, t).blocks[j].tag = u.blocks[j].tag
           /\ WriteHit(s, t).blocks[j].valid = u.blocks[j].valid
           /\ WriteHit(s, t).blocks[j].load_ts = u.blocks[j].load_ts
           /\ WriteHit(s, t).blocks[j].access_ts = u.blocks[j].access_ts
           /\ WriteHit(s, t).blocks[j].dirty =
                IF j \in Matching(s, t) /\ wb THEN TRUE ELSE u.blocks[j].dirty
  <2> HIDE DEF u
  <2> QED
    BY <1>1 DEF WriteHit, SetType, BlockType, u
<1>4. /\ u.filled = s.filled
      /\ u.access_ts_counter = s.access_ts_counter
      /\ u.load_ts_counter = s.load_ts_counter
      /\ \A j \in Way :
           /\ u.blocks[j].tag = s.blocks[j].tag
           /\ u.blocks[j].valid = s.blocks[j].valid
           /\ u.blocks[j].load_ts = s.blocks[j].load_ts
           /\ u.blocks[j].dirty = s.blocks[j].dirty
           /\ u.blocks[j].access_ts =
                IF j \in Matching(s, t) THEN s.access_ts_counter
                ELSE s.blocks[j].access_ts
  BY TouchShape
<1> QED
  BY ONLY <1>3, <1>4

LEMMA FillShape ==
  ASSUME Sized, NEW s \in SetType, s.filled < BlocksPerSet \/ Empties(s) = {},
         NEW t \in Unsigned
  PROVE /\ Fill(s, t) \in SetType
        /\ Fill(s, t).filled = IF Empties(s) # {} THEN s.filled + 1 ELSE s.filled
        /\ Fill(s, t).access_ts_counter = s.access_ts_counter
        /\ Fill(s, t).load_ts_counter = s.load_ts_counter
        /\ \A j \in Way \ {Victim(s)} : Fill(s, t).blocks[j] = s.blocks[j]
        /\ Fill(s, t).blocks[Victim(s)] =
             [tag |-> t, valid |-> TRUE, load_ts |-> s.load_ts_counter,
              access_ts |-> s.access_ts_counter,
              dirty |-> Empties(s) # {} /\ s.blocks[Victim(s)].dirty]
<1>1. Victim(s) \in Way
  BY VictimIsOldest
<1>2. BlocksPerSet \in Nat
  BY DEF Sized, SizesAssumption
<1> DEFINE f == IF Empties(s) # {} THEN s.filled + 1 ELSE s.filled
<1> DEFINE d == Empties(s) # {} /\ s.blocks[Victim(s)].dirty
<1> DEFINE b == [tag |-> t, valid |-> TRUE, load_ts |-> s.load_ts_counter,
                 access_ts |-> s.access_ts_counter, dirty |-> d]
<1>3. f \in 0 .. BlocksPerSet
  BY <1>2 DEF SetType
<1>4. d \in BOOLEAN
  OBVIOUS
<1>5. Fill(s, t) = [s EXCEPT !.filled = f, !.blocks[Victim(s)] = b]
  BY DEF Fill
<1> HIDE DEF f, d
<1>6. b \in BlockType
  BY <1>4 DEF BlockType, SetType
<1> HIDE DEF b
<1> DEFINE bs == [s.blocks EXCEPT ![Victim(s)] = b]
<1>7. /\ bs \in [Way -> BlockType]
      /\ \A j \in Way \ {Victim(s)} : bs[j] = s.blocks[j]
      /\ bs[Victim(s)] = b
  BY <1>1, <1>6 DEF SetType
<1>8. Fill(s, t) = [s EXCEPT !.filled = f, !.blocks = bs]
  BY <1>5
<1> HIDE DEF bs
<1>9. /\ Fill(s, t) \in SetType
      /\ Fill(s, t).filled = f
      /\ Fill(s, t).access_ts_counter = s.access_ts_counter
      /\ Fill(s, t).load_ts_counter = s.load_ts_counter
      /\ \A j \in Way \ {Victim(s)} : Fill(s, t).blocks[j] = s.blocks[j]
      /\ Fill(s, t).blocks[Victim(s)] = b
  BY <1>3, <1>7, <1>8 DEF SetType
<1> QED
  BY <1>9 DEF f, d, b

-----------------------------------------------------------------------------
(* The shape of a set: blocks are filled from the front, whatever the      *)
(* timestamps do.                                                          *)

Filled(s) == Valid(s) = 0 .. s.filled-1

LEMMA VictimIsNext ==
  ASSUME Sized, NEW s \in SetType, Filled(s)
  PROVE /\ Empties(s) # {} => Victim(s) = s.filled /\ s.filled < BlocksPerSet
        /\ Empties(s) = {} => s.filled = BlocksPerSet /\ Valid(s) = Way
<1>1. BlocksPerSet \in Nat \ {0} /\ s.filled \in 0 .. BlocksPerSet
  BY DEF Sized, SizesAssumption, SetType
<1>2. Valid(s) = Way \ Empties(s)
  BY DEF Valid, Empties
<1>3. ASSUME Empties(s) # {}
      PROVE Victim(s) = s.filled /\ s.filled < BlocksPerSet
  <2>1. /\ Victim(s) \in Empties(s)
        /\ \A k \in Empties(s) : Victim(s) <= k
    BY <1>3, VictimIsOldest
  <2>2. Empties(s) = s.filled .. BlocksPerSet-1
    BY <1>1, <1>2 DEF Filled, Way, Empties
  <2> QED
    BY <1>1, <2>1, <2>2
<1>4. ASSUME Empties(s) = {}
      PROVE s.filled = BlocksPerSet /\ Valid(s) = Way
  <2>1. Way = 0 .. s.filled-1
    BY <1>2, <1>4 DEF Filled
  <2>2. BlocksPerSet-1 \in Way
    BY <1>1 DEF Way
  <2> QED
    BY <1>1, <1>2, <1>4, <2>1, <2>2
<1> QED
  BY <1>3, <1>4

LEMMA TouchFilled ==
  ASSUME NEW s \in SetType, NEW t, Filled(s)
  PROVE Valid(Touch(s, t)) = Valid(s) /\ Filled(Touch(s, t))
BY TouchShape DEF Filled, Valid

LEMMA WriteHitFilled ==
  ASSUME NEW s \in SetType, NEW t, Filled(s)
  PROVE Valid(WriteHit(s, t)) = Valid(s) /\ Filled(WriteHit(s, t))
<1>1. WriteHit(s, t).filled = s.filled
  BY WriteHitShape
<1>2. \A j \in Way : WriteHit(s, t).blocks[j].valid = s.blocks[j].valid
  BY WriteHitShape
<1>3. Valid(WriteHit(s, t)) = Valid(s)
  BY <1>2 DEF Valid
<1> QED
  BY <1>1, <1>3 DEF Filled

LEMMA FillFilled ==
  ASSUME Sized, NEW s \in SetType, NEW t \in Unsigned, Filled(s)
  PROVE /\ Fill(s, t) \in SetType
        /\ Valid(Fill(s, t)) = Valid(s) \union {Victim(s)}
        /\ Filled(Fill(s, t))
<1> DEFINE u == Fill(s, t)
<1> DEFINE v == Victim(s)
<1>1. s.filled < BlocksPerSet \/ Empties(s) = {}
  BY VictimIsNext
<1>2. v \in Way
  BY VictimIsOldest
<1>3. /\ u \in SetType
      /\ \A j \in Way \ {v} : u.blocks[j] = s.blocks[j]
      /\ u.blocks[v].valid = TRUE
  <2>1. /\ u \in SetType
        /\ \A j \in Way \ {v} : u.blocks[j] = s.blocks[j]
    BY <1>1, FillShape
  <2>2. u.blocks[v] = [tag |-> t, valid |-> TRUE, load_ts |-> s.load_ts_counter,
                       access_ts |-> s.access_ts_counter,
                       dirty |-> Empties(s) # {} /\ s.blocks[v].dirty]
    BY <1>1, FillShape
  <2> QED
    BY <2>1, <2>2
<1>4. u.filled = IF Empties(s) # {} THEN s.filled + 1 ELSE s.filled
  BY <1>1, FillShape
<1>5. Valid(u) = Valid(s) \union {v}
  <2> HIDE DEF u, v
  <2> QED
    BY <1>2, <1>3 DEF Valid
<1>6. s.filled \in Nat
  BY DEF SetType, Sized, SizesAssumption
<1>7. CASE Empties(s) # {}
  <2>1. v = s.filled /\ u.filled = s.filled + 1
    BY <1>4, <1>7, VictimIsNext
  <2> HIDE DEF u, v
  <2> QED
    BY <1>3, <1>5, <1>6, <2>1 DEF Filled, u, v
<1>8. CASE Empties(s) = {}
  <2>1. v \in Valid(s) /\ u.filled = s.filled
    BY <1>2, <1>4, <1>8, VictimIsNext
  <2> HIDE DEF u, v
  <2> QED
    BY <1>3, <1>5, <2>1 DEF Filled, u, v
<1> QED
  BY <1>7, <1>8

LEMMA TickedFilled ==
  ASSUME Sized, NEW s \in SetType, Filled(s)
  PROVE /\ Ticked(s) \in SetType
        /\ Valid(Ticked(s)) = Valid(s)
        /\ Filled(Ticked(s))
        /\ \A t : Matching(Ticked(s), t) = Matching(s, t)
        /\ Empties(Ticked(s)) = Empties(s)
        /\ Victim(Ticked(s)) = Victim(s)
<1> DEFINE u == Ticked(s)
<1>1. u \in SetType /\ u.blocks = s.blocks /\ u.filled = s.filled
  BY TickedShape
<1> HIDE DEF u
<1>2. /\ Valid(u) = Valid(s)
      /\ Empties(u) = Empties(s)
      /\ AccessTs(u) = AccessTs(s) /\ LoadTs(u) = LoadTs(s)
      /\ \A t : Matching(u, t) = Matching(s, t)
  BY <1>1 DEF Valid, Empties, AccessTs, LoadTs, Matching
<1>3. Victim(u) = Victim(s)
  BY <1>2 DEF Victim
<1> QED
  BY <1>1, <1>2, <1>3 DEF Filled, u

LEMMA LoadSetFilled ==
  ASSUME Sized, NEW s \in SetType, NEW t \in Unsigned, Filled(s)
  PROVE LoadSet(s, t) \in SetType /\ Filled(LoadSet(s, t))
<1>1. Ticked(s) \in SetType /\ Filled(Ticked(s))
  BY TickedFilled
<1>2. Touch(Ticked(s), t) \in SetType /\ Filled(Touch(Ticked(s), t))
  BY <1>1, TouchShape, TouchFilled
<1>3. Fill(Ticked(s), t) \in SetType /\ Filled(Fill(Ticked(s), t))
  BY <1>1, FillFilled
<1> QED
  BY <1>2, <1>3 DEF LoadSet

(* A store's own tick of the access counter. *)
AccessTicked(s) == [s EXCEPT !.access_ts_counter = Plus(@, 1)]

LEMMA AccessTickedShape ==
  ASSUME Sized, NEW s \in SetType
  PROVE LET u == AccessTicked(s) IN
        /\ u \in SetType
        /\ u.blocks = s.blocks
        /\ u.filled = s.filled
        /\ u.access_ts_counter = Plus(s.access_ts_counter, 1)
        /\ u.load_ts_counter = s.load_ts_counter
        /\ Valid(u) = Valid(s)
        /\ Filled(s) => Filled(u)
        /\ \A t : Matching(u, t) = Matching(s, t)
        /\ Empties(u) = Empties(s)
        /\ Victim(u) = Victim(s)
<1> DEFINE u == AccessTicked(s)
<1>1. Plus(s.access_ts_counter, 1) \in Counter
  BY PlusCounts DEF SetType, Counter
<1>2. /\ u \in SetType /\ u.blocks = s.blocks /\ u.filled = s.filled
      /\ u.access_ts_counter = Plus(s.access_ts_counter, 1)
      /\ u.load_ts_counter = s.load_ts_counter
  BY <1>1 DEF SetType, AccessTicked
<1> HIDE DEF u
<1>3. /\ Valid(u) = Valid(s)
      /\ Empties(u) = Empties(s)
      /\ AccessTs(u) = AccessTs(s) /\ LoadTs(u) = LoadTs(s)
      /\ \A t : Matching(u, t) = Matching(s, t)
  BY <1>2 DEF Valid, Empties, AccessTs, LoadTs, Matching
<1>4. Victim(u) = Victim(s)
  BY <1>3 DEF Victim
<1> QED
  BY <1>2, <1>3, <1>4 DEF Filled, u

LEMMA StoreSetFilled ==
  ASSUME Sized, NEW s \in SetType, NEW t \in Unsigned, Filled(s)
  PROVE StoreSet(s, t) \in SetType /\ Filled(StoreSet(s, t))
<1> DEFINE u == AccessTicked(s)
<1>1. u \in SetType /\ Filled(u)
  BY AccessTickedShape
<1>2. WriteHit(u, t) \in SetType /\ Filled(WriteHit(u, t))
  BY <1>1, WriteHitShape, WriteHitFilled
<1>3. LoadSet(u, t) \in SetType /\ Filled(LoadSet(u, t))
  BY <1>1, LoadSetFilled
<1>4. StoreSet(s, t) \in {WriteHit(u, t), LoadSet(u, t), u}
  BY DEF StoreSet, AccessTicked
<1> QED
  BY <1>1, <1>2, <1>3, <1>4

-----------------------------------------------------------------------------
(* Type correctness, which needs the shape of the sets: filled counts no   *)
(* further than the blocks there are.                                      *)

TypeInv == TypeOK /\ \A i \in SetIndex : Filled(sets[i])

LEMMA EmptySetType ==
  ASSUME Sized
  PROVE EmptySet \in SetType /\ Filled(EmptySet)
<1>1. 2^WordBits \in Nat \ {0}
  BY PowersPositive DEF Sized, SizesAssumption
<1>2. EmptyBlock \in BlockType
  BY <1>1 DEF EmptyBlock, BlockType, Unsigned, Counter, Sized, SizesAssumption
<1>3. EmptySet \in SetType
  BY <1>2 DEF EmptySet, SetType, Counter, Sized, SizesAssumption
<1>4. \A j \in Way : ~EmptySet.blocks[j].valid
  BY DEF EmptySet, EmptyBlock
<1>5. Valid(EmptySet) = {} /\ EmptySet.filled = 0
  BY <1>4 DEF Valid, EmptySet
<1> QED
  BY <1>3, <1>5 DEF Filled

LEMMA InitTypeInv ==
  ASSUME Sized, Init
  PROVE TypeInv
<1>1. EmptySet \in SetType /\ Filled(EmptySet)
  BY EmptySetType
<1>2. sets \in [SetIndex -> SetType] /\ \A i \in SetIndex : Filled(sets[i])
  BY <1>1 DEF Init
<1>3. stats \in StatsType
  BY DEF Init, NoStats, StatsType, Counter, Sized, SizesAssumption
<1>4. wa \in BOOLEAN /\ wb \in BOOLEAN /\ lru \in BOOLEAN
  BY DEF Init
<1>5. line \in {NoLine} \union ({"l", "s"} \X Address) /\ unsaved \subseteq Unsaved
  BY DEF Init
<1> QED
  BY <1>2, <1>3, <1>4, <1>5 DEF TypeInv, TypeOK

LEMMA SizesAreNumbers ==
  ASSUME Sized
  PROVE /\ NumSets \in Nat \ {0} /\ BytesPerBlock \in Nat \ {0}
        /\ MemoryTransfer \in Nat
        /\ BlocksPerSet \in Nat \ {0} /\ CounterMod \in Nat \ {0}
        /\ MaxTrace \in Nat
<1>1. NumSets \in Nat \ {0} /\ BytesPerBlock \in Nat \ {0}
  BY PowersPositive DEF Sized, SizesAssumption, PowersOfTwo
<1>2. MemoryTransfer \in Nat
  BY <1>1 DEF MemoryTransfer
<1> QED
  BY <1>1, <1>2 DEF Sized, SizesAssumption

(* The charge of one access. *)
LEMMA Charges ==
  ASSUME Sized, NEW s, NEW t
  PROVE /\ LoadCycles(s, t) \in Nat /\ LoadCycles(s, t) <= 2 * MemoryTransfer + 2
        /\ StoreCycles(s, t) \in Nat /\ StoreCycles(s, t) <= 2 * MemoryTransfer + 102
        /\ Matching(s, t) = {} /\ WritesBack(s) =>
             /\ LoadCycles(s, t) >= 2 * MemoryTransfer
             /\ wa => StoreCycles(s, t) >= 2 * MemoryTransfer
<1>1. MemoryTransfer \in Nat
  BY SizesAreNumbers
<1>2. /\ LoadCycles(s, t) \in Nat /\ LoadCycles(s, t) <= 2 * MemoryTransfer + 2
      /\ Matching(s, t) = {} /\ WritesBack(s) => LoadCycles(s, t) >= 2 * MemoryTransfer
  BY <1>1 DEF LoadCycles
<1>3. /\ StoreCycles(s, t) \in Nat /\ StoreCycles(s, t) <= 2 * MemoryTransfer + 102
      /\ Matching(s, t) = {} /\ wa => StoreCycles(s, t) >= LoadCycles(s, t)
  BY <1>1, <1>2 DEF StoreCycles
<1> QED
  BY <1>1, <1>2, <1>3

LEMMA LoadTypeInv ==
  ASSUME Sized, TypeInv, NEW a \in Address, Load(a)
  PROVE TypeInv'
<1> DEFINE i == Index(a)
<1> DEFINE t == Tag(a)
<1> DEFINE s == sets[i]
<1>1. i \in SetIndex /\ t \in Unsigned
  BY AddressFields
<1>2. s \in SetType /\ Filled(s)
  BY <1>1 DEF TypeInv, TypeOK
<1>3. LoadSet(s, t) \in SetType /\ Filled(LoadSet(s, t))
  BY <1>1, <1>2, LoadSetFilled
<1>4. sets' = [sets EXCEPT ![i] = LoadSet(s, t)]
  BY DEF Load
<1> HIDE DEF i, t, s
<1>5. sets' \in [SetIndex -> SetType] /\ \A k \in SetIndex : Filled(sets'[k])
  BY <1>1, <1>3, <1>4 DEF TypeInv, TypeOK
<1>6. stats' \in StatsType
  <2>1. LoadCycles(s, t) \in Nat
    BY Charges
  <2>2. \A n \in Counter, k \in Nat : Plus(n, k) \in Counter
    <3>1. Counter \subseteq Nat
      BY SizesAreNumbers DEF Counter
    <3> QED
      BY <3>1, PlusCounts
  <2>3. stats \in StatsType
    BY DEF TypeInv, TypeOK
  <2>4. stats' = [stats EXCEPT
                 !.total_loads = Plus(@, 1),
                 !.load_hits = IF Misses(s, t) THEN @ ELSE Plus(@, 1),
                 !.load_misses = IF Misses(s, t) THEN Plus(@, 1) ELSE @,
                 !.total_cycles = Plus(@, LoadCycles(s, t))]
    BY DEF Load, i, t, s
  <2> QED
    BY <2>1, <2>2, <2>3, <2>4 DEF StatsType
<1>7. wa' \in BOOLEAN /\ wb' \in BOOLEAN /\ lru' \in BOOLEAN
  BY DEF Load, TypeInv, TypeOK
<1>8. line' \in {NoLine} \union ({"l", "s"} \X Address) /\ unsaved' \subseteq Unsaved
  BY DEF Load, Read, TypeInv, TypeOK
<1> QED
  BY <1>5, <1>6, <1>7, <1>8 DEF TypeInv, TypeOK

LEMMA StoreTypeInv ==
  ASSUME Sized, TypeInv, NEW a \in Address, Store(a)
  PROVE TypeInv'
<1> DEFINE i == Index(a)
<1> DEFINE t == Tag(a)
<1> DEFINE s == sets[i]
<1>1. i \in SetIndex /\ t \in Unsigned
  BY AddressFields
<1>2. s \in SetType /\ Filled(s)
  BY <1>1 DEF TypeInv, TypeOK
<1>3. StoreSet(s, t) \in SetType /\ Filled(StoreSet(s, t))
  BY <1>1, <1>2, StoreSetFilled
<1>4. sets' = [sets EXCEPT ![i] = StoreSet(s, t)]
  BY DEF Store
<1>5. unsaved' = (IF wa THEN unsaved \ Saved(i, t) ELSE unsaved)
                 \union Pending(i, t)
  BY DEF Store
<1> HIDE DEF i, t, s
<1>6. sets' \in [SetIndex -> SetType] /\ \A k \in SetIndex : Filled(sets'[k])
  BY <1>1, <1>3, <1>4 DEF TypeInv, TypeOK
<1>7. stats' \in StatsType
  <2>1. StoreCycles(s, t) \in Nat
    BY Charges
  <2>2. \A n \in Counter, k \in Nat : Plus(n, k) \in Counter
    <3>1. Counter \subseteq Nat
      BY SizesAreNumbers DEF Counter
    <3> QED
      BY <3>1, PlusCounts
  <2>3. stats \in StatsType
    BY DEF TypeInv, TypeOK
  <2>4. stats' = [stats EXCEPT
                 !.total_stores = Plus(@, 1),
                 !.store_hits = IF Misses(s, t) THEN @ ELSE Plus(@, 1),
                 !.store_misses = IF Misses(s, t) THEN Plus(@, 1) ELSE @,
                 !.total_cycles = Plus(@, StoreCycles(s, t))]
    BY DEF Store, i, t, s
  <2> QED
    BY <2>1, <2>2, <2>3, <2>4 DEF StatsType
<1>8. wa' \in BOOLEAN /\ wb' \in BOOLEAN /\ lru' \in BOOLEAN
  BY DEF Store, TypeInv, TypeOK
<1>9. line' \in {NoLine} \union ({"l", "s"} \X Address)
  BY DEF Store, Read
<1>10. unsaved' \subseteq Unsaved
  <2>1. Pending(i, t) \subseteq Unsaved
    BY <1>1 DEF Pending, Unsaved
  <2> QED
    BY <1>5, <2>1 DEF TypeInv, TypeOK
<1> QED
  BY <1>6, <1>7, <1>8, <1>9, <1>10 DEF TypeInv, TypeOK

LEMMA StutterTypeInv ==
  ASSUME TypeInv, UNCHANGED vars
  PROVE TypeInv'
BY DEF TypeInv, TypeOK, vars

(* Every variable keeps its type, whatever the sizes, the modes and the    *)
(* trace, timestamps and counters wrapping included.                       *)
THEOREM TypeCorrect == Sized => (Spec => [](TypeOK /\ TypeInv))
<1> SUFFICES ASSUME Sized PROVE Spec => [](TypeOK /\ TypeInv)
  OBVIOUS
<1>1. Init => TypeInv
  BY InitTypeInv
<1>2. TypeInv /\ [Next]_vars => TypeInv'
  BY LoadTypeInv, StoreTypeInv, StutterTypeInv DEF Next
<1>3. TypeInv => TypeOK
  BY DEF TypeInv
<1> QED
  BY <1>1, <1>2, <1>3, PTL DEF Spec

-----------------------------------------------------------------------------
(* Hits and misses are counted modulo the width of the counters.           *)

LEMMA ModOfSum ==
  ASSUME NEW m \in Nat \ {0}, NEW k \in Nat, NEW r \in Nat, r < m
  PROVE (k * m + r) % m = r
OBVIOUS

LEMMA ModDropsMultiple ==
  ASSUME NEW m \in Nat \ {0}, NEW q \in Nat, NEW n \in Nat
  PROVE (q * m + n) % m = n % m
<1> DEFINE p == n \div m
<1> DEFINE r == n % m
<1>1. p \in Nat /\ r \in Nat /\ r < m /\ n = p * m + r
  OBVIOUS
<1> HIDE DEF p, r
<1>2. q + p \in Nat /\ q * m + n = (q + p) * m + r
  BY <1>1
<1>3. ((q + p) * m + r) % m = r
  BY <1>1, <1>2, ModOfSum
<1> QED
  BY <1>2, <1>3 DEF r

LEMMA ModOfTerm ==
  ASSUME NEW m \in Nat \ {0}, NEW x \in Nat, NEW y \in Nat
  PROVE ((x % m) + y) % m = (x + y) % m
<1> DEFINE p == x \div m
<1> DEFINE r == x % m
<1>1. p \in Nat /\ r \in Nat /\ x = p * m + r
  OBVIOUS
<1> HIDE DEF p, r
<1>2. x + y = p * m + (r + y) /\ r + y \in Nat
  BY <1>1
<1>3. (p * m + (r + y)) % m = (r + y) % m
  BY <1>1, <1>2, ModDropsMultiple
<1> QED
  BY <1>2, <1>3 DEF r

(* One more on either side of a sum that wraps. *)
LEMMA PlusOneBothSides ==
  ASSUME Sized, NEW x \in Nat, NEW y \in Nat
  PROVE /\ Plus(Plus(x, y), 1) = Plus(Plus(x, 1), y)
        /\ Plus(Plus(x, y), 1) = Plus(x, Plus(y, 1))
<1> DEFINE m == CounterMod
<1>1. m \in Nat \ {0}
  BY SizesAreNumbers
<1> HIDE DEF m
<1> DEFINE Absorbs(u, v) == ((u % m) + v) % m = (u + v) % m
<1>2. \A u, v \in Nat : Absorbs(u, v)
  BY <1>1, ModOfTerm
<1>3. x + y \in Nat /\ x + 1 \in Nat /\ y + 1 \in Nat /\ 1 \in Nat
  OBVIOUS
<1>4. Absorbs(x + y, 1) /\ Absorbs(x + 1, y) /\ Absorbs(y + 1, x)
  <2> HIDE DEF Absorbs
  <2> QED
    BY <1>2, <1>3
<1>5. (((x + y) % m) + 1) % m = ((x + y) + 1) % m
  BY <1>4
<1>6. (((x + 1) % m) + y) % m = ((x + 1) + y) % m
  BY <1>4
<1>7. (((y + 1) % m) + x) % m = ((y + 1) + x) % m
  BY <1>4
<1>8. (x + y) + 1 = (x + 1) + y /\ (x + y) + 1 = (y + 1) + x
  OBVIOUS
<1>9. (y + 1) % m \in Nat
  BY <1>1
<1>10. ((y + 1) % m) + x = x + ((y + 1) % m)
  BY <1>9
<1> QED
  BY <1>5, <1>6, <1>7, <1>8, <1>10 DEF Plus, m

LEMMA InitCounted ==
  ASSUME Sized, Init
  PROVE EveryAccessCounted
BY DEF Init, NoStats, EveryAccessCounted, Plus, Sized, SizesAssumption

LEMMA LoadCounted ==
  ASSUME Sized, TypeInv, EveryAccessCounted, NEW a \in Address, Load(a)
  PROVE EveryAccessCounted'
<1> DEFINE missed == Misses(sets[Index(a)], Tag(a))
<1>1. /\ stats.total_loads \in Nat /\ stats.load_hits \in Nat /\ stats.load_misses \in Nat
      /\ CounterMod \in Nat \ {0}
  BY SizesAreNumbers DEF TypeInv, TypeOK, StatsType, Counter
<1>2. /\ stats'.total_loads = Plus(stats.total_loads, 1)
      /\ stats'.load_hits = IF missed THEN stats.load_hits ELSE Plus(stats.load_hits, 1)
      /\ stats'.load_misses = IF missed THEN Plus(stats.load_misses, 1) ELSE stats.load_misses
      /\ stats'.total_stores = stats.total_stores
      /\ stats'.store_hits = stats.store_hits
      /\ stats'.store_misses = stats.store_misses
  BY DEF Load, TypeInv, TypeOK, StatsType
<1> HIDE DEF missed
<1>3. /\ Plus(stats.total_loads, 1) = Plus(Plus(stats.load_hits, 1), stats.load_misses)
      /\ Plus(stats.total_loads, 1) = Plus(stats.load_hits, Plus(stats.load_misses, 1))
  <2>1. stats.total_loads = Plus(stats.load_hits, stats.load_misses)
    BY DEF EveryAccessCounted
  <2> QED
    BY <1>1, <2>1, PlusOneBothSides
<1>4. stats'.total_loads = Plus(stats'.load_hits, stats'.load_misses)
  BY <1>2, <1>3
<1> QED
  BY <1>2, <1>4 DEF EveryAccessCounted

LEMMA StoreCounted ==
  ASSUME Sized, TypeInv, EveryAccessCounted, NEW a \in Address, Store(a)
  PROVE EveryAccessCounted'
<1> DEFINE missed == Misses(sets[Index(a)], Tag(a))
<1>1. /\ stats.total_stores \in Nat /\ stats.store_hits \in Nat
      /\ stats.store_misses \in Nat /\ CounterMod \in Nat \ {0}
  BY SizesAreNumbers DEF TypeInv, TypeOK, StatsType, Counter
<1>2. /\ stats'.total_stores = Plus(stats.total_stores, 1)
      /\ stats'.store_hits = IF missed THEN stats.store_hits ELSE Plus(stats.store_hits, 1)
      /\ stats'.store_misses = IF missed THEN Plus(stats.store_misses, 1) ELSE stats.store_misses
      /\ stats'.total_loads = stats.total_loads
      /\ stats'.load_hits = stats.load_hits
      /\ stats'.load_misses = stats.load_misses
  BY DEF Store, TypeInv, TypeOK, StatsType
<1> HIDE DEF missed
<1>3. /\ Plus(stats.total_stores, 1) = Plus(Plus(stats.store_hits, 1), stats.store_misses)
      /\ Plus(stats.total_stores, 1) = Plus(stats.store_hits, Plus(stats.store_misses, 1))
  <2>1. stats.total_stores = Plus(stats.store_hits, stats.store_misses)
    BY DEF EveryAccessCounted
  <2> QED
    BY <1>1, <2>1, PlusOneBothSides
<1>4. stats'.total_stores = Plus(stats'.store_hits, stats'.store_misses)
  BY <1>2, <1>3
<1> QED
  BY <1>2, <1>4 DEF EveryAccessCounted

(* Every access is a hit or a miss of its kind, once (main.cpp 108-116),   *)
(* also when the counters wrap.                                            *)
THEOREM AccessesAreCounted == Sized => (Spec => []EveryAccessCounted)
<1> SUFFICES ASSUME Sized PROVE Spec => []EveryAccessCounted
  OBVIOUS
<1>1. Init => TypeInv /\ EveryAccessCounted
  BY InitTypeInv, InitCounted
<1>2. TypeInv /\ [Next]_vars => TypeInv'
  BY LoadTypeInv, StoreTypeInv, StutterTypeInv DEF Next
<1>3. TypeInv /\ EveryAccessCounted /\ [Next]_vars => EveryAccessCounted'
  <2>1. EveryAccessCounted /\ UNCHANGED vars => EveryAccessCounted'
    BY DEF EveryAccessCounted, vars
  <2> QED
    BY <2>1, LoadCounted, StoreCounted DEF Next
<1> QED
  BY <1>1, <1>2, <1>3, PTL DEF Spec

-----------------------------------------------------------------------------
(* The store of a hit stays in a dirty block until it is in memory.        *)

(* A dirty block with tag b in set s.                                      *)
DirtyIn(s, b) ==
  \E j \in Way : s.blocks[j].valid /\ s.blocks[j].tag = b /\ s.blocks[j].dirty

LEMMA LoadSetDirty ==
  ASSUME Sized, NEW s \in SetType, Filled(s), NEW t \in Unsigned, NEW b,
         DirtyIn(s, b),
         ~(Matching(s, t) = {} /\ WritesBack(s) /\ b = s.blocks[Victim(s)].tag)
  PROVE DirtyIn(LoadSet(s, t), b)
<1>1. PICK j \in Way : s.blocks[j].valid /\ s.blocks[j].tag = b /\ s.blocks[j].dirty
  BY DEF DirtyIn
<1> DEFINE u == Ticked(s)
<1>2. /\ u \in SetType /\ u.blocks = s.blocks /\ Filled(u)
      /\ Matching(u, t) = Matching(s, t)
      /\ Empties(u) = Empties(s) /\ Victim(u) = Victim(s)
  BY TickedShape, TickedFilled
<1> HIDE DEF u
<1>3. CASE Matching(s, t) # {}
  <2>1. LoadSet(s, t) = Touch(u, t)
    BY <1>3 DEF LoadSet, u
  <2>2. /\ Touch(u, t).blocks[j].valid = u.blocks[j].valid
        /\ Touch(u, t).blocks[j].tag = u.blocks[j].tag
        /\ Touch(u, t).blocks[j].dirty = u.blocks[j].dirty
    BY <1>2, TouchShape
  <2>3. LoadSet(s, t).blocks[j].valid /\ LoadSet(s, t).blocks[j].tag = b /\ LoadSet(s, t).blocks[j].dirty
    BY <1>1, <1>2, <2>1, <2>2
  <2> QED
    BY <2>3 DEF DirtyIn
<1>4. CASE Matching(s, t) = {}
  <2>1. LoadSet(s, t) = Fill(u, t)
    BY <1>4 DEF LoadSet, u
  <2>2. j # Victim(s)
    BY <1>1, <1>4, VictimIsOldest DEF WritesBack, Empties
  <2>3. u.filled < BlocksPerSet \/ Empties(u) = {}
    BY <1>2, VictimIsNext
  <2>4. \A k \in Way \ {Victim(u)} : Fill(u, t).blocks[k] = u.blocks[k]
    BY <1>2, <2>3, FillShape
  <2>5. Fill(u, t).blocks[j] = s.blocks[j]
    BY <1>2, <2>2, <2>4
  <2> QED
    BY <1>1, <2>1, <2>5 DEF DirtyIn
<1> QED
  BY <1>3, <1>4

LEMMA WriteHitDirty ==
  ASSUME NEW s \in SetType, NEW t, NEW b
  PROVE /\ DirtyIn(s, b) => DirtyIn(WriteHit(s, t), b)
        /\ wb /\ Matching(s, t) # {} => DirtyIn(WriteHit(s, t), t)
<1> DEFINE u == WriteHit(s, t)
<1>1. \A j \in Way :
        /\ u.blocks[j].tag = s.blocks[j].tag
        /\ u.blocks[j].valid = s.blocks[j].valid
        /\ u.blocks[j].dirty =
             IF j \in Matching(s, t) /\ wb THEN TRUE ELSE s.blocks[j].dirty
  BY WriteHitShape
<1> HIDE DEF u
<1>2. DirtyIn(s, b) => DirtyIn(u, b)
  BY <1>1 DEF DirtyIn
<1>3. ASSUME wb, Matching(s, t) # {}
      PROVE DirtyIn(u, t)
  <2>1. PICK j \in Way : j \in Matching(s, t)
    BY <1>3 DEF Matching
  <2>2. u.blocks[j].valid /\ u.blocks[j].tag = t /\ u.blocks[j].dirty
    BY <1>1, <1>3, <2>1 DEF Matching
  <2> QED
    BY <2>2 DEF DirtyIn
<1> QED
  BY <1>2, <1>3 DEF u

LEMMA StoreSetDirty ==
  ASSUME Sized, NEW s \in SetType, Filled(s), NEW t \in Unsigned, NEW b
  PROVE /\ /\ DirtyIn(s, b)
           /\ ~(wa /\ Matching(s, t) = {} /\ WritesBack(s) /\ b = s.blocks[Victim(s)].tag)
           => DirtyIn(StoreSet(s, t), b)
        /\ wb /\ Matching(s, t) # {} => DirtyIn(StoreSet(s, t), t)
<1> DEFINE u == AccessTicked(s)
<1>1. /\ u \in SetType /\ u.blocks = s.blocks /\ Filled(u)
      /\ Matching(u, t) = Matching(s, t)
      /\ Empties(u) = Empties(s) /\ Victim(u) = Victim(s)
  BY AccessTickedShape
<1>2. StoreSet(s, t) = IF Matching(s, t) # {} THEN WriteHit(u, t)
                       ELSE IF wa THEN LoadSet(u, t) ELSE u
  BY <1>1 DEF StoreSet, AccessTicked
<1> HIDE DEF u
<1>3. DirtyIn(s, b) => DirtyIn(u, b)
  BY <1>1 DEF DirtyIn
<1>4. WritesBack(u) <=> WritesBack(s)
  BY <1>1 DEF WritesBack
<1>5. CASE Matching(s, t) # {}
  BY <1>1, <1>2, <1>3, <1>5, WriteHitDirty
<1>6. CASE Matching(s, t) = {} /\ ~wa
  BY <1>1, <1>2, <1>3, <1>6
<1>7. CASE Matching(s, t) = {} /\ wa
  BY <1>1, <1>2, <1>3, <1>4, <1>7, LoadSetDirty
<1> QED
  BY <1>5, <1>6, <1>7

LEMMA NoHitStoreLostIs ==
  NoHitStoreLost <=> \A b \in unsaved : b[3] = "hit" => DirtyIn(sets[b[1]], b[2])
BY DEF NoHitStoreLost, Dirty, DirtyIn

LEMMA LoadLosesNoHit ==
  ASSUME Sized, TypeInv, NoHitStoreLost, NEW a \in Address, Load(a)
  PROVE NoHitStoreLost'
<1> DEFINE i == Index(a)
<1> DEFINE t == Tag(a)
<1>1. i \in SetIndex /\ t \in Unsigned
  BY AddressFields
<1>2. /\ sets \in [SetIndex -> SetType]
      /\ \A k \in SetIndex : Filled(sets[k])
      /\ unsaved \subseteq Unsaved
  BY DEF TypeInv, TypeOK
<1>3. sets' = [sets EXCEPT ![i] = LoadSet(sets[i], t)] /\ unsaved' = unsaved \ Saved(i, t)
  BY DEF Load
<1> HIDE DEF i, t
<1>4. ASSUME NEW b \in unsaved', b[3] = "hit"
      PROVE DirtyIn(sets'[b[1]], b[2])
  <2>1. /\ b \in unsaved /\ b \notin Saved(i, t)
        /\ b[1] \in SetIndex /\ b = <<b[1], b[2], "hit">>
    BY <1>2, <1>3, <1>4 DEF Unsaved
  <2>2. DirtyIn(sets[b[1]], b[2])
    BY <1>4, <2>1, NoHitStoreLostIs
  <2>3. CASE b[1] # i
    BY <1>2, <1>3, <2>1, <2>2, <2>3
  <2>4. CASE b[1] = i
    <3>1. ~(Matching(sets[i], t) = {} /\ WritesBack(sets[i])
            /\ b[2] = sets[i].blocks[Victim(sets[i])].tag)
      BY <2>1, <2>4 DEF Saved, Misses
    <3>2. DirtyIn(LoadSet(sets[i], t), b[2])
      BY <1>1, <1>2, <2>2, <2>4, <3>1, LoadSetDirty
    <3> QED
      BY <1>1, <1>2, <1>3, <2>4, <3>2
  <2> QED
    BY <2>3, <2>4
<1> QED
  BY <1>4 DEF NoHitStoreLost, Dirty, DirtyIn

LEMMA StoreLosesNoHit ==
  ASSUME Sized, TypeInv, NoHitStoreLost, NEW a \in Address, Store(a)
  PROVE NoHitStoreLost'
<1> DEFINE i == Index(a)
<1> DEFINE t == Tag(a)
<1>1. i \in SetIndex /\ t \in Unsigned
  BY AddressFields
<1>2. /\ sets \in [SetIndex -> SetType]
      /\ \A k \in SetIndex : Filled(sets[k])
      /\ unsaved \subseteq Unsaved
  BY DEF TypeInv, TypeOK
<1>3. /\ sets' = [sets EXCEPT ![i] = StoreSet(sets[i], t)]
      /\ unsaved' = (IF wa THEN unsaved \ Saved(i, t) ELSE unsaved)
                     \union Pending(i, t)
  BY DEF Store
<1> HIDE DEF i, t
<1>4. ASSUME NEW b \in unsaved', b[3] = "hit"
      PROVE DirtyIn(sets'[b[1]], b[2])
  <2>1. CASE b \in Pending(i, t)
    <3>1. b = <<i, t, "hit">> /\ wb /\ Matching(sets[i], t) # {}
      BY <1>4, <2>1 DEF Pending, Misses
    <3>2. DirtyIn(StoreSet(sets[i], t), t)
      BY <1>1, <1>2, <3>1, StoreSetDirty
    <3> QED
      BY <1>1, <1>2, <1>3, <3>1, <3>2
  <2>2. CASE b \in unsaved /\ (wa => b \notin Saved(i, t))
    <3>1. b[1] \in SetIndex /\ b = <<b[1], b[2], "hit">>
      BY <1>2, <1>4, <2>2 DEF Unsaved
    <3>2. DirtyIn(sets[b[1]], b[2])
      BY <1>4, <2>2, NoHitStoreLostIs
    <3>3. CASE b[1] # i
      BY <1>2, <1>3, <3>1, <3>2, <3>3
    <3>4. CASE b[1] = i
      <4>1. ~(wa /\ Matching(sets[i], t) = {} /\ WritesBack(sets[i])
              /\ b[2] = sets[i].blocks[Victim(sets[i])].tag)
        BY <2>2, <3>1, <3>4 DEF Saved, Misses
      <4>2. DirtyIn(StoreSet(sets[i], t), b[2])
        BY <1>1, <1>2, <3>2, <3>4, <4>1, StoreSetDirty
      <4> QED
        BY <1>1, <1>2, <1>3, <3>4, <4>2
    <3> QED
      BY <3>3, <3>4
  <2> QED
    BY <1>3, <2>1, <2>2
<1> QED
  BY <1>4 DEF NoHitStoreLost, Dirty, DirtyIn

(* For write-back a store that hits marks its block dirty, and until the   *)
(* block is written back no eviction drops it (main.cpp 23), also when     *)
(* timestamps wrap and the wrong block is evicted.                         *)
THEOREM HitStoresAreKept == Sized => (Spec => []NoHitStoreLost)
<1> SUFFICES ASSUME Sized PROVE Spec => []NoHitStoreLost
  OBVIOUS
<1>1. Init => TypeInv /\ NoHitStoreLost
  BY InitTypeInv DEF Init, NoHitStoreLost
<1>2. TypeInv /\ [Next]_vars => TypeInv'
  BY LoadTypeInv, StoreTypeInv, StutterTypeInv DEF Next
<1>3. TypeInv /\ NoHitStoreLost /\ [Next]_vars => NoHitStoreLost'
  <2>1. NoHitStoreLost /\ UNCHANGED vars => NoHitStoreLost'
    BY DEF NoHitStoreLost, Dirty, vars
  <2> QED
    BY <2>1, LoadLosesNoHit, StoreLosesNoHit DEF Next
<1> QED
  BY <1>1, <1>2, <1>3, PTL DEF Spec

-----------------------------------------------------------------------------
(* The scans find every set in order, as long as no timestamp wraps.       *)

Tidy(s) ==
  /\ Filled(s)
  /\ \A j \in Way \ Valid(s) : ~s.blocks[j].dirty
  /\ \A j, k \in Valid(s) :
       j # k => /\ s.blocks[j].tag # s.blocks[k].tag
                /\ s.blocks[j].access_ts # s.blocks[k].access_ts
                /\ s.blocks[j].load_ts # s.blocks[k].load_ts

AccessBehind(s) == \A j \in Valid(s) : s.blocks[j].access_ts < s.access_ts_counter
LoadBehind(s) == \A j \in Valid(s) : s.blocks[j].load_ts < s.load_ts_counter

(* No timestamp in the set is ahead of the counters.                       *)
Good(s) ==
  /\ Tidy(s)
  /\ \A j \in Valid(s) : /\ s.blocks[j].access_ts <= s.access_ts_counter
                         /\ s.blocks[j].load_ts <= s.load_ts_counter

LEMMA TimestampsAreNumbers ==
  ASSUME Sized, NEW s \in SetType
  PROVE /\ s.access_ts_counter \in Nat /\ s.load_ts_counter \in Nat
        /\ \A j \in Way : s.blocks[j].access_ts \in Nat /\ s.blocks[j].load_ts \in Nat
<1>1. Counter \subseteq Nat
  BY SizesAreNumbers DEF Counter
<1> QED
  BY <1>1 DEF SetType, BlockType

LEMMA TouchGood ==
  ASSUME Sized, NEW s \in SetType, NEW t, Tidy(s), AccessBehind(s),
         \A j \in Valid(s) : s.blocks[j].load_ts <= s.load_ts_counter
  PROVE Good(Touch(s, t))
<1> DEFINE u == Touch(s, t)
<1>1. /\ u.access_ts_counter = s.access_ts_counter
      /\ u.load_ts_counter = s.load_ts_counter
      /\ \A j \in Way :
           /\ u.blocks[j].tag = s.blocks[j].tag
           /\ u.blocks[j].load_ts = s.blocks[j].load_ts
           /\ u.blocks[j].dirty = s.blocks[j].dirty
           /\ u.blocks[j].access_ts =
                IF j \in Matching(s, t) THEN s.access_ts_counter
                ELSE s.blocks[j].access_ts
  BY TouchShape
<1>2. Valid(u) = Valid(s) /\ Filled(u)
  BY TouchFilled DEF Tidy
<1>3. /\ s.access_ts_counter \in Nat
      /\ \A j \in Way : s.blocks[j].access_ts \in Nat
  BY TimestampsAreNumbers
<1> HIDE DEF u
<1>4. \A j \in Way \ Valid(u) : ~u.blocks[j].dirty
  BY <1>1, <1>2 DEF Tidy
<1>5. ASSUME NEW j \in Valid(s), NEW k \in Valid(s), j # k
      PROVE u.blocks[j].access_ts # u.blocks[k].access_ts
  <2>1. j \in Way /\ k \in Way
    BY DEF Valid
  <2>2. ~(j \in Matching(s, t) /\ k \in Matching(s, t))
    BY <1>5 DEF Matching, Tidy
  <2>3. /\ s.blocks[j].access_ts # s.blocks[k].access_ts
        /\ s.blocks[j].access_ts < s.access_ts_counter
        /\ s.blocks[k].access_ts < s.access_ts_counter
    BY <1>5 DEF Tidy, AccessBehind
  <2> QED
    BY <1>1, <1>3, <2>1, <2>2, <2>3
<1>6. \A j \in Valid(u) : /\ u.blocks[j].access_ts <= u.access_ts_counter
                         /\ u.blocks[j].load_ts <= u.load_ts_counter
  BY <1>1, <1>2, <1>3 DEF AccessBehind, Valid
<1>7. \A j, k \in Valid(u) :
        j # k => /\ u.blocks[j].tag # u.blocks[k].tag
                 /\ u.blocks[j].load_ts # u.blocks[k].load_ts
  BY <1>1, <1>2 DEF Tidy, Valid
<1>8. Tidy(u)
  BY <1>2, <1>4, <1>5, <1>7 DEF Tidy
<1> QED
  BY <1>6, <1>8 DEF Good, u

LEMMA WriteHitGood ==
  ASSUME Sized, NEW s \in SetType, NEW t, Tidy(s), AccessBehind(s),
         \A j \in Valid(s) : s.blocks[j].load_ts <= s.load_ts_counter
  PROVE Good(WriteHit(s, t))
<1> DEFINE u == Touch(s, t)
<1> DEFINE w == WriteHit(s, t)
<1>1. Good(u) /\ Valid(u) = Valid(s) /\ Valid(w) = Valid(s) /\ Filled(w)
  BY TouchGood, TouchFilled, WriteHitFilled DEF Tidy
<1>2. /\ u.access_ts_counter = s.access_ts_counter
      /\ u.load_ts_counter = s.load_ts_counter
      /\ \A j \in Way :
           /\ u.blocks[j].tag = s.blocks[j].tag
           /\ u.blocks[j].load_ts = s.blocks[j].load_ts
           /\ u.blocks[j].dirty = s.blocks[j].dirty
           /\ u.blocks[j].access_ts =
                IF j \in Matching(s, t) THEN s.access_ts_counter
                ELSE s.blocks[j].access_ts
  BY TouchShape
<1>3. /\ w.access_ts_counter = s.access_ts_counter
      /\ w.load_ts_counter = s.load_ts_counter
      /\ \A j \in Way :
           /\ w.blocks[j].tag = s.blocks[j].tag
           /\ w.blocks[j].load_ts = s.blocks[j].load_ts
           /\ w.blocks[j].access_ts =
                IF j \in Matching(s, t) THEN s.access_ts_counter
                ELSE s.blocks[j].access_ts
           /\ j \notin Matching(s, t) => w.blocks[j].dirty = s.blocks[j].dirty
  BY WriteHitShape
<1> HIDE DEF u, w
<1>4. Matching(s, t) \subseteq Valid(s) /\ Valid(s) \subseteq Way
  BY DEF Matching, Valid
<1>5. \A j \in Way \ Valid(w) : ~w.blocks[j].dirty
  BY <1>1, <1>3, <1>4 DEF Tidy
<1>6. \A j \in Way : /\ w.blocks[j].tag = u.blocks[j].tag
                    /\ w.blocks[j].load_ts = u.blocks[j].load_ts
                    /\ w.blocks[j].access_ts = u.blocks[j].access_ts
  BY <1>2, <1>3
<1> QED
  BY <1>1, <1>2, <1>3, <1>4, <1>5, <1>6 DEF Good, Tidy, w

LEMMA FillGood ==
  ASSUME Sized, NEW s \in SetType, NEW t \in Unsigned, Tidy(s),
         AccessBehind(s), LoadBehind(s), Matching(s, t) = {}
  PROVE Good(Fill(s, t))
<1> DEFINE u == Fill(s, t)
<1> DEFINE v == Victim(s)
<1>1. Filled(s)
  BY DEF Tidy
<1>2. v \in Way
  BY VictimIsOldest
<1>3. s.filled < BlocksPerSet \/ Empties(s) = {}
  BY <1>1, VictimIsNext
<1>4. /\ u.access_ts_counter = s.access_ts_counter
      /\ u.load_ts_counter = s.load_ts_counter
      /\ \A j \in Way \ {v} : u.blocks[j] = s.blocks[j]
  BY <1>3, FillShape
<1>5. u.blocks[v] = [tag |-> t, valid |-> TRUE, load_ts |-> s.load_ts_counter,
                     access_ts |-> s.access_ts_counter,
                     dirty |-> Empties(s) # {} /\ s.blocks[v].dirty]
  BY <1>3, FillShape
<1>6. /\ u.blocks[v].tag = t
      /\ u.blocks[v].load_ts = s.load_ts_counter
      /\ u.blocks[v].access_ts = s.access_ts_counter
  BY <1>5
<1>7. Valid(u) = Valid(s) \union {v} /\ Filled(u)
  BY <1>1, FillFilled
<1>8. /\ s.access_ts_counter \in Nat /\ s.load_ts_counter \in Nat
      /\ \A j \in Way : s.blocks[j].access_ts \in Nat /\ s.blocks[j].load_ts \in Nat
  BY TimestampsAreNumbers
<1> HIDE DEF u, v
<1>9. \A j \in Valid(s) : /\ j \in Way /\ s.blocks[j].tag # t
                         /\ s.blocks[j].access_ts < s.access_ts_counter
                         /\ s.blocks[j].load_ts < s.load_ts_counter
  BY DEF Matching, Valid, AccessBehind, LoadBehind
<1>10. \A j \in Way \ Valid(u) : ~u.blocks[j].dirty
  BY <1>4, <1>7 DEF Tidy
<1>11. \A j, k \in Valid(u) :
        j # k => /\ u.blocks[j].tag # u.blocks[k].tag
                 /\ u.blocks[j].access_ts # u.blocks[k].access_ts
                 /\ u.blocks[j].load_ts # u.blocks[k].load_ts
  <2>1. ASSUME NEW j \in Valid(u), NEW k \in Valid(u), j # k, j # v, k # v
        PROVE /\ u.blocks[j].tag # u.blocks[k].tag
              /\ u.blocks[j].access_ts # u.blocks[k].access_ts
              /\ u.blocks[j].load_ts # u.blocks[k].load_ts
    BY <1>4, <1>7, <1>9, <2>1 DEF Tidy
  <2>2. \A j \in Valid(u) \ {v} :
          /\ u.blocks[j].tag # u.blocks[v].tag
          /\ u.blocks[j].access_ts # u.blocks[v].access_ts
          /\ u.blocks[j].load_ts # u.blocks[v].load_ts
    BY <1>4, <1>6, <1>7, <1>8, <1>9
  <2> QED
    BY <2>1, <2>2
<1>12. \A j \in Valid(u) : /\ u.blocks[j].access_ts <= u.access_ts_counter
                          /\ u.blocks[j].load_ts <= u.load_ts_counter
  BY <1>4, <1>6, <1>7, <1>8, <1>9
<1> QED
  BY <1>7, <1>10, <1>11, <1>12 DEF Good, Tidy, u

(* After load's ticks every timestamp of the set is behind the counters.   *)
LEMMA TickedFresh ==
  ASSUME Sized, NEW s \in SetType, Good(s),
         s.access_ts_counter + 1 < CounterMod, s.load_ts_counter + 1 < CounterMod
  PROVE LET u == Ticked(s) IN
        /\ u \in SetType /\ u.blocks = s.blocks /\ u.filled = s.filled
        /\ u.access_ts_counter = s.access_ts_counter + 1
        /\ u.load_ts_counter = s.load_ts_counter + 1
        /\ Valid(u) = Valid(s) /\ \A t : Matching(u, t) = Matching(s, t)
        /\ Tidy(u) /\ AccessBehind(u) /\ LoadBehind(u)
<1> DEFINE u == Ticked(s)
<1>1. s.access_ts_counter \in Nat /\ s.load_ts_counter \in Nat
  BY TimestampsAreNumbers
<1>2. /\ Plus(s.access_ts_counter, 1) = s.access_ts_counter + 1
      /\ Plus(s.load_ts_counter, 1) = s.load_ts_counter + 1
  BY <1>1, PlusCounts
<1>3. /\ u \in SetType /\ u.blocks = s.blocks /\ u.filled = s.filled
      /\ u.access_ts_counter = s.access_ts_counter + 1
      /\ u.load_ts_counter = s.load_ts_counter + 1
  BY <1>2, TickedShape
<1>4. Filled(s)
  BY DEF Good, Tidy
<1>5. Valid(u) = Valid(s) /\ Filled(u) /\ \A t : Matching(u, t) = Matching(s, t)
  BY <1>4, TickedFilled
<1> HIDE DEF u
<1>6. \A j \in Valid(s) : s.blocks[j].access_ts \in Nat /\ s.blocks[j].load_ts \in Nat
  BY TimestampsAreNumbers DEF Valid
<1>7. Tidy(u)
  BY <1>3, <1>5 DEF Good, Tidy
<1>8. AccessBehind(u) /\ LoadBehind(u)
  BY <1>1, <1>3, <1>5, <1>6 DEF Good, AccessBehind, LoadBehind
<1> QED
  BY <1>3, <1>5, <1>7, <1>8 DEF u

LEMMA BehindIsNotAhead ==
  ASSUME Sized, NEW s \in SetType, LoadBehind(s)
  PROVE \A j \in Valid(s) : s.blocks[j].load_ts <= s.load_ts_counter
<1>1. /\ s.load_ts_counter \in Nat
      /\ \A j \in Valid(s) : s.blocks[j].load_ts \in Nat
  BY TimestampsAreNumbers DEF Valid
<1> QED
  BY <1>1 DEF LoadBehind

LEMMA LoadSetGood ==
  ASSUME Sized, NEW s \in SetType, NEW t \in Unsigned, Good(s),
         s.access_ts_counter + 1 < CounterMod, s.load_ts_counter + 1 < CounterMod
  PROVE /\ Good(LoadSet(s, t))
        /\ LoadSet(s, t).access_ts_counter = s.access_ts_counter + 1
        /\ LoadSet(s, t).load_ts_counter = s.load_ts_counter + 1
<1> DEFINE u == Ticked(s)
<1>1. /\ u \in SetType
      /\ u.access_ts_counter = s.access_ts_counter + 1
      /\ u.load_ts_counter = s.load_ts_counter + 1
      /\ Matching(u, t) = Matching(s, t)
      /\ Tidy(u) /\ AccessBehind(u) /\ LoadBehind(u)
  BY TickedFresh
<1>2. LoadSet(s, t) = IF Matching(s, t) # {} THEN Touch(u, t) ELSE Fill(u, t)
  BY DEF LoadSet
<1> HIDE DEF u
<1>3. CASE Matching(s, t) # {}
  <2>1. Good(Touch(u, t))
    BY <1>1, BehindIsNotAhead, TouchGood
  <2>2. /\ Touch(u, t).access_ts_counter = u.access_ts_counter
        /\ Touch(u, t).load_ts_counter = u.load_ts_counter
    BY <1>1, TouchShape
  <2> QED
    BY <1>1, <1>2, <1>3, <2>1, <2>2
<1>4. CASE Matching(s, t) = {}
  <2>1. u.filled < BlocksPerSet \/ Empties(u) = {}
    BY <1>1, VictimIsNext DEF Tidy
  <2>2. Good(Fill(u, t))
    BY <1>1, <1>4, FillGood
  <2>3. /\ Fill(u, t).access_ts_counter = u.access_ts_counter
        /\ Fill(u, t).load_ts_counter = u.load_ts_counter
    BY <1>1, <2>1, FillShape
  <2> QED
    BY <1>1, <1>2, <1>4, <2>2, <2>3
<1> QED
  BY <1>3, <1>4

(* After store's own tick only the access timestamps are.                  *)
LEMMA AccessTickedFresh ==
  ASSUME Sized, NEW s \in SetType, Good(s),
         s.access_ts_counter + 1 < CounterMod
  PROVE LET u == AccessTicked(s) IN
        /\ u \in SetType /\ u.blocks = s.blocks
        /\ u.access_ts_counter = s.access_ts_counter + 1
        /\ u.load_ts_counter = s.load_ts_counter
        /\ Valid(u) = Valid(s) /\ \A t : Matching(u, t) = Matching(s, t)
        /\ Tidy(u) /\ AccessBehind(u) /\ Good(u)
<1> DEFINE u == AccessTicked(s)
<1>1. s.access_ts_counter \in Nat /\ s.load_ts_counter \in Nat
  BY TimestampsAreNumbers
<1>2. Plus(s.access_ts_counter, 1) = s.access_ts_counter + 1
  BY <1>1, PlusCounts
<1>3. Filled(s)
  BY DEF Good, Tidy
<1>4. /\ u \in SetType /\ u.blocks = s.blocks /\ u.filled = s.filled
      /\ u.access_ts_counter = s.access_ts_counter + 1
      /\ u.load_ts_counter = s.load_ts_counter
      /\ Valid(u) = Valid(s) /\ Filled(u)
      /\ \A t : Matching(u, t) = Matching(s, t)
  BY <1>2, <1>3, AccessTickedShape
<1> HIDE DEF u
<1>5. \A j \in Valid(s) : s.blocks[j].access_ts \in Nat /\ s.blocks[j].load_ts \in Nat
  BY TimestampsAreNumbers DEF Valid
<1>6. Tidy(u)
  BY <1>4 DEF Good, Tidy
<1>7. AccessBehind(u)
  BY <1>1, <1>4, <1>5 DEF Good, AccessBehind
<1>8. \A j \in Valid(u) : /\ u.blocks[j].access_ts <= u.access_ts_counter
                         /\ u.blocks[j].load_ts <= u.load_ts_counter
  BY <1>1, <1>4, <1>5 DEF Good
<1> QED
  BY <1>4, <1>6, <1>7, <1>8 DEF Good, u

LEMMA StoreSetGood ==
  ASSUME Sized, NEW s \in SetType, NEW t \in Unsigned, Good(s),
         s.access_ts_counter + 2 < CounterMod, s.load_ts_counter + 1 < CounterMod
  PROVE /\ Good(StoreSet(s, t))
        /\ StoreSet(s, t).access_ts_counter <= s.access_ts_counter + 2
        /\ StoreSet(s, t).load_ts_counter <= s.load_ts_counter + 1
<1> DEFINE u == AccessTicked(s)
<1>1. s.access_ts_counter \in Nat /\ s.load_ts_counter \in Nat /\ CounterMod \in Nat
  BY TimestampsAreNumbers, SizesAreNumbers
<1>2. /\ u \in SetType
      /\ u.access_ts_counter = s.access_ts_counter + 1
      /\ u.load_ts_counter = s.load_ts_counter
      /\ Matching(u, t) = Matching(s, t)
      /\ Tidy(u) /\ AccessBehind(u) /\ Good(u)
  BY <1>1, AccessTickedFresh
<1>3. StoreSet(s, t) = IF Matching(s, t) # {} THEN WriteHit(u, t)
                       ELSE IF wa THEN LoadSet(u, t) ELSE u
  BY DEF StoreSet, AccessTicked
<1> HIDE DEF u
<1>4. CASE Matching(s, t) # {}
  <2>1. Good(WriteHit(u, t))
    BY <1>2, WriteHitGood DEF Good
  <2>2. /\ WriteHit(u, t).access_ts_counter = u.access_ts_counter
        /\ WriteHit(u, t).load_ts_counter = u.load_ts_counter
    BY <1>2, WriteHitShape
  <2> QED
    BY <1>1, <1>2, <1>3, <1>4, <2>1, <2>2
<1>5. CASE Matching(s, t) = {} /\ wa
  <2>1. u.access_ts_counter + 1 < CounterMod /\ u.load_ts_counter + 1 < CounterMod
    BY <1>1, <1>2
  <2>2. /\ Good(LoadSet(u, t))
        /\ LoadSet(u, t).access_ts_counter = u.access_ts_counter + 1
        /\ LoadSet(u, t).load_ts_counter = u.load_ts_counter + 1
    BY <1>2, <2>1, LoadSetGood
  <2> QED
    BY <1>1, <1>2, <1>3, <1>5, <2>2
<1>6. CASE Matching(s, t) = {} /\ ~wa
  BY <1>1, <1>2, <1>3, <1>6
<1> QED
  BY <1>4, <1>5, <1>6

(* The trace is too short for a timestamp counter to wrap: a line advances *)
(* it by two at most.  The code does not test this; with a longer trace    *)
(* the wrong block may be evicted.                                         *)
NoWrap == 2 * MaxTrace < CounterMod

Accesses == stats.total_loads + stats.total_stores

CounterInv ==
  /\ Accesses <= MaxTrace
  /\ \A i \in SetIndex : /\ sets[i].access_ts_counter <= 2 * Accesses
                         /\ sets[i].load_ts_counter <= Accesses

CacheInv == TypeInv /\ CounterInv /\ \A i \in SetIndex : Good(sets[i])

LEMMA CacheInvFacts ==
  ASSUME Sized, CacheInv, NEW i \in SetIndex
  PROVE /\ sets \in [SetIndex -> SetType] /\ sets[i] \in SetType
        /\ Good(sets[i]) /\ Filled(sets[i])
        /\ stats.total_loads \in Nat /\ stats.total_stores \in Nat
        /\ sets[i].access_ts_counter \in Nat /\ sets[i].load_ts_counter \in Nat
        /\ Accesses \in Nat
        /\ sets[i].access_ts_counter <= 2 * Accesses
        /\ sets[i].load_ts_counter <= Accesses
<1>1. Counter \subseteq Nat
  BY SizesAreNumbers DEF Counter
<1>2. sets \in [SetIndex -> SetType] /\ sets[i] \in SetType /\ Filled(sets[i])
  BY DEF CacheInv, TypeInv, TypeOK
<1>3. stats.total_loads \in Nat /\ stats.total_stores \in Nat
  BY <1>1 DEF CacheInv, TypeInv, TypeOK, StatsType
<1>4. sets[i].access_ts_counter \in Nat /\ sets[i].load_ts_counter \in Nat
  BY <1>2, TimestampsAreNumbers
<1>5. /\ sets[i].access_ts_counter <= 2 * Accesses
      /\ sets[i].load_ts_counter <= Accesses
  BY DEF CacheInv, CounterInv
<1> QED
  BY <1>2, <1>3, <1>4, <1>5 DEF CacheInv, Accesses

LEMMA InitCacheInv ==
  ASSUME Sized, Init
  PROVE CacheInv
<1>1. TypeInv
  BY InitTypeInv
<1>2. stats.total_loads = 0 /\ stats.total_stores = 0 /\ MaxTrace \in Nat
  BY SizesAreNumbers DEF Init, NoStats
<1>3. \A i \in SetIndex : sets[i] = EmptySet
  BY DEF Init
<1>4. Valid(EmptySet) = {} /\ EmptySet.access_ts_counter = 0 /\ EmptySet.load_ts_counter = 0
  BY DEF Valid, EmptySet, EmptyBlock
<1>5. \A j \in Way : ~EmptySet.blocks[j].dirty
  BY DEF EmptySet, EmptyBlock
<1>6. Good(EmptySet)
  BY <1>4, <1>5, EmptySetType DEF Good, Tidy
<1>7. CounterInv
  BY <1>2, <1>3, <1>4 DEF CounterInv, Accesses
<1> QED
  BY <1>1, <1>3, <1>6, <1>7 DEF CacheInv

(* What an access adds to the count of accesses. *)
LEMMA OneMoreAccess ==
  ASSUME Sized, NoWrap, CacheInv, NEW a \in Address, Load(a) \/ Store(a)
  PROVE Accesses' = Accesses + 1 /\ Accesses < MaxTrace
<1>1. Counter \subseteq Nat /\ MaxTrace \in Nat /\ CounterMod \in Nat
  BY SizesAreNumbers DEF Counter
<1>2. stats \in StatsType /\ stats.total_loads \in Nat /\ stats.total_stores \in Nat
  BY <1>1 DEF CacheInv, TypeInv, TypeOK, StatsType
<1>3. Accesses < MaxTrace
  BY DEF Load, Store, Read, TraceLeft, Accesses
<1>4. /\ Plus(stats.total_loads, 1) = stats.total_loads + 1
      /\ Plus(stats.total_stores, 1) = stats.total_stores + 1
  <2>1. stats.total_loads + 1 < CounterMod /\ stats.total_stores + 1 < CounterMod
    BY <1>1, <1>2, <1>3 DEF Accesses, NoWrap
  <2> QED
    BY <1>2, <2>1, PlusCounts
<1>5. CASE Load(a)
  <2>1. stats'.total_loads = Plus(stats.total_loads, 1) /\ stats'.total_stores = stats.total_stores
    BY <1>2, <1>5 DEF Load, StatsType
  <2> QED
    BY <1>2, <1>3, <1>4, <2>1 DEF Accesses
<1>6. CASE Store(a)
  <2>1. stats'.total_stores = Plus(stats.total_stores, 1) /\ stats'.total_loads = stats.total_loads
    BY <1>2, <1>6 DEF Store, StatsType
  <2> QED
    BY <1>2, <1>3, <1>4, <2>1 DEF Accesses
<1> QED
  BY <1>5, <1>6

LEMMA AccessCacheInv ==
  ASSUME Sized, NoWrap, CacheInv, NEW a \in Address, Load(a) \/ Store(a)
  PROVE CacheInv'
<1> DEFINE i == Index(a)
<1> DEFINE t == Tag(a)
<1> DEFINE s == sets[i]
<1>1. i \in SetIndex /\ t \in Unsigned
  BY AddressFields
<1>2. TypeInv'
  BY LoadTypeInv, StoreTypeInv DEF CacheInv
<1>3. Accesses' = Accesses + 1 /\ Accesses < MaxTrace /\ Accesses \in Nat
  BY <1>1, OneMoreAccess, CacheInvFacts
<1>4. /\ s \in SetType /\ Good(s)
      /\ s.access_ts_counter \in Nat /\ s.load_ts_counter \in Nat
      /\ s.access_ts_counter <= 2 * Accesses /\ s.load_ts_counter <= Accesses
  BY <1>1, CacheInvFacts
<1>5. s.access_ts_counter + 2 < CounterMod /\ s.load_ts_counter + 1 < CounterMod
  BY <1>3, <1>4, SizesAreNumbers DEF NoWrap
<1>6. PICK u : /\ sets' = [sets EXCEPT ![i] = u]
               /\ Good(u)
               /\ u.access_ts_counter <= s.access_ts_counter + 2
               /\ u.load_ts_counter <= s.load_ts_counter + 1
  <2>1. CASE Load(a)
    <3>1. sets' = [sets EXCEPT ![i] = LoadSet(s, t)]
      BY <2>1 DEF Load
    <3>2. s.access_ts_counter + 1 < CounterMod
      BY <1>4, <1>5, SizesAreNumbers
    <3>3. /\ Good(LoadSet(s, t))
          /\ LoadSet(s, t).access_ts_counter = s.access_ts_counter + 1
          /\ LoadSet(s, t).load_ts_counter = s.load_ts_counter + 1
      BY <1>1, <1>4, <1>5, <3>2, LoadSetGood
    <3>4. /\ LoadSet(s, t).access_ts_counter <= s.access_ts_counter + 2
          /\ LoadSet(s, t).load_ts_counter <= s.load_ts_counter + 1
      BY <1>4, <3>3
    <3> HIDE DEF i, t, s
    <3> QED
      BY <3>1, <3>3, <3>4
  <2>2. CASE Store(a)
    <3>1. sets' = [sets EXCEPT ![i] = StoreSet(s, t)]
      BY <2>2 DEF Store
    <3>2. /\ Good(StoreSet(s, t))
          /\ StoreSet(s, t).access_ts_counter <= s.access_ts_counter + 2
          /\ StoreSet(s, t).load_ts_counter <= s.load_ts_counter + 1
      BY <1>1, <1>4, <1>5, StoreSetGood
    <3> HIDE DEF i, t, s
    <3> QED
      BY <3>1, <3>2
  <2> QED
    BY <2>1, <2>2
<1>7. sets \in [SetIndex -> SetType] /\ sets' \in [SetIndex -> SetType]
  BY <1>1, <1>2, CacheInvFacts DEF TypeInv, TypeOK
<1>8. \A k \in SetIndex : Good(sets'[k])
  BY <1>6, <1>7 DEF CacheInv
<1>9. \A k \in SetIndex : /\ sets'[k].access_ts_counter <= 2 * Accesses'
                         /\ sets'[k].load_ts_counter <= Accesses'
  <2> SUFFICES ASSUME NEW k \in SetIndex
               PROVE /\ sets'[k].access_ts_counter <= 2 * Accesses'
                     /\ sets'[k].load_ts_counter <= Accesses'
    OBVIOUS
  <2>1. sets'[k].access_ts_counter \in Nat /\ sets'[k].load_ts_counter \in Nat
    BY <1>7, TimestampsAreNumbers
  <2>2. /\ sets[k].access_ts_counter \in Nat /\ sets[k].load_ts_counter \in Nat
        /\ sets[k].access_ts_counter <= 2 * Accesses
        /\ sets[k].load_ts_counter <= Accesses
    BY CacheInvFacts
  <2>3. CASE k = i
    <3>1. sets'[k] = u
      BY <1>6, <1>7, <2>3
    <3> HIDE DEF i, s
    <3> QED
      BY <1>3, <1>4, <1>6, <2>1, <3>1
  <2>4. CASE k # i
    <3>1. sets'[k] = sets[k]
      BY <1>6, <1>7, <2>4
    <3> QED
      BY <1>3, <2>2, <3>1
  <2> QED
    BY <2>3, <2>4
<1>10. CounterInv'
  BY <1>3, <1>9, SizesAreNumbers DEF CounterInv
<1> QED
  BY <1>2, <1>8, <1>10 DEF CacheInv

LEMMA CacheInvStep ==
  ASSUME Sized, NoWrap, CacheInv, [Next]_vars
  PROVE CacheInv'
<1>1. CASE UNCHANGED vars
  BY <1>1, StutterTypeInv DEF CacheInv, CounterInv, Accesses, vars
<1>2. CASE Next
  BY <1>2, AccessCacheInv DEF Next
<1> QED
  BY <1>1, <1>2

(* The scans of load and store find every set in order: no tag twice, the  *)
(* blocks filled from the front, no empty block dirty, and no two blocks   *)
(* with one timestamp.                                                     *)
THEOREM SetsAreWellFormed == Sized /\ NoWrap => (Spec => []WellFormed)
<1> SUFFICES ASSUME Sized, NoWrap PROVE Spec => []WellFormed
  OBVIOUS
<1>1. Init => CacheInv
  BY InitCacheInv
<1>2. CacheInv /\ [Next]_vars => CacheInv'
  BY CacheInvStep
<1>3. CacheInv => WellFormed
  BY DEF CacheInv, Good, Tidy, Filled, WellFormed
<1> QED
  BY <1>1, <1>2, <1>3, PTL DEF Spec

-----------------------------------------------------------------------------
(* A dirty block leaves with its transfer to memory charged.               *)

LEMMA LoadSetCleans ==
  ASSUME Sized, NEW s \in SetType, Filled(s), NEW t \in Unsigned, NEW j \in Way,
         s.blocks[j].dirty, ~LoadSet(s, t).blocks[j].dirty
  PROVE /\ Matching(s, t) = {} /\ WritesBack(s)
        /\ LoadSet(s, t).blocks[j].tag # s.blocks[j].tag
<1> DEFINE u == Ticked(s)
<1>1. /\ u \in SetType /\ u.blocks = s.blocks /\ Filled(u)
      /\ Matching(u, t) = Matching(s, t)
      /\ Empties(u) = Empties(s) /\ Victim(u) = Victim(s)
  BY TickedShape, TickedFilled
<1>2. Matching(s, t) = {}
  <2>1. SUFFICES ASSUME Matching(s, t) # {} PROVE FALSE
    OBVIOUS
  <2>2. LoadSet(s, t) = Touch(u, t)
    BY <2>1 DEF LoadSet
  <2>3. Touch(u, t).blocks[j].dirty = u.blocks[j].dirty
    BY <1>1, TouchShape
  <2> QED
    BY <1>1, <2>2, <2>3
<1>3. LoadSet(s, t) = Fill(u, t)
  BY <1>2 DEF LoadSet
<1>4. u.filled < BlocksPerSet \/ Empties(u) = {}
  BY <1>1, VictimIsNext
<1> HIDE DEF u
<1>5. \A k \in Way \ {Victim(u)} : Fill(u, t).blocks[k] = u.blocks[k]
  BY <1>1, <1>4, FillShape
<1>6. Fill(u, t).blocks[Victim(u)] =
        [tag |-> t, valid |-> TRUE, load_ts |-> u.load_ts_counter,
         access_ts |-> u.access_ts_counter,
         dirty |-> Empties(u) # {} /\ u.blocks[Victim(u)].dirty]
  BY <1>1, <1>4, FillShape
<1>7. j = Victim(s)
  BY <1>1, <1>3, <1>5
<1>8. Empties(s) = {}
  <2> DEFINE d == Empties(u) # {} /\ u.blocks[Victim(u)].dirty
  <2>1. Fill(u, t).blocks[Victim(u)] =
          [tag |-> t, valid |-> TRUE, load_ts |-> u.load_ts_counter,
           access_ts |-> u.access_ts_counter, dirty |-> d]
    BY <1>6
  <2>2. Fill(u, t).blocks[Victim(u)].dirty = d
    <3> HIDE DEF d
    <3> QED
      BY <2>1
  <2>3. ~d
    <3> HIDE DEF d
    <3> QED
      BY <1>1, <1>3, <1>7, <2>2
  <2> QED
    BY <1>1, <1>7, <2>3
<1>9. Fill(u, t).blocks[j].tag = t
  BY <1>1, <1>6, <1>7
<1>10. s.blocks[j].tag # t
  BY <1>2, <1>8, VictimIsNext DEF Matching, Valid
<1> QED
  BY <1>2, <1>3, <1>7, <1>8, <1>9, <1>10 DEF WritesBack

LEMMA WriteHitStaysDirty ==
  ASSUME NEW s \in SetType, NEW t
  PROVE \A j \in Way : s.blocks[j].dirty => WriteHit(s, t).blocks[j].dirty
<1>1. \A j \in Way : WriteHit(s, t).blocks[j].dirty =
        IF j \in Matching(s, t) /\ wb THEN TRUE ELSE s.blocks[j].dirty
  BY WriteHitShape
<1> QED
  BY <1>1

LEMMA StoreSetCleans ==
  ASSUME Sized, NEW s \in SetType, Filled(s), NEW t \in Unsigned, NEW j \in Way,
         s.blocks[j].dirty, ~StoreSet(s, t).blocks[j].dirty
  PROVE /\ Matching(s, t) = {} /\ WritesBack(s) /\ wa
        /\ StoreSet(s, t).blocks[j].tag # s.blocks[j].tag
<1> DEFINE u == AccessTicked(s)
<1>1. /\ u \in SetType /\ u.blocks = s.blocks /\ Filled(u)
      /\ Matching(u, t) = Matching(s, t)
      /\ Empties(u) = Empties(s) /\ Victim(u) = Victim(s)
  BY AccessTickedShape
<1>2. StoreSet(s, t) = IF Matching(s, t) # {} THEN WriteHit(u, t)
                       ELSE IF wa THEN LoadSet(u, t) ELSE u
  BY <1>1 DEF StoreSet, AccessTicked
<1> HIDE DEF u
<1>3. CASE Matching(s, t) # {}
  <2>1. WriteHit(u, t).blocks[j].dirty
    BY <1>1, WriteHitStaysDirty
  <2> QED
    BY <1>1, <1>2, <1>3, <2>1
<1>4. CASE Matching(s, t) = {} /\ ~wa
  BY <1>1, <1>2, <1>4
<1>5. CASE Matching(s, t) = {} /\ wa
  <2>1. StoreSet(s, t) = LoadSet(u, t)
    BY <1>2, <1>5
  <2>2. WritesBack(u) /\ LoadSet(u, t).blocks[j].tag # u.blocks[j].tag
    BY <1>1, <2>1, LoadSetCleans
  <2> QED
    BY <1>1, <1>5, <2>1, <2>2 DEF WritesBack
<1> QED
  BY <1>3, <1>4, <1>5

(* The trace is too short for the cycles to wrap.                          *)
CyclesFit == MaxTrace * (2 * MemoryTransfer + 102) < CounterMod

CyclesInv == stats.total_cycles <= Accesses * (2 * MemoryTransfer + 102)

LEMMA CyclesFitNoWrap ==
  ASSUME Sized, CyclesFit
  PROVE NoWrap
<1> DEFINE c == 2 * MemoryTransfer + 102
<1>1. MaxTrace \in Nat /\ CounterMod \in Nat /\ c \in Nat /\ c >= 2
  BY SizesAreNumbers
<1>2. \A m, k \in Nat : k >= 2 => m * k >= 2 * m
  OBVIOUS
<1>3. MaxTrace * c >= 2 * MaxTrace
  <2> HIDE DEF c
  <2> QED
    BY <1>1, <1>2
<1>4. MaxTrace * c < CounterMod /\ MaxTrace * c \in Nat
  <2>1. \A m, k \in Nat : m * k \in Nat
    OBVIOUS
  <2> QED
    BY <1>1, <2>1 DEF CyclesFit
<1> HIDE DEF c
<1> QED
  BY <1>1, <1>3, <1>4 DEF NoWrap

(* No access wraps the cycles, and each adds what it is charged.           *)
LEMMA AccessCharged ==
  ASSUME Sized, CyclesFit, CacheInv, CyclesInv, NEW a \in Address,
         Load(a) \/ Store(a),
         NEW n \in Nat, n <= 2 * MemoryTransfer + 102,
         stats'.total_cycles = Plus(stats.total_cycles, n)
  PROVE CyclesInv' /\ stats'.total_cycles = stats.total_cycles + n
<1> DEFINE c == 2 * MemoryTransfer + 102
<1>1. Counter \subseteq Nat /\ MaxTrace \in Nat /\ CounterMod \in Nat /\ c \in Nat
  BY SizesAreNumbers DEF Counter
<1>2. stats.total_cycles \in Nat
  BY <1>1 DEF CacheInv, TypeInv, TypeOK, StatsType
<1>3. Accesses' = Accesses + 1 /\ Accesses < MaxTrace
  BY CyclesFitNoWrap, OneMoreAccess
<1>4. Accesses \in Nat
  <2>1. Index(a) \in SetIndex
    BY AddressFields
  <2> QED
    BY <2>1, CacheInvFacts
<1>5. (Accesses + 1) * c = Accesses * c + c
  <2> HIDE DEF c
  <2> QED
    BY <1>1, <1>4
<1>6. (Accesses + 1) * c <= MaxTrace * c
  <2>1. \A x, y, z \in Nat : x <= y => x * z <= y * z
    OBVIOUS
  <2> HIDE DEF c
  <2> QED
    BY <1>1, <1>3, <1>4, <2>1
<1>7. /\ Accesses * c \in Nat /\ MaxTrace * c \in Nat
      /\ stats.total_cycles <= Accesses * c /\ MaxTrace * c < CounterMod /\ n <= c
  <2>1. \A m, k \in Nat : m * k \in Nat
    OBVIOUS
  <2> QED
    BY <1>1, <1>4, <2>1 DEF CyclesInv, CyclesFit
<1>8. MemoryTransfer' = MemoryTransfer
  BY DEF MemoryTransfer
<1> HIDE DEF c
<1>9. stats.total_cycles + n < CounterMod /\ stats.total_cycles + n <= (Accesses + 1) * c
  BY <1>1, <1>2, <1>5, <1>6, <1>7
<1>10. stats'.total_cycles = stats.total_cycles + n
  BY <1>2, <1>9, PlusCounts
<1> QED
  BY <1>3, <1>8, <1>9, <1>10 DEF CyclesInv, c

(* What DirtyLeavesPaid says of one step.                                  *)
PaidStep ==
  \A i \in SetIndex, j \in Way :
    sets[i].blocks[j].dirty /\ ~sets'[i].blocks[j].dirty =>
      /\ sets'[i].blocks[j].tag # sets[i].blocks[j].tag
      /\ stats'.total_cycles >= stats.total_cycles + 2 * MemoryTransfer

LEMMA LoadPays ==
  ASSUME Sized, CyclesFit, CacheInv, CyclesInv, NEW a \in Address, Load(a)
  PROVE CyclesInv' /\ PaidStep
<1> DEFINE i == Index(a)
<1> DEFINE t == Tag(a)
<1> DEFINE n == LoadCycles(sets[i], t)
<1>1. i \in SetIndex /\ t \in Unsigned
  BY AddressFields
<1>2. sets \in [SetIndex -> SetType] /\ Filled(sets[i]) /\ stats \in StatsType
  BY <1>1, CacheInvFacts DEF CacheInv, TypeInv, TypeOK
<1>3. MemoryTransfer \in Nat
  BY SizesAreNumbers
<1>4. n \in Nat /\ n <= 2 * MemoryTransfer + 102
  BY <1>3, Charges
<1>5. stats'.total_cycles = Plus(stats.total_cycles, n)
  BY <1>2 DEF Load, StatsType
<1>6. CyclesInv' /\ stats'.total_cycles = stats.total_cycles + n
  BY <1>4, <1>5, AccessCharged
<1>7. sets' = [sets EXCEPT ![i] = LoadSet(sets[i], t)]
  BY DEF Load
<1>8. stats.total_cycles \in Nat
  BY <1>2, SizesAreNumbers DEF StatsType, Counter
<1> HIDE DEF i, t, n
<1>9. ASSUME NEW k \in SetIndex, NEW j \in Way,
             sets[k].blocks[j].dirty, ~sets'[k].blocks[j].dirty
      PROVE /\ sets'[k].blocks[j].tag # sets[k].blocks[j].tag
            /\ stats'.total_cycles >= stats.total_cycles + 2 * MemoryTransfer
  <2>1. k = i /\ sets'[k] = LoadSet(sets[i], t)
    BY <1>1, <1>2, <1>7, <1>9
  <2>2. sets[i] \in SetType
    BY <1>1, <1>2
  <2>3. /\ Matching(sets[i], t) = {} /\ WritesBack(sets[i])
        /\ LoadSet(sets[i], t).blocks[j].tag # sets[i].blocks[j].tag
    BY <1>1, <1>2, <1>9, <2>1, <2>2, LoadSetCleans
  <2>4. n >= 2 * MemoryTransfer
    BY <2>3, Charges DEF n
  <2> QED
    BY <1>3, <1>4, <1>6, <1>8, <2>1, <2>3, <2>4
<1> QED
  BY <1>6, <1>9 DEF PaidStep

LEMMA StorePays ==
  ASSUME Sized, CyclesFit, CacheInv, CyclesInv, NEW a \in Address, Store(a)
  PROVE CyclesInv' /\ PaidStep
<1> DEFINE i == Index(a)
<1> DEFINE t == Tag(a)
<1> DEFINE n == StoreCycles(sets[i], t)
<1>1. i \in SetIndex /\ t \in Unsigned
  BY AddressFields
<1>2. sets \in [SetIndex -> SetType] /\ Filled(sets[i]) /\ stats \in StatsType
  BY <1>1, CacheInvFacts DEF CacheInv, TypeInv, TypeOK
<1>3. MemoryTransfer \in Nat
  BY SizesAreNumbers
<1>4. n \in Nat /\ n <= 2 * MemoryTransfer + 102
  BY <1>3, Charges
<1>5. stats'.total_cycles = Plus(stats.total_cycles, n)
  BY <1>2 DEF Store, StatsType
<1>6. CyclesInv' /\ stats'.total_cycles = stats.total_cycles + n
  BY <1>4, <1>5, AccessCharged
<1>7. sets' = [sets EXCEPT ![i] = StoreSet(sets[i], t)]
  BY DEF Store
<1>8. stats.total_cycles \in Nat
  BY <1>2, SizesAreNumbers DEF StatsType, Counter
<1> HIDE DEF i, t, n
<1>9. ASSUME NEW k \in SetIndex, NEW j \in Way,
             sets[k].blocks[j].dirty, ~sets'[k].blocks[j].dirty
      PROVE /\ sets'[k].blocks[j].tag # sets[k].blocks[j].tag
            /\ stats'.total_cycles >= stats.total_cycles + 2 * MemoryTransfer
  <2>1. k = i /\ sets'[k] = StoreSet(sets[i], t)
    BY <1>1, <1>2, <1>7, <1>9
  <2>2. sets[i] \in SetType
    BY <1>1, <1>2
  <2>3. /\ Matching(sets[i], t) = {} /\ WritesBack(sets[i]) /\ wa
        /\ StoreSet(sets[i], t).blocks[j].tag # sets[i].blocks[j].tag
    BY <1>1, <1>2, <1>9, <2>1, <2>2, StoreSetCleans
  <2>4. n >= 2 * MemoryTransfer
    BY <2>3, Charges DEF n
  <2> QED
    BY <1>3, <1>4, <1>6, <1>8, <2>1, <2>3, <2>4
<1> QED
  BY <1>6, <1>9 DEF PaidStep

(* A dirty block that is evicted is written back to memory (main.cpp 23):  *)
(* its dirty bit goes only in a step that charges two transfers.           *)
THEOREM DirtyBlocksPay == Sized /\ CyclesFit => (Spec => DirtyLeavesPaid)
<1> SUFFICES ASSUME Sized, CyclesFit PROVE Spec => DirtyLeavesPaid
  OBVIOUS
<1>1. Init => CacheInv /\ CyclesInv
  <2>1. Init => CyclesInv
    BY SizesAreNumbers DEF Init, NoStats, CyclesInv, Accesses
  <2> QED
    BY <2>1, InitCacheInv
<1>2. CacheInv /\ [Next]_vars => CacheInv'
  BY CyclesFitNoWrap, CacheInvStep
<1>3. CacheInv /\ CyclesInv /\ Next => CyclesInv' /\ PaidStep
  BY LoadPays, StorePays DEF Next
<1>4. CyclesInv /\ UNCHANGED vars => CyclesInv'
  BY DEF CyclesInv, Accesses, MemoryTransfer, vars
<1>5. DirtyLeavesPaid <=> [][PaidStep]_vars
  BY DEF DirtyLeavesPaid, PaidStep
<1> QED
  BY <1>1, <1>2, <1>3, <1>4, <1>5, PTL DEF Spec

-----------------------------------------------------------------------------
(* What a set holds and in which order, without the timestamps: each       *)
(* access is a step of the cache of CacheContract.                         *)

Stamp(s, j) == IF lru THEN s.blocks[j].access_ts ELSE s.blocks[j].load_ts

LEMMA NewerIsStamp ==
  ASSUME NEW s, NEW j, NEW k
  PROVE Newer(s, j, k) <=> Stamp(s, j) > Stamp(s, k)
BY DEF Newer, Stamp

(* The content of s, but for its block v. *)
TagsBut(s, v) == {s.blocks[j].tag : j \in Valid(s) \ {v}}
ContentBut(s, v) ==
  [tags |-> TagsBut(s, v),
   newer |-> {p \in TagsBut(s, v) \X TagsBut(s, v) :
                \E j, k \in Valid(s) \ {v} :
                  Newer(s, j, k) /\ p = <<s.blocks[j].tag, s.blocks[k].tag>>}]

LEMMA ContentButOneMore ==
  ASSUME NEW s, NEW v, v \notin Valid(s)
  PROVE ContentBut(s, v) = Content(s)
<1>1. Valid(s) \ {v} = Valid(s)
  OBVIOUS
<1> QED
  BY <1>1 DEF ContentBut, Content, TagsBut, TagsIn

LEMMA ContentButOneLess ==
  ASSUME NEW s, NEW v \in Valid(s), Tidy(s)
  PROVE ContentBut(s, v) = Contract!Without(Content(s), s.blocks[v].tag)
<1> DEFINE t == s.blocks[v].tag
<1>1. \A j \in Valid(s) : s.blocks[j].tag = t <=> j = v
  BY DEF Tidy
<1> HIDE DEF t
<1>2. TagsBut(s, v) = TagsIn(s) \ {t}
  BY <1>1 DEF TagsBut, TagsIn
<1> DEFINE newer == {p \in TagsIn(s) \X TagsIn(s) :
                       \E j, k \in Valid(s) :
                         Newer(s, j, k) /\ p = <<s.blocks[j].tag, s.blocks[k].tag>>}
<1> DEFINE less == {p \in TagsBut(s, v) \X TagsBut(s, v) :
                      \E j, k \in Valid(s) \ {v} :
                        Newer(s, j, k) /\ p = <<s.blocks[j].tag, s.blocks[k].tag>>}
<1>3. ASSUME NEW p
      PROVE p \in less <=> p \in {q \in newer : q[1] # t /\ q[2] # t}
  <2>1. ASSUME p \in less
        PROVE p \in newer /\ p[1] # t /\ p[2] # t
    BY <1>2, <2>1
  <2>2. ASSUME p \in newer, p[1] # t, p[2] # t
        PROVE p \in less
    BY <1>1, <1>2, <2>2
  <2> QED
    BY <2>1, <2>2
<1>4. less = {p \in newer : p[1] # t /\ p[2] # t}
  BY <1>3
<1>5. Contract!Without(Content(s), t) =
        [tags |-> TagsIn(s) \ {t}, newer |-> {p \in newer : p[1] # t /\ p[2] # t}]
  BY DEF Contract!Without, Content
<1>6. ContentBut(s, v) = [tags |-> TagsBut(s, v), newer |-> less]
  BY DEF ContentBut
<1> HIDE DEF newer, less
<1> QED
  BY <1>2, <1>4, <1>5, <1>6 DEF t

LEMMA NewestTwice ==
  ASSUME NEW tags, NEW newer, NEW t
  PROVE LET c == [tags |-> tags, newer |-> newer]
        IN  Contract!WithNewest(Contract!Without(c, t), t) = Contract!WithNewest(c, t)
<1> DEFINE rest == {p \in newer : p[1] # t /\ p[2] # t}
<1>1. Contract!Without([tags |-> tags, newer |-> newer], t)
        = [tags |-> tags \ {t}, newer |-> rest]
  BY DEF Contract!Without
<1>2. {p \in rest : p[1] # t /\ p[2] # t} = rest
  OBVIOUS
<1>3. Contract!WithNewest([tags |-> tags, newer |-> newer], t)
        = [tags |-> tags \union {t},
           newer |-> rest \union {<<t, u>> : u \in tags \ {t}}]
  BY DEF Contract!WithNewest, Contract!Without
<1>4. Contract!WithNewest([tags |-> tags \ {t}, newer |-> rest], t)
        = [tags |-> (tags \ {t}) \union {t},
           newer |-> rest \union {<<t, u>> : u \in (tags \ {t}) \ {t}}]
  BY <1>2 DEF Contract!WithNewest, Contract!Without
<1>5. (tags \ {t}) \union {t} = tags \union {t} /\ (tags \ {t}) \ {t} = tags \ {t}
  OBVIOUS
<1> HIDE DEF rest
<1> QED
  BY <1>1, <1>3, <1>4, <1>5

(* Block v becomes t with the newest stamp; the others stay.               *)
LEMMA BecomesNewest ==
  ASSUME NEW s, NEW u, NEW v, NEW t,
         Valid(u) = Valid(s) \union {v},
         u.blocks[v].tag = t, Stamp(u, v) \in Nat,
         \A j \in Valid(s) \ {v} : /\ u.blocks[j].tag = s.blocks[j].tag
                                 /\ s.blocks[j].tag # t
                                 /\ Stamp(u, j) = Stamp(s, j)
                                 /\ Stamp(s, j) \in Nat
                                 /\ Stamp(s, j) < Stamp(u, v)
  PROVE Content(u) = Contract!WithNewest(ContentBut(s, v), t)
<1> DEFINE others == Valid(s) \ {v}
<1>1. Valid(u) = others \union {v}
  OBVIOUS
<1>2. \A j \in others : u.blocks[j].tag = s.blocks[j].tag /\ s.blocks[j].tag # t
  OBVIOUS
<1>3. /\ \A j, k \in others : Newer(u, j, k) <=> Newer(s, j, k)
      /\ \A j \in others : Newer(u, v, j) /\ ~Newer(u, j, v)
      /\ ~Newer(u, v, v)
  BY NewerIsStamp
<1>4. TagsBut(s, v) = {s.blocks[j].tag : j \in others}
  BY DEF TagsBut
<1> HIDE DEF others
<1>5. t \notin TagsBut(s, v)
  BY <1>2, <1>4
<1>6. TagsIn(u) = TagsBut(s, v) \union {t}
  BY <1>1, <1>2, <1>4 DEF TagsIn
<1> DEFINE less == {p \in TagsBut(s, v) \X TagsBut(s, v) :
                      \E j, k \in others :
                        Newer(s, j, k) /\ p = <<s.blocks[j].tag, s.blocks[k].tag>>}
<1> DEFINE newer == {p \in TagsIn(u) \X TagsIn(u) :
                       \E j, k \in Valid(u) :
                         Newer(u, j, k) /\ p = <<u.blocks[j].tag, u.blocks[k].tag>>}
<1>7. ASSUME NEW p, p \in newer
      PROVE p \in less \union {<<t, w>> : w \in TagsBut(s, v)}
  <2>1. PICK j \in Valid(u), k \in Valid(u) :
          Newer(u, j, k) /\ p = <<u.blocks[j].tag, u.blocks[k].tag>>
    BY <1>7
  <2>2. CASE j \in others /\ k \in others
    <3>1. Newer(s, j, k) /\ p = <<s.blocks[j].tag, s.blocks[k].tag>>
      BY <1>2, <1>3, <2>1, <2>2
    <3>2. s.blocks[j].tag \in TagsBut(s, v) /\ s.blocks[k].tag \in TagsBut(s, v)
      BY <1>4, <2>2
    <3> QED
      BY <2>2, <3>1, <3>2
  <2>3. CASE j = v /\ k \in others
    BY <1>2, <1>4, <2>1, <2>3
  <2> QED
    BY <1>1, <1>3, <2>1, <2>2, <2>3
<1>8. ASSUME NEW p, p \in less
      PROVE p \in newer
  BY <1>1, <1>2, <1>3, <1>6, <1>8
<1>9. ASSUME NEW w \in TagsBut(s, v)
      PROVE <<t, w>> \in newer
  BY <1>1, <1>2, <1>3, <1>4, <1>6
<1>10. newer = less \union {<<t, w>> : w \in TagsBut(s, v)}
  BY <1>7, <1>8, <1>9
<1>11. {p \in less : p[1] # t /\ p[2] # t} = less
  BY <1>5
<1>12. ContentBut(s, v) = [tags |-> TagsBut(s, v), newer |-> less]
  BY DEF ContentBut, others
<1>13. Content(u) = [tags |-> TagsIn(u), newer |-> newer]
  BY DEF Content
<1> HIDE DEF less, newer
<1>14. Contract!WithNewest(ContentBut(s, v), t)
        = [tags |-> TagsBut(s, v) \union {t},
           newer |-> {p \in less : p[1] # t /\ p[2] # t}
                      \union {<<t, w>> : w \in TagsBut(s, v) \ {t}}]
  BY <1>12 DEF Contract!WithNewest, Contract!Without
<1>15. TagsBut(s, v) \ {t} = TagsBut(s, v)
  BY <1>5
<1> QED
  BY <1>6, <1>10, <1>11, <1>13, <1>14, <1>15

(* Content depends on the tags and the order only. *)
LEMMA SameContent ==
  ASSUME NEW s, NEW u, Valid(u) = Valid(s),
         \A j \in Valid(s) : u.blocks[j].tag = s.blocks[j].tag /\ Stamp(u, j) = Stamp(s, j)
  PROVE Content(u) = Content(s)
<1>1. \A j, k \in Valid(s) : Newer(u, j, k) <=> Newer(s, j, k)
  BY NewerIsStamp
<1>2. TagsIn(u) = TagsIn(s)
  BY DEF TagsIn
<1> DEFINE New(x) == {p \in TagsIn(x) \X TagsIn(x) :
                       \E j, k \in Valid(x) :
                         Newer(x, j, k) /\ p = <<x.blocks[j].tag, x.blocks[k].tag>>}
<1>3. New(u) = New(s)
  BY <1>1, <1>2
<1>4. \A x : Content(x) = [tags |-> TagsIn(x), newer |-> New(x)]
  BY DEF Content
<1> HIDE DEF New
<1> QED
  BY <1>2, <1>3, <1>4

LEMMA StampsAreNumbers ==
  ASSUME Sized, NEW s \in SetType
  PROVE \A j \in Way : Stamp(s, j) \in Nat
BY TimestampsAreNumbers DEF Stamp

LEMMA TouchContent ==
  ASSUME Sized, NEW s \in SetType, NEW t, Tidy(s), AccessBehind(s),
         Matching(s, t) # {}
  PROVE Content(Touch(s, t)) = Contract!Use(Content(s), t)
<1> DEFINE u == Touch(s, t)
<1>1. PICK v \in Way : v \in Matching(s, t)
  BY DEF Matching
<1>2. v \in Valid(s) /\ s.blocks[v].tag = t
  BY <1>1 DEF Matching, Valid
<1>3. Valid(u) = Valid(s)
  BY TouchFilled DEF Tidy
<1>4. \A j \in Way :
        /\ u.blocks[j].tag = s.blocks[j].tag
        /\ u.blocks[j].load_ts = s.blocks[j].load_ts
        /\ u.blocks[j].access_ts = IF j \in Matching(s, t) THEN s.access_ts_counter
                                   ELSE s.blocks[j].access_ts
  BY TouchShape
<1>5. \A j \in Way : Stamp(s, j) \in Nat
  BY StampsAreNumbers
<1> HIDE DEF u
<1>6. CASE lru
  <2>1. \A j \in Valid(s) \ {v} : j \in Way /\ s.blocks[j].tag # t /\ j \notin Matching(s, t)
    BY <1>2 DEF Tidy, Matching, Valid
  <2>2. Stamp(u, v) = s.access_ts_counter
    BY <1>1, <1>4, <1>6 DEF Stamp
  <2>3. \A j \in Valid(s) \ {v} :
          /\ u.blocks[j].tag = s.blocks[j].tag
          /\ Stamp(u, j) = Stamp(s, j)
          /\ Stamp(s, j) \in Nat
          /\ Stamp(s, j) < Stamp(u, v)
    BY <1>4, <1>5, <1>6, <2>1, <2>2 DEF Stamp, AccessBehind
  <2>4. Stamp(u, v) \in Nat /\ u.blocks[v].tag = t
    BY <1>1, <1>2, <1>4, <2>2, TimestampsAreNumbers
  <2>5. Content(u) = Contract!WithNewest(ContentBut(s, v), t)
    BY <1>2, <1>3, <2>1, <2>3, <2>4, BecomesNewest
  <2>6. ContentBut(s, v) = Contract!Without(Content(s), t)
    BY <1>2, ContentButOneLess
  <2>7. Contract!WithNewest(Contract!Without(Content(s), t), t)
          = Contract!WithNewest(Content(s), t)
    BY NewestTwice DEF Content
  <2> QED
    BY <1>6, <2>5, <2>6, <2>7 DEF Contract!Use, u
<1>7. CASE ~lru
  <2>1. \A j \in Valid(s) : u.blocks[j].tag = s.blocks[j].tag /\ Stamp(u, j) = Stamp(s, j)
    BY <1>4, <1>7 DEF Stamp, Valid
  <2>2. Content(u) = Content(s)
    BY <1>3, <2>1, SameContent
  <2> QED
    BY <1>7, <2>2 DEF Contract!Use, u
<1> QED
  BY <1>6, <1>7

LEMMA WriteHitContent ==
  ASSUME Sized, NEW s \in SetType, NEW t, Tidy(s), AccessBehind(s),
         Matching(s, t) # {}
  PROVE Content(WriteHit(s, t)) = Contract!Use(Content(s), t)
<1> DEFINE u == Touch(s, t)
<1> DEFINE w == WriteHit(s, t)
<1>1. Valid(u) = Valid(s) /\ Valid(w) = Valid(s)
  BY TouchFilled, WriteHitFilled DEF Tidy
<1>2. \A j \in Way :
        /\ u.blocks[j].tag = s.blocks[j].tag
        /\ u.blocks[j].load_ts = s.blocks[j].load_ts
        /\ u.blocks[j].access_ts = IF j \in Matching(s, t) THEN s.access_ts_counter
                                   ELSE s.blocks[j].access_ts
  BY TouchShape
<1>3. \A j \in Way :
        /\ w.blocks[j].tag = s.blocks[j].tag
        /\ w.blocks[j].load_ts = s.blocks[j].load_ts
        /\ w.blocks[j].access_ts = IF j \in Matching(s, t) THEN s.access_ts_counter
                                   ELSE s.blocks[j].access_ts
  BY WriteHitShape
<1>4. Content(u) = Contract!Use(Content(s), t)
  BY TouchContent
<1> HIDE DEF u, w
<1>5. \A j \in Valid(u) : w.blocks[j].tag = u.blocks[j].tag /\ Stamp(w, j) = Stamp(u, j)
  BY <1>2, <1>3 DEF Stamp, Valid
<1>6. Content(w) = Content(u)
  BY <1>1, <1>5, SameContent
<1> QED
  BY <1>4, <1>6 DEF w

LEMMA TagsCounted ==
  ASSUME Sized, NEW s \in SetType, Tidy(s)
  PROVE Cardinality(TagsIn(s)) = s.filled
<1> DEFINE f == [j \in Valid(s) |-> s.blocks[j].tag]
<1>1. f \in [Valid(s) -> TagsIn(s)]
  BY DEF TagsIn
<1>2. f \in Surjection(Valid(s), TagsIn(s))
  BY <1>1 DEF TagsIn, Surjection
<1>3. f \in Injection(Valid(s), TagsIn(s))
  <2>1. IsInjective(f)
    BY DEF IsInjective, Tidy
  <2> QED
    BY <1>1, <2>1 DEF Injection
<1>4. s.filled \in Nat /\ Valid(s) = 0 .. s.filled-1
  BY SizesAreNumbers DEF SetType, Tidy, Filled
<1>5. IsFiniteSet(Valid(s)) /\ Cardinality(Valid(s)) = s.filled
  <2>1. 0 \in Int /\ s.filled - 1 \in Int
    BY <1>4
  <2>2. /\ IsFiniteSet(0 .. s.filled-1)
        /\ Cardinality(0 .. s.filled-1) = IF 0 > s.filled-1 THEN 0 ELSE (s.filled-1)-0+1
    BY <2>1, FS_Interval
  <2> QED
    BY <1>4, <2>2
<1> HIDE DEF f
<1>6. Cardinality(TagsIn(s)) = Cardinality(Valid(s))
  BY <1>2, <1>3, <1>5, FS_Surjection
<1> QED
  BY <1>5, <1>6

LEMMA ContractCounts ==
  ASSUME NEW S
  PROVE Contract!Cardinality(S) = Cardinality(S)
BY DEF Contract!Cardinality, Cardinality

LEMMA NewerPairs ==
  ASSUME NEW s
  PROVE \A p : p \in Content(s).newer <=>
                \E j, k \in Valid(s) :
                  Newer(s, j, k) /\ p = <<s.blocks[j].tag, s.blocks[k].tag>>
<1> DEFINE newer == {p \in TagsIn(s) \X TagsIn(s) :
                       \E j, k \in Valid(s) :
                         Newer(s, j, k) /\ p = <<s.blocks[j].tag, s.blocks[k].tag>>}
<1>1. Content(s).newer = newer
  BY DEF Content
<1>2. \A j \in Valid(s) : s.blocks[j].tag \in TagsIn(s)
  BY DEF TagsIn
<1> QED
  BY <1>1, <1>2

LEMMA NewerIsStrict ==
  ASSUME Sized, NEW s \in SetType, Tidy(s), NEW x, NEW y,
         <<x, y>> \in Content(s).newer
  PROVE <<y, x>> \notin Content(s).newer
<1>1. SUFFICES ASSUME <<y, x>> \in Content(s).newer PROVE FALSE
  OBVIOUS
<1>2. PICK j \in Valid(s), k \in Valid(s) :
        Newer(s, j, k) /\ <<x, y>> = <<s.blocks[j].tag, s.blocks[k].tag>>
  BY NewerPairs
<1>3. PICK m \in Valid(s), n \in Valid(s) :
        Newer(s, m, n) /\ <<y, x>> = <<s.blocks[m].tag, s.blocks[n].tag>>
  BY <1>1, NewerPairs
<1>4. j = n /\ k = m
  BY <1>2, <1>3 DEF Tidy
<1>5. Stamp(s, j) \in Nat /\ Stamp(s, k) \in Nat
  BY StampsAreNumbers DEF Valid
<1> QED
  BY <1>2, <1>3, <1>4, <1>5, NewerIsStamp

(* In a full set the victim is the oldest block of the contract.           *)
LEMMA OldestOfFull ==
  ASSUME Sized, NEW s \in SetType, Tidy(s), Empties(s) = {}
  PROVE LET o == s.blocks[Victim(s)].tag IN
        /\ o \in TagsIn(s)
        /\ \A w \in TagsIn(s) \ {o} : <<w, o>> \in Content(s).newer
        /\ Contract!Oldest(Content(s)) = o
<1> DEFINE v == Victim(s)
<1> DEFINE o == s.blocks[v].tag
<1>1. v \in Way /\ v \in Valid(s)
  BY VictimIsOldest, VictimIsNext DEF Tidy
<1>2. \A k \in Way : Stamp(s, v) <= Stamp(s, k)
  BY VictimIsOldest DEF Stamp
<1> HIDE DEF v
<1>3. \A j \in Valid(s) \ {v} : Newer(s, j, v) /\ ~Newer(s, v, j)
  <2>1. \A j \in Valid(s) \ {v} : Stamp(s, j) # Stamp(s, v) /\ j \in Way
    BY <1>1 DEF Tidy, Stamp, Valid
  <2>2. \A j \in Valid(s) \ {v} : Stamp(s, v) <= Stamp(s, j)
    BY <1>2, <2>1
  <2>3. \A j \in Way : Stamp(s, j) \in Nat
    BY StampsAreNumbers
  <2> QED
    BY <1>1, <2>1, <2>2, <2>3, NewerIsStamp
<1>4. o \in TagsIn(s)
  BY <1>1 DEF TagsIn
<1>5. ASSUME NEW w \in TagsIn(s) \ {o}
      PROVE <<w, o>> \in Content(s).newer
  <2>1. PICK j \in Valid(s) : s.blocks[j].tag = w
    BY <1>5 DEF TagsIn
  <2>2. j # v
    BY <2>1
  <2> QED
    BY <1>1, <1>3, <2>1, <2>2, NewerPairs
<1>6. ASSUME NEW x \in TagsIn(s), \A w \in TagsIn(s) \ {x} : <<w, x>> \in Content(s).newer
      PROVE x = o
  <2>1. SUFFICES ASSUME x # o PROVE FALSE
    OBVIOUS
  <2>2. <<o, x>> \in Content(s).newer /\ <<x, o>> \in Content(s).newer
    BY <1>4, <1>5, <1>6, <2>1
  <2> QED
    BY <2>2, NewerIsStrict
<1>7. Content(s).tags = TagsIn(s)
  BY DEF Content
<1>8. Contract!Oldest(Content(s)) = o
  <2> HIDE DEF o
  <2> QED
    BY <1>4, <1>5, <1>6, <1>7 DEF Contract!Oldest
<1> QED
  BY <1>4, <1>5, <1>8 DEF v

LEMMA FillContent ==
  ASSUME Sized, NEW s \in SetType, NEW t \in Unsigned, Tidy(s),
         AccessBehind(s), LoadBehind(s), Matching(s, t) = {}
  PROVE Content(Fill(s, t)) = Contract!Bring(Content(s), t)
<1> DEFINE u == Fill(s, t)
<1> DEFINE v == Victim(s)
<1>1. Filled(s) /\ v \in Way
  BY VictimIsOldest DEF Tidy
<1>2. s.filled < BlocksPerSet \/ Empties(s) = {}
  BY <1>1, VictimIsNext
<1>3. /\ u \in SetType
      /\ \A j \in Way \ {v} : u.blocks[j] = s.blocks[j]
  BY <1>2, FillShape
<1>4. u.blocks[v] = [tag |-> t, valid |-> TRUE, load_ts |-> s.load_ts_counter,
                     access_ts |-> s.access_ts_counter,
                     dirty |-> Empties(s) # {} /\ s.blocks[v].dirty]
  BY <1>2, FillShape
<1>5. /\ u.blocks[v].tag = t
      /\ u.blocks[v].load_ts = s.load_ts_counter
      /\ u.blocks[v].access_ts = s.access_ts_counter
  BY <1>4
<1>6. Valid(u) = Valid(s) \union {v}
  BY <1>1, FillFilled
<1>7. (\A j \in Way : Stamp(s, j) \in Nat) /\ (\A j \in Way : Stamp(u, j) \in Nat)
  BY <1>3, StampsAreNumbers
<1>8. Content(s).tags = TagsIn(s) /\ Cardinality(TagsIn(s)) = s.filled
  BY TagsCounted DEF Content
<1>9. (v \in Valid(s) <=> Empties(s) = {}) /\ (Empties(s) = {} <=> s.filled = BlocksPerSet)
  <2>1. Empties(s) # {} => v \notin Valid(s) /\ s.filled < BlocksPerSet
    BY <1>1, VictimIsNext, VictimIsOldest DEF Valid, Empties
  <2>2. Empties(s) = {} => v \in Valid(s) /\ s.filled = BlocksPerSet
    BY <1>1, VictimIsNext
  <2>3. s.filled \in Nat /\ BlocksPerSet \in Nat
    BY SizesAreNumbers DEF SetType
  <2> QED
    BY <2>1, <2>2, <2>3
<1> HIDE DEF u, v
<1>10. \A j \in Valid(s) \ {v} :
         /\ j \in Way
         /\ u.blocks[j].tag = s.blocks[j].tag
         /\ s.blocks[j].tag # t
         /\ Stamp(u, j) = Stamp(s, j)
         /\ Stamp(s, j) \in Nat
         /\ Stamp(s, j) < Stamp(u, v)
  BY <1>3, <1>5, <1>7 DEF Stamp, Matching, Valid, AccessBehind, LoadBehind
<1>11. Content(u) = Contract!WithNewest(ContentBut(s, v), t)
  BY <1>1, <1>5, <1>6, <1>7, <1>10, BecomesNewest
<1>12. CASE Empties(s) # {}
  <2>1. ContentBut(s, v) = Content(s)
    BY <1>9, <1>12, ContentButOneMore
  <2>2. Contract!Bring(Content(s), t) = Contract!WithNewest(Content(s), t)
    BY <1>8, <1>9, <1>12, ContractCounts DEF Contract!Bring
  <2> QED
    BY <1>11, <2>1, <2>2 DEF u
<1>13. CASE Empties(s) = {}
  <2> DEFINE o == s.blocks[v].tag
  <2>1. v \in Valid(s)
    BY <1>9, <1>13
  <2>2. ContentBut(s, v) = Contract!Without(Content(s), o)
    BY <2>1, ContentButOneLess
  <2>3. Contract!Oldest(Content(s)) = o
    BY <1>13, OldestOfFull DEF v
  <2>4. Contract!Bring(Content(s), t)
          = Contract!WithNewest(Contract!Without(Content(s), o), t)
    BY <1>8, <1>9, <1>13, <2>3, ContractCounts DEF Contract!Bring
  <2> QED
    BY <1>11, <2>2, <2>4 DEF u
<1> QED
  BY <1>12, <1>13

(* A set that is full stays full.                                          *)
LEMMA LoadSetStaysFull ==
  ASSUME Sized, NEW s \in SetType, NEW t \in Unsigned, Filled(s),
         s.filled = BlocksPerSet
  PROVE LoadSet(s, t).filled = BlocksPerSet
<1> DEFINE u == Ticked(s)
<1>1. u \in SetType /\ Filled(u) /\ u.filled = BlocksPerSet
  BY TickedShape, TickedFilled
<1>2. LoadSet(s, t) \in {Touch(u, t), Fill(u, t)}
  BY DEF LoadSet
<1> HIDE DEF u
<1>3. Touch(u, t).filled = BlocksPerSet
  BY <1>1, TouchShape
<1>4. Empties(u) = {}
  BY <1>1, VictimIsNext, SizesAreNumbers
<1>5. Fill(u, t).filled = BlocksPerSet
  BY <1>1, <1>4, FillShape
<1> QED
  BY <1>2, <1>3, <1>5

LEMMA StoreSetStaysFull ==
  ASSUME Sized, NEW s \in SetType, NEW t \in Unsigned, Filled(s),
         s.filled = BlocksPerSet
  PROVE StoreSet(s, t).filled = BlocksPerSet
<1> DEFINE u == AccessTicked(s)
<1>1. u \in SetType /\ Filled(u) /\ u.filled = BlocksPerSet
  BY AccessTickedShape
<1>2. StoreSet(s, t) \in {WriteHit(u, t), LoadSet(u, t), u}
  BY DEF StoreSet, AccessTicked
<1> HIDE DEF u
<1>3. WriteHit(u, t).filled = BlocksPerSet
  BY <1>1, WriteHitShape
<1>4. LoadSet(u, t).filled = BlocksPerSet
  BY <1>1, LoadSetStaysFull
<1> QED
  BY <1>1, <1>2, <1>3, <1>4

LEMMA LoadSetContent ==
  ASSUME Sized, NEW s \in SetType, NEW t \in Unsigned, Good(s),
         s.access_ts_counter + 1 < CounterMod, s.load_ts_counter + 1 < CounterMod
  PROVE Content(LoadSet(s, t)) = IF Matching(s, t) # {}
                                 THEN Contract!Use(Content(s), t)
                                 ELSE Contract!Bring(Content(s), t)
<1> DEFINE u == Ticked(s)
<1>1. /\ u \in SetType /\ u.blocks = s.blocks
      /\ Valid(u) = Valid(s) /\ Matching(u, t) = Matching(s, t)
      /\ Tidy(u) /\ AccessBehind(u) /\ LoadBehind(u)
  BY TickedFresh
<1>2. LoadSet(s, t) = IF Matching(s, t) # {} THEN Touch(u, t) ELSE Fill(u, t)
  BY DEF LoadSet
<1> HIDE DEF u
<1>3. Content(u) = Content(s)
  BY <1>1, SameContent DEF Stamp
<1>4. CASE Matching(s, t) # {}
  BY <1>1, <1>2, <1>3, <1>4, TouchContent
<1>5. CASE Matching(s, t) = {}
  BY <1>1, <1>2, <1>3, <1>5, FillContent
<1> QED
  BY <1>4, <1>5

LEMMA StoreSetContent ==
  ASSUME Sized, NEW s \in SetType, NEW t \in Unsigned, Good(s),
         s.access_ts_counter + 2 < CounterMod, s.load_ts_counter + 1 < CounterMod
  PROVE Content(StoreSet(s, t)) = IF Matching(s, t) # {}
                                  THEN Contract!Use(Content(s), t)
                                  ELSE IF wa THEN Contract!Bring(Content(s), t)
                                  ELSE Content(s)
<1> DEFINE u == AccessTicked(s)
<1>1. s.access_ts_counter \in Nat /\ s.load_ts_counter \in Nat /\ CounterMod \in Nat
  BY TimestampsAreNumbers, SizesAreNumbers
<1>2. /\ u \in SetType /\ u.blocks = s.blocks
      /\ u.access_ts_counter = s.access_ts_counter + 1
      /\ u.load_ts_counter = s.load_ts_counter
      /\ Valid(u) = Valid(s) /\ Matching(u, t) = Matching(s, t)
      /\ Tidy(u) /\ AccessBehind(u) /\ Good(u)
  BY <1>1, AccessTickedFresh
<1>3. StoreSet(s, t) = IF Matching(s, t) # {} THEN WriteHit(u, t)
                       ELSE IF wa THEN LoadSet(u, t) ELSE u
  BY DEF StoreSet, AccessTicked
<1> HIDE DEF u
<1>4. Content(u) = Content(s)
  BY <1>2, SameContent DEF Stamp
<1>5. CASE Matching(s, t) # {}
  BY <1>2, <1>3, <1>4, <1>5, WriteHitContent
<1>6. CASE Matching(s, t) = {} /\ wa
  <2>1. u.access_ts_counter + 1 < CounterMod /\ u.load_ts_counter + 1 < CounterMod
    BY <1>1, <1>2
  <2> QED
    BY <1>2, <1>3, <1>4, <1>6, <2>1, LoadSetContent
<1>7. CASE Matching(s, t) = {} /\ ~wa
  BY <1>3, <1>4, <1>7
<1> QED
  BY <1>5, <1>6, <1>7

(* Hits and misses do not wrap either.                                     *)
HitsInv ==
  /\ stats.load_hits <= Accesses /\ stats.load_misses <= Accesses
  /\ stats.store_hits <= Accesses /\ stats.store_misses <= Accesses

LEMMA HitsAreCounted ==
  ASSUME Sized, NoWrap, CacheInv, HitsInv, NEW a \in Address,
         Load(a) \/ Store(a)
  PROVE LET missed == Misses(sets[Index(a)], Tag(a)) IN
        /\ HitsInv'
        /\ Load(a) =>
             /\ stats'.load_hits = IF missed THEN stats.load_hits ELSE stats.load_hits + 1
             /\ stats'.load_misses = IF missed THEN stats.load_misses + 1 ELSE stats.load_misses
             /\ stats'.store_hits = stats.store_hits
             /\ stats'.store_misses = stats.store_misses
        /\ Store(a) =>
             /\ stats'.load_hits = stats.load_hits
             /\ stats'.load_misses = stats.load_misses
             /\ stats'.store_hits = IF missed THEN stats.store_hits ELSE stats.store_hits + 1
             /\ stats'.store_misses = IF missed THEN stats.store_misses + 1 ELSE stats.store_misses
<1> DEFINE missed == Misses(sets[Index(a)], Tag(a))
<1>1. Accesses' = Accesses + 1 /\ Accesses < MaxTrace
  BY OneMoreAccess
<1>2. Accesses \in Nat
  <2>1. Index(a) \in SetIndex
    BY AddressFields
  <2> QED
    BY <2>1, CacheInvFacts
<1>3. stats \in StatsType
  BY DEF CacheInv, TypeInv, TypeOK
<1>4. /\ stats.load_hits \in Nat /\ stats.load_misses \in Nat
      /\ stats.store_hits \in Nat /\ stats.store_misses \in Nat
  <2>1. Counter \subseteq Nat
    BY SizesAreNumbers DEF Counter
  <2> QED
    BY <1>3, <2>1 DEF StatsType
<1>5. \A n \in Nat : n <= Accesses => Plus(n, 1) = n + 1
  <2>1. \A n \in Nat : n <= Accesses => n + 1 < CounterMod
    BY <1>1, <1>2, SizesAreNumbers DEF NoWrap
  <2> QED
    BY <2>1, PlusCounts
<1>6. /\ Plus(stats.load_hits, 1) = stats.load_hits + 1
      /\ Plus(stats.load_misses, 1) = stats.load_misses + 1
      /\ Plus(stats.store_hits, 1) = stats.store_hits + 1
      /\ Plus(stats.store_misses, 1) = stats.store_misses + 1
  BY <1>4, <1>5 DEF HitsInv
<1>7. ASSUME Load(a)
      PROVE /\ stats'.load_hits = IF missed THEN stats.load_hits ELSE stats.load_hits + 1
            /\ stats'.load_misses = IF missed THEN stats.load_misses + 1 ELSE stats.load_misses
            /\ stats'.store_hits = stats.store_hits
            /\ stats'.store_misses = stats.store_misses
  BY <1>3, <1>6, <1>7 DEF Load, StatsType
<1>8. ASSUME Store(a)
      PROVE /\ stats'.load_hits = stats.load_hits
            /\ stats'.load_misses = stats.load_misses
            /\ stats'.store_hits = IF missed THEN stats.store_hits ELSE stats.store_hits + 1
            /\ stats'.store_misses = IF missed THEN stats.store_misses + 1 ELSE stats.store_misses
  BY <1>3, <1>6, <1>8 DEF Store, StatsType
<1> HIDE DEF missed
<1>9. HitsInv'
  <2>1. CASE Load(a)
    BY <1>1, <1>2, <1>4, <1>7, <2>1 DEF HitsInv
  <2>2. CASE Store(a)
    BY <1>1, <1>2, <1>4, <1>8, <2>2 DEF HitsInv
  <2> QED
    BY <2>1, <2>2
<1> QED
  BY <1>7, <1>8, <1>9 DEF missed

LEMMA HeldMatches ==
  ASSUME NEW s, NEW t
  PROVE t \in Content(s).tags <=> Matching(s, t) # {}
BY DEF Content, TagsIn, Matching, Valid

LEMMA ContentPrimed ==
  ASSUME lru' = lru, NEW k
  PROVE Content(sets[k])' = Content(sets'[k])
BY DEF Content, TagsIn, Newer, Valid

LEMMA ResidentBecomes ==
  ASSUME lru' = lru, NEW i \in SetIndex, NEW u, sets \in [SetIndex -> SetType],
         sets' = [sets EXCEPT ![i] = u]
  PROVE [k \in SetIndex |-> Content(sets[k])]'
          = [[k \in SetIndex |-> Content(sets[k])] EXCEPT ![i] = Content(u)]
<1>1. \A k \in SetIndex : Content(sets[k])' = Content(sets'[k])
  BY ContentPrimed
<1>2. \A k \in SetIndex : sets'[k] = IF k = i THEN u ELSE sets[k]
  OBVIOUS
<1>3. [k \in SetIndex |-> Content(sets[k])]' = [k \in SetIndex |-> Content(sets'[k])]
  BY <1>1
<1> QED
  BY <1>2, <1>3

(* The state of CacheContract that a state of the simulator shows.         *)
ShownAccess ==
  IF line = NoLine THEN << >>
  ELSE <<line[1], Block(line[2]) % NumSets, Block(line[2]) \div NumSets>>
ShownResident == [k \in SetIndex |-> Content(sets[k])]
ShownCount ==
  [load_hits |-> stats.load_hits, load_misses |-> stats.load_misses,
   store_hits |-> stats.store_hits, store_misses |-> stats.store_misses]
ShownTags == {Block(a) \div NumSets : a \in Address}

LEMMA ReadShows ==
  ASSUME Sized, NEW ls, NEW a \in Address, Read(ls, a)
  PROVE ShownAccess' = <<ls, Index(a), Tag(a)>>
<1>1. line' = <<ls, a>> /\ line' # NoLine
  BY DEF Read, NoLine
<1>2. Index(a) = Block(a) % NumSets /\ Tag(a) = Block(a) \div NumSets
  BY AddressFields
<1>3. Block(line[2])' = Block(a)
  BY <1>1 DEF Block
<1> QED
  BY <1>1, <1>2, <1>3 DEF ShownAccess, NoLine

LEMMA LoadImplements ==
  ASSUME Sized, NoWrap, CacheInv, HitsInv, NEW a \in Address, Load(a)
  PROVE Contract!Next
<1> DEFINE i == Index(a)
<1> DEFINE t == Tag(a)
<1> DEFINE s == sets[i]
<1> DEFINE c == IF Matching(s, t) # {} THEN Contract!Use(Content(s), t)
                ELSE Contract!Bring(Content(s), t)
<1>1. i \in SetIndex /\ t \in Unsigned /\ t \in ShownTags
  BY AddressFields DEF ShownTags
<1>2. lru' = lru /\ wa' = wa
  BY DEF Load
<1>3. ShownAccess' = <<"l", i, t>>
  BY ReadShows DEF Load
<1>4. sets \in [SetIndex -> SetType] /\ s \in SetType /\ Good(s)
  BY <1>1, CacheInvFacts
<1>5. s.access_ts_counter + 1 < CounterMod /\ s.load_ts_counter + 1 < CounterMod
  BY <1>1, CacheInvFacts, OneMoreAccess, SizesAreNumbers DEF NoWrap
<1>6. Content(LoadSet(s, t)) = c
  BY <1>1, <1>4, <1>5, LoadSetContent
<1>7. ShownResident' = [ShownResident EXCEPT ![i] = c]
  <2>1. sets' = [sets EXCEPT ![i] = LoadSet(s, t)]
    BY DEF Load
  <2> HIDE DEF i, t, s, c
  <2>2. ShownResident' = [ShownResident EXCEPT ![i] = Content(LoadSet(s, t))]
    BY <1>1, <1>2, <1>4, <2>1, ResidentBecomes DEF ShownResident
  <2> QED
    BY <1>6, <2>2
<1>8. ShownResident[i] = Content(s)
  BY <1>1 DEF ShownResident
<1>9. /\ stats'.load_hits = IF Misses(s, t) THEN stats.load_hits ELSE stats.load_hits + 1
      /\ stats'.load_misses = IF Misses(s, t) THEN stats.load_misses + 1 ELSE stats.load_misses
      /\ stats'.store_hits = stats.store_hits
      /\ stats'.store_misses = stats.store_misses
  BY HitsAreCounted
<1> HIDE DEF i, t, s
<1>10. CASE Matching(s, t) # {}
  <2>1. ShownCount' = [ShownCount EXCEPT !.load_hits = @ + 1]
    BY <1>9, <1>10 DEF ShownCount, Misses
  <2>2. t \in ShownResident[i].tags
    BY <1>8, <1>10, HeldMatches
  <2>3. ShownResident' = [ShownResident EXCEPT ![i] = Contract!Use(ShownResident[i], t)]
    BY <1>7, <1>8, <1>10
  <2>4. Contract!LoadHit(i, t)
    BY <1>3, <2>1, <2>2, <2>3
       DEF Contract!LoadHit, Contract!Holds, Contract!SetBecomes, Contract!Counted,
           ShownAccess, ShownResident, ShownCount
  <2> QED
    BY <1>1, <1>2, <2>4 DEF Contract!Next, ShownTags
<1>11. CASE Matching(s, t) = {}
  <2>1. ShownCount' = [ShownCount EXCEPT !.load_misses = @ + 1]
    BY <1>9, <1>11 DEF ShownCount, Misses
  <2>2. t \notin ShownResident[i].tags
    BY <1>8, <1>11, HeldMatches
  <2>3. ShownResident' = [ShownResident EXCEPT ![i] = Contract!Bring(ShownResident[i], t)]
    BY <1>7, <1>8, <1>11
  <2>4. Contract!LoadMiss(i, t)
    BY <1>3, <2>1, <2>2, <2>3
       DEF Contract!LoadMiss, Contract!Holds, Contract!SetBecomes, Contract!Counted,
           ShownAccess, ShownResident, ShownCount
  <2> QED
    BY <1>1, <1>2, <2>4 DEF Contract!Next, ShownTags
<1> QED
  BY <1>10, <1>11

LEMMA StoreImplements ==
  ASSUME Sized, NoWrap, CacheInv, HitsInv, NEW a \in Address, Store(a)
  PROVE Contract!Next
<1> DEFINE i == Index(a)
<1> DEFINE t == Tag(a)
<1> DEFINE s == sets[i]
<1> DEFINE c == IF Matching(s, t) # {} THEN Contract!Use(Content(s), t)
                ELSE IF wa THEN Contract!Bring(Content(s), t) ELSE Content(s)
<1>1. i \in SetIndex /\ t \in Unsigned /\ t \in ShownTags
  BY AddressFields DEF ShownTags
<1>2. lru' = lru /\ wa' = wa
  BY DEF Store
<1>3. ShownAccess' = <<"s", i, t>>
  BY ReadShows DEF Store
<1>4. sets \in [SetIndex -> SetType] /\ s \in SetType /\ Good(s)
  BY <1>1, CacheInvFacts
<1>5. s.access_ts_counter + 2 < CounterMod /\ s.load_ts_counter + 1 < CounterMod
  BY <1>1, CacheInvFacts, OneMoreAccess, SizesAreNumbers DEF NoWrap
<1>6. Content(StoreSet(s, t)) = c
  BY <1>1, <1>4, <1>5, StoreSetContent
<1>7. ShownResident' = [ShownResident EXCEPT ![i] = c]
  <2>1. sets' = [sets EXCEPT ![i] = StoreSet(s, t)]
    BY DEF Store
  <2> HIDE DEF i, t, s, c
  <2>2. ShownResident' = [ShownResident EXCEPT ![i] = Content(StoreSet(s, t))]
    BY <1>1, <1>2, <1>4, <2>1, ResidentBecomes DEF ShownResident
  <2> QED
    BY <1>6, <2>2
<1>8. ShownResident[i] = Content(s)
  BY <1>1 DEF ShownResident
<1>9. /\ stats'.load_hits = stats.load_hits
      /\ stats'.load_misses = stats.load_misses
      /\ stats'.store_hits = IF Misses(s, t) THEN stats.store_hits ELSE stats.store_hits + 1
      /\ stats'.store_misses = IF Misses(s, t) THEN stats.store_misses + 1 ELSE stats.store_misses
  BY HitsAreCounted
<1> HIDE DEF i, t, s
<1>10. CASE Matching(s, t) # {}
  <2>1. ShownCount' = [ShownCount EXCEPT !.store_hits = @ + 1]
    BY <1>9, <1>10 DEF ShownCount, Misses
  <2>2. t \in ShownResident[i].tags
    BY <1>8, <1>10, HeldMatches
  <2>3. ShownResident' = [ShownResident EXCEPT ![i] = Contract!Use(ShownResident[i], t)]
    BY <1>7, <1>8, <1>10
  <2>4. Contract!StoreHit(i, t)
    BY <1>3, <2>1, <2>2, <2>3
       DEF Contract!StoreHit, Contract!Holds, Contract!SetBecomes, Contract!Counted,
           ShownAccess, ShownResident, ShownCount
  <2> QED
    BY <1>1, <1>2, <2>4 DEF Contract!Next, ShownTags
<1>11. CASE Matching(s, t) = {}
  <2>1. ShownCount' = [ShownCount EXCEPT !.store_misses = @ + 1]
    BY <1>9, <1>11 DEF ShownCount, Misses
  <2>2. t \notin ShownResident[i].tags
    BY <1>8, <1>11, HeldMatches
  <2>3. ShownResident' = [ShownResident EXCEPT
          ![i] = IF wa THEN Contract!Bring(ShownResident[i], t) ELSE ShownResident[i]]
    BY <1>7, <1>8, <1>11
  <2>4. Contract!StoreMiss(i, t)
    BY <1>3, <2>1, <2>2, <2>3
       DEF Contract!StoreMiss, Contract!Holds, Contract!SetBecomes, Contract!Counted,
           ShownAccess, ShownResident, ShownCount
  <2> QED
    BY <1>1, <1>2, <2>4 DEF Contract!Next, ShownTags
<1> QED
  BY <1>10, <1>11

LEMMA InitImplements ==
  ASSUME Sized, Init
  PROVE Contract!Init
<1>1. \A k \in SetIndex : Content(sets[k]) = [tags |-> {}, newer |-> {}]
  <2>1. Valid(EmptySet) = {}
    BY DEF Valid, EmptySet, EmptyBlock
  <2>2. \A k \in SetIndex : Valid(sets[k]) = {}
    BY <2>1 DEF Init
  <2> QED
    BY <2>2 DEF Content, TagsIn
<1>2. ShownResident = [k \in SetIndex |-> [tags |-> {}, newer |-> {}]]
  BY <1>1 DEF ShownResident
<1>3. ShownAccess = << >>
  BY DEF ShownAccess, Init, NoLine
<1>4. ShownCount = [load_hits |-> 0, load_misses |-> 0, store_hits |-> 0, store_misses |-> 0]
  BY DEF ShownCount, Init, NoStats
<1>5. lru \in BOOLEAN /\ wa \in BOOLEAN
  BY DEF Init
<1> QED
  BY <1>2, <1>3, <1>4, <1>5 DEF Contract!Init, ShownResident, ShownAccess, ShownCount

LEMMA StutterImplements ==
  ASSUME UNCHANGED vars
  PROVE UNCHANGED Contract!cvars
<1>1. ShownResident' = ShownResident
  BY DEF ShownResident, Content, TagsIn, Newer, Valid, vars
<1>2. ShownAccess' = ShownAccess /\ ShownCount' = ShownCount /\ lru' = lru /\ wa' = wa
  BY DEF ShownAccess, ShownCount, Block, vars
<1> QED
  BY <1>1, <1>2 DEF Contract!cvars, ShownResident, ShownAccess, ShownCount

(* The hits and misses reported are those of a cache without timestamps    *)
(* that evicts the block not accessed the longest (lru) or there the       *)
(* longest (fifo), and that a store miss without write-allocate leaves     *)
(* alone (main.cpp 20, 25 and 26).                                         *)
THEOREM ImplementsContract == Sized /\ NoWrap => (Spec => KeepsContract)
<1> SUFFICES ASSUME Sized, NoWrap PROVE Spec => KeepsContract
  OBVIOUS
<1>1. Init => CacheInv /\ HitsInv /\ Contract!Init
  <2>1. Init => HitsInv
    BY DEF Init, NoStats, HitsInv, Accesses
  <2> QED
    BY <2>1, InitCacheInv, InitImplements
<1>2. CacheInv /\ [Next]_vars => CacheInv'
  BY CacheInvStep
<1>3. CacheInv /\ HitsInv /\ [Next]_vars => HitsInv'
  <2>1. HitsInv /\ UNCHANGED vars => HitsInv'
    BY DEF HitsInv, Accesses, vars
  <2> QED
    BY <2>1, HitsAreCounted DEF Next
<1>4. CacheInv /\ HitsInv /\ [Next]_vars => [Contract!Next]_(Contract!cvars)
  BY LoadImplements, StoreImplements, StutterImplements DEF Next
<1> QED
  BY <1>1, <1>2, <1>3, <1>4, PTL DEF Spec, KeepsContract, Contract!Spec

-----------------------------------------------------------------------------
(* What an access does to the content of the sets with lru: the facts that *)
(* the comparison of two caches needs.                                     *)

(* A set that is brought a block evicts its oldest one when it is full.    *)
LEMMA BringEvicts ==
  ASSUME Sized, NEW s \in SetType, Tidy(s), NEW t
  PROVE LET c == Content(s) IN
        /\ s.filled # BlocksPerSet => Contract!Bring(c, t) = Contract!WithNewest(c, t)
        /\ s.filled = BlocksPerSet =>
             \E o \in c.tags :
               /\ \A w \in c.tags \ {o} : <<w, o>> \in c.newer
               /\ Contract!Bring(c, t) = Contract!WithNewest(Contract!Without(c, o), t)
<1> DEFINE c == Content(s)
<1>1. c.tags = TagsIn(s) /\ Contract!Cardinality(c.tags) = s.filled
  <2>1. c.tags = TagsIn(s)
    BY DEF Content
  <2> HIDE DEF c
  <2> QED
    BY <2>1, TagsCounted, ContractCounts
<1>2. CASE s.filled # BlocksPerSet
  <2> HIDE DEF c
  <2>1. Contract!Bring(c, t) = Contract!WithNewest(c, t)
    BY <1>1, <1>2 DEF Contract!Bring
  <2> QED
    BY <1>2, <2>1 DEF c
<1>3. CASE s.filled = BlocksPerSet
  <2> DEFINE o == s.blocks[Victim(s)].tag
  <2>1. Empties(s) = {}
    BY <1>3, VictimIsNext, SizesAreNumbers DEF Tidy
  <2>2. /\ o \in c.tags
        /\ \A w \in c.tags \ {o} : <<w, o>> \in c.newer
        /\ Contract!Oldest(c) = o
    BY <1>1, <2>1, OldestOfFull
  <2> HIDE DEF o, c
  <2>3. Contract!Bring(c, t) = Contract!WithNewest(Contract!Without(c, o), t)
    BY <1>1, <1>3, <2>2 DEF Contract!Bring
  <2> QED
    BY <1>3, <2>2, <2>3 DEF c
<1> QED
  BY <1>2, <1>3

LEMMA LruAccess ==
  ASSUME Sized, NoWrap, CacheInv, NEW a \in Address, Load(a) \/ Store(a), lru
  PROVE LET i == Index(a)  t == Tag(a)  c == Content(sets[i]) IN
        /\ i \in SetIndex
        /\ \A k \in SetIndex \ {i} : sets'[k] = sets[k]
        /\ t \in c.tags => Content(sets'[i]) = Contract!WithNewest(c, t)
        /\ t \notin c.tags /\ (line'[1] = "l" \/ wa) =>
             Content(sets'[i]) = Contract!Bring(c, t)
        /\ t \notin c.tags /\ ~(line'[1] = "l" \/ wa) => Content(sets'[i]) = c
        /\ sets[i].filled = BlocksPerSet => sets'[i].filled = BlocksPerSet
<1> DEFINE i == Index(a)
<1> DEFINE t == Tag(a)
<1> DEFINE s == sets[i]
<1>1. i \in SetIndex /\ t \in Unsigned
  BY AddressFields
<1>2. sets \in [SetIndex -> SetType] /\ s \in SetType /\ Good(s) /\ Filled(s)
  BY <1>1, CacheInvFacts
<1>3. /\ s.access_ts_counter + 1 < CounterMod /\ s.access_ts_counter + 2 < CounterMod
      /\ s.load_ts_counter + 1 < CounterMod
  BY <1>1, CacheInvFacts, OneMoreAccess, SizesAreNumbers DEF NoWrap
<1>4. t \in Content(s).tags <=> Matching(s, t) # {}
  BY HeldMatches
<1>5. Contract!Use(Content(s), t) = Contract!WithNewest(Content(s), t)
  BY DEF Contract!Use
<1>6. CASE Load(a)
  <2>1. sets' = [sets EXCEPT ![i] = LoadSet(s, t)] /\ line'[1] = "l"
    BY <1>6 DEF Load, Read
  <2>2. Content(LoadSet(s, t)) = IF Matching(s, t) # {}
                                 THEN Contract!Use(Content(s), t)
                                 ELSE Contract!Bring(Content(s), t)
    BY <1>1, <1>2, <1>3, LoadSetContent
  <2>3. s.filled = BlocksPerSet => LoadSet(s, t).filled = BlocksPerSet
    BY <1>1, <1>2, LoadSetStaysFull
  <2> HIDE DEF i, t
  <2>4. sets'[i] = LoadSet(s, t) /\ \A k \in SetIndex \ {i} : sets'[k] = sets[k]
    BY <1>1, <1>2, <2>1
  <2> HIDE DEF s
  <2> QED
    BY <1>1, <1>4, <1>5, <2>1, <2>2, <2>3, <2>4 DEF i, t, s
<1>7. CASE Store(a)
  <2>1. sets' = [sets EXCEPT ![i] = StoreSet(s, t)] /\ line'[1] = "s"
    BY <1>7 DEF Store, Read
  <2>2. Content(StoreSet(s, t)) = IF Matching(s, t) # {}
                                  THEN Contract!Use(Content(s), t)
                                  ELSE IF wa THEN Contract!Bring(Content(s), t)
                                  ELSE Content(s)
    BY <1>1, <1>2, <1>3, StoreSetContent
  <2>3. s.filled = BlocksPerSet => StoreSet(s, t).filled = BlocksPerSet
    BY <1>1, <1>2, StoreSetStaysFull
  <2> HIDE DEF i, t
  <2>4. sets'[i] = StoreSet(s, t) /\ \A k \in SetIndex \ {i} : sets'[k] = sets[k]
    BY <1>1, <1>2, <2>1
  <2> HIDE DEF s
  <2> QED
    BY <1>1, <1>4, <1>5, <2>1, <2>2, <2>3, <2>4 DEF i, t, s
<1> QED
  BY <1>6, <1>7
=============================================================================
