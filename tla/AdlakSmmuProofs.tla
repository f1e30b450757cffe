---------------------------- MODULE AdlakSmmuProofs ----------------------------
(***************************************************************************)
(* SmmuInv is an invariant of AdlakSmmu for any address space, contexts   *)
(* and handles, in the plain case, Allow = {}.                             *)
(***************************************************************************)
EXTENDS AdlakSmmu, FiniteSetTheorems, WellFoundedInduction, TLAPS

-----------------------------------------------------------------------------
(* The allocators. *)

Before == {ss \in Nat \X Nat : ss[1] < ss[2]}

LEMMA BeforeIsWellFounded == IsWellFoundedOn(Before, Nat)
BY NatLessThanWellFounded DEF OpToRel, Before

Counts(p, q, m, k) ==
  q \in [bits : {Bits}, map : SUBSET Page, used : Int] /\ q.map = m /\ q.used = p.used + k

LEMMA CountsIs ==
  ASSUME NEW p \in Pools, NEW q, NEW M \in SUBSET Page, NEW k \in Int,
         q = [p EXCEPT !.map = M, !.used = p.used + k]
  PROVE  Counts(p, q, M, k)
<1>1. p.used \in Int /\ p.used + k \in Int
  BY SmmuAssumption DEF Pools
<1>2. \A u \in Int : LET r == [p EXCEPT !.map = M, !.used = u] IN
        r \in [bits : {Bits}, map : SUBSET Page, used : Int] /\ r.map = M /\ r.used = u
  BY DEF Pools
<1> QED BY <1>1, <1>2 DEF Counts

LEMMA TakeIs ==
  ASSUME NEW p \in Pools, NEW s, NEW n \in Nat, Run(s, n) \subseteq Page
  PROVE  Counts(p, Take(p, s, n), p.map \cup Run(s, n), n)
<1>1. Take(p, s, n) = [p EXCEPT !.map = p.map \cup Run(s, n), !.used = p.used + n]
  BY DEF Take
<1>2. p.map \cup Run(s, n) \in SUBSET Page /\ n \in Int
  BY DEF Pools
<1> QED BY <1>1, <1>2, CountsIs

LEMMA MarkIs ==
  ASSUME NEW p \in Pools, NEW s, s # Invalid, NEW n \in Nat, Run(s, n) \subseteq Page
  PROVE  Counts(p, Mark(p, s, n), p.map \cup Run(s, n), -n)
<1>1. Mark(p, s, n) = [p EXCEPT !.map = p.map \cup Run(s, n), !.used = p.used + (-n)]
  <2>1. p.used - n = p.used + (-n)
    BY SmmuAssumption DEF Pools
  <2> QED BY <2>1 DEF Mark
<1>2. p.map \cup Run(s, n) \in SUBSET Page /\ -n \in Int
  BY DEF Pools
<1> QED BY <1>1, <1>2, CountsIs

LEMMA ReleaseIs ==
  ASSUME NEW p \in Pools, NEW s, s # Invalid, NEW n \in Nat
  PROVE  Counts(p, Release(p, s, n), p.map \ Run(s, n), -n)
<1>1. Release(p, s, n) = [p EXCEPT !.map = p.map \ Run(s, n), !.used = p.used + (-n)]
  <2>1. p.used - n = p.used + (-n)
    BY SmmuAssumption DEF Pools
  <2> QED BY <2>1 DEF Release
<1>2. p.map \ Run(s, n) \in SUBSET Page /\ -n \in Int
  BY DEF Pools
<1> QED BY <1>1, <1>2, CountsIs

(* Every set of pages has a lowest one...                                   *)
LEMMA LeastIs ==
  ASSUME NEW S \in SUBSET Nat, S # {}
  PROVE  Least(S) \in S
<1>1. PICK x \in S : \A y \in S : ~(<<y, x>> \in Before)
  BY BeforeIsWellFounded, WFMin
<1>2. ASSUME NEW y \in S PROVE x <= y
  <2>1. y \in Nat /\ x \in Nat
    OBVIOUS
  <2>2. ~(y < x)
    BY <1>1, <2>1 DEF Before
  <2> QED BY <2>1, <2>2
<1> QED BY <1>2 DEF Least

(* ... and a highest one, if the pages end.                                 *)
LEMMA GreatestIs ==
  ASSUME NEW b \in Nat, NEW S \in SUBSET (0 .. b), S # {}
  PROVE  Greatest(S) \in S
<1> DEFINE R == {b - x : x \in S}
<1>1. R \in SUBSET Nat /\ R # {}
  <2>1. PICK x \in S : TRUE
    OBVIOUS
  <2>2. b - x \in R
    OBVIOUS
  <2>3. ASSUME NEW y \in S PROVE b - y \in Nat
    OBVIOUS
  <2> QED BY <2>2, <2>3
<1>2. PICK r \in R : \A y \in R : ~(<<y, r>> \in Before)
  BY <1>1, BeforeIsWellFounded, WFMin
<1>3. PICK x \in S : r = b - x
  OBVIOUS
<1>4. ASSUME NEW y \in S PROVE y <= x
  <2>1. b - y \in R /\ b - y \in Nat /\ b - x \in Nat /\ y \in Nat /\ x \in Nat
    OBVIOUS
  <2>2. ~(b - y < b - x)
    BY <1>2, <1>3, <2>1 DEF Before
  <2> QED BY <2>1, <2>2
<1> QED BY <1>4 DEF Greatest

(* What both scans give: nothing, or a run of free pages.                   *)
Gives(got, p, n) ==
  \/ got.at = Invalid /\ got.pool = p
  \/ /\ got.at \in 0 .. (Bits - n)
     /\ Run(got.at, n) \cap p.map = {}
     /\ got.pool = Take(p, got.at, n)

LEMMA FirstFitIs ==
  ASSUME NEW p \in Pools, NEW n \in Nat
  PROVE  Gives(FirstFit(p, n), p, n)
<1>1. CASE Refused(p, n) \/ Gaps(p, n) = {}
  BY <1>1 DEF FirstFit, NotGranted, Gives
<1>2. CASE ~(Refused(p, n) \/ Gaps(p, n) = {})
  <2>1. Gaps(p, n) \in SUBSET Nat
    BY SmmuAssumption DEF Gaps, Pools
  <2>2. Least(Gaps(p, n)) \in Gaps(p, n)
    BY <1>2, <2>1, LeastIs
  <2> QED BY <1>2, <2>2 DEF FirstFit, Granted, Gaps, Gives, Pools
<1> QED BY <1>1, <1>2

LEMMA LastFitIs ==
  ASSUME NEW p \in Pools, NEW n \in Nat
  PROVE  Gives(LastFit(p, n), p, n)
<1>1. CASE Refused(p, n) \/ HighestGap(p, n) = Invalid
  BY <1>1 DEF LastFit, NotGranted, Gives
<1>2. CASE ~(Refused(p, n) \/ HighestGap(p, n) = Invalid)
  <2>1. Gaps(p, n) # {} /\ HighestGap(p, n) = Greatest(Gaps(p, n))
    BY <1>2 DEF HighestGap
  <2>2. Gaps(p, n) \in SUBSET (0 .. Bits) /\ Bits \in Nat
    BY SmmuAssumption DEF Gaps, Pools
  <2>3. Greatest(Gaps(p, n)) \in Gaps(p, n)
    BY <2>1, <2>2, GreatestIs
  <2> QED BY <1>2, <2>1, <2>3 DEF LastFit, Granted, Gaps, Gives, Pools
<1> QED BY <1>1, <1>2

LEMMA RunIs ==
  ASSUME NEW s \in Int, NEW n \in Int
  PROVE  Run(s, n) \in SUBSET Int /\ \A x : x \in Run(s, n) <=> x \in Int /\ s <= x /\ x < s + n
BY DEF Run

(* A run within the address space is counted by its length.                 *)
LEMMA RunCount ==
  ASSUME NEW s \in Int, NEW n \in Nat
  PROVE  IsFiniteSet(Run(s, n)) /\ Cardinality(Run(s, n)) = n
<1>1. IsFiniteSet(s .. (s + n - 1))
      /\ Cardinality(s .. (s + n - 1)) = IF s > s + n - 1 THEN 0 ELSE (s + n - 1) - s + 1
  BY FS_Interval
<1> QED BY <1>1 DEF Run

LEMMA PagesFinite ==
  ASSUME NEW S \in SUBSET Page
  PROVE  IsFiniteSet(S) /\ Cardinality(S) \in 0 .. Bits
<1>1. IsFiniteSet(Page) /\ Cardinality(Page) = Bits
  <2>1. IsFiniteSet(0 .. (Bits - 1)) /\ Cardinality(0 .. (Bits - 1))
          = IF 0 > Bits - 1 THEN 0 ELSE (Bits - 1) - 0 + 1
    BY SmmuAssumption, FS_Interval
  <2> QED BY <2>1, SmmuAssumption DEF Page
<1>2. IsFiniteSet(S) /\ Cardinality(S) <= Cardinality(Page) /\ Cardinality(S) \in Nat
  BY <1>1, FS_Subset, FS_CardinalityType
<1> QED BY <1>1, <1>2, SmmuAssumption

(* A run of new pages counts in full, and one that goes, too.               *)
LEMMA MorePages ==
  ASSUME NEW S \in SUBSET Page, NEW s \in Int, NEW n \in Nat,
         Run(s, n) \subseteq Page, Run(s, n) \cap S = {}
  PROVE  Cardinality(S \cup Run(s, n)) = Cardinality(S) + n
<1>1. IsFiniteSet(S) /\ Cardinality(S) \in Nat
  BY PagesFinite
<1>2. Cardinality(S \cup Run(s, n))
        = Cardinality(S) + Cardinality(Run(s, n)) - Cardinality(S \cap Run(s, n))
  BY <1>1, RunCount, FS_Union
<1>3. Cardinality(S \cap Run(s, n)) = 0
  BY FS_EmptySet
<1> QED BY <1>1, <1>2, <1>3, RunCount

LEMMA LessPages ==
  ASSUME NEW S \in SUBSET Page, NEW s \in Int, NEW n \in Nat, Run(s, n) \subseteq S
  PROVE  Cardinality(S \ Run(s, n)) = Cardinality(S) - n
<1>1. IsFiniteSet(S) /\ S \cap Run(s, n) = Run(s, n)
  BY PagesFinite
<1>2. Cardinality(S \ Run(s, n)) = Cardinality(S) - Cardinality(S \cap Run(s, n))
  BY <1>1, FS_Difference
<1> QED BY <1>1, <1>2, RunCount

-----------------------------------------------------------------------------
(* Table objects. *)

Handles == Handle \cup {PublicQueue}

(* Pages are written one by one.                                            *)
LEMMA WriteIs ==
  ASSUME NEW c \in Translations, NEW at \in Int, NEW n \in Nat,
         NEW h \in Handles \cup {NoHandle}
  PROVE  Write(c, at, n, h) \in Translations
BY DEF Write, Translations, Handles

LEMMA WriteAt ==
  ASSUME NEW c \in Translations, NEW at, NEW n, NEW h, NEW p \in Page
  PROVE  Write(c, at, n, h)[p] = IF p \in Run(at, n) THEN h ELSE c[p]
BY DEF Write, Translations

(* The fields of an object that is written.                                 *)
LEMMA TlbAddIs ==
  ASSUME NEW t \in Objects, NEW v, NEW at, NEW n, NEW h,
         NEW s, s = [t EXCEPT !.pool = v], NEW u, u = TlbAdd(s, at, n, h)
  PROVE  /\ u.live = t.live /\ u.pool = v /\ u.cpu = Write(t.cpu, at, n, h)
         /\ u.dirty = t.dirty \cup Run(at, n)
         /\ v \in Pools /\ u.cpu \in Translations /\ u.dirty \in SUBSET Page
              => u \in Objects
<1>1. s.cpu = t.cpu /\ s.dirty = t.dirty /\ s.live = t.live /\ s.pool = v
  BY DEF Objects
<1>2. s \in [live : BOOLEAN, pool : {v}, cpu : Translations, dirty : SUBSET Page]
  BY DEF Objects
<1>3. /\ u.live = s.live /\ u.pool = s.pool /\ u.cpu = Write(s.cpu, at, n, h)
      /\ u.dirty = s.dirty \cup Run(at, n)
  BY <1>2 DEF TlbAdd
<1>4. v \in Pools /\ u.cpu \in Translations /\ u.dirty \in SUBSET Page => u \in Objects
  BY <1>2, <1>3 DEF TlbAdd, Objects
<1> QED BY <1>1, <1>3, <1>4

(* A new buffer takes free pages of the pool and the table.                 *)
Added(t, u, at, n, h) ==
  /\ u \in Objects /\ PoolAgrees(u)
  /\ u.live = t.live
  /\ u.cpu = Write(t.cpu, at, n, h)
  /\ u.dirty = t.dirty \cup Run(at, n)

LEMMA AddIs ==
  ASSUME NEW t \in Objects, PoolAgrees(t), NEW at \in Page, NEW n \in Nat,
         NEW h \in Handles, Run(at, n) \subseteq Page, Run(at, n) \cap t.pool.map = {},
         NEW q, q \in [bits : {Bits}, map : SUBSET Page, used : Int],
         q.map = t.pool.map \cup Run(at, n), q.used <= t.pool.used + n
  PROVE  Added(t, TlbAdd([t EXCEPT !.pool = Counted(q)], at, n, h), at, n, h)
<1> DEFINE u == TlbAdd([t EXCEPT !.pool = Counted(q)], at, n, h)
<1>1. at \in Int /\ t.cpu \in Translations /\ t.pool \in Pools /\ t.dirty \in SUBSET Page
      /\ t.live \in BOOLEAN /\ Bits \in Nat
  BY SmmuAssumption DEF Page, Objects
<1>2. Write(t.cpu, at, n, h) \in Translations
  BY <1>1, WriteIs
<1> DEFINE s == [t EXCEPT !.pool = Counted(q)]
<1>3. s = [t EXCEPT !.pool = Counted(q)] /\ u = TlbAdd(s, at, n, h)
  OBVIOUS
<1> HIDE DEF s
<1> HIDE DEF u
<1> DEFINE v == Counted(q)
<1>14. s = [t EXCEPT !.pool = v] /\ u = TlbAdd(s, at, n, h) /\ v = Counted(q)
  BY <1>3
<1> HIDE DEF v
<1>13. /\ u.live = t.live /\ u.pool = v /\ u.cpu = Write(t.cpu, at, n, h)
       /\ u.dirty = t.dirty \cup Run(at, n)
       /\ v \in Pools /\ u.cpu \in Translations /\ u.dirty \in SUBSET Page => u \in Objects
  BY <1>14, TlbAddIs
<1>4. Mapped(u) = Mapped(t) \cup Run(at, n)
  <2>1. h # NoHandle
    BY NamesAssumption DEF Handles
  <2>2. \A p \in Page : u.cpu[p] = IF p \in Run(at, n) THEN h ELSE t.cpu[p]
    BY <1>1, <1>13, WriteAt
  <2> QED BY <2>1, <2>2 DEF Mapped
<1>5. Run(at, n) \cap Mapped(t) = {} /\ Run(at, n) \cap Excluded = {}
  BY DEF PoolAgrees
<1>6. Cardinality(Mapped(u)) = Cardinality(Mapped(t)) + n
  BY <1>1, <1>4, <1>5, MorePages DEF Mapped
<1>7. Cardinality(Mapped(u)) \in 0 .. Bits /\ Cardinality(Mapped(t)) \in 0 .. Bits
  BY PagesFinite DEF Mapped
<1>8. q.used \in Int /\ t.pool.used \in Int
  BY <1>1 DEF Pools
<1>9. q.used <= Cardinality(Mapped(u))
  BY <1>1, <1>6, <1>7, <1>8 DEF PoolAgrees
<1>10. Counted(q) \in Pools /\ Counted(q).map = q.map
       /\ Counted(q).used <= Cardinality(Mapped(u))
  BY <1>1, <1>7, <1>8, <1>9 DEF Counted, Pools
<1>11. u \in Objects
  BY <1>1, <1>2, <1>10, <1>13, <1>14
<1>12. PoolAgrees(u)
  BY <1>13, <1>14, <1>4, <1>5, <1>10 DEF PoolAgrees
<1> QED BY <1>14, <1>13, <1>11, <1>12 DEF Added

(* A buffer that goes frees its pages in the pool and the table.            *)
Removed(t, u, at, n) ==
  /\ u \in Objects /\ PoolAgrees(u)
  /\ u.live = t.live
  /\ u.cpu = Write(t.cpu, at, n, NoHandle)
  /\ u.dirty = t.dirty \ Run(at, n)

LEMMA TlbDelIs ==
  ASSUME NEW t \in Objects, NEW v, NEW at, NEW n,
         NEW s, s = [t EXCEPT !.pool = v], NEW u, u = TlbDel(s, at, n)
  PROVE  /\ u.live = t.live /\ u.pool = v /\ u.cpu = Write(t.cpu, at, n, NoHandle)
         /\ u.dirty = t.dirty \ Run(at, n)
         /\ v \in Pools /\ u.cpu \in Translations /\ u.dirty \in SUBSET Page
              => u \in Objects
<1>1. s.cpu = t.cpu /\ s.dirty = t.dirty /\ s.live = t.live /\ s.pool = v
  BY DEF Objects
<1>2. s \in [live : BOOLEAN, pool : {v}, cpu : Translations, dirty : SUBSET Page]
  BY DEF Objects
<1>3. /\ u.live = s.live /\ u.pool = s.pool /\ u.cpu = Write(s.cpu, at, n, NoHandle)
      /\ u.dirty = s.dirty \ Run(at, n)
  BY <1>2 DEF TlbDel
<1>4. v \in Pools /\ u.cpu \in Translations /\ u.dirty \in SUBSET Page => u \in Objects
  BY <1>2, <1>3 DEF TlbDel, Objects
<1> QED BY <1>1, <1>3, <1>4

LEMMA UnmapIs ==
  ASSUME NEW t \in Objects, PoolAgrees(t), NEW b, b.at \in Page, b.n \in Nat,
         Run(b.at, b.n) \subseteq Mapped(t)
  PROVE  Removed(t, UnmapPages(t, b), b.at, b.n)
<1> DEFINE at == b.at
           n == b.n
           q == Release(t.pool, at, n)
           v == Counted(q)
           s == [t EXCEPT !.pool = v]
           u == TlbDel(s, at, n)
<1>1. UnmapPages(t, b) = u
  <2>1. [t EXCEPT !.pool = Counted(Release(@, b.at, b.n))] = s
    BY DEF Objects
  <2> QED BY <2>1 DEF UnmapPages
<1>2. /\ q = Release(t.pool, at, n) /\ v = Counted(q) /\ s = [t EXCEPT !.pool = v]
      /\ u = TlbDel(s, at, n) /\ at = b.at /\ n = b.n
  OBVIOUS
<1> HIDE DEF at, n, q, v, s, u
<1>3. at \in Page /\ at \in Int /\ n \in Nat /\ t.cpu \in Translations /\ t.pool \in Pools
      /\ t.dirty \in SUBSET Page /\ t.live \in BOOLEAN /\ Bits \in Nat
  BY <1>2, SmmuAssumption DEF Page, Objects
<1>4. /\ u.live = t.live /\ u.pool = v /\ u.cpu = Write(t.cpu, at, n, NoHandle)
      /\ u.dirty = t.dirty \ Run(at, n)
      /\ v \in Pools /\ u.cpu \in Translations /\ u.dirty \in SUBSET Page => u \in Objects
  BY <1>2, TlbDelIs
<1>5. Mapped(u) = Mapped(t) \ Run(at, n)
  <2>1. \A p \in Page : u.cpu[p] = IF p \in Run(at, n) THEN NoHandle ELSE t.cpu[p]
    BY <1>3, <1>4, WriteAt
  <2> QED BY <2>1 DEF Mapped
<1>6. Cardinality(Mapped(u)) = Cardinality(Mapped(t)) - n
  BY <1>2, <1>3, <1>5, LessPages DEF Mapped
<1>7. Cardinality(Mapped(u)) \in 0 .. Bits /\ Cardinality(Mapped(t)) \in 0 .. Bits
  BY PagesFinite DEF Mapped
<1>8. /\ q \in [bits : {Bits}, map : SUBSET Page, used : Int]
      /\ q.map = t.pool.map \ Run(at, n) /\ q.used = t.pool.used - n
  <2>1. at # Invalid
    BY <1>3 DEF Invalid, Page
  <2>2. t.pool.used + (-n) = t.pool.used - n
    BY <1>3 DEF Pools
  <2>3. Counts(t.pool, Release(t.pool, at, n), t.pool.map \ Run(at, n), -n)
    BY <1>3, <2>1, ReleaseIs
  <2> QED BY <1>2, <2>2, <2>3 DEF Counts
<1>9. q.used <= Cardinality(Mapped(u))
  BY <1>3, <1>6, <1>7, <1>8 DEF PoolAgrees, Pools
<1>10. v \in Pools /\ v.map = q.map /\ v.used <= Cardinality(Mapped(u))
  BY <1>2, <1>3, <1>7, <1>8, <1>9 DEF Counted, Pools
<1>11. Write(t.cpu, at, n, NoHandle) \in Translations
  BY <1>3, WriteIs
<1>12. u \in Objects
  BY <1>3, <1>4, <1>10, <1>11
<1>13. PoolAgrees(u)
  BY <1>2, <1>4, <1>5, <1>8, <1>10 DEF PoolAgrees
<1> QED BY <1>1, <1>2, <1>4, <1>12, <1>13 DEF Removed

(* A buffer is entered in a table: it gets free pages, or those at its      *)
(* address, which are free, too.                                            *)
LEMMA IovaMapIs ==
  ASSUME NEW t \in Objects, PoolAgrees(t), NEW h \in Handles, NEW b, b.n \in Nat \ {0},
         \/ b.at = Invalid
         \/ b.at \in Page /\ Run(b.at, b.n) \subseteq Page \ t.pool.map
  PROVE  LET r == IovaMap(t, b, h) IN
         \/ b.at = Invalid /\ r.at = Invalid /\ r.table = t
         \/ /\ r.at \in Page /\ Run(r.at, b.n) \subseteq Page \ t.pool.map
            /\ Added(t, r.table, r.at, b.n, h)
            /\ b.at # Invalid => r.at = b.at
<1> DEFINE got == Place(t, b)
           r == IovaMap(t, b, h)
<1>1. r.at = got.at /\ (got.at = Invalid => r.table = t)
      /\ (got.at # Invalid =>
            r.table = TlbAdd([t EXCEPT !.pool = Counted(got.pool)], got.at, b.n, h))
  BY DEF IovaMap
<1>2. t.pool \in Pools /\ Bits \in Nat /\ \A p \in Page : p # Invalid /\ p \in Int
  BY SmmuAssumption DEF Objects, Invalid, Page
<1>3. CASE b.at # Invalid
  <2>1. got = [at |-> b.at, pool |-> Mark(t.pool, b.at, b.n)]
    BY <1>3 DEF Place
  <2>0. Counts(t.pool, Mark(t.pool, b.at, b.n), t.pool.map \cup Run(b.at, b.n), -b.n)
    BY <1>2, <1>3, MarkIs
  <2>2. Mark(t.pool, b.at, b.n)
          \in [bits : {Bits}, map : SUBSET Page, used : Int]
        /\ Mark(t.pool, b.at, b.n).map = t.pool.map \cup Run(b.at, b.n)
        /\ Mark(t.pool, b.at, b.n).used <= t.pool.used + b.n
    BY <1>2, <1>3, <2>0, MarkIs DEF Counts, Pools
  <2>3. Added(t, TlbAdd([t EXCEPT !.pool = Counted(got.pool)], b.at, b.n, h), b.at, b.n, h)
    BY <1>3, <2>1, <2>2, AddIs
  <2> QED BY <1>1, <1>3, <2>1, <2>3
<1>4. CASE b.at = Invalid
  <2>1. Gives(got, t.pool, b.n)
    BY <1>2, <1>4, FirstFitIs, LastFitIs DEF Place
  <2>2. CASE got.at = Invalid
    BY <1>1, <1>4, <2>2
  <2>3. CASE got.at # Invalid
    <3>1. /\ got.at \in 0 .. (Bits - b.n)
          /\ Run(got.at, b.n) \cap t.pool.map = {}
          /\ got.pool = Take(t.pool, got.at, b.n)
      BY <2>1, <2>3 DEF Gives
    <3>2. got.at \in Page /\ Run(got.at, b.n) \subseteq Page
      BY <1>2, <3>1 DEF Page, Run
    <3>3. Take(t.pool, got.at, b.n) \in [bits : {Bits}, map : SUBSET Page, used : Int]
          /\ Take(t.pool, got.at, b.n).map = t.pool.map \cup Run(got.at, b.n)
          /\ Take(t.pool, got.at, b.n).used <= t.pool.used + b.n
      BY <1>2, <3>2, TakeIs DEF Counts
    <3>4. Added(t, TlbAdd([t EXCEPT !.pool = Counted(got.pool)], got.at, b.n, h),
                got.at, b.n, h)
      BY <3>1, <3>2, <3>3, AddIs
    <3> QED BY <1>1, <1>4, <2>3, <3>1, <3>2, <3>4
  <2> QED BY <2>2, <2>3
<1> QED BY <1>3, <1>4

-----------------------------------------------------------------------------
(* The tables of a buffer. *)

LEMMA TypesAre ==
  ASSUME SmmuTypeOK
  PROVE  /\ \A o \in Tables : obj[o] \in Objects
         /\ \A h \in Live : buf[h] \in Buffers
         /\ \A n \in Net : ctx[n] \in Contexts /\ n \in Tables
         /\ Public \in Tables /\ Public \notin Net
BY NamesAssumption DEF SmmuTypeOK, Live, Tables

LEMMA EnteredIs ==
  ASSUME NEW n \in Net, NEW kind \in Kinds
  PROVE  /\ ctx[n].type = "PUBLIC_ONLY" => Entered(n, kind) = {Public}
         /\ ctx[n].type = "PRIVATE_ONLY" => Entered(n, kind) = {n}
         /\ ctx[n].type \notin {"PUBLIC_ONLY", "PRIVATE_ONLY"} =>
              /\ kind = "shared" => Entered(n, kind) = {Public, n}
              /\ kind = "id1" => Entered(n, kind) = {n}
              /\ kind = "def" => Entered(n, kind) = {Public}
              /\ kind = "both" => Entered(n, kind) = {n, Public}
              /\ kind = "none" => Entered(n, kind) = {}
<1>1. \A x : LET q == <<x>> IN {q[i] : i \in DOMAIN q} = {x}
  OBVIOUS
<1>2. \A x, y : LET q == <<x, y>> IN {q[i] : i \in DOMAIN q} = {x, y}
  OBVIOUS
<1>3. LET q == <<>> IN {q[i] : i \in DOMAIN q} = {}
  OBVIOUS
<1> QED BY <1>1, <1>2, <1>3 DEF Entered, TablesOf, Kinds

LEMMA EnteredTables ==
  ASSUME NEW n \in Net, NEW kind \in Kinds
  PROVE  Entered(n, kind) \in SUBSET {Public, n}
BY EnteredIs DEF Kinds

(* The tables of a buffer exist.                                            *)
LEMMA EnteredLive ==
  ASSUME SmmuTypeOK, TablesInv, LifeInv, NEW n \in Net, ctx[n].public, NEW kind \in Kinds,
         NEW o \in Entered(n, kind)
  PROVE  o \in Tables /\ obj[o].live
<1>1. o \in {Public, n}
  BY EnteredTables
<1>2. CASE ctx[n].type = "PUBLIC_ONLY"
  BY <1>2, EnteredIs DEF TablesInv, Tables
<1>3. CASE ctx[n].type # "PUBLIC_ONLY"
  BY <1>1, <1>3 DEF TablesInv, LifeInv, LifeOf, Tables
<1> QED BY <1>2, <1>3

(* What an allocation does: nothing, or the buffer gets pages that are free *)
(* in all its tables and is entered there.                                  *)
AllocatedIn(o, objs, at, n, h) ==
  Run(at, n) \subseteq Page \ obj[o].pool.map /\ Added(obj[o], objs[o], at, n, h)

Allocated(r, n, h, b) ==
  \/ r.at = Invalid /\ r.obj = obj
  \/ /\ r.at \in Page /\ Run(r.at, b.n) \subseteq Page
     /\ r.obj \in [Tables -> Objects]
     /\ \A o \in Entered(n, b.kind) : AllocatedIn(o, r.obj, r.at, b.n, h)
     /\ \A o \in Tables \ Entered(n, b.kind) : r.obj[o] = obj[o]

(* A buffer that is entered in one table.                                   *)
LEMMA AllocOneIs ==
  ASSUME SmmuTypeOK, NEW o \in Tables, PoolAgrees(obj[o]), NEW n, NEW h \in Handle,
         NEW b, b.n \in Nat \ {0}, b.at = Invalid, Entered(n, b.kind) = {o},
         TablesOf(n, b.kind) = <<o>>
  PROVE  Allocated(IovaAlloc(n, h, b), n, h, b)
<1> DEFINE first == IovaMap(obj[o], b, h)
           r == IovaAlloc(n, h, b)
<1>1. r = [at |-> first.at, obj |-> [obj EXCEPT ![o] = first.table]]
  <2>1. <<o>> # <<>> /\ Len(<<o>>) = 1 /\ <<o>>[1] = o
    OBVIOUS
  <2> QED BY <2>1 DEF IovaAlloc
<1>2. \/ first.at = Invalid /\ first.table = obj[o]
      \/ /\ first.at \in Page /\ Run(first.at, b.n) \subseteq Page \ obj[o].pool.map
         /\ Added(obj[o], first.table, first.at, b.n, h)
  BY TypesAre, IovaMapIs DEF Handles
<1> HIDE DEF first
<1>3. CASE first.at = Invalid /\ first.table = obj[o]
  BY <1>1, <1>3 DEF Allocated, SmmuTypeOK
<1>4. CASE /\ first.at \in Page /\ Run(first.at, b.n) \subseteq Page \ obj[o].pool.map
           /\ Added(obj[o], first.table, first.at, b.n, h)
  <2>1. r.at = first.at /\ r.obj = [obj EXCEPT ![o] = first.table]
    BY <1>1
  <2>2. first.table \in Objects
    BY <1>4 DEF Added
  <2>3. /\ r.obj \in [Tables -> Objects] /\ r.obj[o] = first.table
        /\ \A x \in Tables \ {o} : r.obj[x] = obj[x]
    BY <2>1, <2>2 DEF SmmuTypeOK
  <2> QED BY <1>4, <2>1, <2>3 DEF Allocated, AllocatedIn
<1> QED BY <1>2, <1>3, <1>4

(* An address that is free among the buffers of n.                          *)
LEMMA ApartIs ==
  ASSUME NEW n, NEW b \in Buffers, NEW at, NEW c, c = [b EXCEPT !.at = at], Apart(n, c),
         NEW x \in OwnedBy(n), Entered(n, buf[x].kind) \cap Entered(n, b.kind) # {}
  PROVE  Pages(x) \cap Run(at, b.n) = {}
<1>1. c.at = at /\ c.n = b.n /\ c.kind = b.kind
  BY DEF Buffers
<1> QED BY <1>1 DEF Apart

(* A shared buffer that is entered in the public and the private table of   *)
(* its context: what is free in the public one is free in the private one,  *)
(* in which only buffers of the context are.                                *)
LEMMA AllocTwoIs ==
  ASSUME SmmuTypeOK, TablesInv, NEW n \in Net, obj[n].live, NEW h \in Handle,
         NEW b \in Buffers, b.n \in Nat \ {0}, b.at = Invalid, b.kind = "shared",
         Entered(n, "shared") = {Public, n}, TablesOf(n, "shared") = <<Public, n>>,
         IovaAlloc(n, h, b).at # Invalid => Apart(n, [b EXCEPT !.at = IovaAlloc(n, h, b).at])
  PROVE  Allocated(IovaAlloc(n, h, b), n, h, b)
<1> DEFINE first == IovaMap(obj[Public], b, h)
           c == [b EXCEPT !.at = first.at]
           second == IovaMap(obj[n], c, h)
           r == IovaAlloc(n, h, b)
           d == [b EXCEPT !.at = r.at]
<1>1. IF first.at = Invalid
      THEN r = [at |-> first.at, obj |-> [obj EXCEPT ![Public] = first.table]]
      ELSE r = [at |-> second.at,
                obj |-> [obj EXCEPT ![Public] = first.table, ![n] = second.table]]
  <2>1. <<Public, n>> # <<>> /\ Len(<<Public, n>>) = 2
        /\ <<Public, n>>[1] = Public /\ <<Public, n>>[2] = n
    OBVIOUS
  <2> QED BY <2>1 DEF IovaAlloc
<1>2. /\ c.at = first.at /\ c.n = b.n /\ d = [b EXCEPT !.at = r.at]
      /\ r.at # Invalid => Apart(n, d)
  BY DEF Buffers
<1>3. \/ first.at = Invalid /\ first.table = obj[Public]
      \/ /\ first.at \in Page /\ Run(first.at, b.n) \subseteq Page \ obj[Public].pool.map
         /\ Added(obj[Public], first.table, first.at, b.n, h)
  BY TypesAre, IovaMapIs DEF Handles, TablesInv, TableInv
<1>4. second = IovaMap(obj[n], c, h) /\ r = IovaAlloc(n, h, b)
  OBVIOUS
<1> HIDE DEF first, c, second, r, d
<1>5. CASE first.at = Invalid /\ first.table = obj[Public]
  BY <1>1, <1>4, <1>5 DEF Allocated, SmmuTypeOK
<1>6. CASE /\ first.at \in Page /\ Run(first.at, b.n) \subseteq Page \ obj[Public].pool.map
           /\ Added(obj[Public], first.table, first.at, b.n, h)
  <2>1. first.at # Invalid
    BY <1>6 DEF Invalid, Page
  <2>2. PoolAgrees(obj[n]) /\ PoolAgrees(obj[Public]) /\ n \in Tables /\ Public \in Tables
        /\ n # Public /\ obj[n] \in Objects /\ obj[Public] \in Objects
    BY TypesAre DEF TablesInv, TableInv
  <2>3. r.at = first.at
    <3>1. second.at = c.at
      BY <1>2, <1>4, <2>1 DEF IovaMap, Place
    <3> QED BY <1>1, <1>2, <2>1, <3>1
  <2>4. Run(r.at, b.n) \cap obj[n].pool.map = {}
    <3>1. SUFFICES ASSUME NEW p \in Run(r.at, b.n), p \in obj[n].pool.map
                   PROVE  FALSE
      OBVIOUS
    <3>2. p \in Page /\ p \notin Excluded
      BY <1>6, <2>2, <2>3 DEF PoolAgrees
    <3>3. obj[n].cpu[p] # NoHandle
      BY <2>2, <3>1, <3>2 DEF PoolAgrees, Mapped
    <3>4. obj[n].cpu[p] \in Handle
      BY <2>2, <3>2, <3>3 DEF TablesInv, Objects, Translations
    <3>5. PICK x \in Handle : x = obj[n].cpu[p]
      BY <3>4
    <3>6. x \in In(n) /\ p \in Pages(x)
      BY <2>2, <3>2, <3>5 DEF TablesInv, TableInv
    <3>7. x \in Live /\ buf[x] \in Buffers /\ n \in Entered(buf[x].own, buf[x].kind)
      BY <3>6, TypesAre DEF In
    <3>8. buf[x].own = n
      BY <2>2, <3>7, EnteredTables DEF Buffers
    <3>9. x \in OwnedBy(n) /\ n \in Entered(n, buf[x].kind) \cap Entered(n, b.kind)
      BY <3>7, <3>8 DEF OwnedBy
    <3>10. Pages(x) \cap Run(r.at, b.n) = {}
      BY <1>2, <2>1, <2>3, <3>9, ApartIs
    <3> QED BY <3>1, <3>6, <3>10
  <2>5. /\ second.at \in Page /\ Added(obj[n], second.table, second.at, b.n, h)
        /\ second.at = r.at
    <3>1. c.at \in Page /\ c.n \in Nat \ {0} /\ Run(c.at, c.n) \subseteq Page \ obj[n].pool.map
      BY <1>2, <1>6, <2>3, <2>4
    <3>2. \/ c.at = Invalid /\ second.at = Invalid /\ second.table = obj[n]
          \/ /\ second.at \in Page /\ Run(second.at, c.n) \subseteq Page \ obj[n].pool.map
             /\ Added(obj[n], second.table, second.at, c.n, h)
             /\ c.at # Invalid => second.at = c.at
      BY <1>4, <2>2, <3>1, IovaMapIs DEF Handles
    <3> QED BY <1>2, <2>1, <2>3, <3>2
  <2>6. r.obj = [obj EXCEPT ![Public] = first.table, ![n] = second.table]
    BY <1>1, <2>1
  <2>7. first.table \in Objects /\ second.table \in Objects
    BY <1>6, <2>5 DEF Added
  <2>8. /\ r.obj \in [Tables -> Objects] /\ r.obj[Public] = first.table
        /\ r.obj[n] = second.table /\ \A x \in Tables \ {Public, n} : r.obj[x] = obj[x]
    BY <2>2, <2>6, <2>7 DEF SmmuTypeOK
  <2>9. /\ AllocatedIn(Public, r.obj, r.at, b.n, h) /\ AllocatedIn(n, r.obj, r.at, b.n, h)
    BY <1>6, <2>3, <2>4, <2>5, <2>8 DEF AllocatedIn
  <2> QED BY <1>4, <1>6, <2>3, <2>8, <2>9 DEF Allocated
<1> QED BY <1>3, <1>5, <1>6

(* Every allocation is one of these.                                        *)
LEMMA IovaAllocIs ==
  ASSUME SmmuTypeOK, TablesInv, LifeInv, NEW n \in Net, ctx[n].public, NEW h \in Handle,
         NEW b \in Buffers, b.n \in Nat \ {0}, b.at = Invalid, b.kind # "both",
         IovaAlloc(n, h, b).at # Invalid => Apart(n, [b EXCEPT !.at = IovaAlloc(n, h, b).at])
  PROVE  Allocated(IovaAlloc(n, h, b), n, h, b)
<1>1. b.kind \in Kinds /\ ctx[n].type \in Types
  BY TypesAre DEF Buffers, Contexts
<1>2. CASE /\ ctx[n].type = "PRIVATE_AND_PUBLIC" /\ b.kind = "shared"
  <2>1. Entered(n, "shared") = {Public, n} /\ TablesOf(n, "shared") = <<Public, n>>
    BY <1>1, <1>2, EnteredIs DEF TablesOf
  <2>2. obj[n].live
    BY <1>2 DEF LifeInv, LifeOf
  <2> QED BY <1>2, <2>1, <2>2, AllocTwoIs
<1>3. CASE ctx[n].type = "PRIVATE_AND_PUBLIC" /\ b.kind = "none"
  BY <1>3 DEF IovaAlloc, TablesOf, Allocated
<1>4. CASE ~(ctx[n].type = "PRIVATE_AND_PUBLIC" /\ b.kind \in {"shared", "none"})
  <2>1. PICK o \in {Public, n} : Entered(n, b.kind) = {o} /\ TablesOf(n, b.kind) = <<o>>
    BY <1>1, <1>4, EnteredIs DEF TablesOf, Types, Kinds
  <2>2. o \in Tables /\ PoolAgrees(obj[o])
    BY <1>1, <2>1, EnteredLive DEF TablesInv, TableInv
  <2> QED BY <2>1, <2>2, AllocOneIs
<1> QED BY <1>2, <1>3, <1>4

(* What a release does.                                                     *)
Freed(objs, n, b) ==
  /\ objs \in [Tables -> Objects]
  /\ \A o \in Tables :
       IF o \in Entered(n, b.kind) /\ b.at # Invalid
       THEN Removed(obj[o], objs[o], b.at, b.n)
       ELSE objs[o] = obj[o]

LEMMA IovaFreeIs ==
  ASSUME SmmuTypeOK, TablesInv, LifeInv, NEW n \in Net, NEW h \in OwnedBy(n)
  PROVE  Freed(IovaFree(n, buf[h]), n, buf[h])
<1> DEFINE objs == IovaFree(n, buf[h])
<1>1. h \in Live /\ h \in Handle /\ buf[h] \in Buffers /\ buf[h].own = n /\ buf[h].kind \in Kinds
  BY TypesAre DEF OwnedBy, Live, Buffers
<1>2. ctx[n].public
  BY DEF LifeInv, LifeOf
<1>3. ASSUME NEW o \in Tables
      PROVE  /\ objs[o] \in Objects
             /\ IF o \in Entered(n, buf[h].kind) /\ buf[h].at # Invalid
                THEN Removed(obj[o], objs[o], buf[h].at, buf[h].n)
                ELSE objs[o] = obj[o]
  <2>1. objs[o] = IF o \in Entered(n, buf[h].kind) THEN IovaUnmap(obj[o], buf[h]) ELSE obj[o]
    BY DEF IovaFree
  <2>2. obj[o] \in Objects
    BY TypesAre
  <2>3. CASE o \in Entered(n, buf[h].kind) /\ buf[h].at # Invalid
    <3>1. objs[o] = UnmapPages(obj[o], buf[h])
      BY <2>1, <2>3 DEF IovaUnmap
    <3>2. obj[o].live
      BY <1>1, <1>2, <2>3, EnteredLive
    <3>3. buf[h].at \in Page /\ buf[h].n \in Nat
      BY <1>1, <2>3, SmmuAssumption DEF Buffers, Page, Invalid
    <3>4. PoolAgrees(obj[o]) /\ h \in In(o)
      BY <1>1, <2>3, <3>2 DEF TablesInv, TableInv, In
    <3>5. Run(buf[h].at, buf[h].n) \subseteq Mapped(obj[o])
      <4>1. Pages(h) = Run(buf[h].at, buf[h].n) /\ Pages(h) \subseteq Page
        BY <1>1, <2>3 DEF Pages, TablesInv
      <4>2. \A p \in Pages(h) : obj[o].cpu[p] = h
        BY <1>1, <3>2, <3>4, <4>1 DEF TablesInv, TableInv
      <4> QED BY <1>1, <4>1, <4>2, NamesAssumption DEF Mapped
    <3> QED BY <2>2, <2>3, <3>1, <3>3, <3>4, <3>5, UnmapIs DEF Removed
  <2>4. CASE ~(o \in Entered(n, buf[h].kind) /\ buf[h].at # Invalid)
    BY <2>1, <2>2, <2>4 DEF IovaUnmap
  <2> QED BY <2>3, <2>4
<1>4. objs = [o \in Tables |-> objs[o]] /\ objs = IovaFree(n, buf[h])
  BY DEF IovaFree
<1> HIDE DEF objs
<1>5. objs \in [Tables -> Objects]
  BY <1>3, <1>4
<1> QED BY <1>3, <1>4, <1>5 DEF Freed

-----------------------------------------------------------------------------
(* The tables after a step. *)

SameTypes == \A m \in Net : ctx'[m].type = ctx[m].type

LEMMA SameEntered ==
  ASSUME NEW m, ctx'[m].type = ctx[m].type, NEW kind
  PROVE  Entered(m, kind)' = Entered(m, kind)
<1>1. TablesOf(m, kind)' = TablesOf(m, kind)
  BY DEF TablesOf
<1> QED BY <1>1 DEF Entered

(* The buffer that a step gives to n, if any.                               *)
Given(n, h, b, r) ==
  /\ obj' = r.obj
  /\ buf' = [buf EXCEPT ![h] = IF r.at = Invalid /\ ~Unplaced(n, b) THEN NoBuf
                               ELSE [b EXCEPT !.at = r.at]]

LEMMA GivenIs ==
  ASSUME SmmuTypeOK, NEW n \in Net, NEW h \in Handle \ Live, NEW b \in Buffers,
         b.own = n, NEW r, r.at \in {Invalid} \cup Page, Given(n, h, b, r)
  PROVE  /\ buf' \in [Handle -> {NoBuf} \cup Buffers]
         /\ \A x \in Handle \ {h} : buf'[x] = buf[x] /\ (x \in Live' <=> x \in Live)
         /\ h \in Live' <=> ~(r.at = Invalid /\ ~Unplaced(n, b))
         /\ h \in Live' => /\ buf'[h].own = n /\ buf'[h].at = r.at /\ buf'[h].n = b.n
                           /\ buf'[h].kind = b.kind
<1> DEFINE c == [b EXCEPT !.at = r.at]
<1>1. c \in Buffers /\ c.own = n /\ c.at = r.at /\ c.n = b.n /\ c.kind = b.kind
  <2>1. r.at \in Invalid .. (Bits - 1)
    BY SmmuAssumption DEF Page, Invalid
  <2>2. c = [b EXCEPT !.at = r.at]
    OBVIOUS
  <2> HIDE DEF c
  <2> QED BY <2>1, <2>2 DEF Buffers
<1>2. buf' = [buf EXCEPT ![h] = IF r.at = Invalid /\ ~Unplaced(n, b) THEN NoBuf ELSE c]
  BY DEF Given
<1> HIDE DEF c
<1>3. c # NoBuf
  BY <1>1, NamesAssumption
<1> QED BY <1>1, <1>2, <1>3 DEF SmmuTypeOK, Live

(* What stays when n gets a buffer h.                                       *)
Kept(h) ==
  /\ obj' \in [Tables -> Objects] /\ buf' \in [Handle -> {NoBuf} \cup Buffers]
  /\ \A o \in Tables : obj'[o].live = obj[o].live
  /\ \A x \in Live \ {h} : x \in Live' /\ buf'[x] = buf[x]
  /\ \A o \in Tables, p \in Page :
       obj[o].cpu[p] # NoHandle => p \notin obj'[o].dirty \ obj[o].dirty

LEMMA GiveKeeps ==
  ASSUME SmmuTypeOK, TablesInv, NEW n \in Net, NEW h \in Handle \ Live, NEW b \in Buffers,
         b.own = n, NEW r, r.at \in {Invalid} \cup Page, Given(n, h, b, r),
         Allocated(r, n, h, b), \A o \in Entered(n, b.kind) : o \in Tables /\ obj[o].live
  PROVE  Kept(h)
<1>1. /\ buf' \in [Handle -> {NoBuf} \cup Buffers]
      /\ \A x \in Live \ {h} : x \in Live' /\ buf'[x] = buf[x]
  BY GivenIs DEF Live
<1>2. CASE r.at = Invalid /\ r.obj = obj
  BY <1>1, <1>2 DEF Given, Kept, SmmuTypeOK
<1>3. CASE /\ r.at \in Page /\ r.obj \in [Tables -> Objects]
           /\ \A o \in Entered(n, b.kind) : AllocatedIn(o, r.obj, r.at, b.n, h)
           /\ \A o \in Tables \ Entered(n, b.kind) : r.obj[o] = obj[o]
  <2>1. obj' = r.obj
    BY DEF Given
  <2>2. ASSUME NEW o \in Tables
        PROVE  /\ obj'[o].live = obj[o].live
               /\ \A p \in Page :
                    obj[o].cpu[p] # NoHandle => p \notin obj'[o].dirty \ obj[o].dirty
    <3>1. CASE o \in Entered(n, b.kind)
      <4>1. PoolAgrees(obj[o])
        BY <3>1 DEF TablesInv, TableInv
      <4>2. obj[o].pool.map = Excluded \cup Mapped(obj[o])
        BY <4>1 DEF PoolAgrees
      <4>3. /\ Run(r.at, b.n) \cap obj[o].pool.map = {}
            /\ obj'[o].live = obj[o].live
            /\ obj'[o].dirty = obj[o].dirty \cup Run(r.at, b.n)
        BY <1>3, <2>1, <3>1 DEF AllocatedIn, Added
      <4> QED BY <4>2, <4>3 DEF Mapped
    <3>2. CASE o \notin Entered(n, b.kind)
      BY <1>3, <2>1, <3>2
    <3> QED BY <3>1, <3>2
  <2> QED BY <1>1, <1>3, <2>1, <2>2 DEF Kept
<1> QED BY <1>2, <1>3 DEF Allocated

LEMMA GiveTables ==
  ASSUME SmmuTypeOK, TablesInv, SameTypes,
         NEW n \in Net, NEW h \in Handle \ Live, NEW b \in Buffers,
         b.own = n, b.kind # "both", NEW r, r.at \in {Invalid} \cup Page, Given(n, h, b, r),
         Allocated(r, n, h, b), \A o \in Entered(n, b.kind) : o \in Tables /\ obj[o].live
  PROVE  TablesInv'
<1>1. /\ \A x \in Handle \ {h} : buf'[x] = buf[x] /\ (x \in Live' <=> x \in Live)
      /\ h \in Live' => /\ buf'[h].own = n /\ buf'[h].at = r.at /\ buf'[h].n = b.n
                        /\ buf'[h].kind = b.kind
      /\ h \in Live' <=> ~(r.at = Invalid /\ ~Unplaced(n, b))
  BY GivenIs
<1>2. ASSUME NEW x \in Handle \ {h}, NEW o
      PROVE  x \in In(o)' <=> x \in In(o)
  BY <1>1, SameEntered, TypesAre DEF In, SameTypes, Buffers
<1>3. ASSUME NEW o
      PROVE  h \in In(o)' <=> h \in Live' /\ o \in Entered(n, b.kind)
  BY <1>1, SameEntered DEF In, SameTypes
<1>4. \A x \in Handle \ {h} : Pages(x)' = Pages(x)
  BY <1>1 DEF Pages
<1>5. h \in Live' => Pages(h)' = IF r.at = Invalid THEN {} ELSE Run(r.at, b.n)
  BY <1>1 DEF Pages
<1>6. \A o \in Tables, p \in Page : obj[o].live => obj[o].cpu[p] # h
  BY DEF TablesInv, TableInv, In
<1>7. \A x \in Live' : buf'[x].kind # "both" /\ Pages(x)' \subseteq Page
  <2>1. r.at # Invalid => Run(r.at, b.n) \subseteq Page
    BY DEF Allocated
  <2> QED BY <1>1, <1>4, <1>5, <2>1 DEF TablesInv, Live
<1>8. CASE r.at = Invalid /\ r.obj = obj
  <2>1. obj' = obj
    BY <1>8 DEF Given
  <2>2. ASSUME NEW o \in Tables, obj[o].live
        PROVE  TableInv(o)'
    <3>1. PoolAgrees(obj'[o])
      BY <2>1, <2>2 DEF TablesInv, TableInv
    <3>2. ASSUME NEW p \in Page, NEW x \in Handle
          PROVE  obj'[o].cpu[p] = x <=> x \in In(o)' /\ p \in Pages(x)'
      <4>1. CASE x = h
        BY <1>3, <1>5, <1>6, <1>8, <2>1, <2>2, <4>1
      <4>2. CASE x # h
        BY <1>2, <1>4, <2>1, <2>2, <4>2 DEF TablesInv, TableInv
      <4> QED BY <4>1, <4>2
    <3>3. PoolAgrees(obj[o])'
      BY <3>1 DEF PoolAgrees, Mapped
    <3> QED BY <3>2, <3>3 DEF TableInv
  <2> QED BY <1>7, <2>1, <2>2 DEF TablesInv
<1>9. CASE /\ r.at \in Page /\ Run(r.at, b.n) \subseteq Page
           /\ r.obj \in [Tables -> Objects]
           /\ \A o \in Entered(n, b.kind) : AllocatedIn(o, r.obj, r.at, b.n, h)
           /\ \A o \in Tables \ Entered(n, b.kind) : r.obj[o] = obj[o]
  <2>1. obj' = r.obj /\ r.at # Invalid
    BY <1>9, SmmuAssumption DEF Given, Invalid, Page
  <2>2. h \in Live' /\ Pages(h)' = Run(r.at, b.n)
    BY <1>1, <1>5, <2>1
  <2>3. ASSUME NEW o \in Entered(n, b.kind)
        PROVE  /\ PoolAgrees(obj'[o]) /\ obj[o].pool.map = Excluded \cup Mapped(obj[o])
               /\ Run(r.at, b.n) \cap obj[o].pool.map = {} /\ obj'[o].live
               /\ \A p \in Page : obj'[o].cpu[p] = IF p \in Run(r.at, b.n) THEN h ELSE obj[o].cpu[p]
    <3>1. AllocatedIn(o, obj', r.at, b.n, h) /\ obj[o].live /\ o \in Tables
      BY <1>9, <2>1
    <3>2. obj[o].cpu \in Translations
      BY <3>1, TypesAre DEF Objects
    <3>3. PoolAgrees(obj[o])
      BY <3>1 DEF TablesInv, TableInv
    <3>4. obj'[o].cpu = Write(obj[o].cpu, r.at, b.n, h)
      BY <3>1 DEF AllocatedIn, Added
    <3>5. \A p \in Page : obj'[o].cpu[p] = IF p \in Run(r.at, b.n) THEN h ELSE obj[o].cpu[p]
      BY <3>2, <3>4, WriteAt
    <3> QED BY <3>1, <3>3, <3>5 DEF AllocatedIn, Added, PoolAgrees
  <2>4. ASSUME NEW o \in Tables, obj'[o].live
        PROVE  TableInv(o)'
    <3>1. CASE o \in Entered(n, b.kind)
      <4>1. ASSUME NEW p \in Page, NEW x \in Handle
            PROVE  obj'[o].cpu[p] = x <=> x \in In(o)' /\ p \in Pages(x)'
        <5>1. obj[o].live /\ (obj[o].cpu[p] = x <=> x \in In(o) /\ p \in Pages(x))
          BY <3>1 DEF TablesInv, TableInv
        <5>2. p \in Run(r.at, b.n) => obj[o].cpu[p] = NoHandle
          BY <2>3, <3>1 DEF Mapped
        <5>3. CASE x = h
          BY <1>3, <1>6, <2>2, <2>3, <3>1, <5>1, <5>3
        <5>4. CASE x # h
          <6>1. x # NoHandle
            BY NamesAssumption
          <6> QED BY <1>2, <1>4, <2>3, <3>1, <5>1, <5>2, <5>4, <6>1
        <5> QED BY <5>3, <5>4
      <4>2. PoolAgrees(obj[o])'
        BY <2>3, <3>1 DEF PoolAgrees, Mapped
      <4> QED BY <4>1, <4>2 DEF TableInv
    <3>2. CASE o \notin Entered(n, b.kind)
      <4>1. obj'[o] = obj[o]
        BY <1>9, <2>1, <3>2
      <4>2. TableInv(o)
        BY <2>4, <4>1 DEF TablesInv
      <4>3. ASSUME NEW p \in Page, NEW x \in Handle
            PROVE  obj'[o].cpu[p] = x <=> x \in In(o)' /\ p \in Pages(x)'
        <5>1. CASE x = h
          BY <1>3, <1>6, <2>4, <3>2, <4>1, <5>1
        <5>2. CASE x # h
          BY <1>2, <1>4, <4>1, <4>2, <5>2 DEF TableInv
        <5> QED BY <5>1, <5>2
      <4>4. PoolAgrees(obj[o])'
        BY <4>1, <4>2 DEF TableInv, PoolAgrees, Mapped
      <4> QED BY <4>3, <4>4 DEF TableInv
    <3> QED BY <3>1, <3>2
  <2>5. obj'[Public].live /\ \E p \in Page : obj'[Public].cpu[p] = PublicQueue
    <3>1. CASE Public \in Entered(n, b.kind)
      <4>1. PICK p \in Page : obj[Public].cpu[p] = PublicQueue
        BY DEF TablesInv
      <4>2. p \in Mapped(obj[Public])
        BY <4>1, NamesAssumption DEF Mapped
      <4>3. obj'[Public].cpu[p] = PublicQueue
        BY <2>3, <3>1, <4>1, <4>2
      <4> QED BY <2>3, <3>1, <4>3
    <3>2. CASE Public \notin Entered(n, b.kind)
      <4>1. obj'[Public] = obj[Public]
        BY <1>9, <2>1, <3>2, TypesAre
      <4> QED BY <4>1 DEF TablesInv
    <3> QED BY <3>1, <3>2
  <2>6. ASSUME NEW m \in Net, NEW p \in Page
        PROVE  obj'[m].cpu[p] # PublicQueue
    <3>1. CASE m \in Entered(n, b.kind)
      BY <2>3, <3>1, NamesAssumption DEF TablesInv
    <3>2. CASE m \notin Entered(n, b.kind)
      <4>1. obj'[m] = obj[m]
        BY <1>9, <2>1, <3>2, TypesAre
      <4> QED BY <4>1 DEF TablesInv
    <3> QED BY <3>1, <3>2
  <2> QED BY <1>7, <2>4, <2>5, <2>6 DEF TablesInv
<1> QED BY <1>8, <1>9 DEF Allocated

(* The tables are those of objs, or destroyed.                              *)
Left(objs) ==
  /\ obj' \in [Tables -> Objects]
  /\ \A o \in Tables : obj'[o] = objs[o] \/ (o \in Net /\ obj'[o] = NoTable)

LEMMA NoTableIs ==
  /\ NoTable \in Objects /\ ~NoTable.live /\ NoTable.cpu = Empty /\ NoTable.dirty = {}
  /\ \A p \in Page : Empty[p] = NoHandle
<1>1. 0 \in 0 .. Bits /\ Empty \in Translations
  BY SmmuAssumption DEF Empty, Translations
<1>2. NewPool(Bits, {}) \in Pools
  BY <1>1 DEF NewPool, Pools
<1> QED BY <1>1, <1>2 DEF NoTable, Objects, Empty

LEMMA NewTableIs ==
  /\ NewTable \in Objects /\ NewTable.live /\ NewTable.cpu = Empty /\ NewTable.dirty = {}
  /\ PoolAgrees(NewTable)
<1>1. 0 \in 0 .. Bits /\ Empty \in Translations
  BY SmmuAssumption DEF Empty, Translations
<1>2. NewPool(Bits, Excluded) = [bits |-> Bits, map |-> Excluded, used |-> 0]
  <2>1. Run(0, Bits) = Page
    BY SmmuAssumption DEF Run, Page
  <2>2. Excluded \cap Run(0, Bits) = Excluded
    BY <2>1, SmmuAssumption
  <2> QED BY <2>2 DEF NewPool
<1>3. NewPool(Bits, Excluded) \in Pools
  BY <1>1, <1>2, SmmuAssumption DEF Pools
<1>4. NewTable \in Objects /\ NewTable.live /\ NewTable.cpu = Empty /\ NewTable.dirty = {}
  BY <1>1, <1>3 DEF NewTable, Objects
<1>5. Mapped(NewTable) = {}
  BY <1>4 DEF Mapped, Empty
<1>6. NewTable.pool = NewPool(Bits, Excluded) /\ Cardinality({}) = 0
  BY FS_EmptySet DEF NewTable
<1> QED BY <1>2, <1>4, <1>5, <1>6 DEF PoolAgrees

(* A buffer leaves.                                                         *)
LEMMA FreeTables ==
  ASSUME SmmuTypeOK, TablesInv, LifeInv, NEW n \in Net, NEW h \in OwnedBy(n),
         NEW objs, Freed(objs, n, buf[h]), Left(objs), buf' = [buf EXCEPT ![h] = NoBuf],
         \A x \in Live' : ctx'[buf[x].own].type = ctx[buf[x].own].type
  PROVE  TablesInv'
<1>1. h \in Live /\ h \in Handle /\ buf[h] \in Buffers /\ buf[h].own = n /\ buf[h].kind \in Kinds
  BY TypesAre DEF OwnedBy, Live, Buffers
<1>2. Live' = Live \ {h} /\ \A x \in Live' : buf'[x] = buf[x] /\ Pages(x)' = Pages(x)
  BY <1>1 DEF Live, Pages, SmmuTypeOK
<1>3. ASSUME NEW x \in Handle, NEW o
      PROVE  x \in In(o)' <=> x \in In(o) /\ x # h
  BY <1>2, SameEntered, TypesAre DEF In, Buffers
<1>4. ASSUME NEW o \in Tables, obj'[o].live
      PROVE  /\ obj'[o] = objs[o] /\ obj[o].live /\ PoolAgrees(obj'[o])
             /\ \A p \in Page : obj'[o].cpu[p]
                  = IF obj[o].cpu[p] = h THEN NoHandle ELSE obj[o].cpu[p]
  <2>1. obj'[o] = objs[o]
    BY <1>4, NoTableIs DEF Left
  <2>2. CASE o \in Entered(n, buf[h].kind) /\ buf[h].at # Invalid
    <3>1. Removed(obj[o], obj'[o], buf[h].at, buf[h].n)
      BY <2>1, <2>2 DEF Freed
    <3>2. obj[o].live /\ PoolAgrees(obj'[o]) /\ obj[o].cpu \in Translations
      BY <1>4, <3>1, TypesAre DEF Removed, Objects
    <3>3. h \in In(o) /\ Pages(h) = Run(buf[h].at, buf[h].n)
      BY <1>1, <2>2 DEF In, Pages
    <3>4. \A p \in Page : obj[o].cpu[p] = h <=> p \in Run(buf[h].at, buf[h].n)
      BY <1>1, <3>2, <3>3 DEF TablesInv, TableInv
    <3>5. \A p \in Page : obj'[o].cpu[p] = IF p \in Run(buf[h].at, buf[h].n) THEN NoHandle
                                           ELSE obj[o].cpu[p]
      BY <3>1, <3>2, WriteAt DEF Removed
    <3> QED BY <2>1, <3>2, <3>4, <3>5
  <2>3. CASE ~(o \in Entered(n, buf[h].kind) /\ buf[h].at # Invalid)
    <3>1. obj'[o] = obj[o]
      BY <2>1, <2>3 DEF Freed
    <3>2. ~(h \in In(o) /\ Pages(h) # {})
      BY <1>1, <2>3 DEF In, Pages
    <3>3. TableInv(o) /\ obj[o].live
      BY <1>4, <3>1 DEF TablesInv
    <3>4. \A p \in Page : obj[o].cpu[p] # h
      BY <1>1, <3>2, <3>3 DEF TableInv
    <3> QED BY <2>1, <3>1, <3>3, <3>4 DEF TableInv
  <2> QED BY <2>2, <2>3
<1>5. ASSUME NEW o \in Tables, obj'[o].live
      PROVE  TableInv(o)'
  <2>1. ASSUME NEW p \in Page, NEW x \in Handle
        PROVE  obj'[o].cpu[p] = x <=> x \in In(o)' /\ p \in Pages(x)'
    <3>1. obj[o].cpu[p] = x <=> x \in In(o) /\ p \in Pages(x)
      BY <1>4, <1>5 DEF TablesInv, TableInv
    <3>2. x # NoHandle
      BY NamesAssumption
    <3>3. obj'[o].cpu[p] = x <=> obj[o].cpu[p] = x /\ x # h
      BY <1>4, <1>5, <3>2
    <3>4. x \in In(o) /\ x # h => Pages(x)' = Pages(x)
      BY <1>2 DEF In
    <3> QED BY <1>3, <3>1, <3>3, <3>4
  <2>2. PoolAgrees(obj[o])'
    BY <1>4, <1>5 DEF PoolAgrees, Mapped
  <2> QED BY <2>1, <2>2 DEF TableInv
<1>6. obj'[Public].live /\ \E p \in Page : obj'[Public].cpu[p] = PublicQueue
  <2>1. obj'[Public] = objs[Public] /\ obj[Public].live
    BY TypesAre DEF Left, TablesInv
  <2>2. objs[Public].live = obj[Public].live
    BY TypesAre DEF Freed, Removed
  <2>3. PICK p \in Page : obj[Public].cpu[p] = PublicQueue
    BY DEF TablesInv
  <2>4. obj[Public].cpu[p] # h
    BY <1>1, <2>3, NamesAssumption
  <2> QED BY <1>4, <2>1, <2>2, <2>3, <2>4, TypesAre
<1>7. ASSUME NEW m \in Net, NEW p \in Page
      PROVE  obj'[m].cpu[p] # PublicQueue
  <2>1. m \in Tables /\ PublicQueue # NoHandle
    BY TypesAre, NamesAssumption
  <2>2. CASE obj'[m] = NoTable
    BY <2>1, <2>2, NoTableIs
  <2>3. CASE obj'[m] = objs[m]
    <3>1. obj[m].cpu \in Translations /\ obj[m].cpu[p] # PublicQueue
      BY <2>1, TypesAre DEF Objects, TablesInv
    <3>2. objs[m].cpu[p] \in {NoHandle, obj[m].cpu[p]}
      BY <2>1, <3>1, WriteAt DEF Freed, Removed
    <3> QED BY <2>1, <2>3, <3>1, <3>2
  <2> QED BY <2>1, <2>2, <2>3 DEF Left
<1>8. \A x \in Live' : buf'[x].kind # "both" /\ Pages(x)' \subseteq Page
  BY <1>2 DEF TablesInv
<1> QED BY <1>5, <1>6, <1>7, <1>8 DEF TablesInv

(* Only tables are created or destroyed.                                    *)
LEMMA KeptTables ==
  ASSUME SmmuTypeOK, TablesInv, Left(obj), buf' = buf,
         \A x \in Live : ctx'[buf[x].own].type = ctx[buf[x].own].type
  PROVE  TablesInv'
<1>1. Live' = Live /\ \A x : Pages(x)' = Pages(x)
  BY DEF Live, Pages
<1>2. ASSUME NEW x \in Handle, NEW o
      PROVE  x \in In(o)' <=> x \in In(o)
  BY <1>1, SameEntered, TypesAre DEF In, Buffers
<1>3. ASSUME NEW o \in Tables, obj'[o].live
      PROVE  TableInv(o)'
  <2>1. obj'[o] = obj[o] /\ TableInv(o)
    BY <1>3, NoTableIs DEF Left, TablesInv
  <2>2. PoolAgrees(obj[o])'
    BY <2>1 DEF PoolAgrees, Mapped, TableInv
  <2> QED BY <1>1, <1>2, <2>1, <2>2 DEF TableInv
<1>4. obj'[Public] = obj[Public]
  BY TypesAre DEF Left
<1>5. ASSUME NEW m \in Net, NEW p \in Page
      PROVE  obj'[m].cpu[p] # PublicQueue
  BY TypesAre, NoTableIs, NamesAssumption DEF Left, TablesInv
<1> QED BY <1>1, <1>3, <1>4, <1>5 DEF TablesInv

(* A table is created.                                                      *)
LEMMA NewTables ==
  ASSUME SmmuTypeOK, TablesInv, NEW n \in Net, OwnedBy(n) = {},
         obj' = [obj EXCEPT ![n] = NewTable], buf' = buf,
         \A x \in Live : ctx'[buf[x].own].type = ctx[buf[x].own].type
  PROVE  TablesInv'
<1>1. Live' = Live /\ \A x : Pages(x)' = Pages(x)
  BY DEF Live, Pages
<1>2. ASSUME NEW x \in Handle, NEW o
      PROVE  x \in In(o)' <=> x \in In(o)
  BY <1>1, SameEntered, TypesAre DEF In, Buffers
<1>3. obj'[n] = NewTable /\ \A o \in Tables \ {n} : obj'[o] = obj[o]
  BY TypesAre DEF SmmuTypeOK
<1>4. ASSUME NEW x \in In(n)
      PROVE  FALSE
  <2>1. x \in Live /\ buf[x] \in Buffers /\ n \in Entered(buf[x].own, buf[x].kind)
    BY TypesAre DEF In
  <2>2. n \in {Public, buf[x].own}
    BY <2>1, EnteredTables DEF Buffers
  <2> QED BY <2>1, <2>2, TypesAre DEF OwnedBy
<1>5. ASSUME NEW o \in Tables, obj'[o].live
      PROVE  TableInv(o)'
  <2>1. CASE o = n
    <3>1. PoolAgrees(obj[o])'
      BY <1>3, <2>1, NewTableIs DEF PoolAgrees, Mapped
    <3>2. ASSUME NEW p \in Page, NEW x \in Handle
          PROVE  obj'[o].cpu[p] = x <=> x \in In(o)' /\ p \in Pages(x)'
      BY <1>2, <1>3, <1>4, <2>1, NewTableIs, NoTableIs, NamesAssumption
    <3> QED BY <3>1, <3>2 DEF TableInv
  <2>2. CASE o # n
    <3>1. obj'[o] = obj[o] /\ TableInv(o)
      BY <1>3, <1>5, <2>2 DEF TablesInv
    <3>2. PoolAgrees(obj[o])'
      BY <3>1 DEF PoolAgrees, Mapped, TableInv
    <3> QED BY <1>1, <1>2, <3>1, <3>2 DEF TableInv
  <2> QED BY <2>1, <2>2
<1>6. obj'[Public] = obj[Public]
  BY <1>3, TypesAre
<1>7. ASSUME NEW m \in Net, NEW p \in Page
      PROVE  obj'[m].cpu[p] # PublicQueue
  BY <1>3, TypesAre, NewTableIs, NoTableIs, NamesAssumption DEF TablesInv
<1> QED BY <1>1, <1>5, <1>6, <1>7 DEF TablesInv

(* Tables are flushed.                                                      *)
LEMMA FlushIs ==
  ASSUME NEW t \in Objects
  PROVE  /\ FlushCache(t) \in Objects /\ FlushCache(t).dirty = {}
         /\ FlushCache(t).live = t.live /\ FlushCache(t).pool = t.pool
         /\ FlushCache(t).cpu = t.cpu
BY DEF FlushCache, Objects

Flushed ==
  /\ obj' \in [Tables -> Objects]
  /\ \A o \in Tables :
       /\ obj'[o].live = obj[o].live /\ obj'[o].pool = obj[o].pool
       /\ obj'[o].cpu = obj[o].cpu
       /\ obj'[o].dirty \subseteq obj[o].dirty

LEMMA InvalidateIs ==
  ASSUME SmmuTypeOK, TablesInv, NEW n \in Net, obj' = Invalidate(n)
  PROVE  /\ Flushed
         /\ ctx[n].updated => /\ obj'[Public].dirty = {}
                              /\ obj[n].live => obj'[n].dirty = {}
<1>1. CASE ~ctx[n].updated
  BY <1>1, TypesAre DEF Invalidate, Flushed, SmmuTypeOK
<1>2. CASE ctx[n].updated
  <2>1. obj' = [o \in Tables |-> IF o = Public \/ (o = n /\ obj[o].live)
                                 THEN FlushCache(obj[o]) ELSE obj[o]]
    BY <1>2 DEF Invalidate
  <2>2. ASSUME NEW o \in Tables
        PROVE  /\ obj'[o] \in Objects
               /\ obj'[o].live = obj[o].live /\ obj'[o].pool = obj[o].pool
               /\ obj'[o].cpu = obj[o].cpu
               /\ obj'[o].dirty \subseteq obj[o].dirty
               /\ o = Public \/ (o = n /\ obj[o].live) => obj'[o].dirty = {}
    BY <2>1, TypesAre, FlushIs
  <2>3. obj' \in [Tables -> Objects]
    BY <2>1, <2>2
  <2> QED BY <2>2, <2>3, TypesAre DEF Flushed
<1> QED BY <1>1, <1>2

LEMMA FlushedTables ==
  ASSUME SmmuTypeOK, TablesInv, Flushed, buf' = buf, SameTypes
  PROVE  TablesInv'
<1>1. Live' = Live /\ \A x : Pages(x)' = Pages(x)
  BY DEF Live, Pages
<1>2. ASSUME NEW x \in Handle, NEW o
      PROVE  x \in In(o)' <=> x \in In(o)
  BY <1>1, SameEntered, TypesAre DEF In, Buffers, SameTypes
<1>3. ASSUME NEW o \in Tables, obj'[o].live
      PROVE  TableInv(o)'
  <2>1. obj'[o].cpu = obj[o].cpu /\ obj'[o].pool = obj[o].pool /\ TableInv(o)
    BY <1>3 DEF Flushed, TablesInv
  <2>2. PoolAgrees(obj[o])'
    BY <2>1 DEF PoolAgrees, Mapped, TableInv
  <2> QED BY <1>1, <1>2, <2>1, <2>2 DEF TableInv
<1>4. obj'[Public].cpu = obj[Public].cpu /\ obj'[Public].live = obj[Public].live
  BY TypesAre DEF Flushed
<1>5. \A m \in Net : obj'[m].cpu = obj[m].cpu
  BY TypesAre DEF Flushed
<1> QED BY <1>1, <1>3, <1>4, <1>5 DEF TablesInv

-----------------------------------------------------------------------------
(* What a step leaves of the flushes.                                       *)

NoNewDirt ==
  \A o \in Tables, p \in Page :
    obj[o].live /\ obj[o].cpu[p] # NoHandle => p \notin obj'[o].dirty \ obj[o].dirty

QueueStays ==
  \A p \in Page : obj'[Public].cpu[p] = PublicQueue => obj[Public].cpu[p] = PublicQueue

(* Each buffer that a context has and did not just get is where it was.     *)
Stays(m, x) == x \in OwnedBy(m) /\ buf'[x] = buf[x] /\ ctx'[m].type = ctx[m].type

LEMMA CleanStays ==
  ASSUME SmmuTypeOK, TablesInv, LifeInv, NoNewDirt, NEW m \in Net, NEW x, Stays(m, x),
         Clean(m, x)
  PROVE  Clean(m, x)'
<1>1. x \in Handle /\ x \in Live /\ buf[x] \in Buffers /\ buf[x].own = m
      /\ buf[x].kind \in Kinds /\ Pages(x) \subseteq Page /\ ctx[m].public
  BY TypesAre DEF Stays, OwnedBy, Live, Buffers, TablesInv, LifeInv, LifeOf
<1>2. Pages(x)' = Pages(x) /\ Entered(m, buf[x].kind)' = Entered(m, buf[x].kind)
  BY SameEntered DEF Stays, Pages
<1>3. ASSUME NEW o \in Entered(m, buf[x].kind)
      PROVE  Pages(x) \cap obj'[o].dirty = {}
  <2>1. o \in Tables /\ obj[o].live
    BY <1>1, EnteredLive
  <2>2. ASSUME NEW p \in Pages(x)
        PROVE  p \notin obj'[o].dirty
    <3>1. obj[o].cpu[p] = x /\ p \in Page
      BY <1>1, <2>1 DEF TablesInv, TableInv, In
    <3>2. obj[o].cpu[p] # NoHandle
      BY <1>1, <3>1, NamesAssumption
    <3>3. p \notin obj[o].dirty
      BY <1>3 DEF Clean
    <3> QED BY <2>1, <3>1, <3>2, <3>3 DEF NoNewDirt
  <2> QED BY <2>2
<1> QED BY <1>2, <1>3 DEF Clean

LEMMA QueueStaysClean ==
  ASSUME TablesInv, NoNewDirt, QueueStays, QueueClean
  PROVE  QueueClean'
<1>1. ASSUME NEW p \in Page, obj'[Public].cpu[p] = PublicQueue
      PROVE  p \notin obj'[Public].dirty
  <2>1. obj[Public].cpu[p] = PublicQueue /\ p \notin obj[Public].dirty
    BY <1>1 DEF QueueStays, QueueClean
  <2> QED BY <2>1, NamesAssumption DEF NoNewDirt, TablesInv, Tables
<1> QED BY <1>1 DEF QueueClean

LEMMA FlushStays ==
  ASSUME SmmuTypeOK, TablesInv, LifeInv, FlushInv, NoNewDirt, QueueStays, NEW m \in Net,
         ~ctx'[m].updated => ~ctx[m].updated /\ \A x \in OwnedBy(m)' : Stays(m, x),
         dev'.net = m => dev.net = m /\ \A x \in ctx'[m].needs : x \in ctx[m].needs /\ Stays(m, x)
  PROVE  FlushOf(m)'
<1>1. FlushOf(m)
  BY DEF FlushInv
<1>2. ASSUME ~ctx'[m].updated, NEW x \in OwnedBy(m)'
      PROVE  Clean(m, x)'
  BY <1>1, <1>2, CleanStays DEF FlushOf, Stays
<1>3. ASSUME ~ctx'[m].updated, OwnedBy(m)' # {}
      PROVE  QueueClean'
  BY <1>1, <1>3, QueueStaysClean DEF FlushOf, Stays
<1>4. ASSUME dev'.net = m, NEW x \in ctx'[m].needs
      PROVE  Clean(m, x)'
  BY <1>1, <1>4, CleanStays DEF FlushOf
<1> QED BY <1>2, <1>3, <1>4 DEF FlushOf

(* The device goes on with the same context.                                *)
LEMMA DevStays ==
  ASSUME DevInv, dev' = dev,
         dev.net # NoNet =>
           /\ ctx'[dev.net].type = ctx[dev.net].type /\ ctx'[dev.net].cnt = ctx[dev.net].cnt
           /\ ctx'[dev.net].queue = ctx[dev.net].queue
           /\ ctx'[dev.net].needs = ctx[dev.net].needs
           /\ \A x \in ctx[dev.net].needs : buf'[x] = buf[x]
  PROVE  DevInv'
<1>1. CASE dev.net = NoNet
  BY <1>1 DEF DevInv
<1>2. CASE dev.net # NoNet
  <2>1. PICK m : m = dev.net
    OBVIOUS
  <2>2. \A kind : Entered(m, kind)' = Entered(m, kind)
    BY <1>2, <2>1, SameEntered
  <2> QED BY <1>2, <2>1, <2>2 DEF DevInv, InParts
<1> QED BY <1>1, <1>2

(* Nothing of the others changes.                                           *)
LEMMA LifeStays ==
  ASSUME NEW m \in Net, LifeOf(m), ctx'[m] = ctx[m], OwnedBy(m)' = OwnedBy(m),
         obj'[m].live = obj[m].live
  PROVE  LifeOf(m)'
BY DEF LifeOf

-----------------------------------------------------------------------------
(* The steps. *)

PlainCase == Allow = {} /\ Excluded # Page

Others(n) == \A m \in Net \ {n} : ctx'[m] = ctx[m]

(* What the device works for stays as it is.                                *)
AtWork(n) ==
  dev.net = n =>
    /\ ctx'[n].type = ctx[n].type /\ ctx'[n].cnt = ctx[n].cnt
    /\ ctx'[n].queue = ctx[n].queue /\ ctx'[n].needs = ctx[n].needs

(* The contexts after a step that gives n's the value c.                    *)
LEMMA ContextIs ==
  ASSUME SmmuTypeOK, NEW n \in Net, NEW c \in Contexts, ctx' = [ctx EXCEPT ![n] = c]
  PROVE  ctx' \in [Net -> Contexts] /\ Others(n) /\ ctx'[n] = c
BY DEF SmmuTypeOK, Others

(* An invoke begins or ends.                                                *)
LEMMA CountIs ==
  ASSUME SmmuTypeOK, NEW n \in Net, NEW k \in 0 .. 1, NEW S \in SUBSET Handle,
         ctx' = [ctx EXCEPT ![n].cnt = k, ![n].needs = S]
  PROVE  /\ ctx' \in [Net -> Contexts] /\ Others(n)
         /\ ctx'[n].cnt = k /\ ctx'[n].needs = S
         /\ ctx'[n].life = ctx[n].life /\ ctx'[n].public = ctx[n].public
         /\ ctx'[n].model = ctx[n].model /\ ctx'[n].queue = ctx[n].queue
         /\ ctx'[n].type = ctx[n].type /\ ctx'[n].updated = ctx[n].updated
<1> DEFINE c == [ctx[n] EXCEPT !.cnt = k]
           d == [c EXCEPT !.needs = S]
<1>1. ctx' = [ctx EXCEPT ![n] = d] /\ d = [c EXCEPT !.needs = S]
  OBVIOUS
<1>2. /\ c \in Contexts /\ c.cnt = k
      /\ c.life = ctx[n].life /\ c.public = ctx[n].public
      /\ c.model = ctx[n].model /\ c.queue = ctx[n].queue
      /\ c.type = ctx[n].type /\ c.updated = ctx[n].updated
  BY TypesAre DEF Contexts
<1> HIDE DEF c, d
<1>3. /\ d \in Contexts /\ d.cnt = k /\ d.needs = S
      /\ d.life = ctx[n].life /\ d.public = ctx[n].public
      /\ d.model = ctx[n].model /\ d.queue = ctx[n].queue
      /\ d.type = ctx[n].type /\ d.updated = ctx[n].updated
  BY <1>1, <1>2 DEF Contexts
<1> QED BY <1>1, <1>3, ContextIs

(* A net is registered with the queue q, or unregistered.                   *)
LEMMA ModelIs ==
  ASSUME SmmuTypeOK, NEW n \in Net, NEW q \in Handle \cup {NoHandle},
         NEW u \in BOOLEAN, NEW v \in BOOLEAN,
         \/ u /\ v = ctx[n].public
            /\ ctx' = [ctx EXCEPT ![n].model = TRUE, ![n].queue = q, ![n].updated = TRUE]
         \/ ~u /\ ~v /\ q = NoHandle
            /\ ctx' = [ctx EXCEPT ![n].model = FALSE, ![n].queue = NoHandle, ![n].public = FALSE]
  PROVE  /\ ctx' \in [Net -> Contexts] /\ Others(n)
         /\ ctx'[n].model = u /\ ctx'[n].queue = q /\ ctx'[n].public = v
         /\ u => ctx'[n].updated
         /\ ~u => ctx'[n].updated = ctx[n].updated
         /\ ctx'[n].life = ctx[n].life /\ ctx'[n].cnt = ctx[n].cnt
         /\ ctx'[n].needs = ctx[n].needs /\ ctx'[n].type = ctx[n].type
<1> DEFINE c == [ctx[n] EXCEPT !.model = u]
           d == [c EXCEPT !.queue = q]
           e == [d EXCEPT !.updated = TRUE]
           f == [d EXCEPT !.public = FALSE]
<1>1. /\ ctx' = IF u THEN [ctx EXCEPT ![n] = e] ELSE [ctx EXCEPT ![n] = f]
      /\ d = [c EXCEPT !.queue = q] /\ e = [d EXCEPT !.updated = TRUE]
      /\ f = [d EXCEPT !.public = FALSE]
  OBVIOUS
<1>2. /\ c \in Contexts /\ c.model = u
      /\ c.life = ctx[n].life /\ c.public = ctx[n].public
      /\ c.cnt = ctx[n].cnt /\ c.needs = ctx[n].needs
      /\ c.type = ctx[n].type /\ c.updated = ctx[n].updated
  BY TypesAre DEF Contexts
<1> HIDE DEF c, d, e, f
<1>3. /\ d \in Contexts /\ d.model = u /\ d.queue = q
      /\ d.life = ctx[n].life /\ d.public = ctx[n].public
      /\ d.cnt = ctx[n].cnt /\ d.needs = ctx[n].needs
      /\ d.type = ctx[n].type /\ d.updated = ctx[n].updated
  BY <1>1, <1>2 DEF Contexts
<1>4. /\ e \in Contexts /\ e.model = u /\ e.queue = q /\ e.updated
      /\ e.life = ctx[n].life /\ e.public = ctx[n].public
      /\ e.cnt = ctx[n].cnt /\ e.needs = ctx[n].needs /\ e.type = ctx[n].type
  BY <1>1, <1>3 DEF Contexts
<1>5. /\ f \in Contexts /\ f.model = u /\ f.queue = q /\ f.public = FALSE
      /\ f.life = ctx[n].life /\ f.updated = ctx[n].updated
      /\ f.cnt = ctx[n].cnt /\ f.needs = ctx[n].needs /\ f.type = ctx[n].type
  BY <1>1, <1>3 DEF Contexts
<1>6. CASE u
  BY <1>1, <1>4, <1>6, ContextIs
<1>7. CASE ~u
  <2>1. v = FALSE /\ ctx' = [ctx EXCEPT ![n] = f]
    BY <1>1, <1>7
  <2> QED BY <1>5, <1>7, <2>1, ContextIs
<1> QED BY <1>6, <1>7

(* The attribute is set.                                                    *)
LEMMA AttributeIs ==
  ASSUME SmmuTypeOK, NEW n \in Net, NEW type \in Types,
         ctx' = [ctx EXCEPT ![n].type = type, ![n].public = TRUE]
  PROVE  /\ ctx' \in [Net -> Contexts] /\ Others(n)
         /\ ctx'[n].type = type /\ ctx'[n].public
         /\ ctx'[n].life = ctx[n].life /\ ctx'[n].model = ctx[n].model
         /\ ctx'[n].queue = ctx[n].queue /\ ctx'[n].updated = ctx[n].updated
         /\ ctx'[n].cnt = ctx[n].cnt /\ ctx'[n].needs = ctx[n].needs
<1> DEFINE c == [ctx[n] EXCEPT !.type = type]
           d == [c EXCEPT !.public = TRUE]
<1>1. ctx' = [ctx EXCEPT ![n] = d] /\ d = [c EXCEPT !.public = TRUE]
  OBVIOUS
<1>2. /\ c \in Contexts /\ c.type = type
      /\ c.life = ctx[n].life /\ c.model = ctx[n].model
      /\ c.queue = ctx[n].queue /\ c.updated = ctx[n].updated
      /\ c.cnt = ctx[n].cnt /\ c.needs = ctx[n].needs
  BY TypesAre DEF Contexts
<1> HIDE DEF c, d
<1>3. /\ d \in Contexts /\ d.type = type /\ d.public
      /\ d.life = ctx[n].life /\ d.model = ctx[n].model
      /\ d.queue = ctx[n].queue /\ d.updated = ctx[n].updated
      /\ d.cnt = ctx[n].cnt /\ d.needs = ctx[n].needs
  BY <1>1, <1>2 DEF Contexts
<1> QED BY <1>1, <1>3, ContextIs

(* The flag is set or cleared.                                              *)
LEMMA UpdatedIs ==
  ASSUME SmmuTypeOK, NEW n \in Net, NEW u \in BOOLEAN,
         ctx' = [ctx EXCEPT ![n].updated = u]
  PROVE  /\ ctx' \in [Net -> Contexts] /\ Others(n)
         /\ ctx'[n].updated = u
         /\ ctx'[n].life = ctx[n].life /\ ctx'[n].public = ctx[n].public
         /\ ctx'[n].model = ctx[n].model /\ ctx'[n].queue = ctx[n].queue
         /\ ctx'[n].type = ctx[n].type
         /\ ctx'[n].cnt = ctx[n].cnt /\ ctx'[n].needs = ctx[n].needs
BY DEF SmmuTypeOK, Others, Contexts

(* A step that changes a context and its table.                             *)
LEMMA TableStep ==
  ASSUME SmmuInv, NEW n \in Net, TablesInv', obj' \in [Tables -> Objects],
         \A o \in Tables \ {n} : obj'[o] = obj[o], obj'[n].dirty \subseteq obj[n].dirty,
         buf' = buf, dev' = dev,
         ctx' \in [Net -> Contexts], Others(n), AtWork(n), LifeOf(n)',
         OwnedBy(n) # {} => ctx'[n].type = ctx[n].type /\ ctx'[n].updated = ctx[n].updated
  PROVE  SmmuInv'
<1> USE DEF SmmuInv
<1>1. Live' = Live /\ \A m : OwnedBy(m)' = OwnedBy(m)
  BY DEF OwnedBy, Live
<1>2. SmmuTypeOK'
  BY DEF SmmuTypeOK
<1>3. LifeInv'
  <2>1. ASSUME NEW m \in Net \ {n} PROVE LifeOf(m)'
    BY <1>1, LifeStays, TypesAre DEF Others, LifeInv
  <2> QED BY <2>1 DEF LifeInv
<1>4. NoNewDirt /\ QueueStays
  BY TypesAre DEF NoNewDirt, QueueStays
<1>5. ASSUME NEW m \in Net
      PROVE  FlushOf(m)'
  <2>1. CASE m # n \/ OwnedBy(n) # {}
    <3>1. ctx'[m].updated = ctx[m].updated /\ \A x \in OwnedBy(m)' : Stays(m, x)
      BY <1>1, <2>1 DEF Others, Stays
    <3>2. dev'.net = m => dev.net = m /\ \A x \in ctx'[m].needs : x \in ctx[m].needs /\ Stays(m, x)
      BY <1>1, <2>1, <3>1 DEF Others, AtWork, Stays, LifeInv, LifeOf
    <3> QED BY <1>4, <3>1, <3>2, FlushStays
  <2>2. CASE m = n /\ OwnedBy(n) = {}
    BY <1>1, <2>2 DEF FlushOf, AtWork, LifeInv, LifeOf
  <2> QED BY <2>1, <2>2
<1>6. DevInv'
  <2>1. dev.net # NoNet => dev.net \in Net
    BY DEF SmmuTypeOK
  <2> QED BY <2>1, DevStays DEF Others, AtWork
<1> QED BY <1>2, <1>3, <1>5, <1>6 DEF FlushInv

(* A step that changes nothing but a context.                               *)
LEMMA ContextStep ==
  ASSUME SmmuInv, NEW n \in Net, obj' = obj, buf' = buf, dev' = dev,
         ctx' \in [Net -> Contexts], Others(n), AtWork(n), LifeOf(n)',
         OwnedBy(n) # {} => ctx'[n].type = ctx[n].type /\ ctx'[n].updated = ctx[n].updated
  PROVE  SmmuInv'
<1>1. \A x \in Live : ctx'[buf[x].own].type = ctx[buf[x].own].type
  BY TypesAre DEF Others, OwnedBy, Buffers, SmmuInv
<1>2. obj \in [Tables -> Objects]
  BY DEF SmmuTypeOK, SmmuInv
<1>3. TablesInv'
  BY <1>1, <1>2, KeptTables DEF Left, SmmuInv
<1> QED BY <1>2, <1>3, TableStep

LEMMA OpenKeeps ==
  ASSUME SmmuInv, NEW n \in Net, Open(n)
  PROVE  SmmuInv'
<1>1. /\ ctx' \in [Net -> Contexts] /\ Others(n)
      /\ ctx'[n].life = "open" /\ ~ctx'[n].public /\ ~ctx'[n].model
      /\ ctx'[n].queue = NoHandle /\ ctx'[n].cnt = 0 /\ ctx'[n].needs = {}
  <2>1. Absent \in Contexts
    BY DEF Absent, Contexts, Types
  <2>2. [Absent EXCEPT !.life = "open"] \in Contexts
    BY <2>1 DEF Contexts
  <2> QED BY <2>2, ContextIs DEF Open, SmmuInv, Absent
<1>2. ~ctx[n].public /\ OwnedBy(n) = {} /\ ~obj[n].live /\ ctx[n].cnt # 1
  BY DEF Open, SmmuInv, LifeInv, LifeOf
<1>3. OwnedBy(n)' = {}
  BY <1>2 DEF Open, OwnedBy, Live
<1>4. LifeOf(n)'
  BY <1>1, <1>2, <1>3 DEF Open, LifeOf
<1>5. dev.net # n
  BY <1>2, NamesAssumption DEF SmmuInv, DevInv
<1> QED BY <1>1, <1>2, <1>4, <1>5, ContextStep DEF Open, AtWork

LEMMA InvokeKeeps ==
  ASSUME SmmuInv, NEW n \in Net, Invoke(n)
  PROVE  SmmuInv'
<1>1. /\ ctx' \in [Net -> Contexts] /\ Others(n)
      /\ ctx'[n].cnt = 1 /\ ctx'[n].needs = OwnedBy(n)
      /\ ctx'[n].life = ctx[n].life /\ ctx'[n].public = ctx[n].public
      /\ ctx'[n].model = ctx[n].model /\ ctx'[n].queue = ctx[n].queue
      /\ ctx'[n].type = ctx[n].type /\ ctx'[n].updated = ctx[n].updated
  <2>1. OwnedBy(n) \in SUBSET Handle
    BY DEF OwnedBy, Live
  <2>2. ctx' = [ctx EXCEPT ![n].cnt = 1, ![n].needs = OwnedBy(n)] /\ 1 \in 0 .. 1
    BY DEF Invoke
  <2>3. SmmuTypeOK
    BY DEF SmmuInv
  <2> QED BY <2>1, <2>2, <2>3, CountIs, Zenon
<1>2. OwnedBy(n)' = OwnedBy(n) /\ ctx[n].model
  BY DEF Invoke, OwnedBy, Live
<1>3. LifeOf(n)'
  BY <1>1, <1>2 DEF Invoke, LifeOf, SmmuInv, LifeInv
<1>4. dev.net # n
  BY NamesAssumption DEF SmmuInv, DevInv, Invoke
<1> QED BY <1>1, <1>3, <1>4, ContextStep DEF Invoke, AtWork

LEMMA CancelKeeps ==
  ASSUME SmmuInv, NEW n \in Net, Cancel(n)
  PROVE  SmmuInv'
<1>1. /\ ctx' \in [Net -> Contexts] /\ Others(n)
      /\ ctx'[n].cnt = 0 /\ ctx'[n].needs = {}
      /\ ctx'[n].life = ctx[n].life /\ ctx'[n].public = ctx[n].public
      /\ ctx'[n].model = ctx[n].model /\ ctx'[n].queue = ctx[n].queue
      /\ ctx'[n].type = ctx[n].type /\ ctx'[n].updated = ctx[n].updated
  <2>1. ctx' = [ctx EXCEPT ![n].cnt = 0, ![n].needs = {}] /\ 0 \in 0 .. 1
    BY DEF Cancel
  <2>2. SmmuTypeOK /\ {} \in SUBSET Handle
    BY DEF SmmuInv
  <2> QED BY <2>1, <2>2, CountIs, Zenon
<1>2. OwnedBy(n)' = OwnedBy(n)
  BY DEF Cancel, OwnedBy, Live
<1>3. LifeOf(n)'
  BY <1>1, <1>2 DEF Cancel, LifeOf, SmmuInv, LifeInv
<1> QED BY <1>1, <1>3, ContextStep DEF Cancel, AtWork

LEMMA CloseKeeps ==
  ASSUME SmmuInv, PlainCase, NEW n \in Net, Close(n)
  PROVE  SmmuInv'
<1>1. /\ ctx' \in [Net -> Contexts] /\ Others(n)
      /\ ctx'[n].life = "closing" /\ ctx'[n].public = ctx[n].public
      /\ ctx'[n].cnt = ctx[n].cnt /\ ctx'[n].needs = ctx[n].needs
      /\ ctx'[n].model = ctx[n].model /\ ctx'[n].queue = ctx[n].queue
      /\ ctx'[n].type = ctx[n].type /\ ctx'[n].updated = ctx[n].updated
  BY DEF Close, SmmuInv, SmmuTypeOK, Others, Contexts
<1>2. OwnedBy(n)' = OwnedBy(n) /\ (obj[n].live => ctx[n].model)
  BY DEF Close, OwnedBy, Live, PlainCase
<1>3. LifeOf(n)'
  BY <1>1, <1>2 DEF Close, LifeOf, SmmuInv, LifeInv
<1> QED BY <1>1, <1>3, ContextStep DEF Close, AtWork

(* What an invoke has sent to the device ends.                              *)
LEMMA FinishKeeps ==
  ASSUME SmmuInv, NEW n \in Net, Finish(n)
  PROVE  SmmuInv'
<1>1. /\ ctx' \in [Net -> Contexts] /\ Others(n)
      /\ ctx'[n].cnt = 0 /\ ctx'[n].needs = {}
      /\ ctx'[n].life = ctx[n].life /\ ctx'[n].public = ctx[n].public
      /\ ctx'[n].model = ctx[n].model /\ ctx'[n].queue = ctx[n].queue
      /\ ctx'[n].type = ctx[n].type /\ ctx'[n].updated = ctx[n].updated
  <2>1. ctx' = [ctx EXCEPT ![n].cnt = 0, ![n].needs = {}] /\ 0 \in 0 .. 1
    BY DEF Finish
  <2>2. SmmuTypeOK /\ {} \in SUBSET Handle
    BY DEF SmmuInv
  <2> QED BY <2>1, <2>2, CountIs, Zenon
<1>2. Live' = Live /\ \A m : OwnedBy(m)' = OwnedBy(m)
  BY DEF Finish, OwnedBy, Live
<1>3. obj' = obj /\ buf' = buf /\ dev' = Idle
  BY DEF Finish
<1>4. SmmuTypeOK'
  BY <1>1, <1>3 DEF SmmuInv, SmmuTypeOK, Idle, Tables
<1>5. TablesInv'
  <2>1. Left(obj) /\ \A x \in Live : ctx'[buf[x].own].type = ctx[buf[x].own].type
    BY <1>1, <1>3, TypesAre DEF SmmuInv, SmmuTypeOK, Left, Others, Buffers
  <2> QED BY <1>3, <2>1, KeptTables DEF SmmuInv
<1>6. LifeOf(n)'
  BY <1>1, <1>2, <1>3 DEF LifeOf, SmmuInv, LifeInv
<1>7. ASSUME NEW m \in Net \ {n} PROVE LifeOf(m)'
  BY <1>1, <1>2, <1>3, LifeStays DEF Others, LifeInv, SmmuInv
<1>8. ASSUME NEW m \in Net
      PROVE  FlushOf(m)'
  <2>1. NoNewDirt /\ QueueStays
    BY <1>3 DEF NoNewDirt, QueueStays
  <2>2. ctx'[m].updated = ctx[m].updated /\ \A x \in OwnedBy(m)' : Stays(m, x)
    BY <1>1, <1>2, <1>3 DEF Others, Stays
  <2>3. dev'.net # m
    BY <1>3, NamesAssumption DEF Idle
  <2> QED BY <2>1, <2>2, <2>3, FlushStays DEF SmmuInv
<1>9. DevInv'
  BY <1>3 DEF DevInv, Idle
<1> QED BY <1>4, <1>5, <1>6, <1>7, <1>8, <1>9 DEF SmmuInv, FlushInv, LifeInv

(* An attribute may create the table.                                       *)
LEMMA SetContextAttributeKeeps ==
  ASSUME SmmuInv, PlainCase, NEW n \in Net, NEW type \in Types, SetContextAttribute(n, type)
  PROVE  SmmuInv'
<1>1. /\ ctx' \in [Net -> Contexts] /\ Others(n)
      /\ ctx'[n].type = type /\ ctx'[n].public
      /\ ctx'[n].life = ctx[n].life /\ ctx'[n].model = ctx[n].model
      /\ ctx'[n].queue = ctx[n].queue /\ ctx'[n].updated = ctx[n].updated
      /\ ctx'[n].cnt = ctx[n].cnt /\ ctx'[n].needs = ctx[n].needs
  BY AttributeIs DEF SetContextAttribute, SmmuInv
<1>2. /\ OwnedBy(n) # {} \/ ctx[n].model => type = ctx[n].type
      /\ ctx[n].life = "open" /\ buf' = buf /\ dev' = dev
  BY DEF SetContextAttribute, PlainCase, IsOpen
<1>3. OwnedBy(n)' = OwnedBy(n)
  BY <1>2 DEF OwnedBy, Live
<1>4. LifeOf(n)
  BY DEF SmmuInv, LifeInv
<1>5. AtWork(n)
  <2>1. dev.net = n => ctx[n].cnt = 1
    BY NamesAssumption DEF SmmuInv, DevInv
  <2> QED BY <1>1, <1>2, <1>4, <2>1 DEF AtWork, LifeOf
<1>6. CASE type # "PUBLIC_ONLY" /\ ~obj[n].live
  <2>1. obj' = [obj EXCEPT ![n] = NewTable]
    BY <1>6 DEF SetContextAttribute
  <2>2. /\ obj' \in [Tables -> Objects] /\ obj'[n] = NewTable
        /\ \A o \in Tables \ {n} : obj'[o] = obj[o]
    BY <2>1, TypesAre, NewTableIs DEF SmmuInv, SmmuTypeOK
  <2>3. OwnedBy(n) = {} /\ ~ctx[n].model
    BY <1>2, <1>4, <1>6 DEF LifeOf
  <2>4. TablesInv'
    <3>1. \A x \in Live : ctx'[buf[x].own].type = ctx[buf[x].own].type
      BY <1>1, <2>3, TypesAre DEF Others, OwnedBy, Buffers, SmmuInv
    <3> QED BY <1>2, <2>1, <2>3, <3>1, NewTables DEF SmmuInv
  <2>5. LifeOf(n)'
    BY <1>1, <1>2, <1>3, <1>4, <2>2, <2>3, NewTableIs DEF LifeOf
  <2> QED BY <1>1, <1>2, <1>5, <2>2, <2>3, <2>4, <2>5, NewTableIs, TableStep
<1>7. CASE ~(type # "PUBLIC_ONLY" /\ ~obj[n].live)
  <2>1. obj' = obj
    BY <1>7 DEF SetContextAttribute
  <2>2. LifeOf(n)'
    BY <1>1, <1>2, <1>3, <1>4, <1>7, <2>1 DEF LifeOf
  <2> QED BY <1>1, <1>2, <1>5, <2>1, <2>2, ContextStep
<1> QED BY <1>6, <1>7

(* A step that gives a buffer.                                              *)
LEMMA GiveStep ==
  ASSUME SmmuInv, PlainCase, NEW n \in Net, NEW h \in Handle \ Live,
         NEW pages \in Nat \ {0}, NEW kind \in Kinds, NEW ext \in BOOLEAN,
         Enter(n, h, Request(n, pages, kind, ext), buf), dev' = dev,
         ctx' \in [Net -> Contexts], Others(n), AtWork(n), ctx'[n].updated,
         ctx'[n].type = ctx[n].type, ctx'[n].needs = ctx[n].needs,
         OwnedBy(n) \subseteq OwnedBy(n)' /\ obj'[n].live = obj[n].live
           /\ (IovaAlloc(n, h, Request(n, pages, kind, ext)).at # Invalid => h \in OwnedBy(n)')
           => LifeOf(n)'
  PROVE  SmmuInv'
<1> DEFINE b == Request(n, pages, kind, ext)
           r == IovaAlloc(n, h, b)
<1>1. /\ b \in Buffers /\ b.n = pages /\ b.at = Invalid /\ b.own = n /\ b.kind = kind
      /\ b.ext = ext
  BY SmmuAssumption DEF Request, Buffers, Invalid
<1>2. ctx[n].public /\ kind # "both" /\ (r.at # Invalid => Apart(n, [b EXCEPT !.at = r.at]))
  <2>1. [b EXCEPT !.at = r.at].kind = kind /\ [b EXCEPT !.at = r.at].at = r.at
    BY <1>1 DEF Buffers
  <2> QED BY <2>1 DEF Enter, Expected, PlainCase
<1>3. Allocated(r, n, h, b)
  BY <1>1, <1>2, IovaAllocIs DEF SmmuInv
<1>4. Given(n, h, b, r)
  BY DEF Enter, Given
<1>20. r = IovaAlloc(n, h, Request(n, pages, kind, ext))
  OBVIOUS
<1> HIDE DEF b, r
<1>5. r.at \in {Invalid} \cup Page /\ \A o \in Entered(n, b.kind) : o \in Tables /\ obj[o].live
  BY <1>1, <1>2, <1>3, EnteredLive DEF Allocated, SmmuInv
<1>6. SameTypes
  BY DEF Others, SameTypes
<1>7. Kept(h)
  BY <1>1, <1>3, <1>4, <1>5, GiveKeeps DEF SmmuInv
<1>8. TablesInv'
  BY <1>1, <1>2, <1>3, <1>4, <1>5, <1>6, GiveTables DEF SmmuInv
<1>9. /\ \A x \in Handle \ {h} : buf'[x] = buf[x] /\ (x \in Live' <=> x \in Live)
      /\ h \in Live' => buf'[h].own = n
      /\ r.at # Invalid => h \in Live'
  BY <1>1, <1>4, <1>5, GivenIs DEF SmmuInv
<1>10. \A m \in Net \ {n} : OwnedBy(m)' = OwnedBy(m)
  BY <1>9 DEF OwnedBy, Live
<1>11. OwnedBy(n) \subseteq OwnedBy(n)' /\ (r.at # Invalid => h \in OwnedBy(n)')
  BY <1>9 DEF OwnedBy, Live
<1>12. SmmuTypeOK'
  BY <1>7 DEF Kept, SmmuInv, SmmuTypeOK
<1>13. LifeInv'
  <2>1. LifeOf(n)'
    BY <1>7, <1>11, <1>20, TypesAre DEF Kept, SmmuInv
  <2>2. ASSUME NEW m \in Net \ {n} PROVE LifeOf(m)'
    BY <1>7, <1>10, LifeStays, TypesAre DEF Others, LifeInv, SmmuInv, Kept
  <2> QED BY <2>1, <2>2 DEF LifeInv
<1>14. NoNewDirt
  BY <1>7 DEF Kept, NoNewDirt
<1>15. QueueStays
  <2>1. CASE r.at = Invalid /\ r.obj = obj
    BY <1>4, <2>1 DEF Given, QueueStays
  <2>2. CASE r.at \in Page /\ \A o \in Entered(n, b.kind) : AllocatedIn(o, r.obj, r.at, b.n, h)
    <3>1. CASE Public \in Entered(n, b.kind)
      <4>1. obj'[Public].cpu = Write(obj[Public].cpu, r.at, b.n, h)
        BY <1>4, <2>2, <3>1 DEF Given, AllocatedIn, Added
      <4>2. obj[Public].cpu \in Translations /\ h # PublicQueue
        BY TypesAre, NamesAssumption DEF SmmuInv, Objects
      <4> QED BY <4>1, <4>2, WriteAt DEF QueueStays
    <3>2. CASE Public \notin Entered(n, b.kind)
      <4>1. obj'[Public] = obj[Public]
        BY <1>3, <1>4, <3>2, TypesAre DEF Allocated, Given, SmmuInv
      <4> QED BY <4>1 DEF QueueStays
    <3> QED BY <3>1, <3>2
  <2> QED BY <1>3, <2>1, <2>2 DEF Allocated
<1>16. ASSUME NEW m \in Net, NEW x \in OwnedBy(m)
       PROVE  Stays(m, x)
  <2>1. x \in Handle \ {h}
    BY DEF OwnedBy, Live
  <2> QED BY <1>6, <1>9, <2>1 DEF Stays, SameTypes
<1>17. ASSUME NEW m \in Net
       PROVE  FlushOf(m)'
  <2>1. ~ctx'[m].updated => ~ctx[m].updated /\ \A x \in OwnedBy(m)' : Stays(m, x)
    BY <1>10, <1>16 DEF Others
  <2>2. dev'.net = m => dev.net = m /\ \A x \in ctx'[m].needs : x \in ctx[m].needs /\ Stays(m, x)
    <3>1. ctx'[m].needs = ctx[m].needs /\ ctx[m].needs \subseteq OwnedBy(m)
      BY DEF Others, SmmuInv, LifeInv, LifeOf
    <3> QED BY <1>16, <3>1
  <2> QED BY <1>14, <1>15, <2>1, <2>2, FlushStays DEF SmmuInv
<1>18. DevInv'
  <2>1. CASE dev.net = NoNet
    BY <2>1 DEF DevInv
  <2>2. CASE dev.net # NoNet
    <3>1. dev.net \in Net
      BY <2>2 DEF SmmuInv, SmmuTypeOK
    <3>2. \A x \in ctx[dev.net].needs : buf'[x] = buf[x]
      BY <1>16, <3>1 DEF SmmuInv, LifeInv, LifeOf, Stays
    <3> QED BY <3>1, <3>2, DevStays DEF Others, AtWork, SmmuInv
  <2> QED BY <2>1, <2>2
<1> QED BY <1>8, <1>12, <1>13, <1>17, <1>18 DEF SmmuInv, FlushInv

(* A step that takes a buffer away, and perhaps the table.                  *)
LEMMA FreeStep ==
  ASSUME SmmuInv, NEW n \in Net, NEW h \in OwnedBy(n),
         NEW objs, objs = IovaFree(n, buf[h]), obj' \in [Tables -> Objects],
         \A o \in Tables \ {n} : obj'[o] = objs[o], obj'[n] \in {objs[n], NoTable},
         buf' = [buf EXCEPT ![h] = NoBuf], dev' = dev,
         ctx' \in [Net -> Contexts], Others(n), AtWork(n),
         h \notin ctx[n].needs, ctx'[n].needs = ctx[n].needs,
         OwnedBy(n) # {h} => ctx'[n].type = ctx[n].type /\ ctx'[n].updated = ctx[n].updated,
         OwnedBy(n)' = OwnedBy(n) \ {h}
           /\ (obj'[n].live => obj[n].live)
           /\ (obj'[n] = objs[n] => obj'[n].live = obj[n].live) => LifeOf(n)'
  PROVE  SmmuInv'
<1>1. h \in Handle /\ h \in Live /\ buf[h] \in Buffers /\ buf[h].own = n
  BY TypesAre DEF OwnedBy, Live, SmmuInv
<1>2. Freed(objs, n, buf[h]) /\ Left(objs)
  BY IovaFreeIs DEF SmmuInv, Left
<1>3. buf'[h] = NoBuf /\ \A x \in Handle \ {h} : buf'[x] = buf[x]
  BY <1>1 DEF SmmuInv, SmmuTypeOK
<1>4. Live' = Live \ {h} /\ OwnedBy(n)' = OwnedBy(n) \ {h}
      /\ \A m \in Net \ {n} : OwnedBy(m)' = OwnedBy(m)
  BY <1>1, <1>3 DEF OwnedBy, Live
<1>5. ASSUME NEW m \in Net, NEW x \in OwnedBy(m)'
      PROVE  Stays(m, x)
  BY <1>3, <1>4 DEF Stays, Others, OwnedBy, Live
<1>6. \A x \in Live' : ctx'[buf[x].own].type = ctx[buf[x].own].type
  <2>1. ASSUME NEW x \in Live'
        PROVE  ctx'[buf[x].own].type = ctx[buf[x].own].type
    <3>1. PICK m \in Net : m = buf[x].own
      BY <1>4, TypesAre DEF SmmuInv, Buffers
    <3>2. x \in OwnedBy(m)'
      BY <1>3, <1>4, <3>1 DEF OwnedBy, Live
    <3> QED BY <1>5, <3>1, <3>2 DEF Stays
  <2> QED BY <2>1
<1>7. TablesInv'
  BY <1>2, <1>6, FreeTables DEF SmmuInv
<1>8. SmmuTypeOK'
  BY DEF SmmuInv, SmmuTypeOK
<1>9. ASSUME NEW o \in Tables
      PROVE  objs[o].live = obj[o].live /\ objs[o].dirty \subseteq obj[o].dirty
  BY <1>2 DEF Freed, Removed
<1>10. LifeInv'
  <2>1. LifeOf(n)'
    BY <1>4, <1>9, TypesAre, NoTableIs DEF SmmuInv
  <2>2. ASSUME NEW m \in Net \ {n} PROVE LifeOf(m)'
    BY <1>4, <1>9, LifeStays, TypesAre DEF Others, LifeInv, SmmuInv
  <2> QED BY <2>1, <2>2 DEF LifeInv
<1>11. NoNewDirt
  BY <1>9, NoTableIs, TypesAre DEF NoNewDirt, SmmuInv
<1>12. QueueStays
  <2>1. obj'[Public] = objs[Public] /\ obj[Public].cpu \in Translations
    BY TypesAre DEF SmmuInv, Objects
  <2>2. objs[Public].cpu = obj[Public].cpu
        \/ objs[Public].cpu = Write(obj[Public].cpu, buf[h].at, buf[h].n, NoHandle)
    BY <1>2, TypesAre DEF Freed, Removed, SmmuInv
  <2> QED BY <2>1, <2>2, WriteAt, NamesAssumption DEF QueueStays
<1>13. ASSUME NEW m \in Net
       PROVE  FlushOf(m)'
  <2>1. CASE m = n /\ OwnedBy(n) = {h}
    <3>1. OwnedBy(m)' = {} /\ ctx'[m].needs = {}
      BY <1>4, <2>1 DEF SmmuInv, LifeInv, LifeOf
    <3> QED BY <3>1 DEF FlushOf
  <2>2. CASE ~(m = n /\ OwnedBy(n) = {h})
    <3>1. ctx'[m].updated = ctx[m].updated
      BY <2>2 DEF Others
    <3>2. dev'.net = m => dev.net = m /\ \A x \in ctx'[m].needs : x \in ctx[m].needs /\ Stays(m, x)
      BY <1>4, <1>5 DEF Others, SmmuInv, LifeInv, LifeOf
    <3> QED BY <1>5, <1>11, <1>12, <3>1, <3>2, FlushStays DEF SmmuInv
  <2> QED BY <2>1, <2>2
<1>14. DevInv'
  <2>1. CASE dev.net = NoNet
    BY <2>1 DEF DevInv
  <2>2. CASE dev.net # NoNet
    <3>1. dev.net \in Net
      BY <2>2 DEF SmmuInv, SmmuTypeOK
    <3>2. \A x \in ctx[dev.net].needs : x \in Handle \ {h}
      BY <1>1, <3>1 DEF SmmuInv, LifeInv, LifeOf, OwnedBy, Live
    <3> QED BY <1>3, <3>1, <3>2, DevStays DEF Others, AtWork, SmmuInv
  <2> QED BY <2>1, <2>2
<1> QED BY <1>7, <1>8, <1>10, <1>13, <1>14 DEF SmmuInv, FlushInv

(* Allocations and attachments.                                             *)
LEMMA AskKeeps ==
  ASSUME SmmuInv, PlainCase, NEW n \in Net, NEW h \in Handle \ Live,
         NEW pages \in Nat \ {0}, NEW kind \in Kinds, NEW ext \in BOOLEAN,
         Enter(n, h, Request(n, pages, kind, ext), buf), IsOpen(n),
         ctx' = [ctx EXCEPT ![n].updated = TRUE], dev' = dev
  PROVE  SmmuInv'
<1>1. /\ ctx' \in [Net -> Contexts] /\ Others(n)
      /\ ctx'[n].updated
      /\ ctx'[n].life = ctx[n].life /\ ctx'[n].public = ctx[n].public
      /\ ctx'[n].model = ctx[n].model /\ ctx'[n].queue = ctx[n].queue
      /\ ctx'[n].type = ctx[n].type
      /\ ctx'[n].cnt = ctx[n].cnt /\ ctx'[n].needs = ctx[n].needs
  BY UpdatedIs DEF SmmuInv
<1>2. ASSUME OwnedBy(n) \subseteq OwnedBy(n)', obj'[n].live = obj[n].live
      PROVE  LifeOf(n)'
  <2>1. LifeOf(n) /\ ctx[n].public
    BY DEF SmmuInv, LifeInv, Enter
  <2> QED BY <1>1, <1>2, <2>1 DEF LifeOf
<1> QED BY <1>1, <1>2, GiveStep DEF AtWork

LEMMA AllocKeeps ==
  ASSUME SmmuInv, PlainCase, NEW n \in Net, AllocRequest(n)
  PROVE  SmmuInv'
<1>1. PICK h \in Handle \ Live, pages \in 1 .. MaxPages, kind \in Kinds :
        /\ IsOpen(n) /\ Enter(n, h, Request(n, pages, kind, FALSE), buf)
        /\ ctx' = [ctx EXCEPT ![n].updated = TRUE] /\ dev' = dev
  BY DEF AllocRequest
<1>2. pages \in Nat \ {0}
  BY SmmuAssumption
<1> QED BY <1>1, <1>2, AskKeeps

LEMMA AttachKeeps ==
  ASSUME SmmuInv, PlainCase, NEW n \in Net, ExtMemAttachRequest(n)
  PROVE  SmmuInv'
<1>1. PICK h \in Handle \ Live :
        /\ IsOpen(n) /\ Enter(n, h, Request(n, 1, "shared", TRUE), buf)
        /\ ctx' = [ctx EXCEPT ![n].updated = TRUE] /\ dev' = dev
  BY DEF ExtMemAttachRequest
<1>2. 1 \in Nat \ {0} /\ "shared" \in Kinds
  BY DEF Kinds
<1> QED BY <1>1, <1>2, AskKeeps

(* A net is registered, with its own queue or with the public one.          *)
LEMMA RegisterKeeps ==
  ASSUME SmmuInv, PlainCase, NEW n \in Net, Register(n)
  PROVE  SmmuInv'
<1>1. LifeOf(n) /\ IsOpen(n) /\ ~ctx[n].model /\ ctx[n].public /\ dev' = dev
  BY DEF Register, PlainCase, SmmuInv, LifeInv
<1>2. dev.net # n /\ ctx[n].cnt # 1
  BY <1>1, NamesAssumption DEF SmmuInv, DevInv, LifeOf
<1>3. ctx[n] \in Contexts /\ ctx[n].cnt = 0 /\ ctx[n].needs = {} /\ ctx[n].queue = NoHandle
  <2>1. ctx[n] \in Contexts
    BY TypesAre DEF SmmuInv
  <2> QED BY <1>1, <1>2, <2>1 DEF Contexts, LifeOf
<1>4. Forget(n) = buf
  BY <1>3, NamesAssumption DEF Forget, SmmuInv, SmmuTypeOK
<1>5. ASSUME NEW h \in Handle \ Live,
             IovaAlloc(n, h, Request(n, 1, "shared", FALSE)).at # Invalid,
             Enter(n, h, Request(n, 1, "shared", FALSE), Forget(n)),
             ctx' = [ctx EXCEPT ![n].model = TRUE, ![n].queue = h, ![n].updated = TRUE]
      PROVE  SmmuInv'
  <2>1. /\ ctx' \in [Net -> Contexts] /\ Others(n)
        /\ ctx'[n].model = TRUE /\ ctx'[n].queue = h /\ ctx'[n].public = ctx[n].public
        /\ ctx'[n].updated
        /\ ctx'[n].life = ctx[n].life /\ ctx'[n].cnt = ctx[n].cnt
        /\ ctx'[n].needs = ctx[n].needs /\ ctx'[n].type = ctx[n].type
    <3>1. TRUE \in BOOLEAN /\ ctx[n].public \in BOOLEAN /\ h \in Handle \cup {NoHandle}
      BY <1>3 DEF Contexts
    <3> QED BY <1>5, <3>1, ModelIs DEF SmmuInv
  <2>2. ASSUME OwnedBy(n) \subseteq OwnedBy(n)', obj'[n].live = obj[n].live,
               h \in OwnedBy(n)'
        PROVE  LifeOf(n)'
    <3>1. h # NoHandle
      BY NamesAssumption
    <3> QED BY <1>1, <1>3, <2>1, <2>2, <3>1 DEF LifeOf, IsOpen
  <2>3. AtWork(n) /\ 1 \in Nat \ {0} /\ "shared" \in Kinds
    BY <1>2 DEF AtWork, Kinds
  <2>4. Enter(n, h, Request(n, 1, "shared", FALSE), buf)
    BY <1>4, <1>5 DEF Enter
  <2> QED BY <1>1, <1>5, <2>1, <2>2, <2>3, <2>4, GiveStep
<1>6. ASSUME ctx[n].type = "PUBLIC_ONLY",
             ctx' = [ctx EXCEPT ![n].model = TRUE, ![n].queue = NoHandle],
             obj' = obj, buf' = buf
      PROVE  SmmuInv'
  <2>1. /\ ctx' \in [Net -> Contexts] /\ Others(n)
        /\ ctx'[n].model = TRUE /\ ctx'[n].queue = ctx[n].queue
        /\ ctx'[n].public = ctx[n].public /\ ctx'[n].updated = ctx[n].updated
        /\ ctx'[n].life = ctx[n].life /\ ctx'[n].cnt = ctx[n].cnt
        /\ ctx'[n].needs = ctx[n].needs /\ ctx'[n].type = ctx[n].type
    BY <1>3, <1>6 DEF SmmuInv, SmmuTypeOK, Others, Contexts
  <2>2. OwnedBy(n)' = OwnedBy(n)
    BY <1>6 DEF OwnedBy, Live
  <2>3. LifeOf(n)'
    BY <1>1, <1>3, <1>6, <2>1, <2>2 DEF LifeOf, IsOpen
  <2> QED BY <1>1, <1>2, <1>6, <2>1, <2>3, ContextStep DEF AtWork
<1> QED BY <1>4, <1>5, <1>6 DEF Register, PlainCase

(* A buffer that no invoke needs is freed or detached.                      *)
LEMMA LeaveKeeps ==
  ASSUME SmmuInv, NEW n \in Net, NEW h \in Linked(n), h \notin ctx[n].needs, Leave(n, h),
         ctx' = ctx
  PROVE  SmmuInv'
<1>1. h \in OwnedBy(n) /\ h # ctx[n].queue
  BY DEF Linked
<1>2. IovaFree(n, buf[h]) \in [Tables -> Objects]
  BY <1>1, IovaFreeIs DEF SmmuInv, Freed
<1>3. /\ obj' = IovaFree(n, buf[h]) /\ buf' = [buf EXCEPT ![h] = NoBuf] /\ dev' = dev
  BY DEF Leave
<1>4. ctx' \in [Net -> Contexts] /\ Others(n) /\ AtWork(n)
  BY DEF SmmuInv, SmmuTypeOK, Others, AtWork
<1>5. ASSUME OwnedBy(n)' = OwnedBy(n) \ {h}, obj'[n].live = obj[n].live
      PROVE  LifeOf(n)'
  BY <1>1, <1>5 DEF SmmuInv, LifeInv, LifeOf
<1>6. \A o \in Tables \ {n} : obj'[o] = IovaFree(n, buf[h])[o]
  BY <1>3
<1>7. obj'[n] = IovaFree(n, buf[h])[n]
  BY <1>3
<1> QED BY <1>1, <1>2, <1>3, <1>4, <1>5, <1>6, <1>7, FreeStep

LEMMA FreeRequestKeeps ==
  ASSUME SmmuInv, NEW n \in Net, FreeRequest(n)
  PROVE  SmmuInv'
<1>1. PICK h \in Linked(n) : ctx[n].cnt = 0 /\ Leave(n, h) /\ ctx' = ctx
  BY DEF FreeRequest
<1>2. h \notin ctx[n].needs
  BY <1>1 DEF SmmuInv, LifeInv, LifeOf
<1> QED BY <1>1, <1>2, LeaveKeeps

LEMMA FreeAllContextKeeps ==
  ASSUME SmmuInv, NEW n \in Net, FreeAllContext(n)
  PROVE  SmmuInv'
<1>1. PICK h \in Linked(n) : ctx[n].cnt = 0 /\ Leave(n, h) /\ ctx' = ctx
  BY DEF FreeAllContext
<1>2. h \notin ctx[n].needs
  BY <1>1 DEF SmmuInv, LifeInv, LifeOf
<1> QED BY <1>1, <1>2, LeaveKeeps

LEMMA ExtMemDettachKeeps ==
  ASSUME SmmuInv, PlainCase, NEW n \in Net, ExtMemDettachRequest(n)
  PROVE  SmmuInv'
BY LeaveKeeps DEF ExtMemDettachRequest, PlainCase

(* A net goes, with its queue and its table.                                *)
LEMMA NetDettachKeeps ==
  ASSUME SmmuInv, NEW n \in Net, NetDettach(n), Linked(n) = {}, ctx[n].cnt = 0, dev' = dev,
         obj[n].live => ctx[n].model,
         ctx' \in [Net -> Contexts], Others(n), ~ctx'[n].model, ctx'[n].queue = NoHandle,
         ~ctx'[n].public, ctx'[n].cnt = 0, ctx'[n].needs = {}
  PROVE  SmmuInv'
<1>1. LifeOf(n) /\ ctx[n].needs = {} /\ dev.net # n
  BY NamesAssumption DEF SmmuInv, LifeInv, LifeOf, DevInv
<1>2. AtWork(n)
  BY <1>1 DEF AtWork
<1>3. ASSUME OwnedBy(n)' = {}, ~obj'[n].live
      PROVE  LifeOf(n)'
  BY <1>3 DEF LifeOf
<1>4. CASE ctx[n].queue = NoHandle
  <2>1. OwnedBy(n) = {}
    BY <1>4, NamesAssumption DEF Linked, OwnedBy, Live
  <2>2. /\ obj' = IF ctx[n].model THEN [obj EXCEPT ![n] = NoTable] ELSE obj
        /\ buf' = buf
    BY <1>4 DEF NetDettach
  <2>3. OwnedBy(n)' = {}
    BY <2>1, <2>2 DEF OwnedBy, Live
  <2>4. /\ obj' \in [Tables -> Objects] /\ \A o \in Tables \ {n} : obj'[o] = obj[o]
        /\ (obj'[n] = obj[n] /\ ~ctx[n].model) \/ obj'[n] = NoTable
    BY <2>2, NoTableIs, TypesAre DEF SmmuInv, SmmuTypeOK
  <2>5. ~obj'[n].live /\ obj'[n].dirty \subseteq obj[n].dirty
    BY <2>4, NoTableIs
  <2>6. TablesInv'
    <3>1. \A x \in Live : ctx'[buf[x].own].type = ctx[buf[x].own].type
      BY <2>1, TypesAre DEF Others, OwnedBy, Buffers, SmmuInv
    <3>2. Left(obj)
      BY <2>4 DEF Left
    <3> QED BY <2>2, <3>1, <3>2, KeptTables DEF SmmuInv
  <2> QED BY <1>2, <1>3, <2>1, <2>2, <2>3, <2>4, <2>5, <2>6, TableStep
<1>5. CASE ctx[n].queue # NoHandle
  <2> DEFINE q == ctx[n].queue
             objs == IovaFree(n, buf[q])
  <2>1. ctx[n].model /\ q \in OwnedBy(n) /\ OwnedBy(n) = {q}
    BY <1>1, <1>5 DEF Linked, LifeOf
  <2>2. obj' = [objs EXCEPT ![n] = NoTable] /\ buf' = [buf EXCEPT ![q] = NoBuf]
        /\ objs = IovaFree(n, buf[q])
    BY <1>5, <2>1 DEF NetDettach
  <2> HIDE DEF objs
  <2>3. objs \in [Tables -> Objects]
    BY <2>1, <2>2, IovaFreeIs DEF SmmuInv, Freed
  <2>4. /\ obj' \in [Tables -> Objects] /\ \A o \in Tables \ {n} : obj'[o] = objs[o]
        /\ obj'[n] = NoTable
    BY <2>2, <2>3, NoTableIs, TypesAre DEF SmmuInv
  <2>5. ~obj'[n].live
    BY <2>4, NoTableIs
  <2>6. q \notin ctx[n].needs /\ ctx'[n].needs = ctx[n].needs
    BY <1>1
  <2>7. OwnedBy(n)' = OwnedBy(n) \ {q} => LifeOf(n)'
    BY <1>3, <2>1, <2>5
  <2> HIDE DEF q
  <2> QED BY <1>2, <2>1, <2>2, <2>4, <2>6, <2>7, FreeStep
<1> QED BY <1>4, <1>5

LEMMA UnregisterKeeps ==
  ASSUME SmmuInv, PlainCase, NEW n \in Net, Unregister(n)
  PROVE  SmmuInv'
<1>1. /\ ctx[n].model /\ ctx[n].cnt = 0 /\ Linked(n) = {} /\ NetDettach(n) /\ dev' = dev
      /\ ctx' = [ctx EXCEPT ![n].model = FALSE, ![n].queue = NoHandle, ![n].public = FALSE]
  BY DEF Unregister, PlainCase
<1>2. ctx[n].needs = {}
  BY <1>1 DEF SmmuInv, LifeInv, LifeOf
<1>3. /\ ctx' \in [Net -> Contexts] /\ Others(n)
      /\ ctx'[n].model = FALSE /\ ctx'[n].queue = NoHandle /\ ctx'[n].public = FALSE
      /\ ctx'[n].cnt = ctx[n].cnt /\ ctx'[n].needs = ctx[n].needs
  <2>1. FALSE \in BOOLEAN /\ NoHandle \in Handle \cup {NoHandle} /\ SmmuTypeOK
    BY DEF SmmuInv
  <2> QED BY <1>1, <2>1, ModelIs, ZenonT(60)
<1> QED BY <1>1, <1>2, <1>3, NetDettachKeeps

LEMMA DestroyContextKeeps ==
  ASSUME SmmuInv, NEW n \in Net, DestroyContext(n)
  PROVE  SmmuInv'
<1>1. /\ ctx[n].life = "closing" /\ ctx[n].cnt = 0 /\ Linked(n) = {} /\ NetDettach(n)
      /\ dev' = dev /\ ctx' = [ctx EXCEPT ![n] = Absent]
  BY DEF DestroyContext
<1>2. ctx' \in [Net -> Contexts] /\ Others(n) /\ ctx'[n] = Absent
  <2>1. Absent \in Contexts
    BY DEF Absent, Contexts, Types
  <2> QED BY <1>1, <2>1, ContextIs DEF SmmuInv
<1>3. obj[n].live => ctx[n].model
  BY <1>1 DEF SmmuInv, LifeInv, LifeOf
<1>4. /\ ~ctx'[n].model /\ ctx'[n].queue = NoHandle /\ ~ctx'[n].public
      /\ ctx'[n].cnt = 0 /\ ctx'[n].needs = {}
  BY <1>2 DEF Absent
<1> QED BY <1>1, <1>2, <1>3, <1>4, NetDettachKeeps

(* What the device sees of a table.                                         *)
LEMMA SeenIs ==
  ASSUME SmmuTypeOK, TablesInv, NEW n \in Net, NEW o \in Tables, obj[o].live,
         NEW t \in Objects, t.cpu = obj[o].cpu
  PROVE  /\ Seen(n, t) \in SUBSET (Handle \cup {PublicQueue})
         /\ \A h \in OwnedBy(n) :
              o \in Entered(n, buf[h].kind) /\ Pages(h) \cap t.dirty = {} => h \in Seen(n, t)
         /\ o = Public /\ (\A p \in Page : t.cpu[p] = PublicQueue => p \notin t.dirty)
              => PublicQueue \in Seen(n, t)
<1>1. t.cpu \in Translations /\ DOMAIN t.cpu = Page
  BY DEF Objects, Translations
<1>2. Seen(n, t) \in SUBSET (Handle \cup {PublicQueue})
  BY <1>1 DEF Seen, OwnedBy, Live
<1>3. ASSUME NEW h \in OwnedBy(n), o \in Entered(n, buf[h].kind), Pages(h) \cap t.dirty = {}
      PROVE  h \in Seen(n, t)
  <2>1. h \in Live /\ h \in Handle /\ buf[h].own = n /\ Pages(h) \subseteq Page
    BY DEF OwnedBy, Live, TablesInv
  <2>2. \A p \in Pages(h) : t.cpu[p] = h
    BY <1>3, <2>1 DEF TablesInv, TableInv, In
  <2> QED BY <1>3, <2>2 DEF Seen
<1>4. ASSUME o = Public, \A p \in Page : t.cpu[p] = PublicQueue => p \notin t.dirty
      PROVE  PublicQueue \in Seen(n, t)
  <2>1. PICK p \in Page : t.cpu[p] = PublicQueue
    BY <1>4 DEF TablesInv
  <2> QED BY <1>1, <1>4, <2>1 DEF Seen
<1> QED BY <1>2, <1>3, <1>4

LEMMA SubmitKeeps ==
  ASSUME SmmuInv, NEW n \in Net, Submit(n)
  PROVE  SmmuInv'
<1>1. PICK entries \in Entries(n) :
        /\ dev.net = NoNet /\ ctx[n].cnt = 1
        /\ obj' = Invalidate(n)
        /\ ctx' = [ctx EXCEPT ![n].updated = FALSE]
        /\ dev' = SetMmu(n, entries[1], Len(entries) > 1)
        /\ buf' = buf
  BY DEF Submit
<1>2. /\ ctx' \in [Net -> Contexts] /\ Others(n)
      /\ ctx'[n].updated = FALSE
      /\ ctx'[n].life = ctx[n].life /\ ctx'[n].public = ctx[n].public
      /\ ctx'[n].model = ctx[n].model /\ ctx'[n].queue = ctx[n].queue
      /\ ctx'[n].type = ctx[n].type
      /\ ctx'[n].cnt = ctx[n].cnt /\ ctx'[n].needs = ctx[n].needs
  BY <1>1, UpdatedIs DEF SmmuInv
<1>3. /\ Flushed
      /\ ctx[n].updated => /\ obj'[Public].dirty = {}
                           /\ obj[n].live => obj'[n].dirty = {}
  BY <1>1, InvalidateIs DEF SmmuInv
<1>4. SameTypes /\ Live' = Live /\ \A m : OwnedBy(m)' = OwnedBy(m)
  BY <1>1, <1>2 DEF SameTypes, Others, OwnedBy, Live
<1>5. TablesInv'
  BY <1>1, <1>3, <1>4, FlushedTables DEF SmmuInv
<1>6. LifeInv'
  <2>1. ASSUME NEW m \in Net PROVE obj'[m].live = obj[m].live
    BY <1>3, TypesAre DEF Flushed, SmmuInv
  <2>2. LifeOf(n)'
    BY <1>2, <1>4, <2>1 DEF LifeOf, SmmuInv, LifeInv
  <2>3. ASSUME NEW m \in Net \ {n} PROVE LifeOf(m)'
    BY <1>2, <1>4, <2>1, LifeStays DEF Others, SmmuInv, LifeInv
  <2> QED BY <2>2, <2>3 DEF LifeInv
<1>7. NoNewDirt /\ QueueStays
  BY <1>3, TypesAre DEF NoNewDirt, QueueStays, Flushed, SmmuInv
<1>8. /\ ctx[n].model /\ ctx[n].public /\ ctx[n].needs \subseteq OwnedBy(n)
      /\ ctx[n].needs # {} /\ ctx[n].type \in Types
      /\ ctx[n].queue = NoHandle => ctx[n].type = "PUBLIC_ONLY"
      /\ ctx[n].type # "PUBLIC_ONLY" => obj[n].live
  BY <1>1, TypesAre DEF SmmuInv, LifeInv, LifeOf, Contexts
<1>9. ASSUME NEW x \in OwnedBy(n)
      PROVE  Clean(n, x)'
  <2>1. Stays(n, x)
    BY <1>1, <1>2 DEF Stays
  <2>2. CASE ~ctx[n].updated
    BY <1>7, <2>1, <2>2, CleanStays DEF SmmuInv, FlushInv, FlushOf
  <2>3. CASE ctx[n].updated
    <3>1. buf[x].kind \in Kinds
      BY TypesAre DEF SmmuInv, OwnedBy, Buffers
    <3>2. ASSUME NEW o \in Entered(n, buf[x].kind)
          PROVE  obj'[o].dirty = {}
      <4>1. o \in {Public, n} /\ obj[o].live
        BY <1>8, <3>1, EnteredTables, EnteredLive DEF SmmuInv
      <4> QED BY <1>3, <2>3, <4>1
    <3>3. Entered(n, buf[x].kind)' = Entered(n, buf[x].kind)
      BY <1>1, <1>2, SameEntered
    <3> QED BY <3>2, <3>3 DEF Clean
  <2> QED BY <2>2, <2>3
<1>10. QueueClean'
  <2>1. CASE ctx[n].updated
    BY <1>3, <2>1 DEF QueueClean
  <2>2. CASE ~ctx[n].updated
    <3>1. QueueClean
      BY <1>8, <2>2 DEF SmmuInv, FlushInv, FlushOf
    <3> QED BY <1>7, <3>1, QueueStaysClean DEF SmmuInv
  <2> QED BY <2>1, <2>2
<1>11. ASSUME NEW m \in Net
       PROVE  FlushOf(m)'
  <2>1. CASE m = n
    BY <1>2, <1>4, <1>8, <1>9, <1>10, <2>1 DEF FlushOf
  <2>2. CASE m # n
    <3>1. ctx'[m].updated = ctx[m].updated /\ \A x \in OwnedBy(m)' : Stays(m, x)
      BY <1>1, <1>2, <1>4, <2>2 DEF Others, Stays
    <3>2. dev'.net # m
      BY <1>1, <2>2 DEF SetMmu
    <3> QED BY <1>7, <3>1, <3>2, FlushStays DEF SmmuInv
  <2> QED BY <2>1, <2>2
<1>12. /\ entries[1] \in {Public, n}
       /\ ctx[n].type = "PUBLIC_ONLY" => entries[1] = Public
       /\ ctx[n].type = "PRIVATE_ONLY" => entries[1] = n
       /\ Len(entries) > 1 => ctx[n].type = "PRIVATE_AND_PUBLIC" /\ ctx[n].queue # NoHandle
  <2>1. CASE entries = <<Public>>
    <3>1. entries[1] = Public /\ Len(entries) = 1
      BY <2>1
    <3> QED BY <1>8, <2>1, <3>1, TypesAre DEF Entries, Types, SmmuInv
  <2>2. CASE entries = <<n>>
    <3>1. entries[1] = n /\ Len(entries) = 1 /\ <<n>> # <<Public>>
      BY <2>2, TypesAre DEF SmmuInv
    <3> QED BY <1>8, <2>2, <3>1 DEF Entries, Types
  <2>3. CASE entries = <<Public, n>>
    <3>1. entries[1] = Public /\ entries # <<Public>> /\ entries # <<n>>
      BY <2>3
    <3> QED BY <1>8, <2>3, <3>1 DEF Entries, Types
  <2> QED BY <2>1, <2>2, <2>3 DEF Entries
<1> DEFINE o == entries[1]
<1>13. /\ o \in Tables /\ obj'[o] \in Objects /\ obj'[o].cpu = obj[o].cpu /\ obj[o].live
  BY <1>3, <1>8, <1>12, TypesAre DEF Flushed, SmmuInv, TablesInv, Types
<1>14. /\ dev'.net = n /\ dev'.table = o /\ dev'.sees = Seen(n, obj'[o])
       /\ dev'.rest = (Len(entries) > 1)
       /\ dev' = [net |-> n, table |-> o, sees |-> Seen(n, obj'[o]), rest |-> Len(entries) > 1]
  BY <1>1 DEF SetMmu
<1> HIDE DEF o
<1>15. /\ Seen(n, obj'[o]) \in SUBSET (Handle \cup {PublicQueue})
       /\ \A h \in OwnedBy(n) :
            o \in Entered(n, buf[h].kind) /\ Pages(h) \cap obj'[o].dirty = {}
              => h \in Seen(n, obj'[o])
       /\ o = Public /\ (\A p \in Page : obj'[o].cpu[p] = PublicQueue => p \notin obj'[o].dirty)
            => PublicQueue \in Seen(n, obj'[o])
  BY <1>13, SeenIs DEF SmmuInv
<1>16. SmmuTypeOK'
  <2>1. dev' \in [net : Net \cup {NoNet}, table : Tables,
                   sees : SUBSET (Handle \cup {PublicQueue}), rest : BOOLEAN]
    BY <1>13, <1>14, <1>15
  <2>2. obj' \in [Tables -> Objects] /\ buf' = buf
    BY <1>1, <1>3 DEF Flushed
  <2> QED BY <1>2, <2>1, <2>2 DEF SmmuInv, SmmuTypeOK
<1>17. DevInv'
  <2>1. ASSUME NEW h \in ctx'[n].needs, o \in Entered(n, buf[h].kind)'
        PROVE  h \in dev'.sees
    <3>1. h \in OwnedBy(n) /\ Clean(n, h)'
      BY <1>2, <1>8, <1>9
    <3>2. o \in Entered(n, buf[h].kind) /\ Pages(h)' = Pages(h)
      BY <1>1, <1>2, <2>1, SameEntered DEF Pages
    <3>3. Pages(h) \cap obj'[o].dirty = {}
      BY <2>1, <3>1, <3>2 DEF Clean
    <3> QED BY <1>14, <1>15, <3>1, <3>2, <3>3
  <2>2. ctx'[n].queue = NoHandle => PublicQueue \in dev'.sees
    <3>1. ctx'[n].queue = NoHandle => o = Public
      BY <1>2, <1>8, <1>12 DEF o
    <3> QED BY <1>10, <1>14, <1>15, <3>1 DEF QueueClean
  <2>3. CASE ctx[n].type = "PUBLIC_ONLY"
    BY <1>1, <1>2, <1>12, <1>14, <2>1, <2>2, <2>3 DEF DevInv, InParts, o
  <2>4. CASE ctx[n].type # "PUBLIC_ONLY"
    BY <1>1, <1>2, <1>8, <1>12, <1>14, <2>1, <2>2, <2>4 DEF DevInv, InParts, o
  <2> QED BY <2>3, <2>4
<1> QED BY <1>5, <1>6, <1>11, <1>16, <1>17 DEF SmmuInv, FlushInv

LEMMA SecondPartKeeps ==
  ASSUME SmmuInv, NEW n \in Net, SecondPart(n)
  PROVE  SmmuInv'
<1>1. /\ dev.net = n /\ dev.rest /\ obj' = obj /\ buf' = buf /\ ctx' = ctx
      /\ dev' = [net |-> n, table |-> n, sees |-> Seen(n, obj[n]), rest |-> FALSE]
  BY DEF SecondPart, SetMmu
<1>2. /\ ctx[n].cnt = 1 /\ ctx[n].type = "PRIVATE_AND_PUBLIC" /\ ctx[n].queue # NoHandle
  BY <1>1, NamesAssumption DEF SmmuInv, DevInv, InParts
<1>3. /\ ctx[n].public /\ obj[n].live /\ ctx[n].needs \subseteq OwnedBy(n)
      /\ n \in Tables /\ obj[n] \in Objects
  BY <1>2, TypesAre DEF SmmuInv, LifeInv, LifeOf
<1>4. /\ Seen(n, obj[n]) \in SUBSET (Handle \cup {PublicQueue})
      /\ \A h \in OwnedBy(n) :
           n \in Entered(n, buf[h].kind) /\ Pages(h) \cap obj[n].dirty = {} => h \in Seen(n, obj[n])
  BY <1>3, SeenIs DEF SmmuInv
<1>5. SmmuTypeOK'
  BY <1>1, <1>3, <1>4 DEF SmmuInv, SmmuTypeOK
<1>6. TablesInv' /\ LifeInv'
  <2>1. obj' = obj /\ buf' = buf /\ ctx' = ctx
    BY <1>1
  <2>2. TablesInv'
    <3>1. Left(obj)
      BY <2>1 DEF SmmuInv, SmmuTypeOK, Left
    <3> QED BY <2>1, <3>1, KeptTables DEF SmmuInv
  <2>3. ASSUME NEW m \in Net PROVE LifeOf(m)'
    <3>1. OwnedBy(m)' = OwnedBy(m)
      BY <2>1 DEF OwnedBy, Live
    <3> QED BY <2>1, <3>1, LifeStays DEF SmmuInv, LifeInv
  <2> QED BY <2>2, <2>3 DEF LifeInv
<1>7. FlushInv'
  <2>1. NoNewDirt /\ QueueStays /\ \A m \in Net : OwnedBy(m)' = OwnedBy(m)
    BY <1>1 DEF NoNewDirt, QueueStays, OwnedBy, Live
  <2>2. ASSUME NEW m \in Net PROVE FlushOf(m)'
    <3>1. \A x \in OwnedBy(m) : Stays(m, x)
      BY <1>1 DEF Stays
    <3>2. ctx'[m].needs = ctx[m].needs /\ ctx[m].needs \subseteq OwnedBy(m)
      BY <1>1 DEF SmmuInv, LifeInv, LifeOf
    <3> QED BY <1>1, <2>1, <3>1, <3>2, FlushStays DEF SmmuInv
  <2> QED BY <2>2 DEF FlushInv
<1>8. DevInv'
  <2>1. ASSUME NEW h \in ctx'[n].needs, n \in Entered(n, buf[h].kind)'
        PROVE  h \in dev'.sees
    <3>1. h \in OwnedBy(n) /\ Clean(n, h)
      BY <1>1, <1>3 DEF SmmuInv, FlushInv, FlushOf
    <3>2. n \in Entered(n, buf[h].kind)
      BY <1>1, <2>1, SameEntered
    <3> QED BY <1>1, <1>4, <3>1, <3>2 DEF Clean
  <2> QED BY <1>1, <1>2, <2>1 DEF DevInv
<1> QED BY <1>5, <1>6, <1>7, <1>8 DEF SmmuInv

-----------------------------------------------------------------------------
(* The beginning: the public command queue has its page.                    *)
QueueBuf == [at |-> Invalid, n |-> 1, kind |-> "shared"]

LEMMA QueuePlaced ==
  ASSUME PlainCase
  PROVE  IovaMap(NewTable, QueueBuf, PublicQueue).at # Invalid
<1> DEFINE p == NewTable.pool
<1>1. p.bits = Bits /\ p.used = 0 /\ p.map = Excluded
  <2>1. Run(0, Bits) = Page
    BY SmmuAssumption DEF Run, Page
  <2>2. Excluded \cap Run(0, Bits) = Excluded
    BY <2>1, SmmuAssumption
  <2> QED BY <2>2 DEF NewTable, NewPool
<1>2. p \in Pools
  BY NewTableIs DEF Objects
<1>3. IovaMap(NewTable, QueueBuf, PublicQueue).at = LastFit(p, 1).at
  BY DEF IovaMap, Place, QueueBuf
<1> HIDE DEF p
<1>4. PICK x \in Page : x \notin Excluded
  BY SmmuAssumption DEF PlainCase
<1>5. x \in Gaps(p, 1)
  <2>1. Run(x, 1) = {x} /\ x \in 0 .. (Bits - 1)
    BY <1>4, SmmuAssumption DEF Run, Page
  <2> QED BY <1>1, <1>4, <2>1 DEF Gaps
<1>6. HighestGap(p, 1) \in Gaps(p, 1)
  <2>1. Gaps(p, 1) \in SUBSET (0 .. Bits) /\ Bits \in Nat
    BY <1>1, SmmuAssumption DEF Gaps
  <2> QED BY <1>5, <2>1, GreatestIs DEF HighestGap
<1>7. HighestGap(p, 1) # Invalid
  BY <1>1, <1>6, SmmuAssumption DEF Gaps, Invalid
<1>8. ~Refused(p, 1)
  BY <1>1, SmmuAssumption DEF Refused
<1> QED BY <1>3, <1>7, <1>8 DEF LastFit, Granted

LEMMA InitKeeps ==
  ASSUME PlainCase, Init
  PROVE  SmmuInv
<1> DEFINE r == IovaMap(NewTable, QueueBuf, PublicQueue)
           t == r.table
<1>1. PICK a \in Page : /\ Run(a, 1) \subseteq Page \ NewTable.pool.map
                        /\ Added(NewTable, t, a, 1, PublicQueue)
  <2>1. QueueBuf.n \in Nat \ {0} /\ QueueBuf.at = Invalid /\ QueueBuf.n = 1
    BY DEF QueueBuf
  <2> QED BY <2>1, NewTableIs, QueuePlaced, IovaMapIs DEF Handles
<1>2. obj = [o \in Tables |-> IF o = Public THEN t ELSE NoTable]
  BY DEF Init, QueueBuf
<1> HIDE DEF t
<1>3. /\ t \in Objects /\ PoolAgrees(t) /\ t.live /\ Run(a, 1) = {a}
      /\ \A p \in Page : t.cpu[p] = IF p = a THEN PublicQueue ELSE NoHandle
  <2>1. Run(a, 1) = {a}
    BY <1>1, SmmuAssumption DEF Run, Page
  <2>2. t.cpu = Write(Empty, a, 1, PublicQueue) /\ t.live /\ t \in Objects /\ PoolAgrees(t)
    BY <1>1, NewTableIs DEF Added
  <2>3. Empty \in Translations
    BY NewTableIs DEF Objects
  <2> QED BY <2>1, <2>2, <2>3, WriteAt, NoTableIs
<1>4. obj[Public] = t /\ \A n \in Net : obj[n] = NoTable
  BY <1>2, NamesAssumption DEF Tables
<1>5. obj \in [Tables -> Objects]
  BY <1>2, <1>3, NoTableIs
<1>6. Live = {} /\ buf \in [Handle -> {NoBuf} \cup Buffers] /\ \A n : OwnedBy(n) = {}
  BY DEF Init, Live, OwnedBy
<1>7. ctx \in [Net -> Contexts] /\ \A n \in Net : ctx[n] = Absent
  <2>1. Absent \in Contexts
    BY DEF Absent, Contexts, Types
  <2> QED BY <2>1 DEF Init
<1>8. SmmuTypeOK
  BY <1>5, <1>6, <1>7 DEF Init, SmmuTypeOK, Idle, Tables
<1>9. TablesInv
  <2>1. ASSUME NEW o \in Tables, obj[o].live PROVE TableInv(o)
    <3>1. o = Public
      BY <1>4, <2>1, NoTableIs DEF Tables
    <3>2. \A p \in Page, h \in Handle : obj[o].cpu[p] # h /\ h \notin In(o)
      BY <1>3, <1>4, <1>6, <3>1, NamesAssumption DEF In
    <3> QED BY <1>3, <1>4, <3>1, <3>2 DEF TableInv
  <2>2. \A n \in Net, p \in Page : obj[n].cpu[p] # PublicQueue
    BY <1>4, NoTableIs, NamesAssumption
  <2> QED BY <1>3, <1>4, <1>6, <2>1, <2>2 DEF TablesInv
<1>10. LifeInv
  BY <1>4, <1>6, <1>7, NoTableIs DEF LifeInv, LifeOf, Absent
<1>11. FlushInv
  BY <1>6, <1>7 DEF FlushInv, FlushOf, Absent
<1>12. DevInv
  BY DEF Init, DevInv, Idle
<1> QED BY <1>8, <1>9, <1>10, <1>11, <1>12 DEF SmmuInv

-----------------------------------------------------------------------------
(* A stuttering step.                                                       *)
LEMMA StutterKeeps ==
  ASSUME SmmuInv, UNCHANGED vars
  PROVE  SmmuInv'
<1>1. obj' = obj /\ buf' = buf /\ ctx' = ctx /\ dev' = dev
  BY DEF vars
<1>2. SmmuTypeOK'
  BY <1>1 DEF SmmuInv, SmmuTypeOK
<1>3. TablesInv'
  <2>1. Left(obj)
    BY <1>1 DEF SmmuInv, SmmuTypeOK, Left
  <2> QED BY <1>1, <2>1, KeptTables DEF SmmuInv
<1>4. \A m : OwnedBy(m)' = OwnedBy(m)
  BY <1>1 DEF OwnedBy, Live
<1>5. ASSUME NEW m \in Net PROVE LifeOf(m)' /\ FlushOf(m)'
  <2>1. NoNewDirt /\ QueueStays /\ \A x \in OwnedBy(m) : Stays(m, x)
    BY <1>1 DEF NoNewDirt, QueueStays, Stays
  <2>2. ctx'[m].needs = ctx[m].needs /\ ctx[m].needs \subseteq OwnedBy(m)
    BY <1>1 DEF SmmuInv, LifeInv, LifeOf
  <2>3. FlushOf(m)'
    BY <1>1, <1>4, <2>1, <2>2, FlushStays DEF SmmuInv
  <2> QED BY <1>1, <1>4, <2>3, LifeStays DEF SmmuInv, LifeInv
<1>6. DevInv'
  BY <1>1, DevStays DEF SmmuInv
<1> QED BY <1>2, <1>3, <1>5, <1>6 DEF SmmuInv, LifeInv, FlushInv

LEMMA StepKeeps == PlainCase /\ SmmuInv /\ [Next]_vars => SmmuInv'
<1> SUFFICES ASSUME PlainCase, SmmuInv, [Next]_vars PROVE SmmuInv'
  OBVIOUS
<1>1. CASE UNCHANGED vars
  BY <1>1, StutterKeeps
<1>2. ASSUME NEW n \in Net,
             \/ Open(n) \/ (\E type \in Types : SetContextAttribute(n, type))
             \/ AllocRequest(n) \/ FreeRequest(n)
             \/ ExtMemAttachRequest(n) \/ ExtMemDettachRequest(n)
             \/ Register(n) \/ Unregister(n)
             \/ Invoke(n) \/ Submit(n) \/ SecondPart(n) \/ Finish(n) \/ Cancel(n)
             \/ Close(n) \/ FreeAllContext(n) \/ DestroyContext(n)
      PROVE  SmmuInv'
  <2>1. CASE Open(n)
    BY <2>1, OpenKeeps
  <2>2. CASE \E type \in Types : SetContextAttribute(n, type)
    BY <2>2, SetContextAttributeKeeps
  <2>3. CASE AllocRequest(n)
    BY <2>3, AllocKeeps
  <2>4. CASE FreeRequest(n)
    BY <2>4, FreeRequestKeeps
  <2>5. CASE ExtMemAttachRequest(n)
    BY <2>5, AttachKeeps
  <2>6. CASE ExtMemDettachRequest(n)
    BY <2>6, ExtMemDettachKeeps
  <2>7. CASE Register(n)
    BY <2>7, RegisterKeeps
  <2>8. CASE Unregister(n)
    BY <2>8, UnregisterKeeps
  <2>9. CASE Invoke(n)
    BY <2>9, InvokeKeeps
  <2>10. CASE Submit(n)
    BY <2>10, SubmitKeeps
  <2>11. CASE SecondPart(n)
    BY <2>11, SecondPartKeeps
  <2>12. CASE Finish(n)
    BY <2>12, FinishKeeps
  <2>13. CASE Cancel(n)
    BY <2>13, CancelKeeps
  <2>14. CASE Close(n)
    BY <2>14, CloseKeeps
  <2>15. CASE FreeAllContext(n)
    BY <2>15, FreeAllContextKeeps
  <2>16. CASE DestroyContext(n)
    BY <2>16, DestroyContextKeeps
  <2> QED BY <1>2, <2>1, <2>2, <2>3, <2>4, <2>5, <2>6, <2>7, <2>8, <2>9, <2>10, <2>11,
             <2>12, <2>13, <2>14, <2>15, <2>16
<1> QED BY <1>1, <1>2 DEF Next

(* The invariant gives what the runs check.                                 *)
LEMMA InvIsExact ==
  ASSUME SmmuInv
  PROVE  TablesExact
<1>1. ASSUME NEW o \in Tables, obj[o].live
      PROVE  /\ \A h \in In(o) : \A p \in Pages(h) : obj[o].cpu[p] = h
             /\ \A p \in DOMAIN obj[o].cpu :
                  obj[o].cpu[p] \in {NoHandle, PublicQueue} \/
                  (obj[o].cpu[p] \in In(o) /\ p \in Pages(obj[o].cpu[p]))
             /\ obj[o].pool.map =
                  Excluded \cup {p \in DOMAIN obj[o].cpu : obj[o].cpu[p] # NoHandle}
  <2>1. DOMAIN obj[o].cpu = Page /\ obj[o].cpu \in Translations /\ TableInv(o)
    BY <1>1, TypesAre DEF SmmuInv, TablesInv, Objects, Translations
  <2>2. \A h \in In(o) : \A p \in Pages(h) : obj[o].cpu[p] = h
    BY <2>1 DEF SmmuInv, TablesInv, TableInv, In, Live
  <2>3. ASSUME NEW p \in Page, obj[o].cpu[p] \notin {NoHandle, PublicQueue}
        PROVE  obj[o].cpu[p] \in In(o) /\ p \in Pages(obj[o].cpu[p])
    <3>1. PICK h \in Handle : h = obj[o].cpu[p]
      BY <2>1, <2>3 DEF Translations
    <3> QED BY <2>1, <3>1 DEF TableInv
  <2> QED BY <2>1, <2>2, <2>3 DEF TableInv, PoolAgrees, Mapped
<1> QED BY <1>1 DEF TablesExact

LEMMA InvReaches ==
  ASSUME SmmuInv
  PROVE  DeviceReaches
<1> SUFFICES ASSUME dev.net # NoNet PROVE DeviceReaches
  BY DEF DeviceReaches
<1>1. PICK n \in Net : n = dev.net
  BY DEF SmmuInv, SmmuTypeOK
<1>2. /\ ctx[n].model /\ ctx[n].public /\ ctx[n].needs \subseteq OwnedBy(n)
      /\ ctx[n].queue = NoHandle => ctx[n].type = "PUBLIC_ONLY"
      /\ ctx[n].type # "PUBLIC_ONLY" => obj[n].live
      /\ ctx[n].type \in Types /\ n \in Tables /\ Public \in Tables
  BY <1>1, TypesAre DEF SmmuInv, LifeInv, LifeOf, DevInv, Contexts
<1>3. dev.table \in Tables /\ obj[dev.table].live
  BY <1>1, <1>2 DEF SmmuInv, DevInv, TablesInv, Types
<1>4. ASSUME NEW h \in ctx[n].needs
      PROVE  \/ InParts(n) /\ dev.table \notin Entered(n, buf[h].kind)
             \/ h \in dev.sees /\ \A p \in Pages(h) : obj[dev.table].cpu[p] = h
  <2>1. h \in OwnedBy(n) /\ h \in Live /\ buf[h] \in Buffers /\ buf[h].own = n
        /\ buf[h].kind \in Kinds
    BY <1>2, TypesAre DEF OwnedBy, SmmuInv, Buffers
  <2>2. ~InParts(n) => dev.table \in Entered(n, buf[h].kind)
    BY <1>1, <1>2, <2>1, EnteredIs DEF SmmuInv, DevInv, InParts, Types
  <2>3. ASSUME dev.table \in Entered(n, buf[h].kind)
        PROVE  h \in dev.sees /\ \A p \in Pages(h) : obj[dev.table].cpu[p] = h
    <3>1. h \in dev.sees
      BY <1>1, <2>3 DEF SmmuInv, DevInv
    <3>2. h \in In(dev.table) /\ h \in Handle /\ Pages(h) \subseteq Page
      BY <2>1, <2>3 DEF In, Live, SmmuInv, TablesInv
    <3> QED BY <1>3, <3>1, <3>2 DEF SmmuInv, TablesInv, TableInv
  <2> QED BY <2>2, <2>3
<1>5. ctx[n].queue = NoHandle => PublicQueue \in dev.sees
  BY <1>1 DEF SmmuInv, DevInv
<1> QED BY <1>1, <1>3, <1>4, <1>5 DEF DeviceReaches

(* Clients that keep to the plain case and a device whose SRAM leaves room  *)
(* for the public command queue: SmmuInv always holds.                      *)
THEOREM SmmuInvariantHolds ==
  ASSUME PlainCase
  PROVE  Spec => []SmmuInv
<1>1. Init => SmmuInv
  BY InitKeeps
<1>2. SmmuInv /\ [Next]_vars => SmmuInv'
  BY StepKeeps
<1> QED BY <1>1, <1>2, PTL DEF Spec

(* Every variable has its type: no pool counts below zero or above the      *)
(* address space, no buffer is placed outside it (mm/adlak_mm_common.c).    *)
THEOREM SmmuTypeCorrect ==
  ASSUME PlainCase
  PROVE  Spec => []SmmuTypeOK
<1>1. SmmuInv => SmmuTypeOK
  BY DEF SmmuInv
<1> QED BY <1>1, SmmuInvariantHolds, PTL

(* A live table maps each page of its buffers to that buffer, nothing else  *)
(* but the public command queue, and its pool has taken what it maps        *)
(* (adlak_smmu_iova_alloc, adlak_smmu_iova_free).                           *)
THEOREM TablesStayExact ==
  ASSUME PlainCase
  PROVE  Spec => []TablesExact
<1>1. SmmuInv => TablesExact
  BY InvIsExact
<1> QED BY <1>1, SmmuInvariantHolds, PTL

(* A context with buffers has the tables they are entered in, and a table   *)
(* has a context that will destroy it (adlak_net_dettach).                  *)
THEOREM TablesStayAtHand ==
  ASSUME PlainCase
  PROVE  Spec => []TablesLast
<1>1. SmmuInv => TablesLast
  BY DEF SmmuInv, LifeInv, LifeOf, TablesLast, TablesAtHand, NoOrphanTable
<1> QED BY <1>1, SmmuInvariantHolds, PTL

(* The table that the device works with exists and leads it to every buffer *)
(* of the invoke that belongs in it, in memory and in the device's cache    *)
(* (adlak_smmu_invalidate, the submission in adlak_submit.c).               *)
THEOREM DeviceAlwaysReaches ==
  ASSUME PlainCase
  PROVE  Spec => []DeviceReaches
<1>1. SmmuInv => DeviceReaches
  BY InvReaches
<1> QED BY <1>1, SmmuInvariantHolds, PTL
=============================================================================
