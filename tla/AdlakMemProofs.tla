---------------------------- MODULE AdlakMemProofs ----------------------------
(***************************************************************************)
(* MemInv is an invariant of AdlakMem for any pool, contexts and handles,  *)
(* if the client asks for no share buffer that is refused.                 *)
(* So are BooksExact and MemTypeOK: what the memory manager counts is what *)
(* there is.  And AdlakMem implements PageStore.                           *)
(***************************************************************************)
EXTENDS AdlakMem, FiniteSetTheorems, WellFoundedInduction, TLAPS

-----------------------------------------------------------------------------
(* The allocator. *)

Before == {ss \in Nat \X Nat : ss[1] < ss[2]}

LEMMA BeforeIsWellFounded == IsWellFoundedOn(Before, Nat)
BY NatLessThanWellFounded DEF OpToRel, Before

(* Every set of pages has a lowest one. *)
LEMMA LeastIs ==
  ASSUME NEW S \in SUBSET Nat, S # {}
  PROVE  Least(S) \in S
<1>1. PICK x \in S : \A y \in S : ~(<<y, x>> \in Before)
  BY BeforeIsWellFounded, WFMin
<1>2. ASSUME NEW y \in S
      PROVE  x <= y
  <2>1. y \in Nat /\ x \in Nat
    OBVIOUS
  <2>2. ~(y < x)
    BY <1>1, <2>1 DEF Before
  <2> QED BY <2>1, <2>2
<1> QED BY <1>2 DEF Least

PoolRecords == [bits : Nat, map : SUBSET Int, used : Int]

(* The scan either changes nothing or takes free pages. *)
LEMMA FirstFitIs ==
  ASSUME NEW p \in PoolRecords, NEW n \in Nat
  PROVE  LET got == FirstFit(p, n) IN
         \/ got.at = Invalid /\ got.pool = p
         \/ /\ got.at \in 0 .. (p.bits - n)
            /\ Run(got.at, n) \cap p.map = {}
            /\ got.pool = Take(p, got.at, n)
<1>1. CASE Refused(p, n) \/ Gaps(p, n) = {}
  BY <1>1 DEF FirstFit, NotGranted
<1>2. CASE ~(Refused(p, n) \/ Gaps(p, n) = {})
  <2>1. Gaps(p, n) \in SUBSET Nat
    BY DEF Gaps, PoolRecords
  <2>2. Least(Gaps(p, n)) \in Gaps(p, n)
    BY <1>2, <2>1, LeastIs
  <2> QED BY <1>2, <2>2 DEF FirstFit, Granted, Gaps
<1> QED BY <1>1, <1>2

LEMMA RunIs ==
  ASSUME NEW s \in Int, NEW n \in Int
  PROVE  Run(s, n) \in SUBSET Int /\ \A x : x \in Run(s, n) <=> x \in Int /\ s <= x /\ x < s + n
BY DEF Run

LEMMA NoRun == Run(Invalid, 0) = {}
BY DEF Run, Invalid

LEMMA TakeIs ==
  ASSUME NEW p \in PoolRecords, NEW s \in Int, NEW n \in Nat
  PROVE  /\ Take(p, s, n) \in PoolRecords
         /\ Take(p, s, n).bits = p.bits
         /\ Take(p, s, n).map = p.map \cup Run(s, n)
<1>1. \A M \in SUBSET Int, u \in Int :
        LET q == [p EXCEPT !.map = M, !.used = u] IN
        q \in PoolRecords /\ q.bits = p.bits /\ q.map = M
  BY DEF PoolRecords
<1>2. p.map \cup Run(s, n) \in SUBSET Int /\ p.used + n \in Int
  BY RunIs DEF PoolRecords
<1> QED BY <1>1, <1>2 DEF Take

LEMMA ReleaseIs ==
  ASSUME NEW p \in PoolRecords, NEW s \in Int, NEW n \in Nat
  PROVE  /\ Release(p, s, n) \in PoolRecords
         /\ Release(p, s, n).bits = p.bits
         /\ Release(p, s, n).map = IF s = Invalid THEN p.map ELSE p.map \ Run(s, n)
<1>1. CASE s = Invalid
  BY <1>1 DEF Release
<1>2. CASE s # Invalid
  <2>1. Release(p, s, n) = [bits |-> p.bits, map |-> p.map \ Run(s, n), used |-> p.used - n]
    BY <1>2 DEF Release, PoolRecords
  <2>2. p.bits \in Nat /\ p.map \ Run(s, n) \in SUBSET Int /\ p.used - n \in Int
    BY DEF PoolRecords
  <2> QED BY <1>2, <2>1, <2>2 DEF PoolRecords
<1> QED BY <1>1, <1>2

ShareRecords == [ref : Int, max : Nat, start : {Invalid} \cup Nat,
                 dma : {"none", "live", "freed"}]

LEMMA ClearedIs ==
  ASSUME NEW s \in ShareRecords, NEW t, t = [s EXCEPT !.ref = 0, !.max = 0, !.start = Invalid]
  PROVE  t \in ShareRecords /\ t.ref = 0 /\ t.max = 0 /\ t.start = Invalid
<1>1. t = [ref |-> 0, max |-> 0, start |-> Invalid, dma |-> s.dma]
  BY DEF ShareRecords
<1>2. s.dma \in {"none", "live", "freed"}
  BY DEF ShareRecords
<1> QED BY <1>1, <1>2 DEF ShareRecords

(* The area grows downwards from the top of the pool over free pages, or    *)
(* the request is refused.                                                  *)
LEMMA AllocShareIs ==
  ASSUME NEW n \in Nat \ {0}, pool \in PoolRecords, share \in ShareRecords,
         share.max > 0 => share.start \in Nat /\ share.start = pool.bits - share.max
  PROVE  LET got == AllocShare(n)
             need == ShareNeed(n)
             at == pool.bits - need
         IN \/ got.at = Invalid
            \/ /\ need \in Nat /\ n <= need /\ at \in Nat /\ got.at = at
               /\ Area \subseteq Run(at, need)
               /\ Run(at, need) \cap (pool.map \ Area) = {}
               /\ got.pool \in PoolRecords /\ got.pool.bits = pool.bits
               /\ got.pool.map = (pool.map \ Area) \cup Run(at, need)
               /\ got.share = [share EXCEPT !.ref = @ + 1, !.max = need, !.start = at]
<1> DEFINE need == ShareNeed(n)
           cleared == [pool EXCEPT !.map = @ \ Area]
           at == pool.bits - need
           taken == [Take(cleared, at, need) EXCEPT !.used = @ - share.max]
<1>1. need \in Nat /\ n <= need /\ share.max <= need /\ need > 0
  BY DEF ShareNeed, ShareRecords
<1>2. at \in Int /\ pool.bits \in Nat /\ share.max \in Nat
  BY <1>1 DEF PoolRecords, ShareRecords
<1>3. cleared \in PoolRecords /\ cleared.bits = pool.bits /\ cleared.map = pool.map \ Area
  BY DEF PoolRecords
<1>4. /\ taken \in PoolRecords
      /\ taken.bits = pool.bits
      /\ taken.map = (pool.map \ Area) \cup Run(at, need)
  <2>1. /\ Take(cleared, at, need) \in PoolRecords
        /\ Take(cleared, at, need).bits = pool.bits
        /\ Take(cleared, at, need).map = (pool.map \ Area) \cup Run(at, need)
    <3> HIDE DEF cleared, need, at
    <3> QED BY <1>1, <1>2, <1>3, TakeIs
  <2>2. \A q \in PoolRecords : /\ [q EXCEPT !.used = @ - share.max] \in PoolRecords
                              /\ [q EXCEPT !.used = @ - share.max].bits = q.bits
                              /\ [q EXCEPT !.used = @ - share.max].map = q.map
    BY <1>2 DEF PoolRecords
  <2> QED BY <2>1, <2>2
<1>5. Area \subseteq Run(at, need)
  <2>1. CASE share.max > 0
    <3>1. share.start = pool.bits - share.max
      BY <2>1
    <3>2. \A x \in Area : x \in Int /\ share.start <= x /\ x < share.start + share.max
      BY <3>1, <1>2, RunIs DEF Area
    <3> QED BY <1>1, <1>2, <3>1, <3>2, RunIs
  <2>2. CASE ~(share.max > 0)
    BY <2>2, <1>2, RunIs DEF Area, Invalid, ShareRecords
  <2> QED BY <2>1, <2>2
<1>6. CASE AllocShare(n).at = Invalid
  BY <1>6
<1>7. CASE AllocShare(n).at # Invalid
  <2>1. at \in Gaps(cleared, need)
    BY <1>7 DEF AllocShare, Area
  <2>2. at \in Nat /\ Run(at, need) \cap (pool.map \ Area) = {}
    BY <2>1, <1>3, <1>2, <1>1 DEF Gaps
  <2>3. AllocShare(n) = [at |-> at, pool |-> taken,
                         share |-> [share EXCEPT !.ref = @ + 1, !.max = need, !.start = at]]
    BY <1>7 DEF AllocShare, Area
  <2>4. AllocShare(n).at = at /\ AllocShare(n).pool = taken
        /\ AllocShare(n).share = [share EXCEPT !.ref = @ + 1, !.max = need, !.start = at]
    BY <2>3
  <2> QED BY <1>1, <1>4, <1>5, <2>2, <2>4
<1> QED BY <1>6, <1>7
-----------------------------------------------------------------------------
(* What an allocation gives: no pages of the pool, pages of its own, or the *)
(* upper pages of an area that has room for them.                           *)
NoPages(r) ==
  /\ r.where # "pool" /\ r.at = Invalid
  /\ r.pool = pool /\ r.share \in ShareRecords
  /\ hasPool => ~r.shared /\ r.share = share

OwnPages(r) ==
  /\ hasPool /\ r.where = "pool" /\ ~r.shared /\ r.at \in Nat
  /\ Run(r.at, r.n) \cap pool.map = {}
  /\ r.pool = Take(pool, r.at, r.n) /\ r.share = share

AreaPages(r) ==
  /\ hasPool /\ r.where = "pool" /\ r.shared
  /\ \E need \in Nat :
       /\ r.n <= need /\ r.at \in Nat /\ r.at = pool.bits - need
       /\ Area \subseteq Run(r.at, need)
       /\ Run(r.at, need) \cap (pool.map \ Area) = {}
       /\ r.pool \in PoolRecords /\ r.pool.bits = pool.bits
       /\ r.pool.map = (pool.map \ Area) \cup Run(r.at, need)
       /\ r.share = [share EXCEPT !.ref = @ + 1, !.max = need, !.start = r.at]

Got(r) ==
  /\ r.n \in Nat /\ r.shared \in BOOLEAN /\ r.where \in Places
  /\ NoPages(r) \/ OwnPages(r) \/ AreaPages(r)

LEMMA CmaAllocIs ==
  ASSUME LayoutInv, "ShareRefused" \notin Allow,
         NEW request \in Requests, NEW n \in 1 .. MaxPages, NEW works \in BOOLEAN,
         Expected(request, CmaAlloc(request, n, works), works)
  PROVE  Got(CmaAlloc(request, n, works))
<1> DEFINE r == CmaAlloc(request, n, works)
<1>1. n \in Nat \ {0} /\ n \in Nat /\ SharePages \in Nat
  BY PagesAssumption DEF PagesAssumption
<1>2. share \in ShareRecords
  BY DEF LayoutInv, AreaInv, ShareRecords
<1>3. CASE ~hasPool
  <2>1. /\ r.where \in Places /\ r.where # "pool" /\ r.at = Invalid
        /\ r.pool = pool /\ r.n \in Nat /\ r.shared \in BOOLEAN
    BY <1>1, <1>3 DEF CmaAlloc, MallocShareThroughDma, MallocThroughDma, Result,
                      Elsewhere, Places
  <2>2. r.share \in ShareRecords
    <3> DEFINE held == [share EXCEPT !.ref = @ + 1, !.dma = IF @ = "none" THEN "live" ELSE @]
    <3>1. held \in ShareRecords
      <4>1. \A k \in Int, d \in {"none", "live", "freed"} :
              [share EXCEPT !.ref = k, !.dma = d] \in ShareRecords
        BY <1>2 DEF ShareRecords
      <4>2. share.ref + 1 \in Int /\ share.dma \in {"none", "live", "freed"}
        BY <1>2 DEF ShareRecords
      <4>3. CASE share.dma = "none"
        BY <4>1, <4>2, <4>3
      <4>4. CASE share.dma # "none"
        BY <4>1, <4>2, <4>4
      <4> QED BY <4>3, <4>4
    <3>2. r.share = share \/ r.share = held
      BY <1>3 DEF CmaAlloc, MallocShareThroughDma, MallocThroughDma, Result, Elsewhere
    <3> QED BY <1>2, <3>1, <3>2
  <2> QED BY <1>3, <2>1, <2>2 DEF Got, NoPages
<1>4. CASE hasPool /\ KindOf(request) = "share"
  <2> DEFINE a == AllocShare(n)
  <2>1. r = Result(a, IF a.at = Invalid THEN "bogus" ELSE "pool", n, TRUE)
    BY <1>4 DEF CmaAlloc, MallocFromPool
  <2>2. /\ r.at = a.at /\ r.n = n /\ r.shared = TRUE /\ r.pool = a.pool /\ r.share = a.share
        /\ r.where = IF a.at = Invalid THEN "bogus" ELSE "pool"
    BY <2>1 DEF Result
  <2>3. a.at # Invalid
    BY <2>2 DEF Expected
  <2>4. pool \in PoolRecords
        /\ (share.max > 0 => share.start \in Nat /\ share.start = pool.bits - share.max)
    BY <1>4 DEF LayoutInv, AreaInv, BitsInv, PoolRecords
  <2> DEFINE need == ShareNeed(n)
  <2>5. /\ need \in Nat /\ n <= need /\ a.at \in Nat /\ a.at = pool.bits - need
        /\ Area \subseteq Run(a.at, need)
        /\ Run(a.at, need) \cap (pool.map \ Area) = {}
        /\ a.pool \in PoolRecords /\ a.pool.bits = pool.bits
        /\ a.pool.map = (pool.map \ Area) \cup Run(a.at, need)
        /\ a.share = [share EXCEPT !.ref = @ + 1, !.max = need, !.start = a.at]
    <3> HIDE DEF need, a
    <3> QED BY <1>1, <1>2, <2>3, <2>4, AllocShareIs DEF need, a
  <2>6. AreaPages(r)
    <3> HIDE DEF need, a, r
    <3> QED BY <1>4, <2>2, <2>3, <2>5 DEF AreaPages
  <2> QED BY <1>1, <2>2, <2>3, <2>6 DEF Got, Places
<1>5. CASE hasPool /\ KindOf(request) # "share"
  <2> DEFINE a == FirstFit(pool, n)
  <2>1. r = Result([at |-> a.at, pool |-> a.pool, share |-> share],
                   IF a.at = Invalid THEN "bogus" ELSE "pool", n, FALSE)
    BY <1>5 DEF CmaAlloc, MallocFromPool
  <2>2. /\ r.at = a.at /\ r.n = n /\ r.shared = FALSE /\ r.pool = a.pool /\ r.share = share
        /\ r.where = IF a.at = Invalid THEN "bogus" ELSE "pool"
    BY <2>1 DEF Result
  <2>3. pool \in PoolRecords
    BY <1>5 DEF LayoutInv, BitsInv, PoolRecords
  <2>4. \/ a.at = Invalid /\ a.pool = pool
        \/ /\ a.at \in Nat
           /\ Run(a.at, n) \cap pool.map = {}
           /\ a.pool = Take(pool, a.at, n)
    <3> HIDE DEF a
    <3> QED BY <1>1, <2>3, FirstFitIs DEF a
  <2>5. NoPages(r) \/ OwnPages(r)
    <3> HIDE DEF a, r
    <3> QED BY <1>2, <1>5, <2>2, <2>4 DEF NoPages, OwnPages, Invalid
  <2> QED BY <1>1, <2>2, <2>5 DEF Got, Places
<1> QED BY <1>3, <1>4, <1>5

-----------------------------------------------------------------------------
(* What becomes of the predicates on buffers when h gets a buffer, ...      *)
LEMMA Given ==
  ASSUME buf \in [Handle -> Buffers \cup {NoBuf}],
         NEW h \in Handle \ Live, NEW b \in Buffers, buf' = [buf EXCEPT ![h] = b]
  PROVE  /\ buf' \in [Handle -> Buffers \cup {NoBuf}]
         /\ buf'[h] = b /\ Live' = Live \cup {h}
         /\ \A g \in Handle : g # h =>
              /\ buf'[g] = buf[g]
              /\ Alone(g)' <=> Alone(g)
              /\ InArea(g)' <=> InArea(g)
              /\ Pages(g)' = Pages(g)
         /\ Alone(h)' <=> b.where = "pool" /\ ~b.shared
         /\ InArea(h)' <=> b.where = "pool" /\ b.shared
         /\ Pages(h)' = Run(b.at, b.n)
         /\ ~Alone(h) /\ ~InArea(h)
<1>1. b # NoBuf
  BY HandleAssumption DEF HandleAssumption
<1> QED BY <1>1 DEF Live, Alone, InArea, Pages

(* ... and when h is freed. *)
LEMMA Freed ==
  ASSUME buf \in [Handle -> Buffers \cup {NoBuf}],
         NEW h \in Live, buf' = [buf EXCEPT ![h] = NoBuf]
  PROVE  /\ buf' \in [Handle -> Buffers \cup {NoBuf}]
         /\ buf'[h] = NoBuf /\ Live' = Live \ {h}
         /\ \A g \in Handle : g # h =>
              /\ buf'[g] = buf[g]
              /\ Alone(g)' <=> Alone(g)
              /\ InArea(g)' <=> InArea(g)
              /\ Pages(g)' = Pages(g)
         /\ ~Alone(h)' /\ ~InArea(h)'
BY DEF Live, Alone, InArea, Pages

(* The buffers in the area, which its reference count counts. *)
InAreaSet == {h \in Handle : InArea(h)}

LEMMA InAreaFinite ==
  /\ IsFiniteSet(InAreaSet) /\ Cardinality(InAreaSet) \in Nat
  /\ Cardinality(InAreaSet) = 0 <=> InAreaSet = {}
BY HandleAssumption, FS_Subset, FS_CardinalityType, FS_EmptySet DEF HandleAssumption, InAreaSet

(* Nothing happened to the area or to what lies in it. *)
LEMMA AreaStays ==
  ASSUME LayoutInv, hasPool, share' = share, pool'.bits = pool.bits,
         \A g \in Handle : (InArea(g)' <=> InArea(g)) /\ (InArea(g) => Pages(g)' = Pages(g))
  PROVE  AreaInv'
<1>1. {g \in Handle : InArea(g)}' = {g \in Handle : InArea(g)}
  OBVIOUS
<1>2. Cardinality({g \in Handle : InArea(g)})' = Cardinality({g \in Handle : InArea(g)})
  BY <1>1
<1>3. Area' = Area
  BY DEF Area
<1>4. \A g \in Handle : InArea(g)' => Pages(g)' \subseteq Area'
  BY <1>3 DEF LayoutInv, AreaInv
<1>5. share.ref = Cardinality({g \in Handle : InArea(g)})
  BY DEF LayoutInv, AreaInv
<1> QED BY <1>2, <1>4, <1>5 DEF LayoutInv, AreaInv

-----------------------------------------------------------------------------
(* A buffer is handed out. *)
LEMMA GiveLayout ==
  ASSUME LayoutInv, NEW n \in Net, NEW h \in Handle \ Live, NEW r, Got(r),
         NEW role \in {"linked", "queue"}, Give(n, h, r, role)
  PROVE  LayoutInv'
<1> DEFINE b == Handled(n, r, role)
<1>1. /\ pool' = r.pool /\ share' = r.share /\ hasPool' = hasPool /\ public' = public
      /\ buf' = [buf EXCEPT ![h] = b]
  BY DEF Give
<1>2. /\ b.at = r.at /\ b.n = r.n /\ b.where = r.where /\ b.shared = r.shared
      /\ r.at \in {Invalid} \cup Nat /\ r.n \in Nat /\ b \in Buffers
  BY DEF Handled, Got, NoPages, OwnPages, AreaPages, Buffers
<1> HIDE DEF b
<1>3. buf \in [Handle -> Buffers \cup {NoBuf}]
  BY DEF LayoutInv, PlaceInv
<1>4. /\ buf' \in [Handle -> Buffers \cup {NoBuf}]
      /\ buf'[h] = b /\ Live' = Live \cup {h}
      /\ \A g \in Handle : g # h =>
           /\ buf'[g] = buf[g]
           /\ Alone(g)' <=> Alone(g)
           /\ InArea(g)' <=> InArea(g)
           /\ Pages(g)' = Pages(g)
      /\ Alone(h)' <=> b.where = "pool" /\ ~b.shared
      /\ InArea(h)' <=> b.where = "pool" /\ b.shared
      /\ Pages(h)' = Run(b.at, b.n)
      /\ ~Alone(h) /\ ~InArea(h)
  BY <1>1, <1>2, <1>3, Given
<1>5. share \in ShareRecords /\ share' \in ShareRecords
  <2>1. share \in ShareRecords
    BY DEF LayoutInv, AreaInv, ShareRecords
  <2>3. share.ref + 1 \in Int
    BY <2>1 DEF ShareRecords
  <2>4. CASE AreaPages(r)
    <3>1. PICK m \in Nat :
            /\ r.at \in Nat
            /\ r.share = [share EXCEPT !.ref = @ + 1, !.max = m, !.start = r.at]
      BY <2>4 DEF AreaPages
    <3>2. r.share \in ShareRecords
      <4>1. \A k \in Int, n1 \in Nat, a \in Nat :
              [share EXCEPT !.ref = k, !.max = n1, !.start = a] \in ShareRecords
        BY <2>1 DEF ShareRecords
      <4>2. [share EXCEPT !.ref = share.ref + 1, !.max = m, !.start = r.at] \in ShareRecords
        BY <2>3, <3>1, <4>1
      <4> QED BY <3>1, <4>2
    <3> QED BY <1>1, <2>1, <3>2
  <2>5. CASE NoPages(r) \/ OwnPages(r)
    BY <1>1, <2>1, <2>5 DEF NoPages, OwnPages
  <2> QED BY <2>4, <2>5 DEF Got
<1>6. PlaceInv'
  <2>1. /\ r.where = "pool" => hasPool /\ r.at # Invalid
        /\ r.where # "pool" => r.at = Invalid
        /\ hasPool /\ r.shared => r.where = "pool"
    <3>1. \A a \in Nat : a # Invalid
      BY DEF Invalid
    <3>2. CASE NoPages(r)
      BY <3>2 DEF NoPages
    <3>3. CASE OwnPages(r)
      BY <3>1, <3>3 DEF OwnPages
    <3>4. CASE AreaPages(r)
      BY <3>1, <3>4 DEF AreaPages
    <3> QED BY <3>2, <3>3, <3>4 DEF Got
  <2>2. ASSUME NEW g \in Live'
        PROVE  /\ buf'[g].where = "pool" => hasPool' /\ buf'[g].at # Invalid
               /\ buf'[g].where # "pool" => buf'[g].at = Invalid
               /\ hasPool' /\ buf'[g].shared => buf'[g].where = "pool"
    <3>1. CASE g = h
      BY <1>1, <1>2, <1>4, <2>1, <3>1
    <3>2. CASE g # h
      BY <1>1, <1>4, <3>2 DEF LayoutInv, PlaceInv, Live
    <3> QED BY <3>1, <3>2
  <2> QED BY <1>4, <2>2 DEF PlaceInv
<1>7. ASSUME ~hasPool
      PROVE  AreaInv' /\ BitsInv' /\ ApartInv' /\ NoneLost'
  BY <1>1, <1>5, <1>7 DEF AreaInv, BitsInv, ApartInv, NoneLost, ShareRecords
<1>8. CASE hasPool /\ NoPages(r)
  <2>1. pool' = pool /\ share' = share /\ \A g \in Handle : (Alone(g)' <=> Alone(g)) /\ (InArea(g)' <=> InArea(g))
    BY <1>1, <1>2, <1>4, <1>8 DEF NoPages
  <2>2. InAreaSet' = InAreaSet /\ Area' = Area /\ PublicRun' = PublicRun
    BY <1>1, <2>1 DEF InAreaSet, Area, PublicRun
  <2>3. \A g \in Handle : Alone(g) \/ InArea(g) => Pages(g)' = Pages(g)
    BY <1>4
  <2>4. AreaInv'
    BY <1>1, <1>8, <2>1, <2>2, <2>3 DEF LayoutInv, AreaInv, InAreaSet
  <2>5. BitsInv' /\ ApartInv'
    BY <1>1, <1>8, <2>1, <2>2, <2>3 DEF LayoutInv, BitsInv, ApartInv, Apart
  <2>6. NoneLost'
    BY <1>1, <1>8, <2>1, <2>2, <2>3 DEF LayoutInv, NoneLost
  <2> QED BY <2>4, <2>5, <2>6, <1>6 DEF LayoutInv
<1>9. CASE OwnPages(r)
  <2>1. /\ pool \in PoolRecords /\ hasPool /\ hasPool' /\ share' = share
        /\ r.at \in Nat /\ r.n \in Nat /\ Run(r.at, r.n) \cap pool.map = {}
    BY <1>1, <1>2, <1>9 DEF LayoutInv, BitsInv, PoolRecords, OwnPages
  <2>2. /\ pool' \in PoolRecords /\ pool'.bits = pool.bits
        /\ pool'.map = pool.map \cup Run(r.at, r.n)
    BY <1>1, <1>9, <2>1, TakeIs DEF OwnPages
  <2>3. Alone(h)' /\ ~InArea(h)' /\ Pages(h)' = Run(r.at, r.n)
    BY <1>2, <1>4, <1>9 DEF OwnPages
  <2>4. InAreaSet' = InAreaSet /\ Area' = Area /\ PublicRun' = PublicRun
    BY <1>1, <1>4, <2>1, <2>3 DEF InAreaSet, Area, PublicRun
  <2>5. AreaInv'
    BY <1>4, <2>1, <2>2, <2>3, AreaStays
  <2>6. BitsInv'
    BY <1>1, <1>4, <2>1, <2>2, <2>3, <2>4 DEF LayoutInv, BitsInv, PoolRecords
  <2>7. ApartInv'
    BY <1>1, <1>4, <2>1, <2>3, <2>4 DEF LayoutInv, BitsInv, ApartInv, Apart
  <2>8. NoneLost'
    BY <1>1, <1>4, <2>1, <2>2, <2>3, <2>4 DEF LayoutInv, NoneLost
  <2> QED BY <2>5, <2>6, <2>7, <2>8, <1>6 DEF LayoutInv
<1>10. CASE AreaPages(r)
  <2>1. PICK need \in Nat :
          /\ r.n <= need /\ r.at \in Nat /\ r.at = pool.bits - need
          /\ Area \subseteq Run(r.at, need)
          /\ Run(r.at, need) \cap (pool.map \ Area) = {}
          /\ r.pool \in PoolRecords /\ r.pool.bits = pool.bits
          /\ r.pool.map = (pool.map \ Area) \cup Run(r.at, need)
          /\ r.share = [share EXCEPT !.ref = @ + 1, !.max = need, !.start = r.at]
    BY <1>10 DEF AreaPages
  <2>2. hasPool /\ hasPool' /\ ~Alone(h)' /\ InArea(h)' /\ Pages(h)' = Run(r.at, r.n)
    BY <1>1, <1>2, <1>4, <1>10 DEF AreaPages
  <2>3. share'.ref = share.ref + 1 /\ share'.max = need /\ share'.start = r.at
    BY <1>1, <1>5, <2>1 DEF ShareRecords
  <2>4. Area' = Run(r.at, need) /\ PublicRun' = PublicRun
    BY <1>1, <2>3 DEF Area, PublicRun
  <2>5. InAreaSet' = InAreaSet \cup {h} /\ h \notin InAreaSet
    BY <1>4, <2>2 DEF InAreaSet
  <2>6. Cardinality(InAreaSet') = Cardinality(InAreaSet) + 1
    BY <2>5, InAreaFinite, FS_AddElement
  <2>7. share.ref = Cardinality(InAreaSet) /\ Cardinality(InAreaSet) \in Nat
    BY <2>2, InAreaFinite DEF LayoutInv, AreaInv, InAreaSet
  <2>8. Pages(h)' \subseteq Area'
    BY <1>2, <2>1, <2>2, <2>4, RunIs
  <2>9. AreaInv'
    <3>1. share'.ref = Cardinality({g \in Handle : InArea(g)}')
      BY <2>3, <2>6, <2>7 DEF InAreaSet
    <3>2. share'.ref # 0
      BY <2>3, <2>7
    <3>3. share'.max > 0 => share'.start \in Nat /\ share'.start = pool'.bits - share'.max
      BY <1>1, <2>1, <2>3
    <3>4. \A g \in Handle : InArea(g)' => Pages(g)' \subseteq Area'
      BY <1>4, <2>1, <2>2, <2>4, <2>8 DEF LayoutInv, AreaInv
    <3> QED BY <1>5, <3>1, <3>2, <3>3, <3>4 DEF AreaInv, ShareRecords
  <2>10. pool'.map = pool.map \cup Area'
    BY <1>1, <2>1, <2>4
  <2>11. BitsInv'
    BY <1>1, <1>4, <2>1, <2>2, <2>4, <2>10 DEF LayoutInv, BitsInv, PoolRecords
  <2>12. ApartInv'
    <3>1. \A g \in Handle : Alone(g)' => Alone(g) /\ Pages(g)' = Pages(g)
      BY <1>4, <2>2
    <3>2. \A g \in Handle : Alone(g) => Pages(g) \subseteq pool.map \ Area
      BY <2>2 DEF LayoutInv, BitsInv, ApartInv, Apart
    <3>3. PublicRun \subseteq pool.map \ Area
      BY <2>2 DEF LayoutInv, BitsInv, ApartInv, Apart
    <3>4. \A S : S \subseteq pool.map \ Area => Apart(S, Area') /\ Apart(Area', S)
      BY <2>1, <2>4 DEF Apart
    <3> QED BY <2>2, <2>4, <3>1, <3>2, <3>3, <3>4 DEF LayoutInv, ApartInv, Apart
  <2>13. NoneLost'
    <3>1. \A g \in Handle : Alone(g) => Alone(g)' /\ Pages(g)' = Pages(g)
      BY <1>4
    <3> QED BY <2>1, <2>2, <2>4, <2>10, <3>1 DEF LayoutInv, NoneLost
  <2> QED BY <2>9, <2>11, <2>12, <2>13, <1>6 DEF LayoutInv
<1> QED BY <1>6, <1>7, <1>8, <1>9, <1>10 DEF Got, LayoutInv

(* Memory from the DMA allocator touches nothing of the pool. *)
LEMMA DmaFreeIs ==
  ASSUME NEW s \in ShareRecords, NEW b
  PROVE  FreeShareThroughDma(b, s) \in ShareRecords /\ FreeThroughDma(b, s) \in ShareRecords
<1>1. \A k \in Int, d \in {"none", "live", "freed"} :
        [s EXCEPT !.ref = k, !.dma = d] \in ShareRecords
  BY DEF ShareRecords
<1>2. [s EXCEPT !.dma = "freed"] \in ShareRecords
  BY DEF ShareRecords
<1>3. s.ref - 1 \in Int /\ s.dma \in {"none", "live", "freed"}
  BY DEF ShareRecords
<1>4. FreeShareThroughDma(b, s) \in ShareRecords
  BY <1>1, <1>3 DEF FreeShareThroughDma
<1> QED BY <1>2, <1>4 DEF FreeThroughDma

(* A buffer is given back. *)
LEMMA GiveBackLayout ==
  ASSUME LayoutInv, NEW h \in Live, GiveBack(h)
  PROVE  LayoutInv'
<1> DEFINE b == buf[h]
<1>1. /\ pool' = CmaFree(b, pool, share).pool /\ share' = CmaFree(b, pool, share).share
      /\ hasPool' = hasPool /\ public' = public
      /\ buf' = [buf EXCEPT ![h] = NoBuf]
  BY DEF GiveBack
<1>2. buf \in [Handle -> Buffers \cup {NoBuf}]
  BY DEF LayoutInv, PlaceInv
<1>3. b \in Buffers /\ h \in Handle
  BY <1>2 DEF Live
<1>4. /\ buf' \in [Handle -> Buffers \cup {NoBuf}]
      /\ buf'[h] = NoBuf /\ Live' = Live \ {h}
      /\ \A g \in Handle : g # h =>
           /\ buf'[g] = buf[g]
           /\ Alone(g)' <=> Alone(g)
           /\ InArea(g)' <=> InArea(g)
           /\ Pages(g)' = Pages(g)
      /\ ~Alone(h)' /\ ~InArea(h)'
  BY <1>1, <1>2, Freed
<1>5. share \in ShareRecords
  BY DEF LayoutInv, AreaInv, ShareRecords
<1>6. PlaceInv'
  <2>1. \A g \in Live' : g \in Live /\ buf'[g] = buf[g]
    BY <1>4 DEF Live
  <2> QED BY <1>1, <1>4, <2>1 DEF LayoutInv, PlaceInv
<1>7. CASE ~hasPool
  <2>1. share' \in ShareRecords
    BY <1>1, <1>5, <1>7, DmaFreeIs DEF CmaFree
  <2> QED BY <1>1, <1>6, <1>7, <2>1 DEF LayoutInv, AreaInv, BitsInv, ApartInv, NoneLost, ShareRecords
<1>8. ASSUME hasPool
      PROVE  pool \in PoolRecords /\ PublicRun' = PublicRun
  BY <1>1, <1>8 DEF LayoutInv, BitsInv, PoolRecords, PublicRun
<1>9. CASE hasPool /\ ~b.shared
  <2>1. pool' = Release(pool, b.at, b.n) /\ share' = share
    BY <1>1, <1>9 DEF CmaFree
  <2>2. b.at \in Int /\ b.n \in Nat /\ ~InArea(h) /\ (b.at = Invalid <=> ~Alone(h))
    BY <1>3, <1>9 DEF Buffers, Invalid, InArea, Alone, LayoutInv, PlaceInv
  <2>3. /\ pool' \in PoolRecords /\ pool'.bits = pool.bits
        /\ pool'.map = IF Alone(h) THEN pool.map \ Pages(h) ELSE pool.map
    BY <1>8, <1>9, <2>1, <2>2, ReleaseIs DEF Pages
  <2>4. InAreaSet' = InAreaSet /\ Area' = Area /\ PublicRun' = PublicRun
    BY <1>4, <1>8, <1>9, <2>1, <2>2 DEF InAreaSet, Area
  <2>5. AreaInv'
    BY <1>4, <1>9, <2>1, <2>2, <2>3, AreaStays
  <2>6. ApartInv'
    BY <1>1, <1>4, <1>9, <2>4 DEF LayoutInv, ApartInv
  <2>7. BitsInv'
    <3>1. ASSUME NEW g \in Handle, Alone(g)'
          PROVE  Pages(g)' \subseteq pool'.map
      <4>1. g # h /\ Alone(g) /\ Pages(g)' = Pages(g)
        BY <1>4, <3>1
      <4>2. Pages(g) \subseteq pool.map
        BY <1>9, <4>1 DEF LayoutInv, BitsInv
      <4>3. Alone(h) => Pages(g) \cap Pages(h) = {}
        BY <1>3, <1>9, <4>1 DEF LayoutInv, ApartInv, Apart
      <4> QED BY <2>3, <4>1, <4>2, <4>3
    <3>2. Area \subseteq pool'.map /\ PublicRun \subseteq pool'.map
      BY <1>3, <1>9, <2>3 DEF LayoutInv, BitsInv, ApartInv, Apart
    <3> QED BY <2>3, <2>4, <3>1, <3>2 DEF BitsInv, PoolRecords
  <2>8. NoneLost'
    <3>1. ASSUME NEW p \in pool'.map, p \notin Area \cup PublicRun
          PROVE  \E g \in Handle : Alone(g)' /\ p \in Pages(g)'
      <4>1. PICK g \in Handle : Alone(g) /\ p \in Pages(g)
        BY <1>9, <2>3, <3>1 DEF LayoutInv, NoneLost
      <4>2. g # h
        BY <2>3, <3>1, <4>1
      <4> QED BY <1>4, <4>1, <4>2
    <3> QED BY <2>4, <3>1 DEF NoneLost
  <2> QED BY <1>6, <2>5, <2>6, <2>7, <2>8 DEF LayoutInv
<1>10. CASE hasPool /\ b.shared
  <2>1. InArea(h) /\ ~Alone(h)
    BY <1>3, <1>10 DEF LayoutInv, PlaceInv, InArea, Alone
  <2>2. InAreaSet' = InAreaSet \ {h} /\ h \in InAreaSet
    BY <1>3, <1>4, <2>1 DEF InAreaSet
  <2>3. Cardinality(InAreaSet') = Cardinality(InAreaSet) - 1
    BY <2>2, InAreaFinite, FS_RemoveElement
  <2>4. share.ref = Cardinality(InAreaSet) /\ Cardinality(InAreaSet) \in Nat \ {0}
    BY <1>10, <2>2, InAreaFinite DEF LayoutInv, AreaInv, InAreaSet
  <2>5. pool' = FreeShare(pool, share).pool /\ share' = FreeShare(pool, share).share
    BY <1>1, <1>10 DEF CmaFree
  <2>6. \A g \in Handle : Alone(g)' <=> Alone(g)
    BY <1>4, <2>1
  <2>7. \A g \in Handle : Alone(g) => Pages(g)' = Pages(g)
    BY <1>4, <2>1
  <2>8. CASE share.ref > 1
    <3>1. pool' = pool /\ share' = [share EXCEPT !.ref = @ - 1]
      BY <2>5, <2>8 DEF FreeShare
    <3>2. /\ share' \in ShareRecords /\ share'.ref = share.ref - 1
          /\ share'.max = share.max /\ share'.start = share.start
      BY <1>5, <3>1 DEF ShareRecords
    <3>3. Area' = Area
      BY <3>2 DEF Area
    <3>4. AreaInv'
      <4>1. share'.ref = Cardinality({g \in Handle : InArea(g)}')
        BY <2>3, <2>4, <3>2 DEF InAreaSet
      <4>2. share'.ref # 0
        BY <2>4, <2>8, <3>2
      <4>3. \A g \in Handle : InArea(g)' => Pages(g)' \subseteq Area'
        BY <1>4, <1>10, <3>3 DEF LayoutInv, AreaInv
      <4> QED BY <1>10, <3>1, <3>2, <4>1, <4>2, <4>3 DEF LayoutInv, AreaInv, ShareRecords
    <3>5. BitsInv' /\ ApartInv'
      BY <1>1, <1>8, <1>10, <2>6, <2>7, <3>1, <3>3 DEF LayoutInv, BitsInv, ApartInv
    <3>6. NoneLost'
      BY <1>1, <1>8, <1>10, <2>6, <2>7, <3>1, <3>3 DEF LayoutInv, NoneLost
    <3> QED BY <1>6, <3>4, <3>5, <3>6 DEF LayoutInv
  <2>9. CASE ~(share.ref > 1)
    <3>1. /\ pool' = Release(pool, share.start, share.max)
          /\ share' = [share EXCEPT !.ref = 0, !.max = 0, !.start = Invalid]
      BY <2>4, <2>5, <2>9 DEF FreeShare
    <3>2. share' \in ShareRecords /\ share'.ref = 0 /\ share'.max = 0 /\ share'.start = Invalid
      BY <1>5, <3>1, ClearedIs
    <3>3. Area' = {}
      BY <3>2, RunIs DEF Area, Invalid
    <3>4. InAreaSet' = {}
      <4>1. IsFiniteSet(InAreaSet')
        BY <2>2, InAreaFinite, FS_RemoveElement
      <4>2. Cardinality(InAreaSet') = 0
        BY <2>3, <2>4, <2>9
      <4> QED BY <4>1, <4>2, FS_EmptySet
    <3>5. /\ pool' \in PoolRecords /\ pool'.bits = pool.bits
          /\ pool'.map = pool.map \ Area
      <4>1. share.start \in Int /\ share.max \in Nat
        BY <1>5 DEF ShareRecords, Invalid
      <4>2. share.start = Invalid => Area = {}
        BY <1>5, <1>10, <4>1, RunIs DEF LayoutInv, AreaInv, ShareRecords, Area, Invalid
      <4>3. /\ pool' \in PoolRecords /\ pool'.bits = pool.bits
            /\ pool'.map = IF share.start = Invalid THEN pool.map ELSE pool.map \ Area
        <5>1. pool \in PoolRecords
          BY <1>8, <1>10
        <5>2. LET p == Release(pool, share.start, share.max) IN
              /\ p \in PoolRecords /\ p.bits = pool.bits
              /\ p.map = IF share.start = Invalid THEN pool.map
                         ELSE pool.map \ Run(share.start, share.max)
          <6> DEFINE s == share.start
                     n == share.max
          <6>1. s \in Int /\ n \in Nat
            BY <4>1
          <6> HIDE DEF s, n
          <6>2. LET p == Release(pool, s, n) IN
                /\ p \in PoolRecords /\ p.bits = pool.bits
                /\ p.map = IF s = Invalid THEN pool.map ELSE pool.map \ Run(s, n)
            BY <5>1, <6>1, ReleaseIs
          <6> QED BY <6>2 DEF s, n
        <5> QED BY <3>1, <5>2 DEF Area
      <4> QED BY <4>2, <4>3
    <3>6. AreaInv'
      <4>1. Cardinality({g \in Handle : InArea(g)}') = 0
        BY <3>4, FS_EmptySet DEF InAreaSet
      <4>2. \A g \in Handle : ~InArea(g)'
        BY <3>4 DEF InAreaSet
      <4> QED BY <3>2, <4>1, <4>2 DEF AreaInv, ShareRecords
    <3>7. BitsInv'
      BY <1>8, <1>10, <2>6, <2>7, <3>3, <3>5 DEF LayoutInv, BitsInv, ApartInv, Apart, PoolRecords
    <3>8. ApartInv'
      BY <1>1, <1>8, <1>10, <2>6, <2>7, <3>3 DEF LayoutInv, ApartInv, Apart
    <3>9. NoneLost'
      BY <1>1, <1>8, <1>10, <2>6, <2>7, <3>3, <3>5 DEF LayoutInv, NoneLost
    <3> QED BY <1>6, <3>6, <3>7, <3>8, <3>9 DEF LayoutInv
  <2> QED BY <2>8, <2>9
<1> QED BY <1>7, <1>9, <1>10

-----------------------------------------------------------------------------
(* Steps that leave the buffers alone. *)
LEMMA SameBuffers ==
  ASSUME buf' = buf
  PROVE  /\ Live' = Live /\ InAreaSet' = InAreaSet
         /\ \A h \in Handle : /\ Alone(h)' <=> Alone(h)
                              /\ InArea(h)' <=> InArea(h)
                              /\ Pages(h)' = Pages(h)
BY DEF Live, InAreaSet, Alone, InArea, Pages

LEMMA SameLayout ==
  ASSUME LayoutInv, UNCHANGED <<hasPool, public, buf, share>>,
         hasPool => pool' \in PoolRecords /\ pool'.bits = pool.bits /\ pool'.map = pool.map
  PROVE  LayoutInv'
<1>1. PlaceInv'
  BY SameBuffers DEF LayoutInv, PlaceInv
<1>2. Area' = Area /\ PublicRun' = PublicRun
  BY DEF Area, PublicRun
<1>3. AreaInv'
  BY <1>2, SameBuffers DEF LayoutInv, AreaInv, InAreaSet
<1>4. BitsInv'
  BY <1>2, SameBuffers DEF LayoutInv, BitsInv, PoolRecords
<1>5. ApartInv'
  BY <1>2, SameBuffers DEF LayoutInv, ApartInv
<1>6. NoneLost'
  BY <1>2, SameBuffers DEF LayoutInv, NoneLost
<1> QED BY <1>1, <1>3, <1>4, <1>5, <1>6 DEF LayoutInv

(* An allocation that is undone leaves at most a larger area. *)
LEMMA UndoneLayout ==
  ASSUME LayoutInv, NEW r, Got(r), UNCHANGED <<hasPool, public, buf>>,
         pool' = CmaFree(r, r.pool, r.share).pool, share' = CmaFree(r, r.pool, r.share).share
  PROVE  LayoutInv'
<1>1. share \in ShareRecords
  BY DEF LayoutInv, AreaInv, ShareRecords
<1>2. PlaceInv'
  BY SameBuffers DEF LayoutInv, PlaceInv
<1>3. ASSUME hasPool
      PROVE  pool \in PoolRecords
  BY <1>3 DEF LayoutInv, BitsInv, PoolRecords
<1>4. CASE ~hasPool
  <2>1. share' \in ShareRecords
    <3>1. r.share \in ShareRecords
      BY <1>4 DEF Got, NoPages, OwnPages, AreaPages
    <3> QED BY <1>4, <3>1, DmaFreeIs DEF CmaFree
  <2> QED BY <1>2, <1>4, <2>1 DEF LayoutInv, AreaInv, BitsInv, ApartInv, NoneLost, ShareRecords
<1>5. CASE hasPool /\ NoPages(r)
  <2>1. pool' = pool /\ share' = share
    BY <1>5 DEF NoPages, CmaFree, Release
  <2> QED BY <1>3, <1>5, <2>1, SameLayout
<1>6. CASE OwnPages(r)
  <2>1. /\ hasPool /\ share' = share /\ r.at \in Nat /\ r.at # Invalid /\ r.n \in Nat
        /\ pool' = Release(r.pool, r.at, r.n) /\ r.pool = Take(pool, r.at, r.n)
        /\ Run(r.at, r.n) \cap pool.map = {}
    BY <1>6 DEF OwnPages, Got, CmaFree, Invalid
  <2> DEFINE s == r.at
             n == r.n
             p == r.pool
  <2>2. s \in Int /\ n \in Nat /\ s # Invalid
    BY <2>1
  <2>3. p \in PoolRecords /\ p.bits = pool.bits /\ p.map = pool.map \cup Run(s, n)
    BY <1>3, <2>1, TakeIs
  <2> HIDE DEF s, n, p
  <2>4. /\ Release(p, s, n) \in PoolRecords /\ Release(p, s, n).bits = p.bits
        /\ Release(p, s, n).map = p.map \ Run(s, n)
    BY <2>2, <2>3, ReleaseIs
  <2>5. pool' \in PoolRecords /\ pool'.bits = pool.bits /\ pool'.map = pool.map
    <3>1. pool' = Release(p, s, n) /\ Run(s, n) \cap pool.map = {}
      BY <2>1 DEF s, n, p
    <3>2. (pool.map \cup Run(s, n)) \ Run(s, n) = pool.map
      BY <3>1
    <3> QED BY <2>3, <2>4, <3>1, <3>2
  <2> QED BY <2>1, <2>5, SameLayout
<1>7. CASE AreaPages(r)
  <2>1. PICK need \in Nat :
          /\ r.n <= need /\ r.at \in Nat /\ r.at = pool.bits - need
          /\ Area \subseteq Run(r.at, need)
          /\ Run(r.at, need) \cap (pool.map \ Area) = {}
          /\ r.pool \in PoolRecords /\ r.pool.bits = pool.bits
          /\ r.pool.map = (pool.map \ Area) \cup Run(r.at, need)
          /\ r.share = [share EXCEPT !.ref = @ + 1, !.max = need, !.start = r.at]
    BY <1>7 DEF AreaPages
  <2>2. hasPool /\ r.shared /\ hasPool'
    BY <1>7 DEF AreaPages
  <2>3. pool' = FreeShare(r.pool, r.share).pool /\ share' = FreeShare(r.pool, r.share).share
    BY <2>2 DEF CmaFree
  <2>4. r.share = [ref |-> share.ref + 1, max |-> need, start |-> r.at, dma |-> share.dma]
    BY <1>1, <2>1 DEF ShareRecords
  <2>5. share.ref = Cardinality(InAreaSet) /\ share.ref \in Nat
    BY <2>2, InAreaFinite DEF LayoutInv, AreaInv, InAreaSet
  <2>6. share.dma \in {"none", "live", "freed"} /\ need \in Nat /\ r.at \in Nat /\ r.at # Invalid
    BY <1>1, <2>1 DEF ShareRecords, Invalid
  <2>7. CASE share.ref > 0
    <3>1. pool' = r.pool
          /\ share' = [ref |-> share.ref, max |-> need, start |-> r.at, dma |-> share.dma]
      BY <2>3, <2>4, <2>5, <2>7 DEF FreeShare
    <3>2. /\ share' \in ShareRecords /\ share'.ref = share.ref /\ share'.max = need
          /\ share'.start = r.at
      BY <1>1, <2>5, <2>6, <3>1 DEF ShareRecords
    <3>3. Area' = Run(r.at, need) /\ PublicRun' = PublicRun /\ pool'.map = pool.map \cup Area'
      BY <2>1, <3>1, <3>2 DEF Area, PublicRun
    <3>4. AreaInv'
      <4>1. share'.ref = Cardinality({h \in Handle : InArea(h)}')
        BY <2>5, <3>2, SameBuffers DEF InAreaSet
      <4>2. share'.max > 0 => share'.start \in Nat /\ share'.start = pool'.bits - share'.max
        BY <2>1, <3>1, <3>2
      <4>3. \A h \in Handle : InArea(h)' => Pages(h)' \subseteq Area'
        BY <2>1, <2>2, <3>3, SameBuffers DEF LayoutInv, AreaInv
      <4> QED BY <2>7, <3>2, <4>1, <4>2, <4>3 DEF AreaInv, ShareRecords
    <3>5. BitsInv'
      BY <2>1, <2>2, <3>1, <3>3, SameBuffers DEF LayoutInv, BitsInv, PoolRecords
    <3>6. ApartInv'
      <4>1. \A h \in Handle : Alone(h) => Pages(h) \subseteq pool.map \ Area
        BY <2>2 DEF LayoutInv, BitsInv, ApartInv, Apart
      <4>2. PublicRun \subseteq pool.map \ Area
        BY <2>2 DEF LayoutInv, BitsInv, ApartInv, Apart
      <4>3. \A S : S \subseteq pool.map \ Area => Apart(S, Area') /\ Apart(Area', S)
        BY <2>1, <3>3 DEF Apart
      <4> QED BY <2>2, <3>3, <4>1, <4>2, <4>3, SameBuffers DEF LayoutInv, ApartInv, Apart
    <3>7. NoneLost'
      BY <2>1, <2>2, <3>3, SameBuffers DEF LayoutInv, NoneLost
    <3> QED BY <1>2, <3>4, <3>5, <3>6, <3>7 DEF LayoutInv
  <2>8. CASE ~(share.ref > 0)
    <3>1. share.ref = 0 /\ share.max = 0
      BY <2>2, <2>5, <2>8 DEF LayoutInv, AreaInv
    <3>2. Area = {}
      BY <1>1, <3>1, RunIs DEF Area, ShareRecords, Invalid
    <3>3. /\ pool' = Release(r.pool, r.at, need)
          /\ share' = [r.share EXCEPT !.ref = 0, !.max = 0, !.start = Invalid]
      <4>1. r.share.ref = 1 /\ r.share.start = r.at /\ r.share.max = need
        BY <2>4, <3>1
      <4>2. FreeShare(r.pool, r.share) =
              [pool |-> Release(r.pool, r.at, need),
               share |-> [r.share EXCEPT !.ref = 0, !.max = 0, !.start = Invalid]]
        BY <4>1 DEF FreeShare
      <4> QED BY <2>3, <4>2
    <3>4. share' \in ShareRecords /\ share'.ref = 0 /\ share'.max = 0 /\ share'.start = Invalid
      <4> DEFINE u == r.share
      <4>1. u \in ShareRecords
        BY <2>4, <2>5, <2>6 DEF ShareRecords
      <4> HIDE DEF u
      <4>2. share' = [u EXCEPT !.ref = 0, !.max = 0, !.start = Invalid]
        BY <3>3 DEF u
      <4> QED BY <4>1, <4>2, ClearedIs
    <3>5. Area' = {} /\ PublicRun' = PublicRun
      <4>1. Area' = {}
        BY <3>4, NoRun DEF Area
      <4> QED BY <4>1 DEF PublicRun
    <3>6. pool' \in PoolRecords /\ pool'.bits = pool.bits /\ pool'.map = pool.map
      <4> DEFINE s == r.at
                 p == r.pool
      <4>1. /\ p \in PoolRecords /\ p.bits = pool.bits /\ p.map = pool.map \cup Run(s, need)
            /\ s \in Int /\ s # Invalid /\ Run(s, need) \cap pool.map = {}
        BY <2>1, <2>6, <3>2
      <4> HIDE DEF s, p
      <4>2. /\ Release(p, s, need) \in PoolRecords /\ Release(p, s, need).bits = p.bits
            /\ Release(p, s, need).map = IF s = Invalid THEN p.map ELSE p.map \ Run(s, need)
        <5>1. \A q \in PoolRecords, a \in Int, k \in Nat :
                /\ Release(q, a, k) \in PoolRecords /\ Release(q, a, k).bits = q.bits
                /\ Release(q, a, k).map = IF a = Invalid THEN q.map ELSE q.map \ Run(a, k)
          BY ReleaseIs
        <5>2. p \in PoolRecords /\ s \in Int /\ need \in Nat
          BY <4>1
        <5> QED BY <5>1, <5>2
      <4> QED BY <3>3, <4>1, <4>2 DEF s, p
    <3>7. AreaInv'
      <4>1. InAreaSet = {}
        BY <2>5, <3>1, InAreaFinite
      <4>2. share'.ref = Cardinality({h \in Handle : InArea(h)}') /\ \A h \in Handle : ~InArea(h)'
        BY <2>5, <3>1, <3>4, <4>1, SameBuffers DEF InAreaSet
      <4> QED BY <3>4, <4>2 DEF AreaInv, ShareRecords
    <3>8. BitsInv'
      BY <2>2, <3>2, <3>5, <3>6, SameBuffers DEF LayoutInv, BitsInv, PoolRecords
    <3>9. ApartInv'
      BY <2>2, <3>2, <3>5, SameBuffers DEF LayoutInv, ApartInv
    <3>10. NoneLost'
      BY <2>2, <3>2, <3>5, <3>6, SameBuffers DEF LayoutInv, NoneLost
    <3> QED BY <1>2, <3>7, <3>8, <3>9, <3>10 DEF LayoutInv
  <2> QED BY <2>7, <2>8
<1> QED BY <1>4, <1>5, <1>6, <1>7 DEF Got

LEMMA StutterLayout ==
  ASSUME LayoutInv, UNCHANGED <<memVars, buf>>
  PROVE  LayoutInv'
<1>1. hasPool => pool' \in PoolRecords /\ pool'.bits = pool.bits /\ pool'.map = pool.map
  BY DEF memVars, LayoutInv, BitsInv, PoolRecords
<1> QED BY <1>1, SameLayout DEF memVars

(* External pages come and go without the allocator. *)
LEMMA AttachLayout ==
  ASSUME LayoutInv, NEW h \in Handle \ Live, NEW b \in Buffers, b.where = "ext",
         b.at = Invalid, ~b.shared, buf' = [buf EXCEPT ![h] = b], UNCHANGED memVars
  PROVE  LayoutInv'
<1>1. buf \in [Handle -> Buffers \cup {NoBuf}]
  BY DEF LayoutInv, PlaceInv
<1>2. /\ buf' \in [Handle -> Buffers \cup {NoBuf}]
      /\ buf'[h] = b /\ Live' = Live \cup {h}
      /\ \A g \in Handle : g # h => buf'[g] = buf[g] /\ Pages(g)' = Pages(g)
      /\ \A g \in Handle : (Alone(g)' <=> Alone(g)) /\ (InArea(g)' <=> InArea(g))
      /\ ~Alone(h) /\ ~InArea(h)
  BY <1>1, Given
<1>3. \A g \in Handle : Alone(g) \/ InArea(g) => Pages(g)' = Pages(g)
  BY <1>2
<1>4. InAreaSet' = InAreaSet /\ Area' = Area /\ PublicRun' = PublicRun
  BY <1>2 DEF InAreaSet, Area, PublicRun, memVars
<1>5. PlaceInv'
  <2>1. ASSUME NEW g \in Live'
        PROVE  /\ buf'[g].where = "pool" => hasPool' /\ buf'[g].at # Invalid
               /\ buf'[g].where # "pool" => buf'[g].at = Invalid
               /\ hasPool' /\ buf'[g].shared => buf'[g].where = "pool"
    <3>1. CASE g = h
      BY <1>2, <3>1
    <3>2. CASE g # h
      BY <1>2, <3>2 DEF LayoutInv, PlaceInv, Live, memVars
    <3> QED BY <3>1, <3>2
  <2> QED BY <1>2, <2>1 DEF PlaceInv
<1>6. AreaInv'
  <2>1. Cardinality({g \in Handle : InArea(g)}') = Cardinality({g \in Handle : InArea(g)})
    BY <1>4 DEF InAreaSet
  <2> QED BY <1>2, <1>3, <1>4, <2>1 DEF LayoutInv, AreaInv, memVars
<1>7. BitsInv' /\ ApartInv'
  BY <1>2, <1>3, <1>4 DEF LayoutInv, BitsInv, ApartInv, memVars
<1>8. NoneLost'
  BY <1>2, <1>3, <1>4 DEF LayoutInv, NoneLost, memVars
<1> QED BY <1>5, <1>6, <1>7, <1>8 DEF LayoutInv

LEMMA DettachLayout ==
  ASSUME LayoutInv, NEW h \in Live, External(h), CmaDettach(h)
  PROVE  LayoutInv'
<1>1. buf \in [Handle -> Buffers \cup {NoBuf}] /\ ~Alone(h) /\ ~InArea(h)
  BY DEF LayoutInv, PlaceInv, External, Alone, InArea
<1>2. buf' = [buf EXCEPT ![h] = NoBuf] /\ UNCHANGED memVars
  BY DEF CmaDettach, memVars
<1>3. /\ buf' \in [Handle -> Buffers \cup {NoBuf}]
      /\ Live' = Live \ {h}
      /\ \A g \in Handle : g # h => buf'[g] = buf[g]
      /\ \A g \in Handle : (Alone(g)' <=> Alone(g)) /\ (InArea(g)' <=> InArea(g))
      /\ \A g \in Handle : Alone(g) \/ InArea(g) => Pages(g)' = Pages(g)
  BY <1>1, <1>2, Freed
<1>4. InAreaSet' = InAreaSet /\ Area' = Area /\ PublicRun' = PublicRun
  BY <1>2, <1>3 DEF InAreaSet, Area, PublicRun, memVars
<1>5. PlaceInv'
  <2>1. \A g \in Live' : g \in Live /\ buf'[g] = buf[g]
    BY <1>3 DEF Live
  <2> QED BY <1>2, <1>3, <2>1 DEF LayoutInv, PlaceInv, memVars
<1>6. AreaInv'
  <2>1. Cardinality({g \in Handle : InArea(g)}') = Cardinality({g \in Handle : InArea(g)})
    BY <1>4 DEF InAreaSet
  <2> QED BY <1>2, <1>3, <1>4, <2>1 DEF LayoutInv, AreaInv, memVars
<1>7. BitsInv' /\ ApartInv'
  BY <1>2, <1>3, <1>4 DEF LayoutInv, BitsInv, ApartInv, memVars
<1>8. NoneLost'
  BY <1>2, <1>3, <1>4 DEF LayoutInv, NoneLost, memVars
<1> QED BY <1>5, <1>6, <1>7, <1>8 DEF LayoutInv

(* Memory is lost: nothing changes but the role of its buffer.              *)
LEMMA LostLayout ==
  ASSUME LayoutInv, NEW h \in Live, buf' = [buf EXCEPT ![h] = [buf[h] EXCEPT !.role = "lost"]],
         UNCHANGED memVars
  PROVE  LayoutInv'
<1> DEFINE b == [buf[h] EXCEPT !.role = "lost"]
<1>1. /\ buf \in [Handle -> Buffers \cup {NoBuf}]
      /\ h \in Handle /\ buf[h] \in Buffers
  BY DEF LayoutInv, PlaceInv, Live
<1>2. /\ b \in Buffers /\ b.at = buf[h].at /\ b.n = buf[h].n /\ b.where = buf[h].where
      /\ b.shared = buf[h].shared
  BY <1>1 DEF Buffers
<1>3. buf' = [buf EXCEPT ![h] = b]
  OBVIOUS
<1> HIDE DEF b
<1>4. /\ buf' \in [Handle -> Buffers \cup {NoBuf}] /\ Live' = Live /\ b # NoBuf
      /\ buf'[h] = b /\ \A g \in Handle : g # h => buf'[g] = buf[g]
  BY <1>1, <1>2, <1>3, HandleAssumption DEF HandleAssumption, Live
<1>5. \A g \in Live :
        /\ buf'[g].at = buf[g].at /\ buf'[g].n = buf[g].n
        /\ buf'[g].where = buf[g].where /\ buf'[g].shared = buf[g].shared
  BY <1>2, <1>4 DEF Live
<1>6. \A g \in Handle :
        /\ Alone(g)' <=> Alone(g)
        /\ InArea(g)' <=> InArea(g)
        /\ Alone(g) \/ InArea(g) => Pages(g)' = Pages(g)
  BY <1>4, <1>5 DEF Alone, InArea, Pages
<1>7. InAreaSet' = InAreaSet /\ Area' = Area /\ PublicRun' = PublicRun
  BY <1>6 DEF InAreaSet, Area, PublicRun, memVars
<1>8. PlaceInv'
  BY <1>4, <1>5 DEF LayoutInv, PlaceInv, memVars
<1>9. AreaInv'
  <2>1. Cardinality({g \in Handle : InArea(g)}') = Cardinality({g \in Handle : InArea(g)})
    BY <1>7 DEF InAreaSet
  <2> QED BY <1>6, <1>7, <2>1 DEF LayoutInv, AreaInv, memVars
<1>10. BitsInv' /\ ApartInv'
  BY <1>6, <1>7 DEF LayoutInv, BitsInv, ApartInv, memVars
<1>11. NoneLost'
  BY <1>6, <1>7 DEF LayoutInv, NoneLost, memVars
<1> QED BY <1>8, <1>9, <1>10, <1>11 DEF LayoutInv

-----------------------------------------------------------------------------
(* Contexts. *)

CtxRecords == [life : {"none", "open", "closing"}, model : BOOLEAN,
               queue : Handle \cup {NoHandle}, cnt : 0 .. 1, byte : Int, alloced : Int]

(* The contexts stay what they are, counters apart. *)
SameContexts ==
  /\ ctx' \in [Net -> CtxRecords]
  /\ \A m \in Net : /\ ctx'[m].life = ctx[m].life
                    /\ ctx'[m].model = ctx[m].model
                    /\ ctx'[m].queue = ctx[m].queue

(* A context's own state changes, its buffers do not. *)
LEMMA OwnStateRoles ==
  ASSUME PlaceInv, RolesInv, buf' = buf, ctx' \in [Net -> CtxRecords],
         \A m \in Net : /\ ctx'[m].queue = ctx[m].queue
                        /\ ctx[m].model => ctx'[m].model
                        /\ ctx'[m].life = "none" => ctx[m].life = "none"
  PROVE  RolesInv'
<1>1. Live' = Live /\ \A m \in Net : OwnedBy(m)' = OwnedBy(m) /\ Linked(m)' = Linked(m)
  BY DEF Live, OwnedBy, Linked
<1>2. ASSUME NEW m \in Net, ctx'[m].queue # NoHandle
      PROVE  ctx'[m].model /\ ctx'[m].queue \in OwnedBy(m)' /\ buf'[ctx'[m].queue].role = "queue"
  BY <1>1, <1>2 DEF RolesInv
<1>3. ASSUME NEW g \in Live'
      PROVE  buf'[g].role = "queue" => ctx'[buf'[g].own].queue = g /\ ~External(g)'
  <2>1. g \in Live /\ buf[g].own \in Net
    BY <1>1 DEF PlaceInv, Live, Buffers
  <2> QED BY <2>1 DEF RolesInv, External
<1>4. ASSUME NEW m \in Net, ctx'[m].life = "none"
      PROVE  ctx'[m].queue = NoHandle /\ Linked(m)' = {}
  BY <1>1, <1>4 DEF RolesInv
<1> QED BY <1>2, <1>3, <1>4 DEF RolesInv, CtxRecords

LEMMA GiveRoles ==
  ASSUME PlaceInv, RolesInv, NEW n \in Net, NEW h \in Handle \ Live, NEW b \in Buffers,
         b.own = n, b.role \in {"linked", "lost"},
         ctx[n].life # "none", buf' = [buf EXCEPT ![h] = b], SameContexts
  PROVE  RolesInv'
<1>1. buf \in [Handle -> Buffers \cup {NoBuf}]
  BY DEF PlaceInv
<1>2. buf'[h] = b /\ Live' = Live \cup {h} /\ \A g \in Handle : g # h => buf'[g] = buf[g]
  BY <1>1, Given
<1>3. \A m \in Net : OwnedBy(m) \subseteq OwnedBy(m)'
  BY <1>2 DEF OwnedBy, Live
<1>4. \A m \in Net : m # n => Linked(m)' = Linked(m)
  BY <1>2 DEF Linked, OwnedBy, Live
<1>5. ASSUME NEW m \in Net, ctx'[m].queue # NoHandle
      PROVE  ctx'[m].model /\ ctx'[m].queue \in OwnedBy(m)' /\ buf'[ctx'[m].queue].role = "queue"
  <2>1. ctx[m].model /\ ctx[m].queue \in OwnedBy(m) /\ buf[ctx[m].queue].role = "queue"
    BY <1>5 DEF RolesInv, SameContexts
  <2>2. ctx[m].queue # h /\ ctx[m].queue \in Handle
    BY <2>1 DEF OwnedBy, Live
  <2> QED BY <1>2, <1>3, <2>1, <2>2 DEF SameContexts
<1>6. ASSUME NEW g \in Live'
      PROVE  buf'[g].role = "queue" => ctx'[buf'[g].own].queue = g /\ ~External(g)'
  <2>1. CASE g = h
    BY <1>2, <2>1 DEF External
  <2>2. CASE g # h
    <3>1. g \in Live /\ buf'[g] = buf[g] /\ buf[g].own \in Net
      BY <1>1, <1>2, <2>2 DEF Live, Buffers
    <3> QED BY <3>1 DEF RolesInv, SameContexts, External
  <2> QED BY <2>1, <2>2
<1>7. ASSUME NEW m \in Net, ctx'[m].life = "none"
      PROVE  ctx'[m].queue = NoHandle /\ Linked(m)' = {}
  BY <1>4, <1>7 DEF RolesInv, SameContexts
<1> QED BY <1>5, <1>6, <1>7 DEF RolesInv, SameContexts, CtxRecords

LEMMA FreeRoles ==
  ASSUME PlaceInv, RolesInv, NEW h \in Live, buf[h].role # "queue",
         buf' = [buf EXCEPT ![h] = NoBuf], SameContexts
  PROVE  RolesInv'
<1>1. buf \in [Handle -> Buffers \cup {NoBuf}]
  BY DEF PlaceInv
<1>2. Live' = Live \ {h} /\ \A g \in Live' : g \in Live /\ buf'[g] = buf[g]
  BY <1>1, Freed DEF Live
<1>3. \A m \in Net : OwnedBy(m)' = OwnedBy(m) \ {h} /\ Linked(m)' = Linked(m) \ {h}
  BY <1>2 DEF OwnedBy, Linked
<1>4. ASSUME NEW m \in Net, ctx'[m].queue # NoHandle
      PROVE  ctx'[m].model /\ ctx'[m].queue \in OwnedBy(m)' /\ buf'[ctx'[m].queue].role = "queue"
  <2>1. ctx[m].model /\ ctx[m].queue \in OwnedBy(m) /\ buf[ctx[m].queue].role = "queue"
    BY <1>4 DEF RolesInv, SameContexts
  <2>2. ctx[m].queue # h /\ ctx[m].queue \in Live'
    BY <1>2, <2>1 DEF OwnedBy
  <2> QED BY <1>2, <1>3, <2>1, <2>2 DEF SameContexts
<1>5. ASSUME NEW g \in Live'
      PROVE  buf'[g].role = "queue" => ctx'[buf'[g].own].queue = g /\ ~External(g)'
  <2>1. g \in Live /\ buf'[g] = buf[g] /\ buf[g].own \in Net
    BY <1>1, <1>2 DEF Live, Buffers
  <2> QED BY <2>1 DEF RolesInv, SameContexts, External
<1>6. ASSUME NEW m \in Net, ctx'[m].life = "none"
      PROVE  ctx'[m].queue = NoHandle /\ Linked(m)' = {}
  BY <1>3, <1>6 DEF RolesInv, SameContexts
<1> QED BY <1>4, <1>5, <1>6 DEF RolesInv, SameContexts, CtxRecords

(* A buffer is lost that was listed, or that was the queue of a net over    *)
(* which another is registered.                                             *)
LEMMA LostRoles ==
  ASSUME PlaceInv, RolesInv, NEW h \in Live,
         buf' = [buf EXCEPT ![h] = [buf[h] EXCEPT !.role = "lost"]],
         ctx' \in [Net -> CtxRecords],
         \A m \in Net : ctx'[m].life = ctx[m].life,
         \A m \in Net : ctx[m].queue # h =>
           ctx'[m].queue = ctx[m].queue /\ ctx'[m].model = ctx[m].model,
         \A m \in Net : ctx[m].queue = h => ctx'[m].queue = NoHandle
  PROVE  RolesInv'
<1> DEFINE b == [buf[h] EXCEPT !.role = "lost"]
<1>1. buf \in [Handle -> Buffers \cup {NoBuf}] /\ h \in Handle /\ buf[h] \in Buffers
  BY DEF PlaceInv, Live
<1>2. b \in Buffers /\ b.role = "lost" /\ b.own = buf[h].own
  BY <1>1 DEF Buffers
<1>3. buf' = [buf EXCEPT ![h] = b]
  OBVIOUS
<1> HIDE DEF b
<1>4. Live' = Live /\ buf'[h] = b /\ \A g \in Handle : g # h => buf'[g] = buf[g]
  BY <1>1, <1>2, <1>3, HandleAssumption DEF HandleAssumption, Live
<1>5. \A m \in Net : OwnedBy(m)' = OwnedBy(m) /\ Linked(m)' \subseteq Linked(m)
  <2>1. \A g \in Live : buf'[g].own = buf[g].own /\ (buf'[g].role = "linked" => buf[g].role = "linked")
    BY <1>2, <1>4 DEF Live
  <2> QED BY <1>4, <2>1 DEF OwnedBy, Linked
<1>6. ASSUME NEW m \in Net, ctx'[m].queue # NoHandle
      PROVE  ctx'[m].model /\ ctx'[m].queue \in OwnedBy(m)' /\ buf'[ctx'[m].queue].role = "queue"
  <2>1. ctx[m].queue # h /\ ctx'[m].queue = ctx[m].queue /\ ctx'[m].model = ctx[m].model
    BY <1>6
  <2>2. ctx[m].model /\ ctx[m].queue \in OwnedBy(m) /\ buf[ctx[m].queue].role = "queue"
    BY <1>6, <2>1 DEF RolesInv
  <2>3. buf'[ctx[m].queue] = buf[ctx[m].queue]
    BY <1>4, <2>1, <2>2 DEF OwnedBy, Live
  <2> QED BY <1>5, <2>1, <2>2, <2>3
<1>7. ASSUME NEW g \in Live', buf'[g].role = "queue"
      PROVE  ctx'[buf'[g].own].queue = g /\ ~External(g)'
  <2>1. g # h /\ g \in Live /\ g \in Handle
    BY <1>2, <1>4, <1>7 DEF Live
  <2>2. buf'[g] = buf[g] /\ buf[g].own \in Net
    BY <1>1, <1>4, <2>1 DEF Live, Buffers
  <2>3. ctx[buf[g].own].queue = g /\ ~External(g)
    BY <1>7, <2>1, <2>2 DEF RolesInv
  <2> QED BY <2>1, <2>2, <2>3 DEF External
<1>8. ASSUME NEW m \in Net, ctx'[m].life = "none"
      PROVE  ctx'[m].queue = NoHandle /\ Linked(m)' = {}
  BY <1>5, <1>8 DEF RolesInv
<1> QED BY <1>6, <1>7, <1>8 DEF RolesInv, CtxRecords

LEMMA RegisterRoles ==
  ASSUME PlaceInv, RolesInv, NEW n \in Net, NEW h \in Handle \ Live, NEW b \in Buffers,
         b.own = n, b.role = "queue", b.where # "ext", ctx[n].life # "none", ~ctx[n].model,
         buf' = [buf EXCEPT ![h] = b],
         ctx' \in [Net -> CtxRecords], \A m \in Net : m # n => ctx'[m] = ctx[m],
         ctx'[n].life # "none", ctx'[n].model, ctx'[n].queue = h
  PROVE  RolesInv'
<1>1. buf \in [Handle -> Buffers \cup {NoBuf}]
  BY DEF PlaceInv
<1>2. buf'[h] = b /\ Live' = Live \cup {h} /\ \A g \in Handle : g # h => buf'[g] = buf[g]
  <2>1. buf'[h] = b /\ \A g \in Handle : g # h => buf'[g] = buf[g]
    BY <1>1
  <2>2. b # NoBuf
    BY HandleAssumption DEF HandleAssumption
  <2> QED BY <2>1, <2>2 DEF Live
<1>3. \A m \in Net : OwnedBy(m) \subseteq OwnedBy(m)'
  BY <1>2 DEF OwnedBy, Live
<1>4. \A m \in Net : m # n => Linked(m)' = Linked(m)
  BY <1>2 DEF Linked, OwnedBy, Live
<1>5. h \in OwnedBy(n)'
  BY <1>2 DEF OwnedBy
<1>6. ASSUME NEW m \in Net, ctx'[m].queue # NoHandle
      PROVE  ctx'[m].model /\ ctx'[m].queue \in OwnedBy(m)' /\ buf'[ctx'[m].queue].role = "queue"
  <2>1. CASE m = n
    BY <1>2, <1>5, <2>1
  <2>2. CASE m # n
    <3>1. ctx[m].model /\ ctx[m].queue \in OwnedBy(m) /\ buf[ctx[m].queue].role = "queue"
      BY <1>6, <2>2 DEF RolesInv
    <3>2. ctx[m].queue # h /\ ctx[m].queue \in Handle
      BY <3>1 DEF OwnedBy, Live
    <3> QED BY <1>2, <1>3, <2>2, <3>1, <3>2
  <2> QED BY <2>1, <2>2
<1>7. ASSUME NEW g \in Live'
      PROVE  buf'[g].role = "queue" => ctx'[buf'[g].own].queue = g /\ ~External(g)'
  <2>1. CASE g = h
    BY <1>2, <2>1 DEF External
  <2>2. CASE g # h
    <3>1. g \in Live /\ buf'[g] = buf[g] /\ buf[g].own \in Net
      BY <1>1, <1>2, <2>2 DEF Live, Buffers
    <3>2. buf[g].role = "queue" => buf[g].own # n
      <4>1. buf[g].role = "queue" => ctx[buf[g].own].queue = g
        BY <3>1 DEF RolesInv
      <4>2. g # NoHandle
        BY HandleAssumption, <3>1 DEF HandleAssumption, Live
      <4>3. ctx[n].queue = NoHandle
        BY DEF RolesInv
      <4> QED BY <4>1, <4>2, <4>3
    <3> QED BY <3>1, <3>2 DEF RolesInv, External
  <2> QED BY <2>1, <2>2
<1>8. ASSUME NEW m \in Net, ctx'[m].life = "none"
      PROVE  ctx'[m].queue = NoHandle /\ Linked(m)' = {}
  BY <1>4, <1>8 DEF RolesInv
<1> QED BY <1>6, <1>7, <1>8 DEF RolesInv, CtxRecords

(* A private queue is freed with its net. *)
LEMMA DettachRoles ==
  ASSUME PlaceInv, RolesInv, NEW n \in Net,
         IF ctx[n].queue = NoHandle THEN buf' = buf
         ELSE buf' = [buf EXCEPT ![ctx[n].queue] = NoBuf],
         ctx' \in [Net -> CtxRecords], \A m \in Net : m # n => ctx'[m] = ctx[m],
         ctx'[n].queue = NoHandle,
         ctx'[n].life = "none" => Linked(n) = {}
  PROVE  RolesInv'
<1>1. buf \in [Handle -> Buffers \cup {NoBuf}]
  BY DEF PlaceInv
<1>2. \A g \in Live' : g \in Live /\ buf'[g] = buf[g] /\ g # ctx[n].queue
  <2>1. CASE ctx[n].queue = NoHandle
    BY HandleAssumption, <2>1 DEF Live, HandleAssumption
  <2>2. CASE ctx[n].queue # NoHandle
    BY <1>1, <2>2 DEF Live, RolesInv, OwnedBy
  <2> QED BY <2>1, <2>2
<1>3. \A g \in Live : g # ctx[n].queue => g \in Live' /\ buf'[g] = buf[g]
  <2>1. CASE ctx[n].queue = NoHandle
    BY <2>1 DEF Live
  <2>2. CASE ctx[n].queue # NoHandle
    BY <1>1, <2>2 DEF Live
  <2> QED BY <2>1, <2>2
<1>4. \A m \in Net : Linked(m)' \subseteq Linked(m)
  BY <1>2 DEF OwnedBy, Linked
<1>5. ASSUME NEW m \in Net, ctx'[m].queue # NoHandle
      PROVE  ctx'[m].model /\ ctx'[m].queue \in OwnedBy(m)' /\ buf'[ctx'[m].queue].role = "queue"
  <2>1. m # n /\ ctx'[m] = ctx[m]
    BY <1>5
  <2>2. /\ ctx[m].model /\ ctx[m].queue \in Live /\ buf[ctx[m].queue].own = m
        /\ buf[ctx[m].queue].role = "queue"
    BY <1>5, <2>1 DEF RolesInv, OwnedBy
  <2>3. ctx[m].queue # ctx[n].queue
    <3>1. ctx[n].queue # NoHandle => buf[ctx[n].queue].own = n
      BY DEF RolesInv, OwnedBy
    <3> QED BY <1>5, <2>1, <2>2, <3>1
  <2> QED BY <1>3, <2>1, <2>2, <2>3 DEF OwnedBy
<1>6. ASSUME NEW g \in Live'
      PROVE  buf'[g].role = "queue" => ctx'[buf'[g].own].queue = g /\ ~External(g)'
  <2>1. g \in Live /\ buf'[g] = buf[g] /\ buf[g].own \in Net /\ g # ctx[n].queue
    BY <1>1, <1>2 DEF Live, Buffers
  <2>2. buf[g].role = "queue" => ctx[buf[g].own].queue = g /\ ~External(g)
    BY <2>1 DEF RolesInv
  <2> QED BY <2>1, <2>2 DEF RolesInv, External
<1>7. ASSUME NEW m \in Net, ctx'[m].life = "none"
      PROVE  ctx'[m].queue = NoHandle /\ Linked(m)' = {}
  <2>1. CASE m = n
    BY <1>4, <1>7, <2>1
  <2>2. CASE m # n
    BY <1>4, <1>7, <2>2 DEF RolesInv
  <2> QED BY <2>1, <2>2
<1> QED BY <1>5, <1>6, <1>7 DEF RolesInv, CtxRecords

-----------------------------------------------------------------------------
(* The actions. *)

LEMMA ContextIs ==
  ASSUME MemInv, NEW n \in Net
  PROVE  /\ ctx \in [Net -> CtxRecords]
         /\ ctx[n] \in CtxRecords
         /\ ctx[n].byte \in Int /\ ctx[n].alloced \in Int
         /\ PlaceInv /\ LayoutInv /\ RolesInv
BY DEF MemInv, LayoutInv, RolesInv, CtxRecords

LEMMA AbsentIs ==
  /\ Absent \in CtxRecords /\ Absent.life = "none" /\ Absent.queue = NoHandle
  /\ Opened \in CtxRecords /\ Opened.life = "open" /\ Opened.queue = NoHandle
<1>1. Absent \in CtxRecords /\ Absent.life = "none" /\ Absent.queue = NoHandle
  BY DEF Absent, CtxRecords
<1>2. ASSUME NEW o, o = [Absent EXCEPT !.life = "open"]
      PROVE  o \in CtxRecords /\ o.life = "open" /\ o.queue = NoHandle
  BY <1>1, <1>2 DEF CtxRecords
<1> QED BY <1>1, <1>2 DEF Opened

LEMMA OpenInv ==
  ASSUME MemInv, NEW n \in Net, Open(n)
  PROVE  MemInv'
<1>1. ctx' = [ctx EXCEPT ![n] = Opened] /\ UNCHANGED <<memVars, buf>> /\ ctx[n].life = "none"
  BY DEF Open
<1>2. Opened \in CtxRecords /\ Opened.queue = NoHandle /\ Opened.life = "open"
  BY AbsentIs
<1>3. ctx[n].queue = NoHandle
  BY <1>1 DEF MemInv, RolesInv
<1>4. RolesInv'
  <2>1. ctx' \in [Net -> CtxRecords] /\ \A m \in Net : m # n => ctx'[m] = ctx[m]
    BY <1>1, <1>2, ContextIs
  <2> QED BY <1>1, <1>2, <1>3, <2>1, ContextIs, DettachRoles
<1> QED BY <1>1, <1>4, ContextIs, StutterLayout DEF MemInv

(* Requests that change nothing but the state of the context. *)
LEMMA StateInv ==
  ASSUME MemInv, NEW n \in Net,
         RegisterPublic(n) \/ Invoke(n) \/ Finish(n) \/ Close(n)
  PROVE  MemInv'
<1>1. UNCHANGED <<memVars, buf>>
  BY DEF RegisterPublic, Invoke, Finish, Close
<1>2. /\ ctx' \in [Net -> CtxRecords]
      /\ \A m \in Net : /\ ctx'[m].queue = ctx[m].queue
                        /\ ctx[m].model => ctx'[m].model
                        /\ ctx'[m].life = "none" => ctx[m].life = "none"
  <2>1. ctx \in [Net -> CtxRecords]
    BY ContextIs
  <2>2. CASE RegisterPublic(n)
    BY <2>1, <2>2 DEF RegisterPublic, CtxRecords
  <2>3. CASE Invoke(n)
    BY <2>1, <2>3 DEF Invoke, CtxRecords
  <2>4. CASE Finish(n)
    BY <2>1, <2>4 DEF Finish, CtxRecords
  <2>5. CASE Close(n)
    BY <2>1, <2>5 DEF Close, CtxRecords
  <2> QED BY <2>2, <2>3, <2>4, <2>5
<1>3. RolesInv'
  BY <1>1, <1>2, ContextIs, OwnStateRoles
<1> QED BY <1>1, <1>3, ContextIs, StutterLayout DEF MemInv

LEMMA SizesAre ==
  ASSUME NEW r, r.n \in Nat
  PROVE  Added(r) \in Int /\ Subtracted(r) \in Int
BY DEF Added, Subtracted

(* The counters of a context change. *)
LEMMA CountersChange ==
  ASSUME MemInv, NEW n \in Net, NEW x \in Int, NEW y \in Int,
         ctx' = [ctx EXCEPT ![n] = [ctx[n] EXCEPT !.byte = x, !.alloced = y]]
  PROVE  SameContexts
<1>1. ctx[n] \in CtxRecords /\ ctx'[n] = [ctx[n] EXCEPT !.byte = x, !.alloced = y]
  BY ContextIs
<1>2. /\ ctx'[n] \in CtxRecords /\ ctx'[n].life = ctx[n].life
      /\ ctx'[n].model = ctx[n].model /\ ctx'[n].queue = ctx[n].queue
  <2> DEFINE c == ctx[n]
             d == ctx'[n]
  <2>1. c \in CtxRecords /\ d = [c EXCEPT !.byte = x, !.alloced = y]
    BY <1>1
  <2> HIDE DEF c, d
  <2>2. /\ d \in CtxRecords /\ d.life = c.life
        /\ d.model = c.model /\ d.queue = c.queue
    BY <2>1 DEF CtxRecords
  <2> QED BY <2>2 DEF c, d
<1> QED BY <1>2, ContextIs DEF SameContexts

LEMMA AllocRequestInv ==
  ASSUME MemInv, "ShareRefused" \notin Allow, NEW n \in Net, AllocRequest(n)
  PROVE  MemInv'
<1>1. PICK h \in Handle \ Live, request \in Requests, pages \in 1 .. MaxPages, works \in BOOLEAN :
        LET r == CmaAlloc(request, pages, works) IN
        /\ IsOpen(n)
        /\ Expected(request, r, works)
        /\ Give(n, h, r, "linked")
        /\ ctx' = [ctx EXCEPT ![n].byte = @ + Added(r), ![n].alloced = @ + Subtracted(r)]
  BY DEF AllocRequest
<1> DEFINE r == CmaAlloc(request, pages, works)
           b == Handled(n, r, "linked")
<1>2. Got(r)
  BY <1>1, ContextIs, CmaAllocIs
<1>3. /\ IsOpen(n) /\ Give(n, h, r, "linked")
      /\ ctx' = [ctx EXCEPT ![n].byte = @ + Added(r), ![n].alloced = @ + Subtracted(r)]
  BY <1>1
<1>4. Added(r) \in Int /\ Subtracted(r) \in Int
  BY <1>2, SizesAre DEF Got
<1> HIDE DEF r
<1>5. LayoutInv'
  BY <1>2, <1>3, ContextIs, GiveLayout
<1>6. SameContexts
  <2> DEFINE x == ctx[n].byte + Added(r)
             y == ctx[n].alloced + Subtracted(r)
  <2>1. x \in Int /\ y \in Int
    BY <1>4, ContextIs
  <2>2. ctx' = [ctx EXCEPT ![n] = [ctx[n] EXCEPT !.byte = x, !.alloced = y]]
    BY <1>3
  <2> HIDE DEF x, y
  <2> QED BY <2>1, <2>2, CountersChange
<1>7. b \in Buffers /\ b.own = n /\ b.role = "linked" /\ buf' = [buf EXCEPT ![h] = b]
  BY <1>2, <1>3 DEF Handled, Give, Buffers, Got, NoPages, OwnPages, AreaPages
<1> HIDE DEF b
<1>8. RolesInv'
  BY <1>3, <1>6, <1>7, ContextIs, GiveRoles DEF IsOpen
<1> QED BY <1>5, <1>8 DEF MemInv

LEMMA AllocUndoneInv ==
  ASSUME MemInv, "ShareRefused" \notin Allow, NEW n \in Net, AllocUndone(n)
  PROVE  MemInv'
<1>1. PICK request \in Requests, pages \in 1 .. MaxPages, works \in BOOLEAN :
        LET r == CmaAlloc(request, pages, works)
            left == CmaFree(r, r.pool, r.share)
        IN /\ IsOpen(n)
           /\ Expected(request, r, works)
           /\ pool' = left.pool /\ share' = left.share
           /\ usage' = usage + Added(r) - Subtracted(r)
           /\ ctx' = [ctx EXCEPT ![n].byte = @ + Added(r) - Subtracted(r)]
           /\ UNCHANGED <<hasPool, public, buf>>
  BY DEF AllocUndone
<1> DEFINE r == CmaAlloc(request, pages, works)
<1>2. Got(r)
  BY <1>1, ContextIs, CmaAllocIs
<1>3. /\ pool' = CmaFree(r, r.pool, r.share).pool /\ share' = CmaFree(r, r.pool, r.share).share
      /\ UNCHANGED <<hasPool, public, buf>>
      /\ ctx' = [ctx EXCEPT ![n].byte = @ + Added(r) - Subtracted(r)]
  BY <1>1
<1>4. Added(r) \in Int /\ Subtracted(r) \in Int
  BY <1>2, SizesAre DEF Got
<1> HIDE DEF r
<1>5. LayoutInv'
  BY <1>2, <1>3, ContextIs, UndoneLayout
<1>6. SameContexts
  <2> DEFINE x == ctx[n].byte + Added(r) - Subtracted(r)
             y == ctx[n].alloced
  <2>1. x \in Int /\ y \in Int
    BY <1>4, ContextIs
  <2>2. ctx' = [ctx EXCEPT ![n] = [ctx[n] EXCEPT !.byte = x, !.alloced = y]]
    <3>1. [ctx[n] EXCEPT !.byte = x] = [ctx[n] EXCEPT !.byte = x, !.alloced = y]
      BY ContextIs DEF CtxRecords
    <3> QED BY <1>3, <3>1
  <2> HIDE DEF x, y
  <2> QED BY <2>1, <2>2, CountersChange
<1>7. RolesInv'
  BY <1>3, <1>6, ContextIs, OwnStateRoles DEF SameContexts
<1> QED BY <1>5, <1>7 DEF MemInv

(* The buffer that a request or a close frees. *)
LEMMA LinkedIs ==
  ASSUME MemInv, NEW n \in Net, NEW h \in Linked(n)
  PROVE  /\ h \in Live /\ buf[h] \in Buffers /\ buf[h].role # "queue"
         /\ Subtracted(buf[h]) \in Int /\ buf[h].n \in Int
<1>1. h \in Live /\ buf[h].role = "linked"
  BY DEF Linked, OwnedBy
<1>2. buf[h] \in Buffers
  BY <1>1 DEF MemInv, LayoutInv, PlaceInv, Live
<1>3. buf[h].n \in Nat
  BY <1>2 DEF Buffers
<1> QED BY <1>1, <1>2, <1>3, SizesAre

LEMMA FreeInv ==
  ASSUME MemInv, NEW n \in Net, NEW h \in Linked(n), GiveBack(h),
         NEW x \in Int, NEW y \in Int,
         ctx' = [ctx EXCEPT ![n] = [ctx[n] EXCEPT !.byte = x, !.alloced = y]]
  PROVE  MemInv'
<1>1. LayoutInv'
  BY LinkedIs, ContextIs, GiveBackLayout
<1>2. SameContexts
  BY CountersChange
<1>3. buf' = [buf EXCEPT ![h] = NoBuf]
  BY DEF GiveBack
<1>4. RolesInv'
  BY <1>2, <1>3, LinkedIs, ContextIs, FreeRoles
<1> QED BY <1>1, <1>4 DEF MemInv

LEMMA FreeRequestInv ==
  ASSUME MemInv, NEW n \in Net, FreeRequest(n)
  PROVE  MemInv'
<1>1. PICK h \in Linked(n) :
        /\ GiveBack(h)
        /\ ctx' = [ctx EXCEPT ![n].byte = @ - Subtracted(buf[h]),
                              ![n].alloced = @ - Subtracted(buf[h])]
  BY DEF FreeRequest
<1> DEFINE x == ctx[n].byte - Subtracted(buf[h])
           y == ctx[n].alloced - Subtracted(buf[h])
<1>2. x \in Int /\ y \in Int
  BY LinkedIs, ContextIs
<1>3. ctx' = [ctx EXCEPT ![n] = [ctx[n] EXCEPT !.byte = x, !.alloced = y]]
  BY <1>1
<1> HIDE DEF x, y
<1> QED BY <1>1, <1>2, <1>3, FreeInv

LEMMA SameContextsStay ==
  ASSUME MemInv, ctx' = ctx
  PROVE  SameContexts
BY DEF MemInv, RolesInv, SameContexts, CtxRecords

LEMMA DettachInv ==
  ASSUME MemInv, NEW n \in Net, NEW h \in Linked(n), CmaDettach(h)
  PROVE  MemInv'
<1>1. CASE External(h)
  <2>1. LayoutInv'
    BY <1>1, LinkedIs, ContextIs, DettachLayout
  <2>2. buf' = [buf EXCEPT ![h] = NoBuf] /\ SameContexts
    BY <1>1, SameContextsStay DEF CmaDettach
  <2>3. RolesInv'
    BY <2>2, LinkedIs, ContextIs, FreeRoles
  <2> QED BY <2>1, <2>3 DEF MemInv
<1>2. CASE ~External(h)
  <2>1. /\ buf' = [buf EXCEPT ![h] = [buf[h] EXCEPT !.role = "lost"]]
        /\ UNCHANGED memVars /\ ctx' = ctx /\ h \in Live
    BY <1>2, LinkedIs DEF CmaDettach, memVars
  <2>2. LayoutInv'
    BY <2>1, ContextIs, LostLayout
  <2>3. \A m \in Net : ctx[m].queue # h
    <3>1. h # NoHandle /\ buf[h].role # "queue"
      BY LinkedIs, HandleAssumption DEF HandleAssumption, Live
    <3> QED BY <3>1 DEF MemInv, RolesInv
  <2>4. RolesInv'
    BY <2>1, <2>3, ContextIs, LostRoles
  <2> QED BY <2>2, <2>4 DEF MemInv
<1> QED BY <1>1, <1>2

LEMMA FreeAllContextInv ==
  ASSUME MemInv, NEW n \in Net, FreeAllContext(n)
  PROVE  MemInv'
<1>1. PICK h \in Linked(n) :
        IF External(h)
        THEN CmaDettach(h)
        ELSE /\ GiveBack(h)
             /\ ctx' = [ctx EXCEPT ![n].byte = @ - Subtracted(buf[h]),
                                   ![n].alloced = @ - buf[h].n]
  BY DEF FreeAllContext
<1>2. CASE External(h)
  BY <1>1, <1>2, DettachInv
<1>3. CASE ~External(h)
  <2> DEFINE x == ctx[n].byte - Subtracted(buf[h])
             y == ctx[n].alloced - buf[h].n
  <2>1. x \in Int /\ y \in Int
    BY LinkedIs, ContextIs
  <2>2. ctx' = [ctx EXCEPT ![n] = [ctx[n] EXCEPT !.byte = x, !.alloced = y]]
    BY <1>1, <1>3
  <2> HIDE DEF x, y
  <2> QED BY <1>1, <1>3, <2>1, <2>2, FreeInv
<1> QED BY <1>2, <1>3

LEMMA ExternalIs ==
  ASSUME NEW n \in Net, NEW role \in {"linked", "lost"}
  PROVE  LET b == Handled(n, Result(Elsewhere, "ext", 1, FALSE), role) IN
         /\ b \in Buffers /\ b.own = n /\ b.role = role /\ b.where = "ext"
         /\ b.at = Invalid /\ ~b.shared
<1>1. ASSUME NEW b, b = [own |-> n, at |-> Invalid, where |-> "ext", n |-> 1,
                         shared |-> FALSE, role |-> role]
      PROVE  /\ b \in Buffers /\ b.own = n /\ b.role = role /\ b.where = "ext"
             /\ b.at = Invalid /\ b.shared = FALSE
  <2>1. /\ n \in Net /\ Invalid \in {Invalid} \cup Nat /\ "ext" \in Places /\ 1 \in Nat
        /\ FALSE \in BOOLEAN /\ role \in {"linked", "queue", "lost"}
    BY DEF Places
  <2>2. b \in Buffers
    BY <1>1, <2>1 DEF Buffers
  <2> QED BY <1>1, <2>2
<1>2. LET b == Handled(n, Result(Elsewhere, "ext", 1, FALSE), role) IN
      b = [own |-> n, at |-> Invalid, where |-> "ext", n |-> 1,
           shared |-> FALSE, role |-> role]
  BY DEF Handled, Result, Elsewhere
<1> QED BY <1>1, <1>2

LEMMA ExtMemAttachInv ==
  ASSUME MemInv, NEW n \in Net, ExtMemAttachRequest(n)
  PROVE  MemInv'
<1>1. PICK h \in Handle \ Live, role \in {"linked", "lost"} :
        /\ IsOpen(n)
        /\ buf' = [buf EXCEPT ![h] = Handled(n, Result(Elsewhere, "ext", 1, FALSE), role)]
        /\ UNCHANGED <<hasPool, pool, share, usage, public, ctx>>
  BY DEF ExtMemAttachRequest
<1> DEFINE b == Handled(n, Result(Elsewhere, "ext", 1, FALSE), role)
<1>2. /\ b \in Buffers /\ b.own = n /\ b.role = role /\ b.where = "ext"
      /\ b.at = Invalid /\ ~b.shared
  BY ExternalIs
<1>3. buf' = [buf EXCEPT ![h] = b] /\ UNCHANGED memVars /\ ctx[n].life # "none"
  BY <1>1 DEF memVars, IsOpen
<1> HIDE DEF b
<1>4. LayoutInv'
  BY <1>2, <1>3, ContextIs, AttachLayout
<1>5. RolesInv'
  <2>1. SameContexts
    BY <1>1, SameContextsStay
  <2>2. b.role \in {"linked", "lost"}
    BY <1>2
  <2> QED BY <1>2, <1>3, <2>1, <2>2, ContextIs, GiveRoles
<1> QED BY <1>4, <1>5 DEF MemInv

LEMMA RegisterOverInv ==
  ASSUME MemInv, NEW n \in Net, RegisterOver(n)
  PROVE  MemInv'
<1> DEFINE q == ctx[n].queue
           c == ctx[n]
           d == ctx'[n]
<1>1. /\ IsOpen(n) /\ UNCHANGED memVars
      /\ ctx' = [ctx EXCEPT ![n].model = FALSE, ![n].queue = NoHandle]
      /\ buf' = [h \in Handle |-> IF h = q THEN [buf[h] EXCEPT !.role = "lost"] ELSE buf[h]]
  BY DEF RegisterOver
<1>2. /\ ctx' \in [Net -> CtxRecords] /\ \A m \in Net : m # n => ctx'[m] = ctx[m]
      /\ ctx'[n].life = ctx[n].life /\ ctx'[n].queue = NoHandle
  <2>1. d = [c EXCEPT !.model = FALSE, !.queue = NoHandle] /\ c \in CtxRecords
    BY <1>1, ContextIs
  <2> HIDE DEF c, d
  <2>2. d \in CtxRecords /\ d.life = c.life /\ d.queue = NoHandle
    BY <2>1 DEF CtxRecords
  <2> QED BY <1>1, <2>2, ContextIs DEF c, d
<1>3. buf \in [Handle -> Buffers \cup {NoBuf}]
  BY ContextIs DEF PlaceInv
<1>4. CASE q = NoHandle
  <2>1. buf' = buf
    BY <1>1, <1>3, <1>4, HandleAssumption DEF HandleAssumption
  <2>2. RolesInv'
    BY <1>1, <1>2, <1>4, <2>1, ContextIs, DettachRoles DEF IsOpen
  <2> QED BY <1>1, <2>1, <2>2, ContextIs, StutterLayout DEF MemInv
<1>5. CASE q # NoHandle
  <2>1. q \in Live /\ buf[q].own = n /\ buf[q].role = "queue"
    BY <1>5 DEF MemInv, RolesInv, OwnedBy
  <2>2. buf' = [buf EXCEPT ![q] = [buf[q] EXCEPT !.role = "lost"]]
    BY <1>1, <1>3
  <2>3. \A m \in Net : m # n => ctx[m].queue # q
    BY <1>5, <2>1 DEF MemInv, RolesInv, OwnedBy
  <2> HIDE DEF q
  <2>4. LayoutInv'
    BY <1>1, <2>1, <2>2, ContextIs, LostLayout
  <2>5. RolesInv'
    BY <1>2, <2>1, <2>2, <2>3, ContextIs, LostRoles DEF q
  <2> QED BY <2>4, <2>5 DEF MemInv
<1> QED BY <1>4, <1>5

LEMMA RegisterPrivateInv ==
  ASSUME MemInv, "ShareRefused" \notin Allow, NEW n \in Net, RegisterPrivate(n)
  PROVE  MemInv'
<1>1. PICK h \in Handle \ Live, pages \in 1 .. MaxPages, works \in BOOLEAN :
        LET r == CmaAlloc("plain", pages, works) IN
        /\ IsOpen(n) /\ ~ctx[n].model
        /\ Expected("plain", r, works)
        /\ Give(n, h, r, "queue")
        /\ ctx' = [ctx EXCEPT ![n].model = TRUE, ![n].queue = h, ![n].byte = @ + Added(r)]
  BY DEF RegisterPrivate
<1> DEFINE r == CmaAlloc("plain", pages, works)
           b == Handled(n, r, "queue")
<1>2. "plain" \in Requests
  BY DEF Requests
<1>3. Got(r)
  BY <1>1, <1>2, ContextIs, CmaAllocIs
<1>4. /\ IsOpen(n) /\ ~ctx[n].model /\ Give(n, h, r, "queue")
      /\ ctx' = [ctx EXCEPT ![n].model = TRUE, ![n].queue = h, ![n].byte = @ + Added(r)]
  BY <1>1
<1>5. Added(r) \in Int
  BY <1>3, SizesAre DEF Got
<1>6. r.where # "ext"
  <2>1. r.where \in {"pool", "bogus", "dma", "nowhere", "area"}
    <3>1. CASE hasPool
      BY <3>1 DEF CmaAlloc, MallocFromPool, Result
    <3>2. CASE ~hasPool
      BY <3>2 DEF CmaAlloc, MallocShareThroughDma, MallocThroughDma, Result
    <3> QED BY <3>1, <3>2
  <2> QED BY <2>1
<1> HIDE DEF r
<1>7. LayoutInv'
  BY <1>3, <1>4, ContextIs, GiveLayout
<1>8. /\ b \in Buffers /\ b.own = n /\ b.role = "queue" /\ b.where # "ext"
      /\ buf' = [buf EXCEPT ![h] = b]
  BY <1>3, <1>4, <1>6 DEF Handled, Give, Buffers, Got, NoPages, OwnPages, AreaPages
<1> HIDE DEF b
<1>9. /\ ctx' \in [Net -> CtxRecords] /\ \A m \in Net : m # n => ctx'[m] = ctx[m]
      /\ ctx'[n].life # "none" /\ ctx'[n].model /\ ctx'[n].queue = h
  <2> DEFINE c == ctx[n]
             d == ctx'[n]
             x == ctx[n].byte + Added(r)
  <2>1. x \in Int /\ c \in CtxRecords /\ c.life = "open"
    BY <1>4, <1>5, ContextIs DEF IsOpen
  <2>2. d = [c EXCEPT !.model = TRUE, !.queue = h, !.byte = x]
    BY <1>4, ContextIs
  <2> HIDE DEF c, d, x
  <2>3. d \in CtxRecords /\ d.life # "none" /\ d.model /\ d.queue = h
    BY <2>1, <2>2 DEF CtxRecords
  <2>4. \A m \in Net : m # n => ctx'[m] = ctx[m]
    BY <1>4, ContextIs
  <2>5. ctx' = [m \in Net |-> ctx'[m]]
    BY <1>4, ContextIs
  <2> QED BY <2>3, <2>4, <2>5, ContextIs DEF d
<1>10. RolesInv'
  BY <1>4, <1>8, <1>9, ContextIs, RegisterRoles DEF IsOpen
<1> QED BY <1>7, <1>10 DEF MemInv

(* The net of a context is detached, its private queue is freed. *)
LEMMA DettachNetInv ==
  ASSUME MemInv, NEW n \in Net, NEW after \in CtxRecords, after.queue = NoHandle,
         after.life = "none" => Linked(n) = {}, Dettach(n, after)
  PROVE  MemInv'
<1>1. ctx' = [ctx EXCEPT ![n] = after]
  BY DEF Dettach
<1>2. /\ ctx' \in [Net -> CtxRecords] /\ ctx'[n] = after
      /\ \A m \in Net : m # n => ctx'[m] = ctx[m]
  BY <1>1, ContextIs
<1>3. CASE ctx[n].queue = NoHandle
  <2>1. UNCHANGED <<memVars, buf>>
    BY <1>3 DEF Dettach
  <2>2. RolesInv'
    BY <1>2, <1>3, <2>1, ContextIs, DettachRoles
  <2> QED BY <2>1, <2>2, ContextIs, StutterLayout DEF MemInv
<1>4. CASE ctx[n].queue # NoHandle
  <2>1. GiveBack(ctx[n].queue)
    BY <1>4 DEF Dettach
  <2>2. ctx[n].queue \in Live /\ buf[ctx[n].queue].role = "queue"
    BY <1>4 DEF MemInv, RolesInv, OwnedBy
  <2>4. LayoutInv'
    BY <2>1, <2>2, ContextIs, GiveBackLayout
  <2>5. buf' = [buf EXCEPT ![ctx[n].queue] = NoBuf]
    BY <2>1 DEF GiveBack
  <2>6. RolesInv'
    BY <1>2, <1>4, <2>5, ContextIs, DettachRoles
  <2> QED BY <2>4, <2>6 DEF MemInv
<1> QED BY <1>3, <1>4

LEMMA UnregisterInv ==
  ASSUME MemInv, NEW n \in Net, Unregister(n)
  PROVE  MemInv'
<1> DEFINE x == ctx[n].byte - IF ctx[n].queue = NoHandle THEN 0
                              ELSE Subtracted(buf[ctx[n].queue])
           c == ctx[n]
           after == [c EXCEPT !.model = FALSE, !.queue = NoHandle, !.byte = x]
<1>1. IsOpen(n) /\ Dettach(n, after)
  BY DEF Unregister
<1>2. x \in Int
  <2>1. CASE ctx[n].queue = NoHandle
    BY <2>1, ContextIs
  <2>2. CASE ctx[n].queue # NoHandle
    <3> DEFINE q == ctx[n].queue
    <3>1. q \in Live
      BY <2>2 DEF MemInv, RolesInv, OwnedBy
    <3>2. buf[q].n \in Nat
      BY <3>1 DEF MemInv, LayoutInv, PlaceInv, Live, Buffers
    <3>3. Subtracted(buf[q]) \in Int
      BY <3>2, SizesAre
    <3> QED BY <2>2, <3>3, ContextIs
  <2> QED BY <2>1, <2>2
<1>3. c \in CtxRecords /\ c.life = "open"
  BY <1>1, ContextIs DEF IsOpen
<1> HIDE DEF x, c
<1>4. ASSUME NEW d, d = after
      PROVE  d \in CtxRecords /\ d.queue = NoHandle /\ d.life = "open"
  BY <1>2, <1>3, <1>4 DEF CtxRecords
<1> HIDE DEF after
<1> QED BY <1>1, <1>4, DettachNetInv

LEMMA DestroyContextInv ==
  ASSUME MemInv, NEW n \in Net, DestroyContext(n)
  PROVE  MemInv'
BY AbsentIs, DettachNetInv DEF DestroyContext

LEMMA MemStutter ==
  ASSUME MemInv, UNCHANGED vars
  PROVE  MemInv'
<1>1. buf' = buf /\ UNCHANGED memVars /\ ctx' = ctx
  BY DEF vars
<1>2. RolesInv'
  BY <1>1 DEF MemInv, RolesInv, OwnedBy, Linked, Live, External
<1> QED BY <1>1, <1>2, ContextIs, StutterLayout DEF MemInv

LEMMA MemNextInv ==
  ASSUME MemInv, "ShareRefused" \notin Allow, [Next]_vars
  PROVE  MemInv'
<1>1. ASSUME NEW n \in Net, ExtMemDettachRequest(n)
      PROVE  MemInv'
  BY <1>1, DettachInv DEF ExtMemDettachRequest
<1> QED BY <1>1, MemStutter, OpenInv, StateInv, AllocRequestInv, AllocUndoneInv, FreeRequestInv,
        ExtMemAttachInv, RegisterOverInv, RegisterPrivateInv, UnregisterInv, FreeAllContextInv,
        DestroyContextInv DEF Next

-----------------------------------------------------------------------------
(* What is left of the region after some failures. *)
LEMMA RegionIs ==
  ASSUME NEW f \in 0 .. 9
  PROVE  RegionPages(f) \in Nat
<1> DEFINE q == Reserved \div 16
<1>1. q \in Nat /\ 16 * q <= Reserved /\ Reserved \in Nat
  BY PoolAssumption DEF PoolAssumption
<1> HIDE DEF q
<1>2. f = 0 \/ f = 1 \/ f = 2 \/ f = 3 \/ f = 4 \/ f = 5 \/ f = 6 \/ f = 7 \/ f = 8 \/ f = 9
  OBVIOUS
<1>3. f * q \in Nat /\ f * q <= Reserved
  BY <1>1, <1>2
<1> QED BY <1>1, <1>3 DEF RegionPages, q

LEMMA MemInitInv ==
  ASSUME Init
  PROVE  MemInv
<1>1. PICK f \in Failed :
        LET empty == NewPool(RegionPages(f), {})
            first == IF f < 10 THEN FirstFit(empty, PublicPages)
                     ELSE [at |-> Invalid, pool |-> NewPool(0, {})]
        IN /\ hasPool = (f < 10)
           /\ pool = first.pool
           /\ public = first.at
           /\ share = [ref |-> 0, max |-> 0, start |-> Invalid, dma |-> "none"]
           /\ usage = 0
           /\ buf = [h \in Handle |-> NoBuf]
           /\ ctx = [n \in Net |-> Absent]
  BY DEF Init
<1>2. /\ share = [ref |-> 0, max |-> 0, start |-> Invalid, dma |-> "none"]
      /\ buf = [h \in Handle |-> NoBuf] /\ ctx = [n \in Net |-> Absent]
      /\ hasPool = (f < 10)
  BY <1>1
<1>3. Live = {} /\ \A h \in Handle : ~Alone(h) /\ ~InArea(h)
  BY <1>2 DEF Live, Alone, InArea
<1>4. /\ share \in ShareRecords /\ share.ref = 0 /\ share.max = 0 /\ share.start = Invalid
  BY <1>2 DEF ShareRecords
<1>5. Area = {}
  BY <1>4, NoRun DEF Area
<1>6. PlaceInv
  BY <1>2, <1>3 DEF PlaceInv
<1>7. AreaInv
  <2>1. Cardinality({h \in Handle : InArea(h)}) = 0
    BY <1>3, FS_EmptySet
  <2> QED BY <1>3, <1>4, <2>1 DEF AreaInv, ShareRecords
<1>8. ASSUME hasPool
      PROVE  pool \in PoolRecords /\ pool.map = PublicRun
  <2> DEFINE empty == NewPool(RegionPages(f), {})
             first == FirstFit(empty, PublicPages)
  <2>1. f \in 0 .. 9 /\ f < 10
    <3>1. f \in 0 .. 10
      BY PoolAssumption DEF PoolAssumption
    <3>2. f < 10
      BY <1>2, <1>8
    <3> QED BY <3>1, <3>2
  <2>2. empty \in PoolRecords /\ empty.map = {}
    BY <2>1, RegionIs DEF NewPool, PoolRecords
  <2>3. pool = first.pool /\ public = first.at /\ PublicPages \in Nat
    BY <1>1, <2>1, PagesAssumption DEF PagesAssumption
  <2> HIDE DEF empty
  <2>4. \/ first.at = Invalid /\ first.pool = empty
        \/ /\ first.at \in 0 .. (empty.bits - PublicPages)
           /\ first.pool = Take(empty, first.at, PublicPages)
    BY <2>2, <2>3, FirstFitIs
  <2> HIDE DEF first
  <2>5. CASE first.at = Invalid /\ first.pool = empty
    BY <2>2, <2>3, <2>5 DEF PublicRun
  <2>6. CASE /\ first.at \in 0 .. (empty.bits - PublicPages)
             /\ first.pool = Take(empty, first.at, PublicPages)
    <3> DEFINE s == first.at
    <3>1. s \in Int /\ s # Invalid
      BY <2>6 DEF Invalid
    <3> HIDE DEF s
    <3>2. /\ Take(empty, s, PublicPages) \in PoolRecords
          /\ Take(empty, s, PublicPages).map = Run(s, PublicPages)
      <4>1. Take(empty, s, PublicPages).map = empty.map \cup Run(s, PublicPages)
        BY <2>2, <2>3, <3>1, TakeIs
      <4>2. empty.map \cup Run(s, PublicPages) = Run(s, PublicPages)
        BY <2>2
      <4>3. Take(empty, s, PublicPages) \in PoolRecords
        BY <2>2, <2>3, <3>1, TakeIs
      <4> QED BY <4>1, <4>2, <4>3
    <3> QED BY <2>3, <2>6, <3>1, <3>2 DEF PublicRun, s
  <2> QED BY <2>4, <2>5, <2>6
<1>9. BitsInv /\ ApartInv /\ NoneLost
  BY <1>3, <1>5, <1>8 DEF BitsInv, ApartInv, NoneLost, Apart, PoolRecords
<1>10. RolesInv
  <2>1. ctx \in [Net -> CtxRecords] /\ \A n \in Net : ctx[n].queue = NoHandle
    BY <1>2, AbsentIs
  <2> QED BY <1>3, <2>1 DEF RolesInv, CtxRecords, Linked, OwnedBy
<1> QED BY <1>6, <1>7, <1>9, <1>10 DEF MemInv, LayoutInv

(* The invariant holds for any region, contexts, handles and public queue,  *)
(* with and without share_swap_en and with failing DMA allocations, if no   *)
(* share buffer is asked for that the area has no room for.                 *)
THEOREM MemInvariantHolds ==
  ASSUME "ShareRefused" \notin Allow
  PROVE  Spec => []MemInv
<1>1. MemInv /\ [Next]_vars => MemInv'
  BY MemNextInv
<1> HIDE DEF MemInv
<1> QED BY <1>1, MemInitInv, PTL DEF Spec

(* No page belongs to two buffers, nor to a buffer and the public queue.    *)
THEOREM BuffersAreApart ==
  ASSUME "ShareRefused" \notin Allow
  PROVE  Spec => []PlacedDisjoint
<1>1. MemInv => PlacedDisjoint
  <2> SUFFICES ASSUME MemInv
               PROVE  PlacedDisjoint
    OBVIOUS
  <2>1. \A h \in Handle : Alone(h) \/ InArea(h) => hasPool
    BY DEF MemInv, LayoutInv, PlaceInv, Alone, InArea
  <2>2. \A h \in Handle : InArea(h) => Pages(h) \subseteq Area
    BY <2>1 DEF MemInv, LayoutInv, AreaInv
  <2>3. public # Invalid => PublicRun = Run(public, PublicPages)
    BY DEF PublicRun
  <2>4. ASSUME NEW h \in Handle, Alone(h)
        PROVE  /\ \A g \in Handle \ {h} : Alone(g) \/ InArea(g) => Apart(Pages(h), Pages(g))
               /\ public # Invalid => Apart(Pages(h), Run(public, PublicPages))
    BY <2>1, <2>2, <2>3, <2>4 DEF MemInv, LayoutInv, ApartInv, Apart
  <2>5. ASSUME NEW h \in Handle, InArea(h), public # Invalid
        PROVE  Apart(Pages(h), Run(public, PublicPages))
    BY <2>1, <2>2, <2>3, <2>5 DEF MemInv, LayoutInv, ApartInv, Apart
  <2> QED BY <2>4, <2>5 DEF PlacedDisjoint
<1> HIDE DEF MemInv
<1> QED BY <1>1, MemInvariantHolds, PTL

LEMMA MapIsExact == MemInv => MapExact
<1> SUFFICES ASSUME MemInv, hasPool
             PROVE  pool.map = (UNION {Pages(h) : h \in {g \in Handle : Alone(g)}})
                                 \cup Area \cup PublicRun
  BY DEF MapExact
<1> DEFINE owned == UNION {Pages(h) : h \in {g \in Handle : Alone(g)}}
<1>1. \A p : p \in owned <=> \E h \in Handle : Alone(h) /\ p \in Pages(h)
  OBVIOUS
<1> HIDE DEF owned
<1>2. \A h \in Handle : Alone(h) => Pages(h) \subseteq pool.map
  BY DEF MemInv, LayoutInv, BitsInv
<1>3. Area \subseteq pool.map /\ PublicRun \subseteq pool.map
  BY DEF MemInv, LayoutInv, BitsInv
<1>4. \A p \in pool.map : \/ p \in Area \cup PublicRun
                          \/ \E h \in Handle : Alone(h) /\ p \in Pages(h)
  BY DEF MemInv, LayoutInv, NoneLost
<1>5. pool.map = owned \cup Area \cup PublicRun
  BY <1>1, <1>2, <1>3, <1>4
<1> QED BY <1>5 DEF owned

(* The bits of the pool are set for what lives in it and for nothing else.  *)
THEOREM BitmapIsExact ==
  ASSUME "ShareRefused" \notin Allow
  PROVE  Spec => []MapExact
<1> HIDE DEF MemInv
<1> QED BY MapIsExact, MemInvariantHolds, PTL

(* A closed file leaves nothing but what was lost while it was open.        *)
THEOREM ClosedFilesLeaveNothing ==
  ASSUME "ShareRefused" \notin Allow
  PROVE  Spec => []NothingLeaks
<1>1. MemInv => NothingLeaks
  <2> SUFFICES ASSUME MemInv
               PROVE  NothingLeaks
    OBVIOUS
  <2>1. ASSUME NEW n \in Net, ctx[n].life = "none", NEW h \in OwnedBy(n)
        PROVE  buf[h].role = "lost"
    <3>1. h \in Live /\ buf[h].own = n /\ buf[h].role \in {"linked", "queue", "lost"}
      BY DEF OwnedBy, MemInv, LayoutInv, PlaceInv, Live, Buffers
    <3>2. buf[h].role # "linked"
      BY <2>1, <3>1 DEF MemInv, RolesInv, Linked
    <3>3. buf[h].role # "queue"
      <4>1. ctx[n].queue = NoHandle /\ h # NoHandle
        BY <2>1, <3>1, HandleAssumption DEF MemInv, RolesInv, HandleAssumption, Live
      <4> QED BY <3>1, <4>1 DEF MemInv, RolesInv
    <3> QED BY <3>1, <3>2, <3>3
  <2> QED BY <2>1 DEF NothingLeaks, MemInv, RolesInv
<1> HIDE DEF MemInv
<1> QED BY <1>1, MemInvariantHolds, PTL

(* No request and no close moves or frees the memory of a context whose     *)
(* invoke is counted, its detached buffers and replaced queues included, if *)
(* clients unregister with the index of their own net: with another one the *)
(* driver looks for the wrong invoke and frees a queue that is being run.   *)
THEOREM BuffersStayWhileRunning ==
  ASSUME "ShareRefused" \notin Allow, "OtherNet" \notin Allow
  PROVE  Spec => RunningBuffersStay
<1> DEFINE Stays == \A h \in Handle :
             h \in Live /\ ~External(h) /\ ctx[buf[h].own].cnt = 1
               => h \in Live' /\ Memory(buf'[h]) = Memory(buf[h])
<1>1. MemInv /\ [Next]_vars => [Stays]_vars
  <2> DEFINE Stay(h) == h \in Live' /\ Memory(buf'[h]) = Memory(buf[h])
  <2> SUFFICES ASSUME MemInv, Next, NEW h \in Live, ~External(h), ctx[buf[h].own].cnt = 1
               PROVE  Stay(h)
    BY DEF Live
  <2>1. buf \in [Handle -> Buffers \cup {NoBuf}]
    BY DEF MemInv, LayoutInv, PlaceInv
  <2>same. ASSUME buf'[h] = buf[h]
           PROVE  Stay(h)
    BY <2>same DEF Live
  <2>lost. ASSUME buf'[h] = [buf[h] EXCEPT !.role = "lost"]
           PROVE  Stay(h)
    <3> DEFINE b == buf[h]
    <3>1. b \in Buffers
      BY <2>1 DEF Live
    <3>2. buf'[h] \in Buffers /\ Memory(buf'[h]) = Memory(b)
      BY <2>lost, <3>1 DEF Buffers, Memory
    <3> QED BY <3>2, HandleAssumption DEF HandleAssumption, Live
  <2> HIDE DEF Stay
  <2>2. ASSUME NEW g, NEW b, buf' = [buf EXCEPT ![g] = b], g # h
        PROVE  Stay(h)
    BY <2>1, <2>2, <2>same DEF Live
  <2>3. ASSUME NEW n \in Net, NEW after, Dettach(n, after), ctx[n].cnt = 0
        PROVE  Stay(h)
    <3>1. CASE ctx[n].queue = NoHandle
      BY <2>3, <3>1, <2>same DEF Dettach
    <3>2. CASE ctx[n].queue # NoHandle
      <4>1. buf[ctx[n].queue].own = n
        BY <3>2 DEF MemInv, RolesInv, OwnedBy
      <4>2. buf' = [buf EXCEPT ![ctx[n].queue] = NoBuf]
        BY <2>3, <3>2 DEF Dettach, GiveBack
      <4>3. ctx[n].queue # h
        BY <2>3, <4>1
      <4> QED BY <2>2, <4>2, <4>3
    <3> QED BY <3>1, <3>2
  <2>4. PICK n \in Net :
          \/ Open(n) \/ AllocRequest(n) \/ AllocUndone(n) \/ FreeRequest(n)
          \/ ExtMemAttachRequest(n) \/ ExtMemDettachRequest(n)
          \/ RegisterOver(n) \/ RegisterPrivate(n) \/ RegisterPublic(n) \/ Unregister(n)
          \/ Invoke(n) \/ Finish(n)
          \/ Close(n) \/ FreeAllContext(n) \/ DestroyContext(n)
    BY DEF Next
  <2>5. CASE \/ Open(n) \/ AllocUndone(n) \/ RegisterPublic(n) \/ Invoke(n) \/ Finish(n) \/ Close(n)
    BY <2>5, <2>same DEF Open, AllocUndone, RegisterPublic, Invoke, Finish, Close
  <2>6. CASE AllocRequest(n)
    BY <2>2, <2>6 DEF AllocRequest, Give
  <2>7. CASE FreeRequest(n)
    <3>1. PICK g \in Linked(n) : GiveBack(g) /\ ctx[n].cnt = 0
      BY <2>7 DEF FreeRequest
    <3>2. g # h
      BY <3>1 DEF Linked, OwnedBy
    <3> QED BY <2>2, <3>1, <3>2 DEF GiveBack
  <2>8. CASE ExtMemAttachRequest(n)
    BY <2>2, <2>8 DEF ExtMemAttachRequest
  <2>9. CASE ExtMemDettachRequest(n)
    <3>1. PICK g \in Linked(n) : CmaDettach(g)
      BY <2>9 DEF ExtMemDettachRequest
    <3>2. CASE g # h
      BY <2>2, <3>1, <3>2 DEF CmaDettach
    <3>3. CASE g = h
      BY <2>1, <2>lost, <3>1, <3>3 DEF CmaDettach, Live
    <3> QED BY <3>2, <3>3
  <2>10. CASE RegisterPrivate(n)
    BY <2>2, <2>10 DEF RegisterPrivate, Give
  <2>11. CASE Unregister(n)
    BY <2>3, <2>11 DEF Unregister
  <2>12. CASE FreeAllContext(n)
    <3>1. PICK g \in Linked(n) : CmaDettach(g) \/ GiveBack(g)
      BY <2>12 DEF FreeAllContext
    <3>2. g # h
      BY <2>12, <3>1 DEF FreeAllContext, Idle, Linked, OwnedBy
    <3> QED BY <2>2, <3>1, <3>2 DEF GiveBack, CmaDettach
  <2>13. CASE DestroyContext(n)
    BY <2>3, <2>13 DEF DestroyContext, Idle
  <2>14. CASE RegisterOver(n)
    <3>1. buf'[h] = buf[h] \/ buf'[h] = [buf[h] EXCEPT !.role = "lost"]
      BY <2>14 DEF RegisterOver, Live
    <3> QED BY <2>same, <2>lost, <3>1
  <2> QED BY <2>4, <2>5, <2>6, <2>7, <2>8, <2>9, <2>10, <2>11, <2>12, <2>13, <2>14 DEF Stay
<1> HIDE DEF MemInv
<1> QED BY <1>1, MemInvariantHolds, PTL DEF Spec, RunningBuffersStay

-----------------------------------------------------------------------------
(* used_count. *)

(* A pool whose count is right. *)
Counts(p) ==
  /\ p \in PoolRecords
  /\ p.map \subseteq Run(0, p.bits)
  /\ p.used = Cardinality(p.map)

LEMMA RunCount ==
  ASSUME NEW s \in Int, NEW n \in Nat
  PROVE  IsFiniteSet(Run(s, n)) /\ Cardinality(Run(s, n)) = n
<1>1. s + n - 1 \in Int
  OBVIOUS
<1>2. /\ IsFiniteSet(s .. (s + n - 1))
      /\ Cardinality(s .. (s + n - 1))
           = IF s > s + n - 1 THEN 0 ELSE s + n - 1 - s + 1
  BY <1>1, FS_Interval
<1> QED BY <1>2 DEF Run

LEMMA MapFinite ==
  ASSUME NEW p, Counts(p)
  PROVE  IsFiniteSet(p.map) /\ Cardinality(p.map) \in Nat /\ p.used \in Nat
<1>1. p.bits \in Nat /\ p.map \subseteq Run(0, p.bits) /\ p.used = Cardinality(p.map)
  BY DEF Counts, PoolRecords
<1>2. IsFiniteSet(Run(0, p.bits))
  BY <1>1, RunCount
<1>3. IsFiniteSet(p.map)
  BY <1>1, <1>2, FS_Subset
<1> QED BY <1>1, <1>3, FS_CardinalityType

(* Pages are added to a set, or taken out of it. *)
LEMMA MorePages ==
  ASSUME NEW M, IsFiniteSet(M), NEW s \in Int, NEW n \in Nat, Run(s, n) \cap M = {}
  PROVE  IsFiniteSet(M \cup Run(s, n)) /\ Cardinality(M \cup Run(s, n)) = Cardinality(M) + n
<1>1. IsFiniteSet(Run(s, n)) /\ Cardinality(Run(s, n)) = n
  BY RunCount
<1>2. Cardinality(M \cap Run(s, n)) = 0
  <2>1. M \cap Run(s, n) = {}
    OBVIOUS
  <2> QED BY <2>1, FS_EmptySet
<1>3. /\ IsFiniteSet(M \cup Run(s, n))
      /\ Cardinality(M \cup Run(s, n))
           = Cardinality(M) + Cardinality(Run(s, n)) - Cardinality(M \cap Run(s, n))
  BY <1>1, FS_Union
<1> QED BY <1>1, <1>2, <1>3, FS_CardinalityType

LEMMA LessPages ==
  ASSUME NEW M, IsFiniteSet(M), NEW s \in Int, NEW n \in Nat, Run(s, n) \subseteq M
  PROVE  IsFiniteSet(M \ Run(s, n)) /\ Cardinality(M \ Run(s, n)) = Cardinality(M) - n
<1>1. Cardinality(Run(s, n)) = n
  BY RunCount
<1>2. M \cap Run(s, n) = Run(s, n)
  OBVIOUS
<1>3. /\ IsFiniteSet(M \ Run(s, n))
      /\ Cardinality(M \ Run(s, n)) = Cardinality(M) - Cardinality(M \cap Run(s, n))
  BY FS_Difference
<1> QED BY <1>1, <1>2, <1>3

LEMMA TakeCounts ==
  ASSUME NEW p, Counts(p), NEW n \in Nat, NEW s \in 0 .. (p.bits - n),
         Run(s, n) \cap p.map = {}
  PROVE  Counts(Take(p, s, n)) /\ Take(p, s, n).bits = p.bits
<1>1. p \in PoolRecords /\ p.bits \in Nat /\ s \in Int
  BY DEF Counts, PoolRecords
<1>2. /\ Take(p, s, n) \in PoolRecords
      /\ Take(p, s, n).bits = p.bits
      /\ Take(p, s, n).map = p.map \cup Run(s, n)
  BY <1>1, TakeIs
<1>3. Take(p, s, n).used = p.used + n
  BY <1>1 DEF Take, PoolRecords
<1>4. Cardinality(p.map \cup Run(s, n)) = Cardinality(p.map) + n
  BY <1>1, MapFinite, MorePages
<1>5. p.map \cup Run(s, n) \subseteq Run(0, p.bits)
  BY <1>1 DEF Counts, Run
<1> QED BY <1>2, <1>3, <1>4, <1>5 DEF Counts

LEMMA FirstFitCounts ==
  ASSUME NEW p, Counts(p), NEW n \in Nat
  PROVE  Counts(FirstFit(p, n).pool) /\ FirstFit(p, n).pool.bits = p.bits
<1> DEFINE got == FirstFit(p, n)
<1>1. p \in PoolRecords
  BY DEF Counts
<1>2. \/ got.at = Invalid /\ got.pool = p
      \/ /\ got.at \in 0 .. (p.bits - n)
         /\ Run(got.at, n) \cap p.map = {}
         /\ got.pool = Take(p, got.at, n)
  <2> HIDE DEF got
  <2> QED BY <1>1, FirstFitIs DEF got
<1> HIDE DEF got
<1>3. got.at \in 0 .. (p.bits - n) /\ Run(got.at, n) \cap p.map = {}
        => Counts(Take(p, got.at, n)) /\ Take(p, got.at, n).bits = p.bits
  BY TakeCounts
<1>4. Counts(got.pool) /\ got.pool.bits = p.bits
  BY <1>2, <1>3
<1> QED BY <1>4 DEF got

LEMMA ReleaseCounts ==
  ASSUME NEW p, Counts(p), NEW n \in Nat, NEW s \in {Invalid} \cup Nat,
         s # Invalid => Run(s, n) \subseteq p.map
  PROVE  Counts(Release(p, s, n)) /\ Release(p, s, n).bits = p.bits
<1>1. CASE s = Invalid
  BY <1>1 DEF Release
<1>2. CASE s # Invalid
  <2>1. p \in PoolRecords /\ s \in Int
    BY <1>2 DEF Counts
  <2>2. /\ Release(p, s, n) \in PoolRecords
        /\ Release(p, s, n).bits = p.bits
        /\ Release(p, s, n).map = p.map \ Run(s, n)
    BY <1>2, <2>1, ReleaseIs
  <2>3. Release(p, s, n).used = p.used - n
    BY <1>2, <2>1 DEF Release, PoolRecords
  <2>4. Cardinality(p.map \ Run(s, n)) = Cardinality(p.map) - n
    BY <1>2, <2>1, MapFinite, LessPages
  <2> QED BY <2>2, <2>3, <2>4 DEF Counts
<1> QED BY <1>1, <1>2

(* The area moves down: its old pages go and the new ones come. *)
LEMMA AllocShareCounts ==
  ASSUME Counts(pool), NEW n \in Nat \ {0}, share \in ShareRecords,
         share.max > 0 => share.start \in Nat /\ share.start = pool.bits - share.max,
         Area \subseteq pool.map, AllocShare(n).at # Invalid
  PROVE  Counts(AllocShare(n).pool) /\ AllocShare(n).pool.bits = pool.bits
<1> DEFINE need == ShareNeed(n)
           cleared == [pool EXCEPT !.map = @ \ Area]
           at == pool.bits - need
           taken == [Take(cleared, at, need) EXCEPT !.used = @ - share.max]
<1>1. need \in Nat /\ share.max \in Nat /\ pool.bits \in Nat /\ pool \in PoolRecords
  BY DEF ShareNeed, ShareRecords, Counts, PoolRecords
<1>2. AllocShare(n).pool = taken /\ at \in Gaps(cleared, need)
  BY DEF AllocShare, Area
<1>3. /\ cleared \in PoolRecords /\ cleared.bits = pool.bits
      /\ cleared.map = pool.map \ Area /\ cleared.used = pool.used
  BY <1>1 DEF PoolRecords
<1>4. at \in 0 .. (pool.bits - need) /\ Run(at, need) \cap (pool.map \ Area) = {}
  <2> HIDE DEF cleared, need
  <2> QED BY <1>2, <1>3 DEF Gaps
<1>5. /\ taken \in PoolRecords /\ taken.bits = pool.bits
      /\ taken.map = (pool.map \ Area) \cup Run(at, need)
      /\ taken.used = pool.used + need - share.max
  <2> DEFINE q == Take(cleared, at, need)
  <2>1. /\ q \in PoolRecords /\ q.bits = pool.bits
        /\ q.map = (pool.map \ Area) \cup Run(at, need)
    <3>1. at \in Int
      BY <1>4
    <3> HIDE DEF cleared, need, at
    <3>2. /\ q \in PoolRecords /\ q.bits = cleared.bits
          /\ q.map = cleared.map \cup Run(at, need)
      BY <1>1, <1>3, <3>1, TakeIs
    <3> QED BY <1>3, <3>2
  <2>2. q.used = pool.used + need
    <3> HIDE DEF cleared, need, at
    <3> QED BY <1>1, <1>3 DEF Take, PoolRecords
  <2> HIDE DEF q
  <2>3. ASSUME NEW t, t = [q EXCEPT !.used = @ - share.max]
        PROVE  /\ t \in PoolRecords /\ t.bits = q.bits /\ t.map = q.map
               /\ t.used = q.used - share.max
    <3>1. t = [bits |-> q.bits, map |-> q.map, used |-> q.used - share.max]
      BY <2>1, <2>3 DEF PoolRecords
    <3>2. q.used - share.max \in Int
      BY <1>1, <2>1 DEF PoolRecords
    <3> QED BY <2>1, <3>1, <3>2 DEF PoolRecords
  <2>4. taken = [q EXCEPT !.used = @ - share.max]
    BY DEF q
  <2> HIDE DEF taken
  <2>5. /\ taken \in PoolRecords /\ taken.bits = q.bits /\ taken.map = q.map
        /\ taken.used = q.used - share.max
    BY <2>3, <2>4, Zenon
  <2> HIDE DEF need, at
  <2> QED BY <1>1, <2>1, <2>2, <2>5 DEF PoolRecords
<1> HIDE DEF need, at, taken
<1>6. /\ IsFiniteSet(pool.map \ Area)
      /\ Cardinality(pool.map \ Area) = Cardinality(pool.map) - share.max
  <2>1. share.max = 0 => Area = {} /\ pool.map \ Area = pool.map
    BY DEF Area, Run, ShareRecords, Invalid
  <2>2. share.max > 0 => share.start \in Int
    OBVIOUS
  <2>3. share.max > 0 => /\ IsFiniteSet(pool.map \ Area)
                         /\ Cardinality(pool.map \ Area) = Cardinality(pool.map) - share.max
    BY <1>1, <2>2, MapFinite, LessPages DEF Area
  <2>4. IsFiniteSet(pool.map) /\ Cardinality(pool.map) \in Nat
    BY MapFinite
  <2>5. CASE share.max = 0
    <3>1. pool.map \ Area = pool.map
      BY <2>1, <2>5
    <3>2. Cardinality(pool.map \ Area) = Cardinality(pool.map)
      BY <3>1
    <3> QED BY <2>4, <2>5, <3>1, <3>2
  <2>6. CASE share.max > 0
    BY <2>3, <2>6
  <2> QED BY <1>1, <2>5, <2>6
<1>7. Cardinality((pool.map \ Area) \cup Run(at, need)) = Cardinality(pool.map \ Area) + need
  BY <1>1, <1>4, <1>6, MorePages
<1>8. taken.used = Cardinality(taken.map)
  BY <1>1, <1>5, <1>6, <1>7, MapFinite DEF Counts
<1>9. taken.map \subseteq Run(0, pool.bits)
  BY <1>1, <1>4, <1>5 DEF Counts, Run
<1> QED BY <1>2, <1>5, <1>8, <1>9 DEF Counts

(* What the allocator takes is counted, ...                                 *)
LEMMA CmaAllocCounts ==
  ASSUME LayoutInv, CountInv, "ShareRefused" \notin Allow,
         NEW request \in Requests, NEW n \in 1 .. MaxPages, NEW works \in BOOLEAN,
         Expected(request, CmaAlloc(request, n, works), works)
  PROVE  /\ Counts(CmaAlloc(request, n, works).pool)
         /\ CmaAlloc(request, n, works).pool.bits = pool.bits
<1> DEFINE r == CmaAlloc(request, n, works)
<1>1. Counts(pool)
  BY DEF CountInv, Counts, PoolRecords
<1>2. n \in Nat \ {0} /\ n \in Nat
  BY PagesAssumption DEF PagesAssumption
<1>3. CASE ~hasPool
  <2>1. r.pool = pool
    BY <1>3 DEF CmaAlloc, MallocShareThroughDma, MallocThroughDma, Result, Elsewhere
  <2> QED BY <1>1, <2>1
<1>4. CASE hasPool /\ KindOf(request) = "share"
  <2> DEFINE a == AllocShare(n)
  <2>1. /\ r.pool = a.pool /\ r.shared = TRUE
        /\ r.where = IF a.at = Invalid THEN "bogus" ELSE "pool"
    BY <1>4 DEF CmaAlloc, MallocFromPool, Result
  <2>2. a.at # Invalid
    BY <2>1 DEF Expected
  <2>3. share \in ShareRecords
        /\ (share.max > 0 => share.start \in Nat /\ share.start = pool.bits - share.max)
        /\ Area \subseteq pool.map
    BY <1>4 DEF LayoutInv, AreaInv, BitsInv, ShareRecords
  <2>4. Counts(a.pool) /\ a.pool.bits = pool.bits
    BY <1>1, <1>2, <2>2, <2>3, AllocShareCounts
  <2> QED BY <2>1, <2>4
<1>5. CASE hasPool /\ KindOf(request) # "share"
  <2>1. r.pool = FirstFit(pool, n).pool
    BY <1>5 DEF CmaAlloc, MallocFromPool, Result
  <2> QED BY <1>1, <1>2, <2>1, FirstFitCounts
<1> QED BY <1>3, <1>4, <1>5

(* ... and what it gets back no longer. *)
LEMMA CmaFreeCounts ==
  ASSUME NEW p, Counts(p), NEW b, NEW s \in ShareRecords,
         b.n \in Nat, b.at \in {Invalid} \cup Nat,
         hasPool /\ ~b.shared /\ b.at # Invalid => Run(b.at, b.n) \subseteq p.map,
         hasPool => Run(s.start, s.max) \subseteq p.map
  PROVE  Counts(CmaFree(b, p, s).pool) /\ CmaFree(b, p, s).pool.bits = p.bits
<1>1. CASE ~hasPool
  BY <1>1 DEF CmaFree
<1>2. CASE hasPool /\ ~b.shared
  <2>1. CmaFree(b, p, s).pool = Release(p, b.at, b.n)
    BY <1>2 DEF CmaFree
  <2> QED BY <1>2, <2>1, ReleaseCounts
<1>3. CASE hasPool /\ b.shared
  <2>1. CmaFree(b, p, s).pool = p \/ CmaFree(b, p, s).pool = Release(p, s.start, s.max)
    BY <1>3 DEF CmaFree, FreeShare
  <2>2. s.max \in Nat /\ s.start \in {Invalid} \cup Nat
    BY DEF ShareRecords
  <2>3. Counts(Release(p, s.start, s.max)) /\ Release(p, s.start, s.max).bits = p.bits
    BY <1>3, <2>2, ReleaseCounts
  <2> QED BY <2>1, <2>3
<1> QED BY <1>1, <1>2, <1>3

(* The parts of CountInv but the usage. *)
PoolCounts ==
  /\ hasPool \in BOOLEAN
  /\ public \in {Invalid} \cup Nat
  /\ pool.bits \in 0 .. Reserved
  /\ Counts(pool)

LEMMA CountsAre ==
  CountInv <=> PoolCounts /\ usage \in Int
<1>1. Reserved \in Nat
  BY PoolAssumption DEF PoolAssumption
<1>2. pool \in [bits : 0 .. Reserved, map : SUBSET Int, used : Int]
        <=> pool \in PoolRecords /\ pool.bits \in 0 .. Reserved
  BY <1>1 DEF PoolRecords
<1> QED BY <1>2 DEF CountInv, PoolCounts, Counts

LEMMA SharedRecords ==
  ASSUME LayoutInv
  PROVE  share \in ShareRecords /\ (hasPool => Run(share.start, share.max) \subseteq pool.map)
BY DEF LayoutInv, AreaInv, BitsInv, ShareRecords, Area

LEMMA GiveBackCounts ==
  ASSUME LayoutInv, PoolCounts, NEW h \in Live, GiveBack(h)
  PROVE  PoolCounts'
<1> DEFINE b == buf[h]
<1>1. pool' = CmaFree(b, pool, share).pool /\ hasPool' = hasPool /\ public' = public
  BY DEF GiveBack
<1>2. b \in Buffers /\ h \in Handle
  BY DEF LayoutInv, PlaceInv, Live
<1>3. b.n \in Nat /\ b.at \in {Invalid} \cup Nat
  BY <1>2 DEF Buffers
<1>4. ASSUME hasPool, ~b.shared, b.at # Invalid
      PROVE  Run(b.at, b.n) \subseteq pool.map
  <2>1. b.where = "pool"
    BY <1>4 DEF LayoutInv, PlaceInv
  <2>2. Alone(h)
    BY <1>4, <2>1 DEF Alone
  <2> QED BY <1>2, <1>4, <2>2 DEF LayoutInv, BitsInv, Pages
<1> HIDE DEF b
<1>5. Counts(CmaFree(b, pool, share).pool) /\ CmaFree(b, pool, share).pool.bits = pool.bits
  BY <1>3, <1>4, SharedRecords, CmaFreeCounts DEF PoolCounts
<1> QED BY <1>1, <1>5 DEF PoolCounts

(* What an allocation got can be given back. *)
LEMMA UndoneCounts ==
  ASSUME LayoutInv, PoolCounts, NEW r, Got(r), Counts(r.pool), r.pool.bits = pool.bits
  PROVE  /\ Counts(CmaFree(r, r.pool, r.share).pool)
         /\ CmaFree(r, r.pool, r.share).pool.bits = pool.bits
<1>1. r.n \in Nat /\ r.at \in {Invalid} \cup Nat
  BY DEF Got, NoPages, OwnPages, AreaPages
<1>2. CASE NoPages(r)
  <2>1. r.at = Invalid /\ r.share \in ShareRecords /\ (hasPool => r.share = share /\ r.pool = pool)
    BY <1>2 DEF NoPages
  <2> QED BY <1>1, <2>1, SharedRecords, CmaFreeCounts
<1>3. CASE OwnPages(r)
  <2>1. /\ r.pool = Take(pool, r.at, r.n) /\ r.share = share /\ r.at \in Int
        /\ pool \in PoolRecords
    BY <1>3 DEF OwnPages, PoolCounts, Counts
  <2>2. Take(pool, r.at, r.n).map = pool.map \cup Run(r.at, r.n)
    BY <1>1, <2>1, TakeIs
  <2>3. r.pool.map = pool.map \cup Run(r.at, r.n) /\ hasPool
    BY <1>3, <2>1, <2>2 DEF OwnPages
  <2>4. Run(r.at, r.n) \subseteq r.pool.map /\ Run(r.share.start, r.share.max) \subseteq r.pool.map
    BY <2>1, <2>3, SharedRecords
  <2> QED BY <1>1, <2>1, <2>4, SharedRecords, CmaFreeCounts
<1>4. CASE AreaPages(r)
  <2>1. PICK need \in Nat :
          /\ r.at \in Nat
          /\ r.pool.map = (pool.map \ Area) \cup Run(r.at, need)
          /\ r.share = [share EXCEPT !.ref = @ + 1, !.max = need, !.start = r.at]
    BY <1>4 DEF AreaPages
  <2>2. r.share = [ref |-> share.ref + 1, max |-> need, start |-> r.at, dma |-> share.dma]
    BY <2>1, SharedRecords DEF ShareRecords
  <2>3. r.share \in ShareRecords /\ r.share.max = need /\ r.share.start = r.at
    <3>1. share.ref + 1 \in Int /\ share.dma \in {"none", "live", "freed"}
      BY SharedRecords DEF ShareRecords
    <3> QED BY <2>1, <2>2, <3>1 DEF ShareRecords
  <2>4. r.shared /\ Run(r.share.start, r.share.max) \subseteq r.pool.map
    BY <1>4, <2>1, <2>3 DEF AreaPages
  <2> QED BY <1>1, <2>3, <2>4, CmaFreeCounts
<1> QED BY <1>2, <1>3, <1>4 DEF Got

-----------------------------------------------------------------------------
(* The area from the DMA allocator. *)

KnowsSet == {h \in Handle : KnowsArea(h)}

LEMMA KnowsFinite ==
  IsFiniteSet(KnowsSet) /\ Cardinality(KnowsSet) \in Nat
BY HandleAssumption, FS_Subset, FS_CardinalityType DEF HandleAssumption, KnowsSet

(* The first allocation makes the area, the others find it. *)
FirstOfArea(r) ==
  /\ r.where = "area" /\ ~r.shared /\ share.dma = "none"
  /\ r.share = [share EXCEPT !.ref = @ + 1, !.dma = "live"]
NextOfArea(r) ==
  /\ r.where = "area" /\ r.shared /\ share.dma # "none"
  /\ r.share = [share EXCEPT !.ref = @ + 1]
NoArea(r) == r.where # "area" /\ r.share = share

LEMMA CmaAllocDma ==
  ASSUME ~hasPool, share \in ShareRecords,
         NEW request \in Requests, NEW n \in Nat, NEW works \in BOOLEAN
  PROVE  LET r == CmaAlloc(request, n, works) IN
         FirstOfArea(r) \/ NextOfArea(r) \/ NoArea(r)
<1> DEFINE r == CmaAlloc(request, n, works)
           held == [share EXCEPT !.ref = @ + 1, !.dma = IF @ = "none" THEN "live" ELSE @]
<1>1. CASE KindOf(request) # "share"
  BY <1>1 DEF CmaAlloc, MallocThroughDma, Result, Elsewhere, NoArea
<1>2. CASE KindOf(request) = "share" /\ share.dma = "none" /\ ~works
  BY <1>2 DEF CmaAlloc, MallocShareThroughDma, Result, Elsewhere, NoArea
<1>3. CASE KindOf(request) = "share" /\ ~(share.dma = "none" /\ ~works)
  <2>1. r = Result([Elsewhere EXCEPT !.share = held], "area", SharePages, share.dma # "none")
    BY <1>3 DEF CmaAlloc, MallocShareThroughDma
  <2>2. r.where = "area" /\ r.share = held /\ r.shared = (share.dma # "none")
    <3> HIDE DEF held
    <3> QED BY <2>1 DEF Result, Elsewhere
  <2>3. share.dma = "none" => held = [share EXCEPT !.ref = @ + 1, !.dma = "live"]
    OBVIOUS
  <2>4. share.dma # "none" => held = [share EXCEPT !.ref = @ + 1]
    BY DEF ShareRecords
  <2> QED BY <2>2, <2>3, <2>4 DEF FirstOfArea, NextOfArea
<1> QED BY <1>1, <1>2, <1>3

(* The invariant, with the set that the references count given a name.      *)
DmaBooks(s, K) ==
  s.max = 0 /\ s.ref = Cardinality(K) + IF s.dma = "none" THEN 0 ELSE 1

LEMMA DmaAreaIs ==
  DmaAreaInv <=>
    (~hasPool => /\ DmaBooks(share, KnowsSet)
                 /\ \A h \in Live : buf[h].where = "area" => share.dma # "none")
BY DEF DmaAreaInv, DmaBooks, KnowsSet

LEMMA GiveDma ==
  ASSUME LayoutInv, DmaAreaInv, NEW n \in Net, NEW h \in Handle \ Live, NEW r, Got(r),
         ~hasPool => FirstOfArea(r) \/ NextOfArea(r) \/ NoArea(r),
         NEW role \in {"linked", "queue"}, Give(n, h, r, role)
  PROVE  DmaAreaInv'
<1> SUFFICES ASSUME ~hasPool
             PROVE  /\ DmaBooks(share', KnowsSet')
                    /\ \A g \in Live' : buf'[g].where = "area" => share'.dma # "none"
  <2>1. hasPool' = hasPool
    BY DEF Give
  <2> QED BY <2>1 DEF DmaAreaInv, DmaBooks, KnowsSet
<1> DEFINE b == Handled(n, r, role)
<1>1. share' = r.share /\ buf' = [buf EXCEPT ![h] = b]
  BY DEF Give
<1>2. b.where = r.where /\ b.shared = r.shared /\ b \in Buffers
  BY DEF Handled, Got, NoPages, OwnPages, AreaPages, Buffers
<1> HIDE DEF b
<1>3. /\ buf \in [Handle -> Buffers \cup {NoBuf}] /\ buf'[h] = b /\ Live' = Live \cup {h}
      /\ \A g \in Handle : g # h => buf'[g] = buf[g]
  <2>1. buf \in [Handle -> Buffers \cup {NoBuf}]
    BY DEF LayoutInv, PlaceInv
  <2> QED BY <1>1, <1>2, <2>1, Given
<1>4. KnowsSet' = IF r.where = "area" /\ r.shared THEN KnowsSet \cup {h} ELSE KnowsSet
  BY <1>2, <1>3 DEF KnowsSet, KnowsArea, Live
<1>5. h \notin KnowsSet
  BY DEF KnowsSet, KnowsArea
<1>6. share \in ShareRecords /\ share.ref \in Int
  BY SharedRecords DEF ShareRecords
<1>7. /\ DmaBooks(share, KnowsSet)
      /\ \A g \in Live : buf[g].where = "area" => share.dma # "none"
  BY DmaAreaIs
<1>8. /\ IsFiniteSet(KnowsSet) /\ Cardinality(KnowsSet) \in Nat
      /\ Cardinality(KnowsSet \cup {h}) = Cardinality(KnowsSet) + 1
  BY <1>5, KnowsFinite, FS_AddElement
<1>9. \A g \in Live' : g = h \/ (g \in Live /\ buf'[g] = buf[g])
  <2>1. Live \subseteq Handle
    BY DEF Live
  <2>2. Live' = Live \cup {h} /\ \A g \in Handle : g # h => buf'[g] = buf[g]
    BY <1>3
  <2> SUFFICES ASSUME NEW g \in Live', g # h
               PROVE  g \in Live /\ buf'[g] = buf[g]
    OBVIOUS
  <2>3. g \in Live
    BY <2>2
  <2> QED BY <2>1, <2>2, <2>3
<1>10. CASE FirstOfArea(r)
  <2>1. share' = [ref |-> share.ref + 1, max |-> share.max, start |-> share.start, dma |-> "live"]
    BY <1>1, <1>6, <1>10 DEF FirstOfArea, ShareRecords
  <2>2. KnowsSet' = KnowsSet /\ share.dma = "none"
    BY <1>4, <1>10 DEF FirstOfArea
  <2> QED BY <1>6, <1>7, <1>8, <2>1, <2>2 DEF DmaBooks
<1>11. CASE NextOfArea(r)
  <2>1. share' = [ref |-> share.ref + 1, max |-> share.max, start |-> share.start,
                  dma |-> share.dma]
    BY <1>1, <1>6, <1>11 DEF NextOfArea, ShareRecords
  <2>2. KnowsSet' = KnowsSet \cup {h} /\ share.dma # "none"
    BY <1>4, <1>11 DEF NextOfArea
  <2>3. Cardinality(KnowsSet') = Cardinality(KnowsSet) + 1
    BY <1>8, <2>2
  <2> QED BY <1>6, <1>7, <1>8, <2>1, <2>2, <2>3 DEF DmaBooks
<1>12. CASE NoArea(r)
  <2>1. share' = share /\ KnowsSet' = KnowsSet /\ b.where # "area"
    BY <1>1, <1>2, <1>4, <1>12 DEF NoArea
  <2> QED BY <1>3, <1>7, <1>9, <2>1
<1> QED BY <1>10, <1>11, <1>12

LEMMA GiveBackDma ==
  ASSUME LayoutInv, DmaAreaInv, NEW h \in Live, GiveBack(h)
  PROVE  DmaAreaInv'
<1> SUFFICES ASSUME ~hasPool
             PROVE  /\ DmaBooks(share', KnowsSet')
                    /\ \A g \in Live' : buf'[g].where = "area" => share'.dma # "none"
  <2>1. hasPool' = hasPool
    BY DEF GiveBack
  <2> QED BY <2>1 DEF DmaAreaInv, DmaBooks, KnowsSet
<1> DEFINE b == buf[h]
<1>1. /\ share' = IF b.shared THEN FreeShareThroughDma(b, share) ELSE FreeThroughDma(b, share)
      /\ buf' = [buf EXCEPT ![h] = NoBuf]
  BY DEF GiveBack, CmaFree
<1>2. /\ buf \in [Handle -> Buffers \cup {NoBuf}] /\ b \in Buffers /\ h \in Handle
      /\ Live' = Live \ {h} /\ \A g \in Handle : g # h => buf'[g] = buf[g]
  <2>1. buf \in [Handle -> Buffers \cup {NoBuf}]
    BY DEF LayoutInv, PlaceInv
  <2> QED BY <1>1, <2>1, Freed DEF Live
<1>3. KnowsSet' = KnowsSet \ {h}
  BY <1>2 DEF KnowsSet, KnowsArea, Live
<1>4. h \in KnowsSet <=> b.where = "area" /\ b.shared
  BY <1>2 DEF KnowsSet, KnowsArea
<1> HIDE DEF b
<1>5. share \in ShareRecords /\ share.ref \in Int
  BY SharedRecords DEF ShareRecords
<1>6. /\ DmaBooks(share, KnowsSet)
      /\ \A g \in Live : buf[g].where = "area" => share.dma # "none"
  BY DmaAreaIs
<1>7. /\ IsFiniteSet(KnowsSet) /\ Cardinality(KnowsSet) \in Nat
      /\ h \in KnowsSet => Cardinality(KnowsSet \ {h}) = Cardinality(KnowsSet) - 1
  BY KnowsFinite, FS_RemoveElement
<1>8. \A g \in Live' : g \in Live /\ buf'[g] = buf[g]
  BY <1>2 DEF Live
<1>9. CASE b.where # "area"
  <2>1. share' = share /\ KnowsSet' = KnowsSet
    BY <1>1, <1>3, <1>4, <1>9 DEF FreeShareThroughDma, FreeThroughDma
  <2> QED BY <1>6, <1>8, <2>1
<1>10. CASE b.where = "area" /\ ~b.shared
  <2>1. share' = [ref |-> share.ref, max |-> share.max, start |-> share.start, dma |-> "freed"]
    BY <1>1, <1>5, <1>10 DEF FreeThroughDma, ShareRecords
  <2>2. KnowsSet' = KnowsSet /\ share.dma # "none"
    BY <1>3, <1>4, <1>6, <1>10 DEF b
  <2> QED BY <1>5, <1>6, <2>1, <2>2 DEF DmaBooks
<1>11. CASE b.where = "area" /\ b.shared
  <2>1. share.dma # "none" /\ share.ref = Cardinality(KnowsSet) + 1 /\ share.max = 0
    BY <1>6, <1>11 DEF b, DmaBooks
  <2>2. h \in KnowsSet /\ KnowsSet # {}
    BY <1>4, <1>11
  <2>3. Cardinality(KnowsSet) # 0
    BY <1>7, <2>2, FS_EmptySet
  <2>4. share.ref # 1
    BY <1>7, <2>1, <2>3
  <2>5. share' = [ref |-> share.ref - 1, max |-> share.max, start |-> share.start,
                  dma |-> share.dma]
    <3>1. share' = [share EXCEPT !.ref = @ - 1, !.dma = IF share.ref = 1 THEN "none" ELSE @]
      BY <1>1, <1>11 DEF FreeShareThroughDma
    <3>2. share' = [share EXCEPT !.ref = @ - 1, !.dma = share.dma]
      BY <2>4, <3>1
    <3> QED BY <1>5, <3>2 DEF ShareRecords
  <2>6. Cardinality(KnowsSet') = Cardinality(KnowsSet) - 1
    BY <1>3, <1>7, <2>2
  <2> QED BY <1>5, <1>7, <2>1, <2>5, <2>6 DEF DmaBooks
<1> QED BY <1>9, <1>10, <1>11

LEMMA UndoneDma ==
  ASSUME LayoutInv, DmaAreaInv, NEW r,
         ~hasPool => FirstOfArea(r) \/ NextOfArea(r) \/ NoArea(r),
         UNCHANGED <<hasPool, buf>>, share' = CmaFree(r, r.pool, r.share).share
  PROVE  DmaAreaInv'
<1> SUFFICES ASSUME ~hasPool
             PROVE  /\ DmaBooks(share', KnowsSet)
                    /\ \A g \in Live : buf[g].where = "area" => share'.dma # "none"
  <2>1. hasPool' = hasPool /\ buf' = buf
    OBVIOUS
  <2>2. KnowsSet' = KnowsSet /\ Live' = Live
    BY <2>1 DEF KnowsSet, KnowsArea, Live
  <2>3. DmaAreaInv' <=>
          (~hasPool' => /\ DmaBooks(share', KnowsSet')
                        /\ \A g \in Live' : buf'[g].where = "area" => share'.dma # "none")
    BY DEF DmaAreaInv, DmaBooks, KnowsSet
  <2> QED BY <2>1, <2>2, <2>3
<1>1. share' = IF r.shared THEN FreeShareThroughDma(r, r.share) ELSE FreeThroughDma(r, r.share)
  BY DEF CmaFree
<1>2. share \in ShareRecords /\ share.ref \in Int
  BY SharedRecords DEF ShareRecords
<1>3. /\ DmaBooks(share, KnowsSet)
      /\ \A g \in Live : buf[g].where = "area" => share.dma # "none"
  BY DmaAreaIs
<1>4. CASE FirstOfArea(r)
  <2>1. r.share = [ref |-> share.ref + 1, max |-> share.max, start |-> share.start, dma |-> "live"]
    BY <1>2, <1>4 DEF FirstOfArea, ShareRecords
  <2>2. share' = [r.share EXCEPT !.dma = "freed"]
    BY <1>1, <1>4 DEF FirstOfArea, FreeThroughDma
  <2>3. share' = [ref |-> share.ref + 1, max |-> share.max, start |-> share.start, dma |-> "freed"]
    BY <2>1, <2>2
  <2> QED BY <1>2, <1>3, <1>4, <2>3, KnowsFinite DEF DmaBooks, FirstOfArea
<1>5. CASE NextOfArea(r)
  <2>1. r.share = [ref |-> share.ref + 1, max |-> share.max, start |-> share.start,
                   dma |-> share.dma] /\ share.dma # "none"
    BY <1>2, <1>5 DEF NextOfArea, ShareRecords
  <2>2. r.share.ref # 1
    BY <1>3, <2>1, KnowsFinite DEF DmaBooks
  <2>3. share' = [r.share EXCEPT !.ref = @ - 1,
                                 !.dma = IF r.share.ref = 1 THEN "none" ELSE @]
    BY <1>1, <1>5 DEF NextOfArea, FreeShareThroughDma
  <2>4. share' = [ref |-> share.ref + 1 - 1, max |-> share.max, start |-> share.start,
                  dma |-> share.dma]
    <3>1. share' = [r.share EXCEPT !.ref = @ - 1, !.dma = r.share.dma]
      BY <2>2, <2>3
    <3>2. r.share \in [ref : Int, max : {share.max}, start : {share.start}, dma : {share.dma}]
      BY <1>2, <2>1
    <3> DEFINE q == r.share
    <3>3. share' = [ref |-> q.ref - 1, max |-> q.max, start |-> q.start, dma |-> q.dma]
      <4>1. /\ q \in [ref : Int, max : {share.max}, start : {share.start}, dma : {share.dma}]
            /\ share' = [q EXCEPT !.ref = @ - 1, !.dma = q.dma]
        BY <3>1, <3>2
      <4> HIDE DEF q
      <4> QED BY <4>1
    <3>4. /\ q.ref = share.ref + 1 /\ q.max = share.max /\ q.start = share.start
          /\ q.dma = share.dma
      BY <2>1
    <3> HIDE DEF q
    <3> QED BY <1>2, <3>3, <3>4
  <2> QED BY <1>2, <1>3, <2>4 DEF DmaBooks
<1>6. CASE NoArea(r)
  <2>1. share' = share
    BY <1>1, <1>6 DEF NoArea, FreeShareThroughDma, FreeThroughDma
  <2> QED BY <1>3, <2>1
<1> QED BY <1>4, <1>5, <1>6

-----------------------------------------------------------------------------
(* The usage counters: sums over the handles.                               *)

Tagged(w, h) == {h} \X (1 .. w[h])
Total(w) == Cardinality(UNION {Tagged(w, h) : h \in Handle})

LEMMA TaggedIs ==
  ASSUME NEW w \in [Handle -> Nat], NEW h \in Handle
  PROVE  IsFiniteSet(Tagged(w, h)) /\ Cardinality(Tagged(w, h)) = w[h]
<1>1. w[h] \in Nat
  OBVIOUS
<1>2. IsFiniteSet(1 .. w[h]) /\ Cardinality(1 .. w[h]) = w[h]
  BY <1>1, FS_Interval
<1>3. IsFiniteSet({h}) /\ Cardinality({h}) = 1
  BY FS_Singleton
<1>4. /\ IsFiniteSet({h} \X (1 .. w[h]))
      /\ Cardinality({h} \X (1 .. w[h])) = Cardinality({h}) * Cardinality(1 .. w[h])
  BY <1>2, <1>3, FS_Product
<1> QED BY <1>1, <1>2, <1>3, <1>4 DEF Tagged

(* One summand changes. *)
LEMMA TotalChanges ==
  ASSUME NEW w \in [Handle -> Nat], NEW v \in [Handle -> Nat], NEW h \in Handle,
         \A g \in Handle : g # h => v[g] = w[g]
  PROVE  Total(w) \in Nat /\ Total(v) = Total(w) - w[h] + v[h]
<1> DEFINE rest == UNION {Tagged(w, g) : g \in Handle \ {h}}
<1>1. IsFiniteSet(rest) /\ Cardinality(rest) \in Nat
  <2> DEFINE parts == {Tagged(w, g) : g \in Handle \ {h}}
  <2>1. IsFiniteSet(Handle \ {h})
    BY HandleAssumption, FS_RemoveElement DEF HandleAssumption
  <2>2. IsFiniteSet(parts)
    <3> DEFINE f == [g \in Handle \ {h} |-> Tagged(w, g)]
    <3>1. f \in Surjection(Handle \ {h}, parts)
      BY DEF Surjection
    <3> HIDE DEF f, parts
    <3> QED BY <2>1, <3>1, FS_Surjection
  <2>3. \A T \in parts : IsFiniteSet(T)
    BY TaggedIs
  <2> HIDE DEF parts
  <2>4. IsFiniteSet(UNION parts)
    BY <2>2, <2>3, FS_UNION
  <2> QED BY <2>4, FS_CardinalityType DEF parts
<1>2. rest = UNION {Tagged(v, g) : g \in Handle \ {h}}
  <2>1. \A g \in Handle \ {h} : Tagged(v, g) = Tagged(w, g)
    BY DEF Tagged
  <2> QED BY <2>1
<1>3. ASSUME NEW u \in [Handle -> Nat], rest = UNION {Tagged(u, g) : g \in Handle \ {h}}
      PROVE  Total(u) = Cardinality(rest) + u[h]
  <2>1. UNION {Tagged(u, g) : g \in Handle} = rest \cup Tagged(u, h)
    BY <1>3
  <2>2. rest \cap Tagged(u, h) = {}
    BY <1>3 DEF Tagged
  <2> HIDE DEF rest
  <2>3. IsFiniteSet(Tagged(u, h)) /\ Cardinality(Tagged(u, h)) = u[h] /\ u[h] \in Nat
    BY TaggedIs
  <2>4. Cardinality(rest \cap Tagged(u, h)) = 0
    BY <2>2, FS_EmptySet
  <2>5. Cardinality(rest \cup Tagged(u, h))
          = Cardinality(rest) + Cardinality(Tagged(u, h)) - Cardinality(rest \cap Tagged(u, h))
    BY <1>1, <2>3, FS_Union
  <2>6. Total(u) = Cardinality(rest \cup Tagged(u, h))
    BY <2>1 DEF Total
  <2> QED BY <1>1, <2>3, <2>4, <2>5, <2>6
<1> HIDE DEF rest
<1>4. w[h] \in Nat /\ v[h] \in Nat
  OBVIOUS
<1>5. Total(w) = Cardinality(rest) + w[h] /\ Total(v) = Cardinality(rest) + v[h]
  BY <1>2, <1>3 DEF rest
<1> QED BY <1>1, <1>4, <1>5

(* What a buffer adds to a sum over all buffers, over those of a context    *)
(* and over those that the context lists.                                   *)
Weight(b) == IF b = NoBuf \/ b.shared \/ b.where = "ext" THEN 0 ELSE b.n
OwnWeight(n, b) == IF b # NoBuf /\ b.own = n THEN Weight(b) ELSE 0
ListWeight(n, b) == IF b # NoBuf /\ b.own = n /\ b.role = "linked" THEN Weight(b) ELSE 0

BufTypes == [Handle -> Buffers \cup {NoBuf}]

LEMMA WeightsAre ==
  ASSUME NEW n, NEW b \in Buffers \cup {NoBuf}
  PROVE  Weight(b) \in Nat /\ OwnWeight(n, b) \in Nat /\ ListWeight(n, b) \in Nat
BY DEF Weight, OwnWeight, ListWeight, Buffers

LEMMA NoWeight ==
  ASSUME NEW n
  PROVE  Weight(NoBuf) = 0 /\ OwnWeight(n, NoBuf) = 0 /\ ListWeight(n, NoBuf) = 0
BY DEF Weight, OwnWeight, ListWeight

CountedLive(bs) == Total([h \in Handle |-> Weight(bs[h])])
CountedOf(n, bs) == Total([h \in Handle |-> OwnWeight(n, bs[h])])
CountedListed(n, bs) == Total([h \in Handle |-> ListWeight(n, bs[h])])

LEMMA SumsAre ==
  ASSUME NEW bs \in BufTypes, NEW S \in SUBSET Handle, NEW w \in [Handle -> Nat],
         \A h \in Handle : w[h] = IF h \in S /\ ~bs[h].shared /\ bs[h].where # "ext"
                                  THEN bs[h].n ELSE 0
  PROVE  Cardinality(UNION {{h} \X (1 .. bs[h].n)
                              : h \in {g \in S : ~bs[g].shared /\ ~(bs[g].where = "ext")}})
           = Total(w)
<1> DEFINE C == {g \in S : ~bs[g].shared /\ ~(bs[g].where = "ext")}
<1>1. UNION {Tagged(w, h) : h \in Handle} = UNION {{h} \X (1 .. bs[h].n) : h \in C}
  <2>1. \A h \in C : h \in Handle /\ w[h] = bs[h].n
    OBVIOUS
  <2>2. \A h \in Handle : h \notin C => w[h] = 0 /\ Tagged(w, h) = {}
    BY DEF Tagged
  <2> HIDE DEF C
  <2> QED BY <2>1, <2>2 DEF Tagged
<1> QED BY <1>1 DEF Total

LEMMA CountedIs ==
  ASSUME buf \in BufTypes
  PROVE  /\ Counted(Live) = CountedLive(buf)
         /\ \A n : /\ Counted(OwnedBy(n)) = CountedOf(n, buf)
                   /\ Counted(Linked(n)) = CountedListed(n, buf)
<1>1. \A h \in Handle : buf[h] \in Buffers \cup {NoBuf}
  BY DEF BufTypes
<1>2. ASSUME NEW S \in SUBSET Handle, NEW w \in [Handle -> Nat],
             \A h \in Handle : w[h] = IF h \in S /\ ~buf[h].shared /\ buf[h].where # "ext"
                                      THEN buf[h].n ELSE 0
      PROVE  Counted(S) = Total(w)
  BY <1>2, SumsAre DEF Counted, CountedIn, External
<1>3. Counted(Live) = CountedLive(buf)
  <2> DEFINE w == [h \in Handle |-> Weight(buf[h])]
  <2>1. Live \in SUBSET Handle /\ w \in [Handle -> Nat]
    BY <1>1, WeightsAre DEF Live
  <2>2. \A h \in Handle : w[h] = IF h \in Live /\ ~buf[h].shared /\ buf[h].where # "ext"
                                 THEN buf[h].n ELSE 0
    BY <1>1 DEF Weight, Live, Buffers
  <2> HIDE DEF w
  <2>3. Counted(Live) = Total(w)
    BY <1>2, <2>1, <2>2
  <2> QED BY <2>3 DEF w, CountedLive
<1>4. ASSUME NEW n
      PROVE  Counted(OwnedBy(n)) = CountedOf(n, buf)
  <2> DEFINE w == [h \in Handle |-> OwnWeight(n, buf[h])]
  <2>1. OwnedBy(n) \in SUBSET Handle /\ w \in [Handle -> Nat]
    BY <1>1, WeightsAre DEF OwnedBy, Live
  <2>2. \A h \in Handle : w[h] = IF h \in OwnedBy(n) /\ ~buf[h].shared /\ buf[h].where # "ext"
                                 THEN buf[h].n ELSE 0
    BY <1>1 DEF Weight, OwnWeight, OwnedBy, Live, Buffers
  <2> HIDE DEF w
  <2>3. Counted(OwnedBy(n)) = Total(w)
    BY <1>2, <2>1, <2>2
  <2> QED BY <2>3 DEF w, CountedOf
<1>5. ASSUME NEW n
      PROVE  Counted(Linked(n)) = CountedListed(n, buf)
  <2> DEFINE w == [h \in Handle |-> ListWeight(n, buf[h])]
  <2>1. Linked(n) \in SUBSET Handle /\ w \in [Handle -> Nat]
    BY <1>1, WeightsAre DEF OwnedBy, Live, Linked
  <2>2. \A h \in Handle : w[h] = IF h \in Linked(n) /\ ~buf[h].shared /\ buf[h].where # "ext"
                                 THEN buf[h].n ELSE 0
    BY <1>1 DEF Weight, ListWeight, OwnedBy, Linked, Live, Buffers
  <2> HIDE DEF w
  <2>3. Counted(Linked(n)) = Total(w)
    BY <1>2, <2>1, <2>2
  <2> QED BY <2>3 DEF w, CountedListed
<1> QED BY <1>3, <1>4, <1>5

(* The sums when one buffer changes. *)
LEMMA SumsChange ==
  ASSUME NEW bs \in BufTypes, NEW cs \in BufTypes, NEW h \in Handle,
         \A g \in Handle : g # h => cs[g] = bs[g]
  PROVE  /\ CountedLive(bs) \in Nat
         /\ CountedLive(cs) = CountedLive(bs) - Weight(bs[h]) + Weight(cs[h])
         /\ \A n : /\ CountedOf(n, bs) \in Nat /\ CountedListed(n, bs) \in Nat
                   /\ CountedOf(n, cs)
                        = CountedOf(n, bs) - OwnWeight(n, bs[h]) + OwnWeight(n, cs[h])
                   /\ CountedListed(n, cs)
                        = CountedListed(n, bs) - ListWeight(n, bs[h]) + ListWeight(n, cs[h])
<1>1. \A g \in Handle : bs[g] \in Buffers \cup {NoBuf} /\ cs[g] \in Buffers \cup {NoBuf}
  BY DEF BufTypes
<1>2. /\ CountedLive(bs) \in Nat
      /\ CountedLive(cs) = CountedLive(bs) - Weight(bs[h]) + Weight(cs[h])
  <2> DEFINE w == [g \in Handle |-> Weight(bs[g])]
             v == [g \in Handle |-> Weight(cs[g])]
  <2>1. /\ w \in [Handle -> Nat] /\ v \in [Handle -> Nat]
        /\ \A g \in Handle : g # h => v[g] = w[g]
        /\ w[h] = Weight(bs[h]) /\ v[h] = Weight(cs[h])
    BY <1>1, WeightsAre
  <2> HIDE DEF w, v
  <2>2. Total(w) \in Nat /\ Total(v) = Total(w) - w[h] + v[h]
    BY <2>1, TotalChanges
  <2> QED BY <2>1, <2>2 DEF CountedLive, w, v
<1>3. ASSUME NEW n
      PROVE  /\ CountedOf(n, bs) \in Nat
             /\ CountedOf(n, cs)
                  = CountedOf(n, bs) - OwnWeight(n, bs[h]) + OwnWeight(n, cs[h])
  <2> DEFINE w == [g \in Handle |-> OwnWeight(n, bs[g])]
             v == [g \in Handle |-> OwnWeight(n, cs[g])]
  <2>1. /\ w \in [Handle -> Nat] /\ v \in [Handle -> Nat]
        /\ \A g \in Handle : g # h => v[g] = w[g]
        /\ w[h] = OwnWeight(n, bs[h]) /\ v[h] = OwnWeight(n, cs[h])
    BY <1>1, WeightsAre
  <2> HIDE DEF w, v
  <2>2. Total(w) \in Nat /\ Total(v) = Total(w) - w[h] + v[h]
    BY <2>1, TotalChanges
  <2> QED BY <2>1, <2>2 DEF CountedOf, w, v
<1>4. ASSUME NEW n
      PROVE  /\ CountedListed(n, bs) \in Nat
             /\ CountedListed(n, cs)
                  = CountedListed(n, bs) - ListWeight(n, bs[h]) + ListWeight(n, cs[h])
  <2> DEFINE w == [g \in Handle |-> ListWeight(n, bs[g])]
             v == [g \in Handle |-> ListWeight(n, cs[g])]
  <2>1. /\ w \in [Handle -> Nat] /\ v \in [Handle -> Nat]
        /\ \A g \in Handle : g # h => v[g] = w[g]
        /\ w[h] = ListWeight(n, bs[h]) /\ v[h] = ListWeight(n, cs[h])
    BY <1>1, WeightsAre
  <2> HIDE DEF w, v
  <2>2. Total(w) \in Nat /\ Total(v) = Total(w) - w[h] + v[h]
    BY <2>1, TotalChanges
  <2> QED BY <2>1, <2>2 DEF CountedListed, w, v
<1> QED BY <1>2, <1>3, <1>4

(* No memory of the driver is lost by n. *)
Loses(b) == b # NoBuf /\ b.role = "lost" /\ b.where # "ext"
Whole(n, bs) == \A h \in Handle : Loses(bs[h]) => bs[h].own # n

(* What is lost stays lost. *)
LEMMA WholeStays ==
  ASSUME NEW bs, NEW cs, NEW h \in Handle, \A g \in Handle : g # h => cs[g] = bs[g],
         ~Loses(bs[h]), NEW n, Whole(n, cs)
  PROVE  Whole(n, bs)
BY DEF Whole

(* UsageExact in these sums. *)
Sums(u, cs, bs) ==
  /\ u = CountedLive(bs)
  /\ \A n \in Net : Whole(n, bs) =>
       /\ cs[n].life # "none" => cs[n].byte = CountedOf(n, bs)
       /\ cs[n].life = "open" => cs[n].alloced = CountedListed(n, bs)

LEMMA UsageIs ==
  buf \in BufTypes => (UsageExact <=> Sums(usage, ctx, buf))
<1>1. \A n : LostBy(n) = {} <=> Whole(n, buf)
  BY DEF LostBy, OwnedBy, Live, External, Whole, Loses
<1> QED BY <1>1, CountedIs DEF UsageExact, Sums, IsOpen

LEMMA UsageIsNext ==
  (buf \in BufTypes)' => (UsageExact' <=> Sums(usage, ctx, buf)')
BY UsageIs, PTL

(* A step that changes the buffer h and the context n. *)
LEMMA SumsStep ==
  ASSUME buf \in BufTypes, buf' \in BufTypes, Sums(usage, ctx, buf),
         NEW h \in Handle, \A g \in Handle : g # h => buf'[g] = buf[g],
         usage' = usage - Weight(buf[h]) + Weight(buf'[h]),
         ~Loses(buf[h]), NEW n \in Net,
         \A m \in Net : m # n => /\ ctx'[m] = ctx[m]
                               /\ OwnWeight(m, buf'[h]) = OwnWeight(m, buf[h])
                               /\ ListWeight(m, buf'[h]) = ListWeight(m, buf[h]),
         Whole(n, buf') /\ ctx'[n].life # "none" =>
           ctx'[n].byte = CountedOf(n, buf) - OwnWeight(n, buf[h]) + OwnWeight(n, buf'[h]),
         Whole(n, buf') /\ ctx'[n].life = "open" =>
           ctx'[n].alloced
             = CountedListed(n, buf) - ListWeight(n, buf[h]) + ListWeight(n, buf'[h])
  PROVE  Sums(usage', ctx', buf')
<1> DEFINE bs == buf
           cs == buf'
<1>1. /\ CountedLive(bs) \in Nat
      /\ CountedLive(cs) = CountedLive(bs) - Weight(bs[h]) + Weight(cs[h])
      /\ \A m : /\ CountedOf(m, bs) \in Nat /\ CountedListed(m, bs) \in Nat
                /\ CountedOf(m, cs)
                     = CountedOf(m, bs) - OwnWeight(m, bs[h]) + OwnWeight(m, cs[h])
                /\ CountedListed(m, cs)
                     = CountedListed(m, bs) - ListWeight(m, bs[h]) + ListWeight(m, cs[h])
  <2>1. bs \in BufTypes /\ cs \in BufTypes /\ \A g \in Handle : g # h => cs[g] = bs[g]
    OBVIOUS
  <2> HIDE DEF bs, cs
  <2> QED BY <2>1, SumsChange
<1>2. bs[h] \in Buffers \cup {NoBuf} /\ cs[h] \in Buffers \cup {NoBuf}
  BY DEF BufTypes
<1>3. ASSUME NEW m \in Net, m # n
      PROVE  CountedOf(m, cs) = CountedOf(m, bs) /\ CountedListed(m, cs) = CountedListed(m, bs)
  <2>1. OwnWeight(m, bs[h]) \in Nat /\ ListWeight(m, bs[h]) \in Nat
    BY <1>2, WeightsAre
  <2>2. OwnWeight(m, cs[h]) = OwnWeight(m, bs[h]) /\ ListWeight(m, cs[h]) = ListWeight(m, bs[h])
    BY <1>3
  <2> HIDE DEF bs, cs
  <2> QED BY <1>1, <2>1, <2>2
<1>4. usage' = CountedLive(cs)
  BY <1>1 DEF Sums
<1>5. ASSUME NEW m \in Net, Whole(m, cs)
      PROVE  /\ ctx'[m].life # "none" => ctx'[m].byte = CountedOf(m, cs)
             /\ ctx'[m].life = "open" => ctx'[m].alloced = CountedListed(m, cs)
  <2>1. CASE m = n
    BY <1>1, <1>5, <2>1
  <2>2. CASE m # n
    <3>1. ctx'[m] = ctx[m]
      BY <2>2
    <3>2. /\ ctx[m].life # "none" => ctx[m].byte = CountedOf(m, bs)
          /\ ctx[m].life = "open" => ctx[m].alloced = CountedListed(m, bs)
      BY <1>5, WholeStays DEF Sums
    <3> QED BY <1>3, <2>2, <3>1, <3>2
  <2> QED BY <2>1, <2>2
<1> QED BY <1>4, <1>5 DEF Sums

(* The step gives h to n, ...                                               *)
LEMMA GiveSums ==
  ASSUME buf \in BufTypes, Sums(usage, ctx, buf), NEW n \in Net, IsOpen(n),
         NEW h \in Handle \ Live, NEW b \in Buffers, buf' = [buf EXCEPT ![h] = b], b.own = n,
         usage' = usage + Weight(b),
         \A m \in Net : m # n => ctx'[m] = ctx[m],
         ctx'[n].byte = ctx[n].byte + Weight(b),
         ctx'[n].alloced = ctx[n].alloced + (IF b.role = "linked" THEN Weight(b) ELSE 0)
  PROVE  Sums(usage', ctx', buf')
<1>1. /\ b # NoBuf /\ buf[h] = NoBuf /\ buf' \in BufTypes /\ buf'[h] = b
      /\ \A g \in Handle : g # h => buf'[g] = buf[g]
  BY HandleAssumption DEF HandleAssumption, Live, BufTypes
<1>2. \A m : Weight(NoBuf) = 0 /\ OwnWeight(m, NoBuf) = 0 /\ ListWeight(m, NoBuf) = 0
  BY NoWeight
<1>3. /\ Weight(b) \in Nat /\ OwnWeight(n, b) = Weight(b)
      /\ ListWeight(n, b) = IF b.role = "linked" THEN Weight(b) ELSE 0
      /\ \A m \in Net : m # n => OwnWeight(m, b) = 0 /\ ListWeight(m, b) = 0
  BY <1>1, WeightsAre DEF OwnWeight, ListWeight
<1>4. /\ ~Loses(buf[h]) /\ usage = CountedLive(buf)
      /\ Whole(n, buf') => ctx[n].byte = CountedOf(n, buf) /\ ctx[n].alloced = CountedListed(n, buf)
  <2>1. ~Loses(buf[h])
    BY <1>1 DEF Loses
  <2> QED BY <1>1, <2>1, WholeStays DEF Sums, IsOpen
<1>5. CountedLive(buf) \in Nat /\ CountedOf(n, buf) \in Nat /\ CountedListed(n, buf) \in Nat
  BY <1>1, SumsChange
<1>6. usage' = usage - Weight(buf[h]) + Weight(buf'[h])
  BY <1>1, <1>2, <1>3, <1>4, <1>5
<1>7. Whole(n, buf') =>
      /\ ctx'[n].byte = CountedOf(n, buf) - OwnWeight(n, buf[h]) + OwnWeight(n, buf'[h])
      /\ ctx'[n].alloced
           = CountedListed(n, buf) - ListWeight(n, buf[h]) + ListWeight(n, buf'[h])
  BY <1>1, <1>2, <1>3, <1>4, <1>5
<1>8. \A m \in Net : m # n => /\ ctx'[m] = ctx[m]
                           /\ OwnWeight(m, buf'[h]) = OwnWeight(m, buf[h])
                           /\ ListWeight(m, buf'[h]) = ListWeight(m, buf[h])
  BY <1>1, <1>2, <1>3
<1> QED BY <1>1, <1>4, <1>6, <1>7, <1>8, SumsStep

(* ... or takes h from n. *)
LEMMA FreeSums ==
  ASSUME buf \in BufTypes, Sums(usage, ctx, buf), NEW n \in Net, ctx[n].life # "none",
         NEW h \in OwnedBy(n), ~Loses(buf[h]), buf' = [buf EXCEPT ![h] = NoBuf],
         usage' = usage - Weight(buf[h]),
         \A m \in Net : m # n => ctx'[m] = ctx[m],
         ctx'[n].life # "none" => ctx'[n].byte = ctx[n].byte - Weight(buf[h]),
         ctx'[n].life = "open" =>
           /\ ctx[n].life = "open"
           /\ ctx'[n].alloced
                = ctx[n].alloced - (IF buf[h].role = "linked" THEN Weight(buf[h]) ELSE 0)
  PROVE  Sums(usage', ctx', buf')
<1> DEFINE b == buf[h]
<1>1. /\ h \in Handle /\ b # NoBuf /\ b \in Buffers /\ b.own = n
      /\ buf' \in BufTypes /\ buf'[h] = NoBuf
      /\ \A g \in Handle : g # h => buf'[g] = buf[g]
  BY DEF OwnedBy, Live, BufTypes
<1>2. \A m : Weight(NoBuf) = 0 /\ OwnWeight(m, NoBuf) = 0 /\ ListWeight(m, NoBuf) = 0
  BY NoWeight
<1>3. /\ Weight(b) \in Nat /\ OwnWeight(n, b) = Weight(b)
      /\ ListWeight(n, b) = IF b.role = "linked" THEN Weight(b) ELSE 0
      /\ \A m \in Net : m # n => OwnWeight(m, b) = 0 /\ ListWeight(m, b) = 0
  BY <1>1, WeightsAre DEF OwnWeight, ListWeight
<1>4. /\ usage = CountedLive(buf)
      /\ Whole(n, buf') => /\ ctx[n].byte = CountedOf(n, buf)
                           /\ ctx[n].life = "open" => ctx[n].alloced = CountedListed(n, buf)
  BY <1>1, WholeStays DEF Sums
<1>5. CountedLive(buf) \in Nat /\ CountedOf(n, buf) \in Nat /\ CountedListed(n, buf) \in Nat
  BY <1>1, SumsChange
<1>6. usage' = usage - Weight(buf[h]) + Weight(buf'[h])
  BY <1>1, <1>2, <1>3, <1>4, <1>5
<1>7. Whole(n, buf') =>
      /\ ctx'[n].life # "none" =>
           ctx'[n].byte = CountedOf(n, buf) - OwnWeight(n, buf[h]) + OwnWeight(n, buf'[h])
      /\ ctx'[n].life = "open" =>
           ctx'[n].alloced
             = CountedListed(n, buf) - ListWeight(n, buf[h]) + ListWeight(n, buf'[h])
  BY <1>1, <1>2, <1>3, <1>4, <1>5
<1>8. \A m \in Net : m # n => /\ ctx'[m] = ctx[m]
                           /\ OwnWeight(m, buf'[h]) = OwnWeight(m, buf[h])
                           /\ ListWeight(m, buf'[h]) = ListWeight(m, buf[h])
  BY <1>1, <1>2, <1>3
<1> HIDE DEF b
<1> QED BY <1>1, <1>6, <1>7, <1>8, SumsStep

(* n loses h: the sums of all buffers and of other contexts stay.           *)
LEMMA LoseSums ==
  ASSUME buf \in BufTypes, Sums(usage, ctx, buf), NEW n \in Net,
         NEW h \in OwnedBy(n), buf[h].role # "lost", buf[h].where # "ext",
         buf' = [buf EXCEPT ![h] = [buf[h] EXCEPT !.role = "lost"]],
         usage' = usage, \A m \in Net : m # n => ctx'[m] = ctx[m]
  PROVE  Sums(usage', ctx', buf')
<1> DEFINE b == buf[h]
           c == [b EXCEPT !.role = "lost"]
<1>1. h \in Handle /\ b # NoBuf /\ b \in Buffers /\ b.own = n /\ ~Loses(b)
  BY DEF OwnedBy, Live, BufTypes, Loses
<1>2. /\ c \in Buffers /\ c.own = b.own /\ c.n = b.n /\ c.where = b.where
      /\ c.shared = b.shared /\ c.role = "lost"
  BY <1>1 DEF Buffers
<1>3. buf' = [buf EXCEPT ![h] = c] /\ b.where # "ext"
  OBVIOUS
<1> HIDE DEF b, c
<1>4. /\ buf' \in BufTypes /\ buf'[h] = c /\ c # NoBuf
      /\ \A g \in Handle : g # h => buf'[g] = buf[g]
  BY <1>1, <1>2, <1>3, HandleAssumption DEF HandleAssumption, BufTypes
<1>5. Weight(c) = Weight(b) /\ Weight(b) \in Nat
  BY <1>1, <1>2, <1>4, WeightsAre DEF Weight
<1>6. usage' = usage - Weight(b) + Weight(c)
  <2>1. usage \in Nat
    BY <1>1, <1>4, SumsChange DEF Sums
  <2> QED BY <1>5, <2>1
<1>7. ~Whole(n, buf')
  BY <1>1, <1>2, <1>3, <1>4 DEF Whole, Loses
<1>8. \A m \in Net : m # n =>
        /\ ctx'[m] = ctx[m]
        /\ OwnWeight(m, c) = OwnWeight(m, b) /\ ListWeight(m, c) = ListWeight(m, b)
  BY <1>1, <1>2 DEF OwnWeight, ListWeight
<1>9. b = buf[h]
  BY DEF b
<1>10. /\ ~Loses(buf[h]) /\ usage' = usage - Weight(buf[h]) + Weight(buf'[h])
       /\ \A m \in Net : m # n => /\ ctx'[m] = ctx[m]
                                 /\ OwnWeight(m, buf'[h]) = OwnWeight(m, buf[h])
                                 /\ ListWeight(m, buf'[h]) = ListWeight(m, buf[h])
  BY <1>1, <1>4, <1>6, <1>8, <1>9
<1> QED BY <1>1, <1>4, <1>7, <1>10, SumsStep

(* No buffer changes, and a context that is open or opens has its sums.     *)
LEMMA SameSums ==
  ASSUME Sums(usage, ctx, buf), usage' = usage, buf' = buf, NEW n \in Net,
         \A m \in Net : m # n => ctx'[m] = ctx[m],
         Whole(n, buf) /\ ctx'[n].life # "none" =>
           ctx'[n].byte = IF ctx[n].life # "none" THEN ctx[n].byte ELSE CountedOf(n, buf),
         Whole(n, buf) /\ ctx'[n].life = "open" =>
           ctx'[n].alloced = IF ctx[n].life = "open" THEN ctx[n].alloced
                             ELSE CountedListed(n, buf)
  PROVE  Sums(usage', ctx', buf')
BY DEF Sums

-----------------------------------------------------------------------------
(* The actions. *)

LEMMA BuffersAre ==
  ASSUME MemInv
  PROVE  /\ buf \in BufTypes /\ ctx \in [Net -> CtxRecords]
         /\ \A h \in Live : h \in Handle /\ buf[h] # NoBuf /\ buf[h] \in Buffers
BY DEF MemInv, LayoutInv, PlaceInv, RolesInv, BufTypes, CtxRecords, Live

(* Memory that an allocation got is added and subtracted alike. *)
LEMMA AllocWeight ==
  ASSUME "DmaFails" \notin Allow, NEW n \in Net, NEW role,
         NEW request \in Requests, NEW pages \in 1 .. MaxPages, NEW works \in BOOLEAN,
         Expected(request, CmaAlloc(request, pages, works), works),
         Handled(n, CmaAlloc(request, pages, works), role) \in Buffers
  PROVE  LET r == CmaAlloc(request, pages, works) IN
         /\ Added(r) = Weight(Handled(n, r, role))
         /\ Subtracted(r) = Weight(Handled(n, r, role))
<1> DEFINE r == CmaAlloc(request, pages, works)
           b == Handled(n, r, role)
<1>1. works = TRUE
  BY DEF Expected
<1>2. r.where \in {"pool", "bogus", "dma", "area"}
  <2>1. CASE hasPool
    BY <2>1 DEF CmaAlloc, MallocFromPool, Result
  <2>2. CASE ~hasPool
    BY <1>1, <2>2 DEF CmaAlloc, MallocShareThroughDma, MallocThroughDma, Result
  <2> QED BY <2>1, <2>2
<1> HIDE DEF r
<1>3. b # NoBuf /\ b.where = r.where /\ b.shared = r.shared /\ b.n = r.n
  BY HandleAssumption DEF Handled, HandleAssumption, r
<1>4. Added(r) = Weight(b) /\ Subtracted(r) = Weight(b)
  <2> HIDE DEF b
  <2> QED BY <1>2, <1>3 DEF Added, Subtracted, Weight
<1> QED BY <1>4 DEF r

LEMMA HandledIs ==
  ASSUME NEW n \in Net, NEW r, Got(r), NEW role \in {"linked", "queue"}
  PROVE  /\ Handled(n, r, role) \in Buffers
         /\ Handled(n, r, role).own = n /\ Handled(n, r, role).role = role
<1>1. /\ r.at \in {Invalid} \cup Nat /\ r.n \in Nat /\ r.shared \in BOOLEAN /\ r.where \in Places
  BY DEF Got, NoPages, OwnPages, AreaPages
<1> QED BY <1>1 DEF Handled, Buffers

LEMMA AllocRequestSums ==
  ASSUME MemInv, "ShareRefused" \notin Allow, "DmaFails" \notin Allow,
         Sums(usage, ctx, buf), NEW n \in Net, AllocRequest(n)
  PROVE  Sums(usage', ctx', buf')
<1>1. PICK h \in Handle \ Live, request \in Requests, pages \in 1 .. MaxPages, works \in BOOLEAN :
        LET r == CmaAlloc(request, pages, works) IN
        /\ IsOpen(n)
        /\ Expected(request, r, works)
        /\ Give(n, h, r, "linked")
        /\ ctx' = [ctx EXCEPT ![n].byte = @ + Added(r), ![n].alloced = @ + Subtracted(r)]
  BY DEF AllocRequest
<1> DEFINE r == CmaAlloc(request, pages, works)
           b == Handled(n, r, "linked")
<1>2. Got(r)
  BY <1>1, ContextIs, CmaAllocIs
<1>3. b \in Buffers /\ b.own = n /\ b.role = "linked"
  <2> HIDE DEF r
  <2> QED BY <1>2, HandledIs
<1>4. Added(r) = Weight(b) /\ Subtracted(r) = Weight(b)
  BY <1>1, <1>3, AllocWeight
<1>5. /\ IsOpen(n) /\ Give(n, h, r, "linked")
      /\ ctx' = [ctx EXCEPT ![n].byte = @ + Added(r), ![n].alloced = @ + Subtracted(r)]
  BY <1>1
<1> HIDE DEF r
<1>6. buf' = [buf EXCEPT ![h] = b] /\ usage' = usage + Weight(b)
  BY <1>4, <1>5 DEF Give
<1> HIDE DEF b
<1>7. /\ \A m \in Net : m # n => ctx'[m] = ctx[m]
      /\ ctx'[n].byte = ctx[n].byte + Weight(b)
      /\ ctx'[n].alloced = ctx[n].alloced + Weight(b)
  <2> DEFINE x == ctx[n].byte + Weight(b)
             y == ctx[n].alloced + Weight(b)
             c == ctx[n]
             d == ctx'[n]
  <2>1. ctx \in [Net -> CtxRecords] /\ c \in CtxRecords
    BY BuffersAre
  <2>2. d = [c EXCEPT !.byte = x, !.alloced = y] /\ \A m \in Net : m # n => ctx'[m] = ctx[m]
    BY <1>4, <1>5, <2>1
  <2> HIDE DEF x, y, c, d
  <2>3. d.byte = x /\ d.alloced = y
    BY <2>1, <2>2 DEF CtxRecords
  <2> QED BY <2>2, <2>3 DEF x, y, c, d
<1>8. ctx'[n].alloced = ctx[n].alloced + (IF b.role = "linked" THEN Weight(b) ELSE 0)
  BY <1>3, <1>7
<1> QED BY <1>3, <1>5, <1>6, <1>7, <1>8, BuffersAre, GiveSums

LEMMA RegisterPrivateSums ==
  ASSUME MemInv, "ShareRefused" \notin Allow, "DmaFails" \notin Allow,
         Sums(usage, ctx, buf), NEW n \in Net, RegisterPrivate(n)
  PROVE  Sums(usage', ctx', buf')
<1>1. PICK h \in Handle \ Live, pages \in 1 .. MaxPages, works \in BOOLEAN :
        LET r == CmaAlloc("plain", pages, works) IN
        /\ IsOpen(n) /\ ~ctx[n].model
        /\ Expected("plain", r, works)
        /\ Give(n, h, r, "queue")
        /\ ctx' = [ctx EXCEPT ![n].model = TRUE, ![n].queue = h, ![n].byte = @ + Added(r)]
  BY DEF RegisterPrivate
<1> DEFINE r == CmaAlloc("plain", pages, works)
           b == Handled(n, r, "queue")
<1>2. "plain" \in Requests
  BY DEF Requests
<1>3. Got(r)
  BY <1>1, <1>2, ContextIs, CmaAllocIs
<1>4. b \in Buffers /\ b.own = n /\ b.role = "queue"
  <2> HIDE DEF r
  <2> QED BY <1>3, HandledIs
<1>5. Added(r) = Weight(b)
  BY <1>1, <1>2, <1>4, AllocWeight
<1>6. /\ IsOpen(n) /\ Give(n, h, r, "queue")
      /\ ctx' = [ctx EXCEPT ![n].model = TRUE, ![n].queue = h, ![n].byte = @ + Added(r)]
  BY <1>1
<1> HIDE DEF r
<1>7. buf' = [buf EXCEPT ![h] = b] /\ usage' = usage + Weight(b)
  BY <1>5, <1>6 DEF Give
<1> HIDE DEF b
<1>8. /\ \A m \in Net : m # n => ctx'[m] = ctx[m]
      /\ ctx'[n].byte = ctx[n].byte + Weight(b)
      /\ ctx'[n].alloced = ctx[n].alloced
  <2> DEFINE x == ctx[n].byte + Weight(b)
             c == ctx[n]
             d == ctx'[n]
  <2>1. ctx \in [Net -> CtxRecords] /\ c \in CtxRecords
    BY BuffersAre
  <2>2. d = [c EXCEPT !.model = TRUE, !.queue = h, !.byte = x]
        /\ \A m \in Net : m # n => ctx'[m] = ctx[m]
    BY <1>5, <1>6, <2>1
  <2> HIDE DEF x, c, d
  <2>3. d.byte = x /\ d.alloced = c.alloced
    BY <2>1, <2>2 DEF CtxRecords
  <2> QED BY <2>2, <2>3 DEF x, c, d
<1>9. ctx'[n].alloced = ctx[n].alloced + (IF b.role = "linked" THEN Weight(b) ELSE 0)
  <2>1. ctx[n].alloced \in Int
    BY ContextIs
  <2> QED BY <1>4, <1>8, <2>1
<1> QED BY <1>4, <1>6, <1>7, <1>8, <1>9, BuffersAre, GiveSums

LEMMA AllocUndoneSums ==
  ASSUME MemInv, "ShareRefused" \notin Allow, "DmaFails" \notin Allow,
         Sums(usage, ctx, buf), usage \in Int, NEW n \in Net, AllocUndone(n)
  PROVE  Sums(usage', ctx', buf')
<1>1. PICK request \in Requests, pages \in 1 .. MaxPages, works \in BOOLEAN :
        LET r == CmaAlloc(request, pages, works)
            left == CmaFree(r, r.pool, r.share)
        IN /\ IsOpen(n)
           /\ Expected(request, r, works)
           /\ pool' = left.pool /\ share' = left.share
           /\ usage' = usage + Added(r) - Subtracted(r)
           /\ ctx' = [ctx EXCEPT ![n].byte = @ + Added(r) - Subtracted(r)]
           /\ UNCHANGED <<hasPool, public, buf>>
  BY DEF AllocUndone
<1> DEFINE r == CmaAlloc(request, pages, works)
           b == Handled(n, r, "linked")
<1>2. Got(r)
  BY <1>1, ContextIs, CmaAllocIs
<1>3. b \in Buffers
  <2> HIDE DEF r
  <2> QED BY <1>2, HandledIs
<1>4. Added(r) = Weight(b) /\ Subtracted(r) = Weight(b)
  BY <1>1, <1>3, AllocWeight
<1>5. /\ IsOpen(n) /\ usage' = usage + Weight(b) - Weight(b)
      /\ ctx' = [ctx EXCEPT ![n].byte = @ + Weight(b) - Weight(b)]
      /\ buf' = buf
  BY <1>1, <1>4
<1> HIDE DEF r
<1>6. Weight(b) \in Nat
  BY <1>3, WeightsAre
<1> HIDE DEF b
<1>7. usage' = usage
  BY <1>5, <1>6
<1>8. /\ \A m \in Net : m # n => ctx'[m] = ctx[m]
      /\ ctx'[n].byte = ctx[n].byte /\ ctx'[n].alloced = ctx[n].alloced
      /\ ctx'[n].life = ctx[n].life /\ ctx[n].life # "none"
  <2> DEFINE x == ctx[n].byte + Weight(b) - Weight(b)
             c == ctx[n]
             d == ctx'[n]
  <2>1. ctx \in [Net -> CtxRecords] /\ c \in CtxRecords /\ x = c.byte
    BY <1>6, BuffersAre, ContextIs
  <2>2. d = [c EXCEPT !.byte = x] /\ \A m \in Net : m # n => ctx'[m] = ctx[m]
    BY <1>5, <2>1
  <2> HIDE DEF x, c, d
  <2>3. d.byte = x /\ d.alloced = c.alloced /\ d.life = c.life
    BY <2>1, <2>2 DEF CtxRecords
  <2> QED BY <1>5, <2>1, <2>2, <2>3 DEF c, d, IsOpen
<1> QED BY <1>5, <1>7, <1>8, SameSums

(* A buffer that is not external is given back by the context n.            *)
LEMMA GiveBackSums ==
  ASSUME MemInv, Sums(usage, ctx, buf), NEW n \in Net, ctx[n].life # "none",
         NEW h \in OwnedBy(n), ~External(h), buf[h].role # "lost", GiveBack(h),
         NEW after \in CtxRecords,
         ctx' = [ctx EXCEPT ![n] = after],
         after.life # "none" => after.byte = ctx[n].byte - Subtracted(buf[h]),
         after.life = "open" =>
           /\ ctx[n].life = "open"
           /\ after.alloced
                = ctx[n].alloced - (IF buf[h].role = "linked" THEN Subtracted(buf[h]) ELSE 0)
  PROVE  Sums(usage', ctx', buf')
<1>1. h \in Live /\ buf[h] # NoBuf
  BY DEF OwnedBy, Live
<1>2. Subtracted(buf[h]) = Weight(buf[h])
  BY <1>1 DEF Subtracted, Weight, External
<1>3. buf' = [buf EXCEPT ![h] = NoBuf] /\ usage' = usage - Weight(buf[h])
  BY <1>2 DEF GiveBack
<1>4. ctx'[n] = after /\ \A m \in Net : m # n => ctx'[m] = ctx[m]
  BY BuffersAre
<1>5. ~Loses(buf[h])
  BY DEF Loses
<1> QED BY <1>2, <1>3, <1>4, <1>5, BuffersAre, FreeSums

LEMMA FreeSomeSums ==
  ASSUME MemInv, "FreeExternal" \notin Allow, Sums(usage, ctx, buf), NEW n \in Net,
         FreeRequest(n) \/ FreeAllContext(n)
  PROVE  Sums(usage', ctx', buf')
<1>1. CASE FreeRequest(n)
  <2>1. PICK h \in Linked(n) :
          /\ IsOpen(n) /\ ~External(h) /\ GiveBack(h)
          /\ ctx' = [ctx EXCEPT ![n].byte = @ - Subtracted(buf[h]),
                                ![n].alloced = @ - Subtracted(buf[h])]
    BY <1>1 DEF FreeRequest
  <2> DEFINE c == ctx[n]
             x == ctx[n].byte - Subtracted(buf[h])
             y == ctx[n].alloced - Subtracted(buf[h])
             after == [c EXCEPT !.byte = x, !.alloced = y]
  <2>2. ctx' = [ctx EXCEPT ![n] = after] /\ c \in CtxRecords
    BY <2>1, BuffersAre
  <2>3. x \in Int /\ y \in Int
    BY LinkedIs, ContextIs
  <2>4. h \in OwnedBy(n) /\ buf[h].role = "linked" /\ c.life = "open"
    BY <2>1 DEF Linked, IsOpen
  <2> HIDE DEF c, x, y
  <2>5. after \in CtxRecords /\ after.byte = x /\ after.alloced = y /\ after.life = c.life
    BY <2>2, <2>3 DEF CtxRecords
  <2> HIDE DEF after
  <2> QED BY <2>1, <2>2, <2>4, <2>5, GiveBackSums DEF c, x, y
<1>2. CASE FreeAllContext(n)
  <2>1. PICK h \in Linked(n) :
          /\ Idle(n)
          /\ IF External(h)
             THEN CmaDettach(h)
             ELSE /\ GiveBack(h)
                  /\ ctx' = [ctx EXCEPT ![n].byte = @ - Subtracted(buf[h]),
                                        ![n].alloced = @ - buf[h].n]
    BY <1>2 DEF FreeAllContext
  <2>2. h \in OwnedBy(n) /\ ctx[n].life = "closing" /\ buf[h].role = "linked"
    BY <2>1 DEF Linked, Idle
  <2>3. CASE External(h)
    <3>1. buf' = [buf EXCEPT ![h] = NoBuf] /\ usage' = usage /\ ctx' = ctx
      BY <2>1, <2>3 DEF CmaDettach
    <3>2. Weight(buf[h]) = 0 /\ buf \in BufTypes
      BY <2>3, BuffersAre DEF External, Weight
    <3>3. usage \in Int /\ ctx[n].byte \in Int
      BY <3>2, <2>2, SumsChange, ContextIs DEF Sums, OwnedBy, Live
    <3>4. usage' = usage - Weight(buf[h]) /\ ctx'[n].byte = ctx[n].byte - Weight(buf[h])
      BY <3>1, <3>2, <3>3
    <3>5. ~Loses(buf[h])
      BY <2>2 DEF Loses
    <3> QED BY <2>2, <3>1, <3>2, <3>4, <3>5, FreeSums
  <2>4. CASE ~External(h)
    <3> DEFINE c == ctx[n]
               x == ctx[n].byte - Subtracted(buf[h])
               y == ctx[n].alloced - buf[h].n
               after == [c EXCEPT !.byte = x, !.alloced = y]
    <3>1. ctx' = [ctx EXCEPT ![n] = after] /\ c \in CtxRecords /\ GiveBack(h)
      BY <2>1, <2>4, BuffersAre
    <3>2. x \in Int /\ y \in Int
      BY LinkedIs, ContextIs
    <3> HIDE DEF c, x, y
    <3>3. after \in CtxRecords /\ after.byte = x /\ after.life = c.life
      BY <3>1, <3>2 DEF CtxRecords
    <3> HIDE DEF after
    <3> QED BY <2>2, <2>4, <3>1, <3>3, GiveBackSums DEF c, x
  <2> QED BY <2>3, <2>4
<1> QED BY <1>1, <1>2

LEMMA DettachRequestSums ==
  ASSUME MemInv, Sums(usage, ctx, buf), usage \in Int, NEW n \in Net, ExtMemDettachRequest(n)
  PROVE  Sums(usage', ctx', buf')
<1>1. PICK h \in Linked(n) : IsOpen(n) /\ CmaDettach(h)
  BY DEF ExtMemDettachRequest
<1>2. /\ usage' = usage /\ ctx' = ctx /\ h \in OwnedBy(n) /\ ctx[n].life = "open"
      /\ buf[h].role = "linked"
  BY <1>1 DEF CmaDettach, Linked, IsOpen
<1>3. CASE External(h)
  <2>1. Weight(buf[h]) = 0 /\ buf \in BufTypes /\ ~Loses(buf[h])
    BY <1>2, <1>3, BuffersAre DEF External, Weight, Loses
  <2>2. ctx[n].byte \in Int /\ ctx[n].alloced \in Int
    BY ContextIs
  <2>3. /\ usage' = usage - Weight(buf[h]) /\ ctx'[n].byte = ctx[n].byte - Weight(buf[h])
        /\ ctx'[n].alloced
             = ctx[n].alloced - (IF buf[h].role = "linked" THEN Weight(buf[h]) ELSE 0)
    BY <1>2, <2>1, <2>2
  <2>4. buf' = [buf EXCEPT ![h] = NoBuf]
    BY <1>1, <1>3 DEF CmaDettach
  <2> QED BY <1>2, <2>1, <2>3, <2>4, FreeSums
<1>4. CASE ~External(h)
  <2>1. buf' = [buf EXCEPT ![h] = [buf[h] EXCEPT !.role = "lost"]]
    BY <1>1, <1>4 DEF CmaDettach
  <2> QED BY <1>2, <1>4, <2>1, BuffersAre, LoseSums DEF External
<1> QED BY <1>3, <1>4

(* A second registration loses the first private queue, if there is one.    *)
LEMMA RegisterOverIs ==
  ASSUME MemInv, NEW n \in Net, RegisterOver(n)
  PROVE  /\ UNCHANGED memVars
         /\ \/ buf' = buf
            \/ \E h \in Live : buf' = [buf EXCEPT ![h] = [buf[h] EXCEPT !.role = "lost"]]
<1> DEFINE q == ctx[n].queue
<1>1. /\ UNCHANGED memVars
      /\ buf' = [h \in Handle |-> IF h = q THEN [buf[h] EXCEPT !.role = "lost"] ELSE buf[h]]
  BY DEF RegisterOver
<1>2. CASE q = NoHandle
  BY <1>1, <1>2, BuffersAre, HandleAssumption DEF HandleAssumption, BufTypes
<1>3. CASE q # NoHandle
  <2>1. q \in Live
    BY <1>3 DEF MemInv, RolesInv, OwnedBy
  <2>2. buf' = [buf EXCEPT ![q] = [buf[q] EXCEPT !.role = "lost"]]
    BY <1>1, BuffersAre DEF BufTypes
  <2> QED BY <1>1, <2>1, <2>2
<1> QED BY <1>2, <1>3

LEMMA RegisterOverSums ==
  ASSUME MemInv, Sums(usage, ctx, buf), NEW n \in Net, RegisterOver(n)
  PROVE  Sums(usage', ctx', buf')
<1> DEFINE q == ctx[n].queue
           c == ctx[n]
           d == ctx'[n]
<1>1. /\ usage' = usage /\ ctx' = [ctx EXCEPT ![n].model = FALSE, ![n].queue = NoHandle]
      /\ buf' = [h \in Handle |-> IF h = q THEN [buf[h] EXCEPT !.role = "lost"] ELSE buf[h]]
  BY DEF RegisterOver, memVars
<1>2. \A m \in Net : m # n => ctx'[m] = ctx[m]
  BY <1>1, BuffersAre
<1>3. d.life = c.life /\ d.byte = c.byte /\ d.alloced = c.alloced
  <2>1. d = [c EXCEPT !.model = FALSE, !.queue = NoHandle] /\ c \in CtxRecords
    BY <1>1, BuffersAre
  <2> HIDE DEF c, d
  <2> QED BY <2>1 DEF CtxRecords
<1>4. CASE q = NoHandle
  <2>1. buf' = buf
    BY <1>1, <1>4, BuffersAre, HandleAssumption DEF HandleAssumption, BufTypes
  <2>2. ctx[n].life = "open" /\ "open" # "none"
    BY DEF RegisterOver, IsOpen
  <2>3. /\ ctx'[n].byte = IF ctx[n].life # "none" THEN ctx[n].byte ELSE CountedOf(n, buf)
        /\ ctx'[n].alloced = IF ctx[n].life = "open" THEN ctx[n].alloced
                             ELSE CountedListed(n, buf)
    BY <1>3, <2>2
  <2> QED BY <1>1, <1>2, <2>1, <2>3, SameSums
<1>5. CASE q # NoHandle
  <2>1. q \in OwnedBy(n) /\ q \in Live /\ buf[q].role = "queue" /\ ~External(q)
    BY <1>5 DEF MemInv, RolesInv, OwnedBy
  <2>2. buf' = [buf EXCEPT ![q] = [buf[q] EXCEPT !.role = "lost"]]
    BY <1>1, BuffersAre DEF BufTypes
  <2> HIDE DEF q
  <2> QED BY <1>1, <1>2, <2>1, <2>2, BuffersAre, LoseSums DEF External
<1> QED BY <1>4, <1>5

LEMMA AttachRequestSums ==
  ASSUME MemInv, Sums(usage, ctx, buf), usage \in Int, NEW n \in Net, ExtMemAttachRequest(n)
  PROVE  Sums(usage', ctx', buf')
<1>1. PICK h \in Handle \ Live, role \in {"linked", "lost"} :
        /\ IsOpen(n)
        /\ buf' = [buf EXCEPT ![h] = Handled(n, Result(Elsewhere, "ext", 1, FALSE), role)]
        /\ UNCHANGED <<hasPool, pool, share, usage, public, ctx>>
  BY DEF ExtMemAttachRequest
<1> DEFINE b == Handled(n, Result(Elsewhere, "ext", 1, FALSE), role)
<1>2. b \in Buffers /\ b.own = n /\ b.where = "ext"
  BY ExternalIs
<1>3. buf' = [buf EXCEPT ![h] = b] /\ usage' = usage /\ ctx' = ctx /\ IsOpen(n)
  BY <1>1
<1> HIDE DEF b
<1>4. Weight(b) = 0 /\ ctx[n].byte \in Int /\ ctx[n].alloced \in Int
  BY <1>2, ContextIs DEF Weight
<1>5. /\ usage' = usage + Weight(b) /\ ctx'[n].byte = ctx[n].byte + Weight(b)
      /\ ctx'[n].alloced = ctx[n].alloced + (IF b.role = "linked" THEN Weight(b) ELSE 0)
  BY <1>3, <1>4
<1> QED BY <1>2, <1>3, <1>5, BuffersAre, GiveSums

(* The net goes, with or without a private queue. *)
LEMMA DettachSums ==
  ASSUME MemInv, Sums(usage, ctx, buf), NEW n \in Net, ctx[n].life # "none",
         NEW after \in CtxRecords, Dettach(n, after),
         after.life # "none" =>
           after.byte = ctx[n].byte - IF ctx[n].queue = NoHandle THEN 0
                                      ELSE Subtracted(buf[ctx[n].queue]),
         after.life = "open" => ctx[n].life = "open" /\ after.alloced = ctx[n].alloced
  PROVE  Sums(usage', ctx', buf')
<1>1. ctx' = [ctx EXCEPT ![n] = after]
  BY DEF Dettach
<1>2. ctx'[n] = after /\ \A m \in Net : m # n => ctx'[m] = ctx[m]
  BY <1>1, BuffersAre
<1>3. ctx[n].byte \in Int /\ ctx[n].alloced \in Int
  BY ContextIs
<1>4. CASE ctx[n].queue = NoHandle
  <2>1. buf' = buf /\ usage' = usage
    BY <1>4 DEF Dettach, memVars
  <2>2. after.life # "none" => after.byte = ctx[n].byte
    BY <1>3, <1>4
  <2> QED BY <1>2, <2>1, <2>2, SameSums
<1>5. CASE ctx[n].queue # NoHandle
  <2> DEFINE q == ctx[n].queue
  <2>1. /\ q \in OwnedBy(n) /\ q \in Live /\ buf[q].role = "queue"
        /\ ~External(q) /\ GiveBack(q)
    BY <1>5 DEF MemInv, RolesInv, OwnedBy, Dettach
  <2>2. /\ after.life # "none" => after.byte = ctx[n].byte - Subtracted(buf[q])
        /\ after.life = "open" =>
             /\ ctx[n].life = "open"
             /\ after.alloced
                  = ctx[n].alloced - (IF buf[q].role = "linked" THEN Subtracted(buf[q]) ELSE 0)
    BY <1>3, <1>5, <2>1
  <2> HIDE DEF q
  <2> QED BY <1>1, <2>1, <2>2, GiveBackSums
<1> QED BY <1>4, <1>5

LEMMA UnregisterSums ==
  ASSUME MemInv, Sums(usage, ctx, buf), NEW n \in Net, Unregister(n)
  PROVE  Sums(usage', ctx', buf')
<1> DEFINE x == ctx[n].byte - IF ctx[n].queue = NoHandle THEN 0
                              ELSE Subtracted(buf[ctx[n].queue])
           c == ctx[n]
           after == [c EXCEPT !.model = FALSE, !.queue = NoHandle, !.byte = x]
<1>1. IsOpen(n) /\ Dettach(n, after)
  BY DEF Unregister
<1>2. c \in CtxRecords /\ c.life = "open"
  BY <1>1, ContextIs DEF IsOpen
<1>3. x \in Int
  <2>1. CASE ctx[n].queue = NoHandle
    BY <2>1, ContextIs
  <2>2. CASE ctx[n].queue # NoHandle
    <3> DEFINE q == ctx[n].queue
    <3>1. q \in Live
      BY <2>2 DEF MemInv, RolesInv, OwnedBy
    <3>2. buf[q].n \in Nat
      BY <3>1, BuffersAre DEF Buffers
    <3>3. Subtracted(buf[q]) \in Int
      BY <3>2, SizesAre
    <3> QED BY <2>2, <3>3, ContextIs
  <2> QED BY <2>1, <2>2
<1> HIDE DEF x, c
<1>4. /\ after \in CtxRecords /\ after.life = "open" /\ after.byte = x
      /\ after.alloced = c.alloced
  BY <1>2, <1>3 DEF CtxRecords
<1> HIDE DEF after
<1> QED BY <1>1, <1>2, <1>4, DettachSums DEF c, x

(* Of a file that is not open and has lost nothing only external pages may  *)
(* be left.                                                                 *)
LEMMA AbsentCounts ==
  ASSUME MemInv, NEW n \in Net, ctx[n].life = "none", Whole(n, buf)
  PROVE  CountedOf(n, buf) = 0 /\ CountedListed(n, buf) = 0
<1>1. ASSUME NEW h \in Handle
      PROVE  OwnWeight(n, buf[h]) = 0 /\ ListWeight(n, buf[h]) = 0
  <2>1. CASE buf[h] = NoBuf \/ buf[h].own # n
    BY <2>1 DEF OwnWeight, ListWeight
  <2>2. CASE buf[h] # NoBuf /\ buf[h].own = n
    <3>1. h \in Live /\ h \in OwnedBy(n) /\ buf[h] \in Buffers
      BY <2>2, BuffersAre DEF Live, OwnedBy
    <3>2. buf[h].role # "linked" /\ ctx[n].queue = NoHandle
      BY <3>1 DEF MemInv, RolesInv, Linked
    <3>3. h # NoHandle
      BY HandleAssumption DEF HandleAssumption
    <3>4. buf[h].role # "queue"
      BY <2>2, <3>1, <3>2, <3>3 DEF MemInv, RolesInv
    <3>5. buf[h].role = "lost"
      BY <3>1, <3>2, <3>4 DEF Buffers
    <3>6. External(h)
      BY <2>2, <3>5 DEF Whole, Loses, External
    <3>7. Weight(buf[h]) = 0
      BY <3>6 DEF External, Weight
    <3> QED BY <3>7 DEF OwnWeight, ListWeight
  <2> QED BY <2>1, <2>2
<1>2. ASSUME NEW w \in [Handle -> Nat], \A h \in Handle : w[h] = 0
      PROVE  Total(w) = 0
  <2>1. UNION {Tagged(w, h) : h \in Handle} = {}
    BY <1>2 DEF Tagged
  <2> QED BY <2>1, FS_EmptySet DEF Total
<1> DEFINE w == [h \in Handle |-> OwnWeight(n, buf[h])]
           v == [h \in Handle |-> ListWeight(n, buf[h])]
<1>3. w \in [Handle -> Nat] /\ v \in [Handle -> Nat]
      /\ \A h \in Handle : w[h] = 0 /\ v[h] = 0
  BY <1>1
<1> HIDE DEF w, v
<1>4. Total(w) = 0 /\ Total(v) = 0
  BY <1>2, <1>3
<1> QED BY <1>4 DEF CountedOf, CountedListed, w, v

(* Requests that are about the context alone. *)
LEMMA ContextSums ==
  ASSUME MemInv, Sums(usage, ctx, buf), NEW n \in Net,
         Open(n) \/ RegisterPublic(n) \/ Invoke(n) \/ Finish(n) \/ Close(n)
  PROVE  Sums(usage', ctx', buf')
<1> DEFINE c == ctx[n]
           d == ctx'[n]
<1>1. usage' = usage /\ buf' = buf
  BY DEF Open, RegisterPublic, Invoke, Finish, Close, memVars
<1>2. ctx \in [Net -> CtxRecords] /\ c \in CtxRecords
  BY BuffersAre
<1>3. \A m \in Net : m # n => ctx'[m] = ctx[m]
  BY <1>2 DEF Open, RegisterPublic, Invoke, Finish, Close
<1>4. CASE Open(n)
  <2>1. d = Opened /\ ctx[n].life = "none"
    BY <1>2, <1>4 DEF Open
  <2>2. Opened.byte = 0 /\ Opened.alloced = 0
    BY DEF Opened, Absent
  <2>3. Whole(n, buf) => CountedOf(n, buf) = 0 /\ CountedListed(n, buf) = 0
    BY <2>1, AbsentCounts
  <2> QED BY <1>1, <1>3, <2>1, <2>2, <2>3, SameSums
<1>5. CASE ~Open(n)
  <2>1. \/ d = [c EXCEPT !.model = TRUE]
        \/ d = [c EXCEPT !.cnt = 1]
        \/ d = [c EXCEPT !.cnt = 0]
        \/ d = [c EXCEPT !.life = "closing"]
    BY <1>2, <1>5 DEF RegisterPublic, Invoke, Finish, Close
  <2>2. c.life # "none" \/ d.life = c.life
    <3>1. RegisterPublic(n) \/ Invoke(n) \/ Close(n) => c.life # "none"
      BY DEF RegisterPublic, Invoke, Close, IsOpen
    <3>2. Finish(n) => d = [c EXCEPT !.cnt = 0]
      BY <1>2 DEF Finish
    <3> HIDE DEF c, d
    <3>3. d = [c EXCEPT !.cnt = 0] => d.life = c.life
      BY <1>2 DEF CtxRecords
    <3> QED BY <1>5, <3>1, <3>2, <3>3
  <2> HIDE DEF c, d
  <2>3. /\ d.byte = c.byte /\ d.alloced = c.alloced
        /\ d.life = c.life \/ d.life = "closing"
    BY <1>2, <2>1 DEF CtxRecords
  <2>4. /\ d.life # "none" => c.life # "none"
        /\ d.life = "open" => c.life = "open"
    BY <2>2, <2>3
  <2> QED BY <1>1, <1>3, <2>3, <2>4, SameSums DEF c, d
<1> QED BY <1>4, <1>5

LEMMA UsageNext ==
  ASSUME MemInv, "ShareRefused" \notin Allow, "DmaFails" \notin Allow,
         "FreeExternal" \notin Allow,
         usage \in Int, Sums(usage, ctx, buf), [Next]_vars
  PROVE  Sums(usage', ctx', buf')
<1>1. ASSUME UNCHANGED vars
      PROVE  Sums(usage', ctx', buf')
  BY <1>1 DEF vars, memVars
<1>2. ASSUME NEW n \in Net, DestroyContext(n)
      PROVE  Sums(usage', ctx', buf')
  BY <1>2, AbsentIs, DettachSums DEF DestroyContext, Idle
<1> QED BY <1>1, <1>2, AllocRequestSums, AllocUndoneSums, RegisterOverSums,
        RegisterPrivateSums, FreeSomeSums,
        AttachRequestSums, DettachRequestSums, UnregisterSums, ContextSums DEF Next

(* The counts of the pool and of the area in the same way. *)
LEMMA GotIs ==
  ASSUME MemInv, CountInv, "ShareRefused" \notin Allow,
         NEW request \in Requests, NEW pages \in 1 .. MaxPages, NEW works \in BOOLEAN,
         Expected(request, CmaAlloc(request, pages, works), works)
  PROVE  LET r == CmaAlloc(request, pages, works) IN
         /\ Got(r) /\ Counts(r.pool) /\ r.pool.bits = pool.bits
         /\ ~hasPool => FirstOfArea(r) \/ NextOfArea(r) \/ NoArea(r)
         /\ Added(r) \in Int /\ Subtracted(r) \in Int
<1> DEFINE r == CmaAlloc(request, pages, works)
<1>1. LayoutInv /\ share \in ShareRecords
  BY SharedRecords DEF MemInv
<1>2. Got(r) /\ Counts(r.pool) /\ r.pool.bits = pool.bits
  BY <1>1, CmaAllocIs, CmaAllocCounts
<1>3. ~hasPool => FirstOfArea(r) \/ NextOfArea(r) \/ NoArea(r)
  <2>1. pages \in Nat
    BY PagesAssumption DEF PagesAssumption
  <2> QED BY <1>1, <2>1, CmaAllocDma
<1>4. Added(r) \in Int /\ Subtracted(r) \in Int
  <2> HIDE DEF r
  <2> QED BY <1>2, SizesAre DEF Got
<1> QED BY <1>2, <1>3, <1>4

LEMMA GiveBooks ==
  ASSUME MemInv, CountInv, DmaAreaInv, "ShareRefused" \notin Allow,
         NEW n \in Net, NEW h \in Handle \ Live, NEW role \in {"linked", "queue"},
         NEW request \in Requests, NEW pages \in 1 .. MaxPages, NEW works \in BOOLEAN,
         Expected(request, CmaAlloc(request, pages, works), works),
         Give(n, h, CmaAlloc(request, pages, works), role)
  PROVE  PoolCounts' /\ DmaAreaInv' /\ usage' \in Int
<1> DEFINE r == CmaAlloc(request, pages, works)
<1>1. /\ Got(r) /\ Counts(r.pool) /\ r.pool.bits = pool.bits
      /\ ~hasPool => FirstOfArea(r) \/ NextOfArea(r) \/ NoArea(r)
      /\ Added(r) \in Int
  BY GotIs
<1> HIDE DEF r
<1>2. Give(n, h, r, role)
  BY DEF r
<1>3. DmaAreaInv'
  BY <1>1, <1>2, GiveDma DEF MemInv
<1>4. PoolCounts' /\ usage' \in Int
  BY <1>1, <1>2, CountsAre DEF Give, PoolCounts
<1> QED BY <1>3, <1>4

LEMMA UndoneBooks ==
  ASSUME MemInv, CountInv, DmaAreaInv, "ShareRefused" \notin Allow,
         NEW n \in Net, AllocUndone(n)
  PROVE  PoolCounts' /\ DmaAreaInv' /\ usage' \in Int
<1>1. PICK request \in Requests, pages \in 1 .. MaxPages, works \in BOOLEAN :
        LET r == CmaAlloc(request, pages, works)
            left == CmaFree(r, r.pool, r.share)
        IN /\ IsOpen(n)
           /\ Expected(request, r, works)
           /\ pool' = left.pool /\ share' = left.share
           /\ usage' = usage + Added(r) - Subtracted(r)
           /\ ctx' = [ctx EXCEPT ![n].byte = @ + Added(r) - Subtracted(r)]
           /\ UNCHANGED <<hasPool, public, buf>>
  BY DEF AllocUndone
<1> DEFINE r == CmaAlloc(request, pages, works)
           left == CmaFree(r, r.pool, r.share)
<1>2. /\ Got(r) /\ Counts(r.pool) /\ r.pool.bits = pool.bits
      /\ ~hasPool => FirstOfArea(r) \/ NextOfArea(r) \/ NoArea(r)
      /\ Added(r) \in Int /\ Subtracted(r) \in Int
  BY <1>1, GotIs
<1>3. /\ pool' = left.pool /\ share' = left.share
      /\ usage' = usage + Added(r) - Subtracted(r)
      /\ UNCHANGED <<hasPool, public, buf>>
  BY <1>1
<1> HIDE DEF r
<1>4. LayoutInv /\ PoolCounts /\ usage \in Int
  BY CountsAre DEF MemInv
<1>5. DmaAreaInv'
  BY <1>2, <1>3, <1>4, UndoneDma
<1>6. Counts(left.pool) /\ left.pool.bits = pool.bits
  BY <1>2, <1>4, UndoneCounts
<1> HIDE DEF left
<1>7. PoolCounts' /\ usage' \in Int
  BY <1>2, <1>3, <1>4, <1>6 DEF PoolCounts
<1> QED BY <1>5, <1>7

LEMMA FreeBooks ==
  ASSUME MemInv, CountInv, DmaAreaInv, NEW h \in Live, GiveBack(h)
  PROVE  PoolCounts' /\ DmaAreaInv' /\ usage' \in Int
<1>1. LayoutInv /\ PoolCounts /\ usage \in Int
  BY CountsAre DEF MemInv
<1>2. buf[h].n \in Nat
  BY BuffersAre DEF Buffers
<1>3. usage' \in Int
  BY <1>1, <1>2, SizesAre DEF GiveBack
<1> QED BY <1>1, <1>3, GiveBackCounts, GiveBackDma

(* No memory of the driver moves: an external buffer comes or goes, or a    *)
(* buffer changes its role, or none does.                                   *)
LEMMA OtherBooks ==
  ASSUME MemInv, CountInv, DmaAreaInv, UNCHANGED memVars,
         \/ buf' = buf
         \/ \E h \in Handle \ Live, b \in Buffers :
              b.where = "ext" /\ buf' = [buf EXCEPT ![h] = b]
         \/ \E h \in Live : External(h) /\ buf' = [buf EXCEPT ![h] = NoBuf]
         \/ \E h \in Live : buf' = [buf EXCEPT ![h] = [buf[h] EXCEPT !.role = "lost"]]
  PROVE  PoolCounts' /\ DmaAreaInv' /\ usage' \in Int
<1>1. /\ hasPool' = hasPool /\ pool' = pool /\ share' = share /\ usage' = usage
      /\ public' = public
  BY DEF memVars
<1>2. PoolCounts' /\ usage' \in Int
  BY <1>1, CountsAre DEF PoolCounts
<1>3. KnowsSet' = KnowsSet
      /\ \A h \in Live' : buf'[h].where = "area" => h \in Live /\ buf[h].where = "area"
  <2>1. buf \in [Handle -> Buffers \cup {NoBuf}]
    BY DEF MemInv, LayoutInv, PlaceInv
  <2>2. CASE buf' = buf
    BY <2>2 DEF KnowsSet, KnowsArea, Live
  <2>3. ASSUME NEW h \in Handle \ Live, NEW b \in Buffers, b.where = "ext",
               buf' = [buf EXCEPT ![h] = b]
        PROVE  KnowsSet' = KnowsSet
               /\ \A g \in Live' : buf'[g].where = "area" => g \in Live /\ buf[g].where = "area"
    BY <2>1, <2>3 DEF KnowsSet, KnowsArea, Live
  <2>4. ASSUME NEW h \in Live, External(h), buf' = [buf EXCEPT ![h] = NoBuf]
        PROVE  KnowsSet' = KnowsSet
               /\ \A g \in Live' : buf'[g].where = "area" => g \in Live /\ buf[g].where = "area"
    BY <2>1, <2>4 DEF KnowsSet, KnowsArea, Live, External
  <2>5. ASSUME NEW h \in Live, buf' = [buf EXCEPT ![h] = [buf[h] EXCEPT !.role = "lost"]]
        PROVE  KnowsSet' = KnowsSet
               /\ \A g \in Live' : buf'[g].where = "area" => g \in Live /\ buf[g].where = "area"
    <3> DEFINE b == [buf[h] EXCEPT !.role = "lost"]
    <3>1. buf[h] \in Buffers /\ h \in Handle
      BY <2>1 DEF Live
    <3>2. b \in Buffers /\ b.where = buf[h].where /\ b.shared = buf[h].shared
      BY <3>1 DEF Buffers
    <3>3. buf' = [buf EXCEPT ![h] = b]
      BY <2>5
    <3> HIDE DEF b
    <3>4. Live' = Live /\ \A g \in Live : /\ buf'[g].where = buf[g].where
                                         /\ buf'[g].shared = buf[g].shared
      BY <2>1, <3>1, <3>2, <3>3, HandleAssumption DEF HandleAssumption, Live
    <3> QED BY <3>4 DEF KnowsSet, KnowsArea
  <2> QED BY <2>2, <2>3, <2>4, <2>5
<1>4. DmaAreaInv'
  <2>1. DmaAreaInv' <=>
          (~hasPool' => /\ DmaBooks(share', KnowsSet')
                        /\ \A g \in Live' : buf'[g].where = "area" => share'.dma # "none")
    BY DEF DmaAreaInv, DmaBooks, KnowsSet
  <2> QED BY <1>1, <1>3, <2>1, DmaAreaIs
<1> QED BY <1>2, <1>4

LEMMA BooksNext ==
  ASSUME MemInv, CountInv, DmaAreaInv, "ShareRefused" \notin Allow, [Next]_vars
  PROVE  PoolCounts' /\ DmaAreaInv' /\ usage' \in Int
<1> DEFINE Goal == PoolCounts' /\ DmaAreaInv' /\ usage' \in Int
<1>1. CASE UNCHANGED vars
  BY <1>1, OtherBooks DEF vars
<1>2. ASSUME NEW n \in Net, NEW after, Dettach(n, after)
      PROVE  Goal
  <2>1. CASE ctx[n].queue = NoHandle
    BY <1>2, <2>1, OtherBooks DEF Dettach
  <2>2. CASE ctx[n].queue # NoHandle
    <3>1. ctx[n].queue \in Live /\ GiveBack(ctx[n].queue)
      BY <1>2, <2>2 DEF Dettach, MemInv, RolesInv, OwnedBy
    <3> QED BY <3>1, FreeBooks
  <2> QED BY <2>1, <2>2
<1>3. ASSUME NEW n \in Net,
             Open(n) \/ RegisterPublic(n) \/ Invoke(n) \/ Finish(n) \/ Close(n)
      PROVE  Goal
  BY <1>3, OtherBooks DEF Open, RegisterPublic, Invoke, Finish, Close
<1>4. ASSUME NEW n \in Net, AllocRequest(n)
      PROVE  Goal
  <2>1. "linked" \in {"linked", "queue"}
    OBVIOUS
  <2> QED BY <1>4, <2>1, GiveBooks DEF AllocRequest
<1>5. ASSUME NEW n \in Net, RegisterPrivate(n)
      PROVE  Goal
  <2>1. "queue" \in {"linked", "queue"} /\ "plain" \in Requests
    BY DEF Requests
  <2> QED BY <1>5, <2>1, GiveBooks DEF RegisterPrivate
<1>6. ASSUME NEW n \in Net, NEW h \in Linked(n), CmaDettach(h) \/ GiveBack(h)
      PROVE  Goal
  <2>1. h \in Live
    BY DEF Linked, OwnedBy
  <2> QED BY <1>6, <2>1, FreeBooks, OtherBooks DEF CmaDettach, memVars
<1>7. ASSUME NEW n \in Net, FreeRequest(n) \/ ExtMemDettachRequest(n) \/ FreeAllContext(n)
      PROVE  Goal
  BY <1>6, <1>7 DEF FreeRequest, ExtMemDettachRequest, FreeAllContext
<1>8. ASSUME NEW n \in Net, ExtMemAttachRequest(n)
      PROVE  Goal
  <2>1. PICK h \in Handle \ Live, role \in {"linked", "lost"} :
          /\ buf' = [buf EXCEPT ![h] = Handled(n, Result(Elsewhere, "ext", 1, FALSE), role)]
          /\ UNCHANGED memVars
    BY <1>8 DEF ExtMemAttachRequest, memVars
  <2> DEFINE b == Handled(n, Result(Elsewhere, "ext", 1, FALSE), role)
  <2>2. b \in Buffers /\ b.where = "ext"
    BY ExternalIs
  <2> HIDE DEF b
  <2> QED BY <2>1, <2>2, OtherBooks DEF b
<1>10. ASSUME NEW n \in Net, RegisterOver(n)
       PROVE  Goal
  <2>1. /\ UNCHANGED memVars
        /\ \/ buf' = buf
           \/ \E h \in Live : buf' = [buf EXCEPT ![h] = [buf[h] EXCEPT !.role = "lost"]]
    BY <1>10, RegisterOverIs
  <2> QED BY <2>1, OtherBooks
<1> HIDE DEF Goal
<1>9. CASE Next
  BY <1>9, <1>2, <1>3, <1>4, <1>5, <1>7, <1>8, <1>10, UndoneBooks DEF Next, Unregister, DestroyContext, Goal
<1> QED BY <1>1, <1>9 DEF Goal

-----------------------------------------------------------------------------
(* The theorems. *)

(* Init once more: the pool has nothing but the public queue.               *)
LEMMA BooksInit ==
  ASSUME Init
  PROVE  CountInv /\ DmaAreaInv /\ UsageExact
<1>1. PICK f \in Failed :
        LET empty == NewPool(RegionPages(f), {})
            first == IF f < 10 THEN FirstFit(empty, PublicPages)
                     ELSE [at |-> Invalid, pool |-> NewPool(0, {})]
        IN /\ hasPool = (f < 10)
           /\ pool = first.pool
           /\ public = first.at
           /\ share = [ref |-> 0, max |-> 0, start |-> Invalid, dma |-> "none"]
           /\ usage = 0
           /\ buf = [h \in Handle |-> NoBuf]
           /\ ctx = [n \in Net |-> Absent]
  BY DEF Init
<1>2. /\ share = [ref |-> 0, max |-> 0, start |-> Invalid, dma |-> "none"]
      /\ usage = 0 /\ buf = [h \in Handle |-> NoBuf] /\ ctx = [n \in Net |-> Absent]
      /\ hasPool = (f < 10)
  BY <1>1
<1>3. Live = {} /\ \A n : OwnedBy(n) = {} /\ Linked(n) = {}
  BY <1>2 DEF Live, OwnedBy, Linked
<1>4. DmaAreaInv
  <2>1. {h \in Handle : KnowsArea(h)} = {}
    BY <1>3 DEF KnowsArea
  <2>2. Cardinality({h \in Handle : KnowsArea(h)}) = 0
    BY <2>1, FS_EmptySet
  <2> QED BY <1>2, <1>3, <2>2 DEF DmaAreaInv
<1>5. UsageExact
  <2>1. Counted({}) = 0
    <3>1. UNION {{h} \X (1 .. buf[h].n) : h \in CountedIn({})} = {}
      BY DEF CountedIn
    <3> QED BY <3>1, FS_EmptySet DEF Counted
  <2>2. \A n \in Net : ctx[n].life = "none"
    BY <1>2 DEF Absent
  <2> QED BY <1>2, <1>3, <2>1, <2>2 DEF UsageExact, IsOpen
<1>6. ASSUME NEW bits \in Nat
      PROVE  Counts(NewPool(bits, {})) /\ NewPool(bits, {}).bits = bits
  <2>1. {} \cap Run(0, bits) = {} /\ Cardinality({}) = 0
    BY FS_EmptySet
  <2> QED BY <2>1 DEF NewPool, Counts, PoolRecords
<1>7. PoolCounts
  <2>1. f \in 0 .. 10 /\ Reserved \in Nat
    BY PoolAssumption DEF PoolAssumption
  <2>2. CASE f < 10
    <3> DEFINE bits == RegionPages(f)
               empty == NewPool(bits, {})
               first == FirstFit(empty, PublicPages)
    <3>1. pool = first.pool /\ public = first.at /\ PublicPages \in Nat
      BY <1>1, <2>2, PagesAssumption DEF PagesAssumption
    <3>2. f \in 0 .. 9
      BY <2>1, <2>2
    <3>3. bits \in 0 .. Reserved
      <4>1. bits \in Nat
        BY <3>2, RegionIs
      <4>2. bits <= Reserved
        <5> DEFINE q == Reserved \div 16
        <5>1. q \in Nat /\ f \in Nat
          BY <2>1, <3>2
        <5> HIDE DEF q
        <5>2. f * q \in Nat
          BY <5>1
        <5>3. bits = Reserved - f * q
          BY DEF RegionPages, q
        <5> QED BY <2>1, <5>2, <5>3
      <4> QED BY <2>1, <4>1, <4>2
    <3>4. Counts(empty) /\ empty.bits = bits
      <4> HIDE DEF bits
      <4> QED BY <1>6, <2>1, <3>3
    <3> HIDE DEF bits, empty
    <3>5. Counts(first.pool) /\ first.pool.bits = bits
      BY <3>1, <3>4, FirstFitCounts
    <3>6. first.at \in {Invalid} \cup Nat
      <4>1. empty \in PoolRecords
        BY <3>4 DEF Counts
      <4>2. \/ first.at = Invalid
            \/ first.at \in 0 .. (empty.bits - PublicPages)
        BY <3>1, <4>1, FirstFitIs
      <4>3. empty.bits - PublicPages \in Int
        BY <3>1, <4>1 DEF PoolRecords
      <4> HIDE DEF first
      <4> QED BY <4>2, <4>3
    <3> HIDE DEF first
    <3> QED BY <1>2, <3>1, <3>3, <3>5, <3>6 DEF PoolCounts
  <2>3. CASE ~(f < 10)
    <3>1. pool = NewPool(0, {}) /\ public = Invalid
      BY <1>1, <2>3
    <3> QED BY <1>2, <1>6, <2>1, <3>1 DEF PoolCounts
  <2> QED BY <2>2, <2>3
<1>8. CountInv
  BY <1>2, <1>7, CountsAre
<1> QED BY <1>4, <1>5, <1>8

LEMMA CountsAreNext ==
  CountInv' <=> PoolCounts' /\ (usage \in Int)'
BY CountsAre, PTL

(* The pool's count and the references of a DMA area are right, whatever    *)
(* DMA allocations fail.                                                    *)
LEMMA BooksInvariant ==
  ASSUME "ShareRefused" \notin Allow
  PROVE  Spec => [](MemInv /\ CountInv /\ DmaAreaInv)
<1> DEFINE I == MemInv /\ CountInv /\ DmaAreaInv
<1>1. Init => I
  BY MemInitInv, BooksInit
<1>2. I /\ [Next]_vars => I'
  BY MemNextInv, BooksNext, CountsAreNext
<1> HIDE DEF I
<1>3. Spec => []I
  BY <1>1, <1>2, PTL DEF Spec
<1> QED BY <1>3 DEF I

(* Every variable has its type, even if DMA allocations fail.               *)
THEOREM MemTypeCorrect ==
  ASSUME "ShareRefused" \notin Allow
  PROVE  Spec => []MemTypeOK
<1>1. MemInv /\ CountInv /\ DmaAreaInv => MemTypeOK
  <2> SUFFICES ASSUME MemInv, CountInv, DmaAreaInv
               PROVE  MemTypeOK
    OBVIOUS
  <2>1. pool \in [bits : Nat, map : SUBSET Run(0, Reserved), used : Int]
    <3>1. Reserved \in Nat
      BY PoolAssumption DEF PoolAssumption
    <3>2. /\ pool \in [bits : 0 .. Reserved, map : SUBSET Int, used : Int]
          /\ pool.map \subseteq Run(0, pool.bits)
      BY DEF CountInv
    <3>3. pool.bits \in Nat /\ Run(0, pool.bits) \subseteq Run(0, Reserved)
      BY <3>1, <3>2 DEF Run
    <3> QED BY <3>2, <3>3
  <2>2. share \in ShareRecords /\ share.ref \in Nat
    <3>1. share \in ShareRecords
      BY SharedRecords DEF MemInv
    <3>2. CASE hasPool
      BY <3>1, <3>2, InAreaFinite DEF MemInv, LayoutInv, AreaInv, InAreaSet
    <3>3. CASE ~hasPool
      BY <3>1, <3>3, DmaAreaIs, KnowsFinite DEF DmaBooks
    <3> QED BY <3>1, <3>2, <3>3
  <2>3. share \in [ref : Nat, max : Nat, start : {Invalid} \cup Nat,
                   dma : {"none", "live", "freed"}]
    BY <2>2 DEF ShareRecords
  <2> QED BY <2>1, <2>3, BuffersAre DEF MemTypeOK, CountInv, BufTypes, CtxRecords
<1> HIDE DEF MemInv, CountInv, DmaAreaInv
<1> QED BY <1>1, BooksInvariant, PTL

(* The reference count of the area, the bitmap with its count and the usage *)
(* counters agree with the memory that is taken, whatever clients lose, if  *)
(* no share buffer is refused, no DMA allocation fails and no client frees  *)
(* external pages: each of the three upsets a counter.                      *)
THEOREM BooksAgree ==
  ASSUME "ShareRefused" \notin Allow, "DmaFails" \notin Allow, "FreeExternal" \notin Allow
  PROVE  Spec => []BooksExact
<1> DEFINE I == MemInv /\ CountInv /\ DmaAreaInv
           J == I /\ UsageExact
<1>1. Init => J
  BY MemInitInv, BooksInit
<1>2. J /\ [Next]_vars => J'
  <2> SUFFICES ASSUME J, [Next]_vars
               PROVE  J'
    OBVIOUS
  <2>1. I'
    BY MemNextInv, BooksNext, CountsAreNext
  <2>2. Sums(usage, ctx, buf)
    BY BuffersAre, UsageIs
  <2>3. Sums(usage', ctx', buf')
    BY <2>2, UsageNext DEF CountInv
  <2>4. buf' \in BufTypes
    BY <2>1 DEF MemInv, LayoutInv, PlaceInv, BufTypes
  <2>5. UsageExact'
    BY <2>3, <2>4, UsageIsNext
  <2> QED BY <2>1, <2>5
<1>3. J => BooksExact
  <2> SUFFICES ASSUME J
               PROVE  BooksExact
    OBVIOUS
  <2>1. ShareExact
    <3>1. hasPool => share.ref = Cardinality({h \in Handle : InArea(h)})
      BY DEF MemInv, LayoutInv, AreaInv
    <3>2. \A h \in Handle : InArea(h) => Pages(h) \subseteq Area
      <4>1. \A h \in Handle : InArea(h) => hasPool
        BY DEF MemInv, LayoutInv, PlaceInv, InArea
      <4> QED BY <4>1 DEF MemInv, LayoutInv, AreaInv
    <3>3. share.ref = 0 => share.max = 0
      BY DEF MemInv, LayoutInv, AreaInv, DmaAreaInv
    <3> QED BY <3>1, <3>2, <3>3 DEF ShareExact
  <2>2. PoolExact
    BY MapIsExact DEF PoolExact, CountInv
  <2> QED BY <2>1, <2>2 DEF BooksExact
<1> HIDE DEF J
<1> QED BY <1>1, <1>2, <1>3, PTL DEF Spec

-----------------------------------------------------------------------------
(* The steps as steps of PageStore.                                         *)

(* The free pages of the store are those whose bit is clear. *)
LEMMA FreePages ==
  ASSUME MemInv, hasPool
  PROVE  Store!Free = Run(0, Reserved) \ pool.map
<1>1. SwapArea = Area
  BY DEF SwapArea
<1>2. pool.map = (UNION {Pages(h) : h \in {g \in Handle : Alone(g)}}) \cup Area \cup PublicRun
  BY MapIsExact DEF MapExact
<1>3. UNION {Held[h] : h \in Handle} = UNION {Pages(h) : h \in {g \in Handle : Alone(g)}}
  BY DEF Held
<1> QED BY <1>1, <1>2, <1>3 DEF Store!Free

(* A run whose bits get set lies within the region. *)
LEMMA RunInRegion ==
  ASSUME NEW s \in Nat, NEW n \in Nat, Run(s, n) \subseteq Run(0, Reserved)
  PROVE  Run(s, n) \in RegionRuns
<1>1. Reserved \in Nat
  BY PoolAssumption DEF PoolAssumption
<1>2. CASE n = 0
  <2>1. Run(s, n) = Run(0, 0)
    BY <1>2 DEF Run
  <2> QED BY <1>1, <2>1 DEF RegionRuns
<1>3. CASE n > 0
  <2>1. s \in Run(s, n) /\ s + n - 1 \in Run(s, n)
    BY <1>3 DEF Run
  <2>2. s \in 0 .. Reserved /\ n \in 0 .. Reserved
    BY <1>1, <1>3, <2>1 DEF Run
  <2> QED BY <2>2 DEF RegionRuns
<1> QED BY <1>2, <1>3

(* What one buffer's change is to the store. *)
LEMMA HeldOfOne ==
  ASSUME NEW h \in Handle,
         \A g \in Handle : g # h => (Alone(g)' <=> Alone(g)) /\ Pages(g)' = Pages(g)
  PROVE  Held' = [Held EXCEPT ![h] = IF Alone(h)' THEN Pages(h)' ELSE {}]
<1>1. Held' = [g \in Handle |-> IF Alone(g)' THEN Pages(g)' ELSE {}]
  BY DEF Held
<1> QED BY <1>1 DEF Held

(* Steps that move no pages, whatever they do to other buffers. *)
LEMMA StoreFrame ==
  ASSUME UNCHANGED <<hasPool, public>>, hasPool => share' = share,
         \A g \in Handle : /\ Alone(g)' <=> Alone(g)
                           /\ InArea(g)' <=> InArea(g)
                           /\ Alone(g) => Pages(g)' = Pages(g)
  PROVE  UNCHANGED Store!storeVars
<1>1. Held' = Held
  BY DEF Held
<1>2. Users' = Users
  BY DEF Users
<1>3. SwapArea' = SwapArea /\ PublicRun' = PublicRun
  BY DEF SwapArea, Area, PublicRun
<1> QED BY <1>1, <1>2, <1>3 DEF Store!storeVars

StoreStep == Store!StoreNext \/ UNCHANGED Store!storeVars

(* A buffer that is handed out gets free pages of its own, or joins the     *)
(* area, which may grow for it.                                             *)
LEMMA GiveStore ==
  ASSUME MemInv, MemTypeOK', NEW h \in Handle \ Live, NEW r, Got(r), NEW n \in Net,
         NEW role \in {"linked", "queue"}, Give(n, h, r, role)
  PROVE  StoreStep
<1> DEFINE b == Handled(n, r, role)
<1>1. /\ pool' = r.pool /\ share' = r.share /\ hasPool' = hasPool /\ public' = public
      /\ buf' = [buf EXCEPT ![h] = b]
  BY DEF Give
<1>2. /\ b.at = r.at /\ b.n = r.n /\ b.where = r.where /\ b.shared = r.shared
      /\ r.at \in {Invalid} \cup Nat /\ r.n \in Nat /\ b \in Buffers
  BY DEF Handled, Got, NoPages, OwnPages, AreaPages, Buffers
<1> HIDE DEF b
<1>3. buf \in [Handle -> Buffers \cup {NoBuf}]
  BY DEF MemInv, LayoutInv, PlaceInv
<1>4. /\ \A g \in Handle : g # h => /\ Alone(g)' <=> Alone(g)
                                    /\ InArea(g)' <=> InArea(g)
                                    /\ Pages(g)' = Pages(g)
      /\ Alone(h)' <=> b.where = "pool" /\ ~b.shared
      /\ InArea(h)' <=> b.where = "pool" /\ b.shared
      /\ Pages(h)' = Run(b.at, b.n)
      /\ ~Alone(h) /\ ~InArea(h)
  BY <1>1, <1>2, <1>3, Given
<1>5. Held' = [Held EXCEPT ![h] = IF Alone(h)' THEN Pages(h)' ELSE {}]
  BY <1>4, HeldOfOne
<1>6. Held[h] = {} /\ h \notin Users
  BY <1>4 DEF Held, Users
<1>7. PublicRun' = PublicRun /\ pool'.map \subseteq Run(0, Reserved)
  BY <1>1 DEF PublicRun, MemTypeOK
<1>8. CASE NoPages(r)
  <2>1. ~Alone(h)' /\ ~InArea(h)' /\ (hasPool => share' = share)
    BY <1>1, <1>2, <1>4, <1>8 DEF NoPages
  <2>2. UNCHANGED Store!storeVars
    BY <1>1, <1>4, <2>1, StoreFrame
  <2> QED BY <2>2 DEF StoreStep
<1>9. CASE OwnPages(r)
  <2> DEFINE S == Run(r.at, r.n)
  <2>1. /\ hasPool /\ share' = share /\ r.at \in Nat /\ r.n \in Nat
        /\ S \cap pool.map = {} /\ pool \in PoolRecords
    BY <1>1, <1>2, <1>9 DEF OwnPages, MemInv, LayoutInv, BitsInv, PoolRecords
  <2>2. pool'.map = pool.map \cup S
    BY <1>1, <1>9, <2>1, TakeIs DEF OwnPages
  <2>3. S \in RegionRuns /\ S \subseteq Run(0, Reserved)
    BY <1>7, <2>1, <2>2, RunInRegion
  <2>4. Alone(h)' /\ ~InArea(h)' /\ Pages(h)' = S
    BY <1>2, <1>4, <1>9 DEF OwnPages
  <2>5. Held' = [Held EXCEPT ![h] = S]
    BY <1>5, <2>4
  <2>6. Users' = Users /\ SwapArea' = SwapArea
    BY <1>1, <1>4, <2>1, <2>4 DEF Users, SwapArea, Area
  <2>7. S \subseteq Store!Free
    BY <2>1, <2>3, FreePages
  <2> HIDE DEF S
  <2>8. Store!Obtain(h, S)
    BY <1>6, <1>7, <2>5, <2>6, <2>7 DEF Store!Obtain
  <2> QED BY <2>3, <2>8 DEF StoreStep, Store!StoreNext
<1>10. CASE AreaPages(r)
  <2>1. PICK need \in Nat :
          /\ r.at \in Nat
          /\ Area \subseteq Run(r.at, need)
          /\ Run(r.at, need) \cap (pool.map \ Area) = {}
          /\ r.pool.map = (pool.map \ Area) \cup Run(r.at, need)
          /\ r.share = [share EXCEPT !.ref = @ + 1, !.max = need, !.start = r.at]
    BY <1>10 DEF AreaPages
  <2> DEFINE A == Run(r.at, need)
  <2>2. hasPool /\ ~Alone(h)' /\ InArea(h)'
    BY <1>2, <1>4, <1>10 DEF AreaPages
  <2>3. share \in ShareRecords
    BY DEF MemInv, LayoutInv, AreaInv, ShareRecords
  <2>4. SwapArea' = A /\ SwapArea = Area
    BY <1>1, <2>1, <2>2, <2>3 DEF SwapArea, Area, ShareRecords
  <2>5. A \in RegionRuns /\ A \subseteq Run(0, Reserved)
    BY <1>1, <1>7, <2>1, RunInRegion
  <2>6. Area \subseteq A /\ A \ Area \subseteq Store!Free
    BY <2>1, <2>2, <2>5, FreePages
  <2>7. Held' = Held
    BY <1>5, <1>6, <2>2 DEF Held
  <2>8. Users' = Users \cup {h}
    BY <1>4, <2>2 DEF Users
  <2> HIDE DEF A
  <2>9. Store!Join(h, A)
    BY <1>6, <1>7, <2>4, <2>6, <2>7, <2>8 DEF Store!Join, Store!Widened
  <2> QED BY <2>5, <2>9 DEF StoreStep, Store!StoreNext
<1> QED BY <1>8, <1>9, <1>10 DEF Got

(* A buffer that is given back has its pages cleared, or leaves the area,   *)
(* which goes with its last user.                                           *)
LEMMA GiveBackStore ==
  ASSUME MemInv, NEW h \in Live, GiveBack(h)
  PROVE  StoreStep
<1> DEFINE b == buf[h]
<1>1. /\ share' = CmaFree(b, pool, share).share
      /\ hasPool' = hasPool /\ public' = public
      /\ buf' = [buf EXCEPT ![h] = NoBuf]
  BY DEF GiveBack
<1>2. buf \in [Handle -> Buffers \cup {NoBuf}]
  BY DEF MemInv, LayoutInv, PlaceInv
<1>3. h \in Handle
  BY DEF Live
<1>4. /\ \A g \in Handle : g # h => /\ Alone(g)' <=> Alone(g)
                                    /\ InArea(g)' <=> InArea(g)
                                    /\ Pages(g)' = Pages(g)
      /\ ~Alone(h)' /\ ~InArea(h)'
  BY <1>1, <1>2, Freed
<1>5. PublicRun' = PublicRun /\ Held' = [Held EXCEPT ![h] = {}]
  BY <1>1, <1>3, <1>4, HeldOfOne DEF PublicRun
<1>6. share \in ShareRecords
  BY DEF MemInv, LayoutInv, AreaInv, ShareRecords
<1>7. CASE InArea(h)
  <2>1. hasPool /\ b.shared /\ ~Alone(h)
    BY <1>7 DEF InArea, Alone, MemInv, LayoutInv, PlaceInv
  <2>2. share' = FreeShare(pool, share).share
    BY <1>1, <2>1 DEF CmaFree
  <2>3. Users' = Users \ {h} /\ h \in Users
    BY <1>3, <1>4, <1>7 DEF Users
  <2>4. Held' = Held
    BY <1>5, <2>1 DEF Held
  <2>5. /\ IsFiniteSet(Users) /\ share.ref = Cardinality(Users) /\ Cardinality(Users) \in Nat
    BY <2>1, InAreaFinite DEF MemInv, LayoutInv, AreaInv, InAreaSet, Users
  <2>6. Cardinality(Users \ {h}) = share.ref - 1 /\ IsFiniteSet(Users \ {h})
    BY <2>3, <2>5, FS_RemoveElement
  <2>7. share.ref # 0
    BY <2>3, <2>5, FS_EmptySet
  <2>8. SwapArea' = IF Users = {h} THEN {} ELSE SwapArea
    <3>1. CASE share.ref > 1
      <4>1. Users # {h}
        <5>1. Cardinality(Users \ {h}) # 0
          BY <2>5, <2>6, <3>1
        <5>2. Users \ {h} # {}
          BY <5>1, FS_EmptySet
        <5> QED BY <5>2
      <4>2. share' = [share EXCEPT !.ref = @ - 1]
        BY <2>2, <2>7, <3>1 DEF FreeShare
      <4>3. share'.start = share.start /\ share'.max = share.max
        BY <1>6, <4>2 DEF ShareRecords
      <4> QED BY <1>1, <4>1, <4>3 DEF SwapArea, Area
    <3>2. CASE ~(share.ref > 1)
      <4>1. Users \ {h} = {}
        <5>1. Cardinality(Users \ {h}) = 0
          BY <2>5, <2>6, <2>7, <3>2
        <5> QED BY <2>6, <5>1, FS_EmptySet
      <4>2. share' = [share EXCEPT !.ref = 0, !.max = 0, !.start = Invalid]
        BY <2>2, <2>7, <3>2 DEF FreeShare
      <4>3. share'.max = 0 /\ share'.start = Invalid
        BY <1>6, <4>2, ClearedIs
      <4>4. SwapArea' = {}
        BY <4>3, NoRun DEF SwapArea, Area
      <4> QED BY <2>3, <4>1, <4>4
    <3> QED BY <3>1, <3>2
  <2>9. Store!Leave(h)
    BY <1>5, <2>3, <2>4, <2>8 DEF Store!Leave
  <2> QED BY <1>3, <2>9 DEF StoreStep, Store!StoreNext
<1>8. CASE ~InArea(h)
  <2>1. hasPool => share' = share
    <3>1. hasPool => ~b.shared
      BY <1>8 DEF InArea, MemInv, LayoutInv, PlaceInv
    <3> QED BY <1>1, <3>1 DEF CmaFree
  <2>2. Users' = Users
    BY <1>4, <1>8 DEF Users
  <2>3. SwapArea' = SwapArea
    BY <1>1, <2>1 DEF SwapArea, Area
  <2>4. Store!GiveUp(h)
    BY <1>5, <2>2, <2>3 DEF Store!GiveUp
  <2> QED BY <1>3, <2>4 DEF StoreStep, Store!StoreNext
<1> QED BY <1>7, <1>8

(* An allocation that is undone moves no pages, or has widened the area     *)
(* that others use.                                                         *)
LEMMA UndoneStore ==
  ASSUME MemInv, MemTypeOK', NEW r, Got(r), UNCHANGED <<hasPool, public, buf>>,
         pool' = CmaFree(r, r.pool, r.share).pool, share' = CmaFree(r, r.pool, r.share).share
  PROVE  StoreStep
<1>1. \A g \in Handle : /\ Alone(g)' <=> Alone(g)
                        /\ InArea(g)' <=> InArea(g)
                        /\ Alone(g) => Pages(g)' = Pages(g)
  BY SameBuffers
<1>2. Held' = Held /\ Users' = Users /\ PublicRun' = PublicRun
  BY <1>1 DEF Held, Users, PublicRun
<1>3. CASE NoPages(r) \/ OwnPages(r)
  <2>1. hasPool => share' = share
    BY <1>3 DEF NoPages, OwnPages, CmaFree
  <2> QED BY <1>1, <2>1, StoreFrame DEF StoreStep
<1>4. CASE AreaPages(r)
  <2>1. PICK need \in Nat :
          /\ r.at \in Nat
          /\ Area \subseteq Run(r.at, need)
          /\ Run(r.at, need) \cap (pool.map \ Area) = {}
          /\ r.pool.map = (pool.map \ Area) \cup Run(r.at, need)
          /\ r.share = [share EXCEPT !.ref = @ + 1, !.max = need, !.start = r.at]
    BY <1>4 DEF AreaPages
  <2> DEFINE A == Run(r.at, need)
  <2>2. /\ hasPool /\ hasPool'
        /\ pool' = FreeShare(r.pool, r.share).pool /\ share' = FreeShare(r.pool, r.share).share
    BY <1>4 DEF AreaPages, CmaFree
  <2>3. share \in ShareRecords
    BY DEF MemInv, LayoutInv, AreaInv, ShareRecords
  <2>4. r.share = [ref |-> share.ref + 1, max |-> need, start |-> r.at, dma |-> share.dma]
    BY <2>1, <2>3 DEF ShareRecords
  <2>5. share.ref = Cardinality(Users) /\ share.ref \in Nat /\ (share.ref = 0 <=> Users = {})
    BY <2>2, InAreaFinite DEF MemInv, LayoutInv, AreaInv, InAreaSet, Users
  <2>6. CASE share.ref > 0
    <3>1. /\ pool' = r.pool
          /\ share' = [ref |-> share.ref, max |-> need, start |-> r.at, dma |-> share.dma]
      BY <2>2, <2>4, <2>5, <2>6 DEF FreeShare
    <3>2. SwapArea' = A /\ SwapArea = Area
      BY <2>2, <3>1 DEF SwapArea, Area
    <3>3. A \in RegionRuns /\ A \subseteq Run(0, Reserved)
      BY <2>1, <3>1, RunInRegion DEF MemTypeOK
    <3>4. Area \subseteq A /\ A \ Area \subseteq Store!Free
      BY <2>1, <2>2, <3>3, FreePages
    <3> HIDE DEF A
    <3>5. Store!Widen(A)
      BY <1>2, <2>5, <2>6, <3>2, <3>4 DEF Store!Widen, Store!Widened
    <3> QED BY <3>3, <3>5 DEF StoreStep, Store!StoreNext
  <2>7. CASE ~(share.ref > 0)
    <3>1. share.ref = 0 /\ share.max = 0
      BY <2>2, <2>5, <2>7 DEF MemInv, LayoutInv, AreaInv
    <3>2. SwapArea = {}
      BY <2>3, <3>1, RunIs DEF SwapArea, Area, ShareRecords, Invalid
    <3>3. share' = [r.share EXCEPT !.ref = 0, !.max = 0, !.start = Invalid]
      BY <2>2, <2>4, <3>1 DEF FreeShare
    <3>4. share'.max = 0 /\ share'.start = Invalid
      BY <2>4, <3>3
    <3>5. SwapArea' = {}
      BY <3>4, NoRun DEF SwapArea, Area
    <3> QED BY <1>2, <3>2, <3>5 DEF StoreStep, Store!storeVars
  <2> QED BY <2>6, <2>7
<1> QED BY <1>3, <1>4 DEF Got

(* External pages are not the store's. *)
LEMMA ExternalStore ==
  ASSUME MemInv, NEW n \in Net, ExtMemAttachRequest(n)
  PROVE  StoreStep
<1>1. PICK h \in Handle \ Live, role \in {"linked", "lost"} :
        /\ buf' = [buf EXCEPT ![h] = Handled(n, Result(Elsewhere, "ext", 1, FALSE), role)]
        /\ UNCHANGED <<hasPool, pool, share, usage, public, ctx>>
  BY DEF ExtMemAttachRequest
<1> DEFINE b == Handled(n, Result(Elsewhere, "ext", 1, FALSE), role)
<1>2. b \in Buffers /\ b.where = "ext" /\ ~b.shared
  BY ExternalIs
<1>3. buf \in [Handle -> Buffers \cup {NoBuf}] /\ buf' = [buf EXCEPT ![h] = b]
  BY <1>1 DEF MemInv, LayoutInv, PlaceInv
<1> HIDE DEF b
<1>4. \A g \in Handle : /\ Alone(g)' <=> Alone(g)
                        /\ InArea(g)' <=> InArea(g)
                        /\ Alone(g) => Pages(g)' = Pages(g)
  BY <1>2, <1>3, Given
<1> QED BY <1>1, <1>4, StoreFrame DEF StoreStep

(* Pages that are lost stay what they are for the store.                    *)
LEMMA LostStore ==
  ASSUME MemInv, UNCHANGED memVars, NEW h \in Live,
         buf' = [buf EXCEPT ![h] = [buf[h] EXCEPT !.role = "lost"]]
  PROVE  StoreStep
<1> DEFINE b == [buf[h] EXCEPT !.role = "lost"]
<1>1. buf \in [Handle -> Buffers \cup {NoBuf}] /\ h \in Handle /\ buf[h] \in Buffers
  BY DEF MemInv, LayoutInv, PlaceInv, Live
<1>2. /\ b \in Buffers /\ b.at = buf[h].at /\ b.n = buf[h].n /\ b.where = buf[h].where
      /\ b.shared = buf[h].shared
  BY <1>1 DEF Buffers
<1>3. buf' = [buf EXCEPT ![h] = b]
  OBVIOUS
<1> HIDE DEF b
<1>4. Live' = Live /\ \A g \in Live : /\ buf'[g].at = buf[g].at /\ buf'[g].n = buf[g].n
                                     /\ buf'[g].where = buf[g].where
                                     /\ buf'[g].shared = buf[g].shared
  BY <1>1, <1>2, <1>3, HandleAssumption DEF HandleAssumption, Live
<1>5. \A g \in Handle : /\ Alone(g)' <=> Alone(g)
                        /\ InArea(g)' <=> InArea(g)
                        /\ Alone(g) => Pages(g)' = Pages(g)
  BY <1>4 DEF Alone, InArea, Pages
<1> QED BY <1>5, StoreFrame DEF StoreStep, memVars

LEMMA DettachStore ==
  ASSUME MemInv, NEW h \in Live, External(h), CmaDettach(h)
  PROVE  StoreStep
<1>1. buf \in [Handle -> Buffers \cup {NoBuf}] /\ buf' = [buf EXCEPT ![h] = NoBuf]
  BY DEF CmaDettach, MemInv, LayoutInv, PlaceInv
<1>2. ~Alone(h) /\ ~InArea(h)
  BY DEF External, Alone, InArea
<1>3. \A g \in Handle : /\ Alone(g)' <=> Alone(g)
                        /\ InArea(g)' <=> InArea(g)
                        /\ Alone(g) => Pages(g)' = Pages(g)
  BY <1>1, <1>2, Freed
<1> QED BY <1>3, StoreFrame DEF StoreStep, CmaDettach

(* Requests that do not concern memory. *)
LEMMA OtherStore ==
  ASSUME UNCHANGED <<memVars, buf>>
  PROVE  StoreStep
BY SameBuffers, StoreFrame DEF StoreStep, memVars

LEMMA NetStore ==
  ASSUME MemInv, NEW n \in Net, NEW after, Dettach(n, after)
  PROVE  StoreStep
<1>1. CASE ctx[n].queue = NoHandle
  BY <1>1, OtherStore DEF Dettach
<1>2. CASE ctx[n].queue # NoHandle
  <2>1. ctx[n].queue \in Live
    BY <1>2 DEF MemInv, RolesInv, OwnedBy
  <2> QED BY <1>2, <2>1, GiveBackStore DEF Dettach
<1> QED BY <1>1, <1>2

LEMMA StoreOfNext ==
  ASSUME MemInv, MemTypeOK', "ShareRefused" \notin Allow, [Next]_vars
  PROVE  StoreStep
<1>1. CASE UNCHANGED vars
  BY <1>1, OtherStore DEF vars, memVars
<1>2. ASSUME NEW n \in Net, AllocRequest(n)
      PROVE  StoreStep
  <2>1. PICK h \in Handle \ Live, request \in Requests, pages \in 1 .. MaxPages,
             works \in BOOLEAN :
          /\ Expected(request, CmaAlloc(request, pages, works), works)
          /\ Give(n, h, CmaAlloc(request, pages, works), "linked")
    BY <1>2 DEF AllocRequest
  <2>2. Got(CmaAlloc(request, pages, works))
    BY <1>2, <2>1, CmaAllocIs DEF MemInv
  <2> QED BY <1>2, <2>1, <2>2, GiveStore
<1>3. ASSUME NEW n \in Net, RegisterPrivate(n)
      PROVE  StoreStep
  <2>1. PICK h \in Handle \ Live, pages \in 1 .. MaxPages, works \in BOOLEAN :
          /\ Expected("plain", CmaAlloc("plain", pages, works), works)
          /\ Give(n, h, CmaAlloc("plain", pages, works), "queue")
    BY <1>3 DEF RegisterPrivate
  <2>2. Got(CmaAlloc("plain", pages, works))
    BY <1>3, <2>1, CmaAllocIs DEF MemInv, Requests
  <2> QED BY <1>3, <2>1, <2>2, GiveStore
<1>4. ASSUME NEW n \in Net, AllocUndone(n)
      PROVE  StoreStep
  <2>1. PICK request \in Requests, pages \in 1 .. MaxPages, works \in BOOLEAN :
          LET r == CmaAlloc(request, pages, works)
              left == CmaFree(r, r.pool, r.share)
          IN /\ Expected(request, r, works)
             /\ pool' = left.pool /\ share' = left.share
             /\ UNCHANGED <<hasPool, public, buf>>
    BY <1>4 DEF AllocUndone
  <2> DEFINE r == CmaAlloc(request, pages, works)
  <2>2. Got(r)
    BY <1>4, <2>1, CmaAllocIs DEF MemInv
  <2>3. /\ UNCHANGED <<hasPool, public, buf>>
        /\ pool' = CmaFree(r, r.pool, r.share).pool
        /\ share' = CmaFree(r, r.pool, r.share).share
    BY <2>1
  <2> HIDE DEF r
  <2> QED BY <2>2, <2>3, UndoneStore
<1>5. ASSUME NEW n \in Net, FreeRequest(n) \/ ExtMemDettachRequest(n) \/ FreeAllContext(n)
      PROVE  StoreStep
  <2>1. PICK h \in Linked(n) : GiveBack(h) \/ CmaDettach(h)
    BY <1>5 DEF FreeRequest, ExtMemDettachRequest, FreeAllContext
  <2>2. h \in Live
    BY DEF Linked, OwnedBy
  <2>3. CASE CmaDettach(h) /\ ~External(h)
    BY <2>2, <2>3, LostStore DEF CmaDettach, memVars
  <2> QED BY <2>1, <2>2, <2>3, GiveBackStore, DettachStore
<1>6. ASSUME NEW n \in Net, Unregister(n) \/ DestroyContext(n)
      PROVE  StoreStep
  BY <1>6, NetStore DEF Unregister, DestroyContext
<1>7. ASSUME NEW n \in Net,
             Open(n) \/ RegisterPublic(n) \/ Invoke(n) \/ Finish(n) \/ Close(n)
      PROVE  StoreStep
  BY <1>7, OtherStore DEF Open, RegisterPublic, Invoke, Finish, Close
<1>8. ASSUME NEW n \in Net, RegisterOver(n)
      PROVE  StoreStep
  BY <1>8, RegisterOverIs, LostStore, OtherStore
<1> QED BY <1>1, <1>2, <1>3, <1>4, <1>5, <1>6, <1>7, <1>8, ExternalStore DEF Next

LEMMA StoreOfInit ==
  ASSUME Init, MemInv, MemTypeOK
  PROVE  Store!StoreInit
<1>1. /\ buf = [h \in Handle |-> NoBuf]
      /\ share = [ref |-> 0, max |-> 0, start |-> Invalid, dma |-> "none"]
  BY DEF Init
<1>2. \A h \in Handle : ~Alone(h) /\ ~InArea(h)
  BY <1>1 DEF Alone, InArea, Live
<1>3. Held = [h \in Handle |-> {}] /\ Users = {}
  BY <1>2 DEF Held, Users
<1>4. SwapArea = {}
  BY <1>1, NoRun DEF SwapArea, Area
<1>5. PublicRun \in RegionRuns /\ PublicRun \subseteq Run(0, Reserved)
  <2>1. CASE public = Invalid
    <3>1. PublicRun = {} /\ {} = Run(0, 0) /\ Reserved \in Nat
      BY <2>1, PoolAssumption DEF PublicRun, Run, PoolAssumption
    <3>2. Run(0, 0) \in RegionRuns
      BY <3>1 DEF RegionRuns
    <3> QED BY <3>1, <3>2
  <2>2. CASE public # Invalid
    <3>1. hasPool
      <4>1. PICK f \in Failed :
              /\ hasPool = (f < 10)
              /\ f < 10 \/ public = Invalid
        <5>1. ASSUME NEW f \in Failed,
                     public = (IF f < 10 THEN FirstFit(NewPool(RegionPages(f), {}), PublicPages)
                               ELSE [at |-> Invalid, pool |-> NewPool(0, {})]).at
              PROVE  f < 10 \/ public = Invalid
          BY <5>1
        <5> QED BY <5>1 DEF Init
      <4> QED BY <2>2, <4>1
    <3>2. public \in Nat /\ PublicPages \in Nat /\ PublicRun = Run(public, PublicPages)
      BY <2>2, PagesAssumption DEF MemTypeOK, PublicRun, PagesAssumption
    <3>3. PublicRun \subseteq Run(0, Reserved)
      BY <3>1 DEF MemInv, LayoutInv, BitsInv, MemTypeOK
    <3> QED BY <3>2, <3>3, RunInRegion
  <2> QED BY <2>1, <2>2
<1> QED BY <1>3, <1>4, <1>5 DEF Store!StoreInit

(* The memory manager implements PageStore: whatever the order of requests, *)
(* refusals, undos and closes, each of them is a step of the store or       *)
(* leaves the pages as they are, for any region, contexts and handles and   *)
(* with failing DMA allocations, if no share buffer is refused.             *)
THEOREM DriverKeepsPages ==
  ASSUME "ShareRefused" \notin Allow
  PROVE  Spec => StoreOfPages
<1> DEFINE I == MemInv /\ MemTypeOK
<1>1. Spec => []I
  <2> HIDE DEF MemInv, MemTypeOK
  <2> QED BY MemInvariantHolds, MemTypeCorrect, PTL
<1>2. Init /\ I => Store!StoreInit
  BY StoreOfInit
<1>3. I /\ I' /\ [Next]_vars => [Store!StoreNext]_(Store!storeVars)
  BY StoreOfNext DEF StoreStep
<1> HIDE DEF I
<1> QED BY <1>1, <1>2, <1>3, PTL DEF Spec, StoreOfPages, Store!StoreSpec
=============================================================================
