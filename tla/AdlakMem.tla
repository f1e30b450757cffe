------------------------------- MODULE AdlakMem -------------------------------
(***************************************************************************)
(* The memory manager without an SMMU: adlak_mm.c, mm/adlak_mm_cma.c and   *)
(* the buffer list of a context (adlak_context.c).  Buffers come from one  *)
(* pool of contiguous pages, or from the DMA allocator when the pool could *)
(* not be set up.  With share_swap_en the swap buffers of all models lie   *)
(* over one another in a shared area at the top of the pool.               *)
(*                                                                         *)
(* An action is one request of a client, which the driver serialises with  *)
(* dev_mutex, or one buffer of a close, which runs outside dev_mutex and   *)
(* takes only the mutex of the allocator for each buffer.                  *)
(***************************************************************************)
EXTENDS AdlakBitmapPool

CONSTANTS
  Net,         \* contexts, one for each open file
  Handle,      \* handles of buffers (struct adlak_mem_handle)
  NoHandle,
  NoBuf,       \* of a handle that is not in use
  Reserved,    \* pages of the region the platform reserves
  Failed,      \* how many allocations of the region may fail; 10 of 10: no pool
  PublicPages, \* pages of the public command queue
  MaxPages,    \* bound on the pages of a request
  SharePages,  \* share_buf_size, the area's pages when it comes from DMA
  ShareSwap,   \* share_swap_en
  Allow        \* what clients and the system may do beyond the plain case:
               \*   "ShareRefused"    ask for a share buffer that is refused
               \*   "ShareThroughDma" ask for one when there is no pool
               \*   "DmaFails"        the DMA allocator may fail
               \*   "FreeExternal"    free external pages, not detach them
               \*   "OtherNet"        unregister with another net's index

ASSUME PoolAssumption == Failed \subseteq 0 .. 10 /\ Reserved \in Nat

ASSUME PagesAssumption ==
  PublicPages \in Nat \ {0} /\ MaxPages \in Nat /\ SharePages \in Nat

VARIABLES
  hasPool,  \* has_mem_pool
  pool,     \* mem_pool->bitmap_area
  share,    \* share_buf: ref, max, start, and dma, the state of a DMA area
  usage,    \* alloced_umd
  public,   \* where the public command queue is
  buf,      \* the buffers that have a handle
  ctx       \* contexts: life, model, queue, cnt, byte, alloced

memVars == <<hasPool, pool, share, usage, public>>
vars == <<memVars, buf, ctx>>

-----------------------------------------------------------------------------
(* A buffer: its owner and pages, the place and kind of its memory, and     *)
(* shared, the INNER_SHARE bit of its mem_type.  Its role is "linked" in    *)
(* its context's sbuf_list, "queue" as a private command queue, or "lost":  *)
(* memory that is taken although nobody has a handle for it any more.       *)

Requests == {"plain", "share"}
Places == {"pool", "bogus", "dma", "area", "nowhere", "ext"}

Buffers == [own : Net, at : {Invalid} \cup Nat, where : Places, n : Nat,
            shared : BOOLEAN, role : {"linked", "queue", "lost"}]

ASSUME HandleAssumption ==
  IsFiniteSet(Handle) /\ NoHandle \notin Handle /\ NoBuf \notin Buffers

Live == {h \in Handle : buf[h] # NoBuf}
OwnedBy(n) == {h \in Live : buf[h].own = n}
Linked(n) == {h \in OwnedBy(n) : buf[h].role = "linked"}
External(h) == buf[h].where = "ext"
Pages(h) == Run(buf[h].at, buf[h].n)

(* A buffer whose pages are its own, and one in the shared area. *)
Alone(h) == h \in Live /\ buf[h].where = "pool" /\ ~buf[h].shared
InArea(h) == h \in Live /\ buf[h].where = "pool" /\ buf[h].shared

-----------------------------------------------------------------------------
(* The shared area. *)

ShareNeed(n) == IF n < share.max THEN share.max ELSE n

(* Only the highest pages of the pool can be the area.  When they are not   *)
(* free the bits of the old area stay cleared.                              *)
AllocShareMoved(n) ==   \* mutant: the area is put where there is room
  LET need == ShareNeed(n)
      cleared == [pool EXCEPT !.map = @ \ Run(share.start, share.max)]
  IN IF need - share.max > pool.bits - pool.used \/ Gaps(cleared, need) = {}
     THEN [at |-> Invalid, pool |-> pool, share |-> share]
     ELSE LET at == Least(Gaps(cleared, need)) IN
          [at |-> at,
           pool |-> [Take(cleared, at, need) EXCEPT !.used = @ - share.max],
           share |-> [share EXCEPT !.ref = @ + 1, !.max = need, !.start = at]]
AllocShare(n) ==
  LET need == ShareNeed(n)
      cleared == [pool EXCEPT !.map = @ \ Run(share.start, share.max)]
      at == pool.bits - need
  IN IF need - share.max > pool.bits - pool.used
     THEN [at |-> Invalid, pool |-> pool, share |-> share]
     ELSE IF at \notin Gaps(cleared, need)
     THEN [at |-> Invalid, pool |-> cleared, share |-> share]
     ELSE [at |-> at,
           pool |-> [Take(cleared, at, need) EXCEPT !.used = @ - share.max],
           share |-> [share EXCEPT !.ref = @ + 1, !.max = need, !.start = at]]

(* The area goes with its last reference, whoever gives that up. *)
FreeShareEach(p, s) ==   \* mutant: the area goes with any reference
  IF s.ref = 0
  THEN [pool |-> p, share |-> s]
  ELSE [pool |-> Release(p, s.start, s.max),
        share |-> [s EXCEPT !.ref = @ - 1, !.max = 0, !.start = Invalid]]
FreeShare(p, s) ==
  IF s.ref = 0
  THEN [pool |-> p, share |-> s]
  ELSE IF s.ref > 1
  THEN [pool |-> p, share |-> [s EXCEPT !.ref = @ - 1]]
  ELSE [pool |-> Release(p, s.start, s.max),
        share |-> [s EXCEPT !.ref = 0, !.max = 0, !.start = Invalid]]

-----------------------------------------------------------------------------
(* The allocator: where memory of a kind comes from, and what it leaves.    *)

Result(a, where, n, shared) ==
  [at |-> a.at, where |-> where, n |-> n, shared |-> shared,
   pool |-> a.pool, share |-> a.share]

(* A pool without room gives ADLAK_INVALID_ADDR, an offset of one byte,     *)
(* which no test takes for an error.                                        *)
MallocFromPool(kind, n) ==
  LET a == IF kind = "share"
           THEN AllocShare(n)
           ELSE [at |-> FirstFit(pool, n).at, pool |-> FirstFit(pool, n).pool,
                 share |-> share]
  IN Result(a, IF a.at = Invalid THEN "bogus" ELSE "pool", n, kind = "share")

Elsewhere == [at |-> Invalid, pool |-> pool, share |-> share]

MallocThroughDma(n, works) ==
  Result(Elsewhere, IF works THEN "dma" ELSE "nowhere", n, FALSE)

(* The first request allocates the area and adlak_malloc_through_dma        *)
(* overwrites its mem_type; the INNER_SHARE bit of that handle is lost.     *)
MallocShareThroughDma(works) ==
  LET held == [share EXCEPT !.ref = @ + 1, !.dma = IF @ = "none" THEN "live" ELSE @]
      first == share.dma = "none"
  IN IF first /\ ~works
     THEN Result(Elsewhere, "nowhere", SharePages, TRUE)
     ELSE Result([Elsewhere EXCEPT !.share = held], "area", SharePages, ~first)

FreeThroughDma(b, s) == IF b.where = "area" THEN [s EXCEPT !.dma = "freed"] ELSE s

FreeShareThroughDma(b, s) ==
  IF b.where # "area" THEN s
  ELSE [s EXCEPT !.ref = @ - 1, !.dma = IF s.ref = 1 THEN "none" ELSE @]

(* adlak_cma_rewrite_memtype: the client asks for sharing in vain without   *)
(* share_swap_en.                                                           *)
KindOf(request) == IF ShareSwap THEN request ELSE "plain"

CmaAlloc(request, n, works) ==
  LET kind == KindOf(request) IN
  IF hasPool THEN MallocFromPool(kind, n)
  ELSE IF kind = "share" THEN MallocShareThroughDma(works)
  ELSE MallocThroughDma(n, works)

(* What a handle b gives back to the pool p and the area s. *)
CmaFree(b, p, s) ==
  IF ~hasPool
  THEN [pool |-> p,
        share |-> IF b.shared THEN FreeShareThroughDma(b, s) ELSE FreeThroughDma(b, s)]
  ELSE IF b.shared THEN FreeShare(p, s)
  ELSE [pool |-> Release(p, b.at, b.n), share |-> s]

(* What is added to the usage, and what is subtracted from it.              *)
Added(b) == IF b.shared \/ b.where = "nowhere" THEN 0 ELSE b.n
SubtractedAlways(b) == b.n   \* mutant: of a shared buffer, too
Subtracted(b) == IF b.shared THEN 0 ELSE b.n

-----------------------------------------------------------------------------
(* A context that is not open, and one that was just opened. *)
Absent == [life |-> "none", model |-> FALSE, queue |-> NoHandle, cnt |-> 0,
           byte |-> 0, alloced |-> 0]
Opened == [Absent EXCEPT !.life = "open"]

(* adlak_alloc_cma_region_nocache: each failure makes the region a          *)
(* sixteenth smaller, and there are ten tries.                              *)
RegionPages(failures) == Reserved - failures * (Reserved \div 16)

(* adlak_mem_init: adlak_mem_cma_register does not look at the result of    *)
(* adlak_mem_cma_init; without a pool the driver works with DMA memory.     *)
Init ==
  \E failures \in Failed :
    LET empty == NewPool(RegionPages(failures), {})
        first == IF failures < 10 THEN FirstFit(empty, PublicPages)
                 ELSE [at |-> Invalid, pool |-> NewPool(0, {})]
    IN /\ hasPool = (failures < 10)
       /\ pool = first.pool
       /\ public = first.at
       /\ share = [ref |-> 0, max |-> 0, start |-> Invalid, dma |-> "none"]
       /\ usage = 0
       /\ buf = [h \in Handle |-> NoBuf]
       /\ ctx = [n \in Net |-> Absent]

-----------------------------------------------------------------------------
(* Steps of the requests. *)

Handled(n, r, role) ==
  [own |-> n, at |-> r.at, where |-> r.where, n |-> r.n, shared |-> r.shared,
   role |-> role]

(* h becomes the handle of r. *)
Give(n, h, r, role) ==
  /\ pool' = r.pool /\ share' = r.share
  /\ usage' = usage + Added(r)
  /\ buf' = [buf EXCEPT ![h] = Handled(n, r, role)]
  /\ UNCHANGED <<hasPool, public>>

GiveBack(h) ==
  LET left == CmaFree(buf[h], pool, share) IN
  /\ pool' = left.pool /\ share' = left.share
  /\ usage' = usage - Subtracted(buf[h])
  /\ buf' = [buf EXCEPT ![h] = NoBuf]
  /\ UNCHANGED <<hasPool, public>>

Expected(request, r, works) ==
  /\ r.shared /\ r.where = "bogus" => "ShareRefused" \in Allow
  /\ KindOf(request) = "share" /\ ~hasPool => "ShareThroughDma" \in Allow
  /\ ~works => "DmaFails" \in Allow

IsOpen(n) == ctx[n].life = "open"

Open(n) ==
  /\ ctx[n].life = "none"
  /\ ctx' = [ctx EXCEPT ![n] = Opened]
  /\ UNCHANGED <<memVars, buf>>

(* adlak_mem_alloc_request that succeeds. *)
AllocRequest(n) ==
  \E h \in Handle \ Live, request \in Requests, pages \in 1 .. MaxPages, works \in BOOLEAN :
    LET r == CmaAlloc(request, pages, works) IN
    /\ IsOpen(n)
    /\ Expected(request, r, works)
    /\ Give(n, h, r, "linked")
    /\ ctx' = [ctx EXCEPT ![n].byte = @ + Added(r), ![n].alloced = @ + Subtracted(r)]

(* The buffer was allocated and could not be mapped or linked: it is freed  *)
(* again.  An area that grew for it stays as large.                         *)
AllocUndone(n) ==
  \E request \in Requests, pages \in 1 .. MaxPages, works \in BOOLEAN :
    LET r == CmaAlloc(request, pages, works)
        left == CmaFree(r, r.pool, r.share)
    IN /\ IsOpen(n)
       /\ Expected(request, r, works)
       /\ pool' = left.pool /\ share' = left.share
       /\ usage' = usage + Added(r) - Subtracted(r)
       /\ ctx' = [ctx EXCEPT ![n].byte = @ + Added(r) - Subtracted(r)]
       /\ UNCHANGED <<hasPool, public, buf>>

(* adlak_mem_free_request: refused while an invoke is counted, and for      *)
(* nothing else.  Of external pages it subtracts what was never added.      *)
FreeRequestAnyTime(n) ==   \* mutant: invoke_cnt is not looked at
  \E h \in Linked(n) :
    /\ IsOpen(n) /\ (External(h) => "FreeExternal" \in Allow)
    /\ GiveBack(h)
    /\ ctx' = [ctx EXCEPT ![n].byte = @ - Subtracted(buf[h]),
                          ![n].alloced = @ - Subtracted(buf[h])]
FreeRequest(n) ==
  \E h \in Linked(n) :
    /\ IsOpen(n) /\ ctx[n].cnt = 0 /\ (External(h) => "FreeExternal" \in Allow)
    /\ GiveBack(h)
    /\ ctx' = [ctx EXCEPT ![n].byte = @ - Subtracted(buf[h]),
                          ![n].alloced = @ - Subtracted(buf[h])]

(* adlak_ext_mem_attach_request: pages of the client, which it reports as   *)
(* attached even if they could not be linked to the context.                *)
ExtMemAttachRequest(n) ==
  \E h \in Handle \ Live, role \in {"linked", "lost"} :
    /\ IsOpen(n)
    /\ buf' = [buf EXCEPT ![h] = Handled(n, Result(Elsewhere, "ext", 1, FALSE), role)]
    /\ UNCHANGED <<hasPool, pool, share, usage, public, ctx>>

(* The handle goes; memory of the driver that it stood for is given back to *)
(* nobody, and no book changes.                                             *)
CmaDettach(h) ==
  /\ buf' = [buf EXCEPT ![h] = IF External(h) THEN NoBuf ELSE [buf[h] EXCEPT !.role = "lost"]]
  /\ UNCHANGED <<hasPool, pool, share, usage, public, ctx>>

(* adlak_ext_mem_dettach_request looks neither at invoke_cnt nor at what    *)
(* kind of buffer it is.                                                    *)
ExtMemDettachRequest(n) ==
  \E h \in Linked(n) : IsOpen(n) /\ CmaDettach(h)

(* adlak_nets_register_request does not look whether a net is registered.   *)
(* A second registration begins by overwriting pmodel_attr_list, whereby    *)
(* the first private queue is lost, and goes on as a first one does or      *)
(* fails.                                                                   *)
RegisterOver(n) ==
  /\ IsOpen(n) /\ ctx[n].model
  /\ ctx' = [ctx EXCEPT ![n].model = FALSE, ![n].queue = NoHandle]
  /\ buf' = [h \in Handle |-> IF h = ctx[n].queue THEN [buf[h] EXCEPT !.role = "lost"]
                              ELSE buf[h]]
  /\ UNCHANGED memVars

(* A net with a private command queue, or with the public one. *)
RegisterPrivate(n) ==
  \E h \in Handle \ Live, pages \in 1 .. MaxPages, works \in BOOLEAN :
    LET r == CmaAlloc("plain", pages, works) IN
    /\ IsOpen(n) /\ ~ctx[n].model
    /\ Expected("plain", r, works)
    /\ Give(n, h, r, "queue")
    /\ ctx' = [ctx EXCEPT ![n].model = TRUE, ![n].queue = h, ![n].byte = @ + Added(r)]

RegisterPublic(n) ==
  /\ IsOpen(n) /\ ~ctx[n].model
  /\ ctx' = [ctx EXCEPT ![n].model = TRUE]
  /\ UNCHANGED <<memVars, buf>>

(* adlak_net_dettach, of the request to unregister and of a close. *)
DettachKeepsQueue(n, after) ==   \* mutant: the private queue is not freed
  ctx' = [ctx EXCEPT ![n] = after] /\ UNCHANGED <<memVars, buf>>
Dettach(n, after) ==
  IF ctx[n].queue = NoHandle
  THEN ctx' = [ctx EXCEPT ![n] = after] /\ UNCHANGED <<memVars, buf>>
  ELSE GiveBack(ctx[n].queue) /\ ctx' = [ctx EXCEPT ![n] = after]

(* The driver looks for an invoke of the net that the client names, then    *)
(* detaches the client's own.                                               *)
Unregister(n) ==
  /\ IsOpen(n) /\ ctx[n].model
  /\ ctx[n].cnt = 0 \/ "OtherNet" \in Allow
  /\ Dettach(n, [ctx[n] EXCEPT !.model = FALSE, !.queue = NoHandle,
                   !.byte = @ - IF ctx[n].queue = NoHandle THEN 0
                                ELSE Subtracted(buf[ctx[n].queue])])

(* The part of an invoke that memory is about: the count of invokes. *)
Invoke(n) ==
  /\ IsOpen(n) /\ ctx[n].model /\ ctx[n].cnt = 0
  /\ ctx' = [ctx EXCEPT ![n].cnt = 1]
  /\ UNCHANGED <<memVars, buf>>

Finish(n) ==
  /\ ctx[n].cnt = 1
  /\ ctx' = [ctx EXCEPT ![n].cnt = 0]
  /\ UNCHANGED <<memVars, buf>>

Close(n) ==
  /\ IsOpen(n)
  /\ ctx' = [ctx EXCEPT ![n].life = "closing"]
  /\ UNCHANGED <<memVars, buf>>

(* adlak_destroy_context waited until no invoke was counted (AdlakInference *)
(* shows it); then adlak_mem_free_all_context frees one buffer at a time.   *)
Idle(n) == ctx[n].life = "closing" /\ ctx[n].cnt = 0

FreeAllContext(n) ==
  \E h \in Linked(n) :
    /\ Idle(n)
    /\ IF External(h)
       THEN CmaDettach(h)
       ELSE /\ GiveBack(h)
            /\ ctx' = [ctx EXCEPT ![n].byte = @ - Subtracted(buf[h]),
                                  ![n].alloced = @ - buf[h].n]

DestroyContext(n) ==
  /\ Idle(n) /\ Linked(n) = {}
  /\ Dettach(n, Absent)

Next ==
  \E n \in Net :
    \/ Open(n) \/ AllocRequest(n) \/ AllocUndone(n) \/ FreeRequest(n)
    \/ ExtMemAttachRequest(n) \/ ExtMemDettachRequest(n)
    \/ RegisterOver(n) \/ RegisterPrivate(n) \/ RegisterPublic(n) \/ Unregister(n)
    \/ Invoke(n) \/ Finish(n)
    \/ Close(n) \/ FreeAllContext(n) \/ DestroyContext(n)

Spec == Init /\ [][Next]_vars

-----------------------------------------------------------------------------
(* Properties. *)

MemTypeOK ==
  /\ hasPool \in BOOLEAN
  /\ pool \in [bits : Nat, map : SUBSET Run(0, Reserved), used : Int]
  /\ share \in [ref : Nat, max : Nat, start : {Invalid} \cup Nat,
                 dma : {"none", "live", "freed"}]
  /\ usage \in Int
  /\ public \in {Invalid} \cup Nat
  /\ buf \in [Handle -> Buffers \cup {NoBuf}]
  /\ ctx \in [Net -> [life : {"none", "open", "closing"}, model : BOOLEAN,
                      queue : Handle \cup {NoHandle}, cnt : 0 .. 1,
                      byte : Int, alloced : Int]]

Apart(S, T) == S \cap T = {}

(* No page belongs to two buffers, to a buffer and the public command       *)
(* queue, or to a buffer of one model and the area that models swap in.     *)
PlacedDisjoint ==
  /\ \A h \in Handle : Alone(h) =>
       /\ \A g \in Handle \ {h} : Alone(g) \/ InArea(g) => Apart(Pages(h), Pages(g))
       /\ public # Invalid => Apart(Pages(h), Run(public, PublicPages))
  /\ \A h \in Handle : InArea(h) /\ public # Invalid =>
       Apart(Pages(h), Run(public, PublicPages))

Area == Run(share.start, share.max)
PublicRun == IF public = Invalid THEN {} ELSE Run(public, PublicPages)

(* The area exists exactly while buffers lie in it, and holds each of them. *)
ShareExact ==
  /\ hasPool => share.ref = Cardinality({h \in Handle : InArea(h)})
  /\ \A h \in Handle : InArea(h) => Pages(h) \subseteq Area
  /\ share.ref = 0 => share.max = 0

(* The set bits of the pool are the pages of the live buffers, of the       *)
(* area and of the public queue, and used_count counts them.                *)
MapExact ==
  hasPool =>
    pool.map = (UNION {Pages(h) : h \in {g \in Handle : Alone(g)}}) \cup Area \cup PublicRun

PoolExact == MapExact /\ (hasPool => pool.used = Cardinality(pool.map))

(* The pages of S, each with the handle it is counted for: two handles may  *)
(* count the same page.  Pages of clients and of the area are not counted.  *)
CountedIn(S) == {h \in S : ~buf[h].shared /\ ~External(h)}
Counted(S) == Cardinality(UNION {{h} \X (1 .. buf[h].n) : h \in CountedIn(S)})

(* The counters that adlak_mem_get_usage and the status show agree with the *)
(* memory that is taken, and those of a client that has lost none with its  *)
(* buffers.                                                                 *)
LostBy(n) == {h \in OwnedBy(n) : buf[h].role = "lost" /\ ~External(h)}

UsageExact ==
  /\ usage = Counted(Live)
  /\ \A n \in Net : LostBy(n) = {} =>
       /\ ctx[n].life # "none" => ctx[n].byte = Counted(OwnedBy(n))
       /\ IsOpen(n) => ctx[n].alloced = Counted(Linked(n))

(* The three books that the memory manager keeps, the reference count of    *)
(* the shared area, the bitmap with its count and the usage counters, all   *)
(* agree with the memory that is taken after any order of requests,         *)
(* refusals and closes, also with what clients have lost.                   *)
BooksExact == ShareExact /\ PoolExact /\ UsageExact

(* Of a closed file nothing is left but what was lost while it was open:    *)
(* external pages whose link failed, a buffer of the driver that its client *)
(* detached instead of freeing it, the private queue of a net over which it *)
(* registered another.                                                      *)
NothingLeaks ==
  /\ \A n \in Net : ctx[n].life = "none" => \A h \in OwnedBy(n) : buf[h].role = "lost"
  /\ \A h \in Live : buf[h].role = "queue" => ctx[buf[h].own].queue = h

(* Every buffer the driver handed out has memory behind it.                 *)
LiveIsBacked ==
  \A h \in Live : /\ buf[h].where \notin {"bogus", "nowhere"}
                  /\ buf[h].where = "area" => share.dma = "live"

(* While an invoke of a context is counted the memory of its buffers and of *)
(* its private command queue stays what it is and stays taken, whatever the *)
(* client asks for meanwhile.  External pages are the client's affair.      *)
Memory(b) == <<b.own, b.at, b.where, b.n>>

RunningBuffersStay ==
  [][\A h \in Handle : h \in Live /\ ~External(h) /\ ctx[buf[h].own].cnt = 1
        => h \in Live' /\ Memory(buf'[h]) = Memory(buf[h])]_vars

-----------------------------------------------------------------------------
(* The pages as the clients see them: what a buffer has for itself, the     *)
(* buffers in the area, and the area while there is a pool for it.          *)
RegionRuns == {Run(s, n) : s \in 0 .. Reserved, n \in 0 .. Reserved}

Held == [h \in Handle |-> IF Alone(h) THEN Pages(h) ELSE {}]
Users == {h \in Handle : InArea(h)}
SwapArea == IF hasPool THEN Area ELSE {}

Store == INSTANCE PageStore WITH
           Buffer <- Handle, PageRun <- RegionRuns, AllPages <- Run(0, Reserved),
           held <- Held, users <- Users, area <- SwapArea, kept <- PublicRun

(* A request gives a buffer pages nobody has and touches no other buffer's, *)
(* a release takes what that buffer had, the area grows but never moves,    *)
(* and every refusal, undo and close is one of these or nothing at all.     *)
(* Lost memory is still held and still uses the area.                       *)
StoreOfPages == Store!StoreSpec

-----------------------------------------------------------------------------
(* The inductive invariant behind PlacedDisjoint, NothingLeaks and          *)
(* RunningBuffersStay, when no request for a share buffer is refused.       *)

(* What is known of a buffer from where it is. *)
PlaceInv ==
  /\ buf \in [Handle -> Buffers \cup {NoBuf}]
  /\ \A h \in Live :
       /\ buf[h].where = "pool" => hasPool /\ buf[h].at # Invalid
       /\ buf[h].where # "pool" => buf[h].at = Invalid
       /\ hasPool /\ buf[h].shared => buf[h].where = "pool"

(* The area is at the top of the pool, with all share buffers in it; they   *)
(* are what its reference count counts.                                     *)
AreaInv ==
  /\ share \in [ref : Int, max : Nat, start : {Invalid} \cup Nat,
                 dma : {"none", "live", "freed"}]
  /\ hasPool =>
       /\ share.ref = Cardinality({h \in Handle : InArea(h)})
       /\ share.ref = 0 => share.max = 0
       /\ share.max > 0 => share.start \in Nat /\ share.start = pool.bits - share.max
       /\ \A h \in Handle : InArea(h) => Pages(h) \subseteq Area

(* Whoever has pages of the pool has their bits set and has them alone.     *)
BitsInv ==
  hasPool =>
    /\ pool \in [bits : Nat, map : SUBSET Int, used : Int]
    /\ \A h \in Handle : Alone(h) => Pages(h) \subseteq pool.map
    /\ Area \subseteq pool.map
    /\ PublicRun \subseteq pool.map

ApartInv ==
  hasPool =>
    /\ \A g, h \in Handle : Alone(g) /\ Alone(h) /\ g # h => Apart(Pages(g), Pages(h))
    /\ \A h \in Handle : Alone(h) => Apart(Pages(h), Area) /\ Apart(Pages(h), PublicRun)
    /\ Apart(Area, PublicRun)

(* No bit is set for nothing. *)
NoneLost ==
  hasPool =>
    \A p \in pool.map : \/ p \in Area \cup PublicRun
                        \/ \E h \in Handle : Alone(h) /\ p \in Pages(h)

(* Private queues and their nets point at each other, and a closed file     *)
(* lists nothing and has no queue.                                          *)
RolesInv ==
  /\ ctx \in [Net -> [life : {"none", "open", "closing"}, model : BOOLEAN,
                      queue : Handle \cup {NoHandle}, cnt : 0 .. 1,
                      byte : Int, alloced : Int]]
  /\ \A n \in Net : ctx[n].queue # NoHandle =>
       /\ ctx[n].model
       /\ ctx[n].queue \in OwnedBy(n)
       /\ buf[ctx[n].queue].role = "queue"
  /\ \A h \in Live : buf[h].role = "queue" =>
       ctx[buf[h].own].queue = h /\ ~External(h)
  /\ \A n \in Net : ctx[n].life = "none" =>
       ctx[n].queue = NoHandle /\ Linked(n) = {}

LayoutInv == PlaceInv /\ AreaInv /\ BitsInv /\ ApartInv /\ NoneLost

MemInv == LayoutInv /\ RolesInv

(* For BooksExact: used_count counts the set bits of the region, ...        *)
CountInv ==
  /\ hasPool \in BOOLEAN
  /\ public \in {Invalid} \cup Nat
  /\ usage \in Int
  /\ pool \in [bits : 0 .. Reserved, map : SUBSET Int, used : Int]
  /\ pool.map \subseteq Run(0, pool.bits)
  /\ pool.used = Cardinality(pool.map)

(* ... and an area from DMA is referenced by each handle that knows it, and *)
(* for ever by the first, which does not.                                   *)
KnowsArea(h) == h \in Live /\ buf[h].where = "area" /\ buf[h].shared
DmaAreaInv ==
  ~hasPool =>
    /\ share.max = 0
    /\ \A h \in Live : buf[h].where = "area" => share.dma # "none"
    /\ share.ref = Cardinality({h \in Handle : KnowsArea(h)})
                     + IF share.dma = "none" THEN 0 ELSE 1

BooksInv == CountInv /\ DmaAreaInv /\ UsageExact

=============================================================================
