------------------------------- MODULE AdlakSmmu -------------------------------
(***************************************************************************)
(* The memory manager with an SMMU: mm/adlak_mm_smmu.c, and the parts of   *)
(* adlak_mm.c, adlak_submit.c and adlak_hw.c that use it.                  *)
(*                                                                         *)
(* A table object maps pages of the device's address space (IOVA).  There  *)
(* is a public one, and a context may have a private one; it says by       *)
(* smmu_tlb_type which of them its buffers are entered in.  The CPU writes *)
(* the tables through its cache; a submission flushes them, if the context *)
(* has allocated anything since its last one, points the device to a table *)
(* and invalidates the device's cache.  A large model runs in two parts,   *)
(* the first with the public and the second with the private table.        *)
(***************************************************************************)
EXTENDS AdlakBitmapPool, Sequences

CONSTANTS
  Net,          \* contexts
  Handle,       \* handles of buffers
  NoHandle,     \* no handle; in a table: an invalid entry
  PublicQueue,  \* the handle of the public command queue
  NoBuf,        \* of a handle that is not in use
  Public,       \* the public table object; a private one has its context's name
  NoNet,
  Bits,         \* pages of the address space
  Excluded,     \* pages of the SRAM
  MaxPages,     \* bound on the pages of a buffer
  Allow         \* what clients and the system may do beyond the plain case:
                \*   "Overlap"         a private page may lie where a shared one is put
                \*   "Default"         buffers for both tables that the private one places
                \*   "Fallback"        private tables with the public command queue
                \*   "TypeChange"      another smmu_tlb_type while there are buffers or a net
                \*   "FreeAfter"       free buffers after the net was unregistered
                \*   "NoModel"         close a file that has tables and no net
                \*   "RegisterTwice"   register again; the driver forgets the first queue
                \*   "DettachRunning"  detach a buffer that an invoke needs
                \*   "OtherNet"        unregister by the index of another context's net

Page == 0 .. (Bits - 1)
Tables == {Public} \cup Net
Types == {"PUBLIC_ONLY", "PRIVATE_ONLY", "PRIVATE_AND_PUBLIC"}
Kinds == {"shared",                        \* without SMMU_PRIV; else by the bits
          "id1", "def", "both", "none"}    \* TLB_ID1 and TLB_DEF
Buffers == [own : Net, at : Invalid .. (Bits - 1), n : Nat, kind : Kinds, ext : BOOLEAN]

ASSUME SmmuAssumption == Bits \in Nat \ {0} /\ Excluded \subseteq Page /\ MaxPages \in Nat

ASSUME NamesAssumption ==
  /\ Public \notin Net /\ NoNet \notin Net
  /\ NoHandle \notin Handle /\ PublicQueue \notin Handle \cup {NoHandle}
  /\ NoBuf \notin Buffers

VARIABLES
  obj,   \* table objects: live, pool, cpu (the table) and dirty (the pages whose
         \* valid entry was written since the last flush)
  buf,   \* buffers: own, at (iova_addr), n, kind, ext
  ctx,   \* contexts: life, type, public (smmu_public is set), model, queue,
         \* updated (smmu_tlb_updated), cnt (invoke_cnt), needs
  dev    \* the device: net, table, sees (the buffers of the net that the
         \* translations in its cache lead to), rest (a second part is to come)

vars == <<obj, buf, ctx, dev>>

-----------------------------------------------------------------------------
(* Table objects.  The three levels are one function from pages. *)

Empty == [p \in Page |-> NoHandle]

NewTable == [live |-> TRUE, pool |-> NewPool(Bits, Excluded), cpu |-> Empty, dirty |-> {}]
NoTable == [live |-> FALSE, pool |-> NewPool(Bits, {}), cpu |-> Empty, dirty |-> {}]

(* The counter of a private table runs down, by twice the pages of each     *)
(* shared buffer.  Bound: below 0 it is not followed, as it never exceeds   *)
(* the pages that the table's own search has given, followed or not.        *)
Counted(p) == [p EXCEPT !.used = IF @ < 0 THEN 0 ELSE @]

Write(table, at, n, h) ==
  [p \in DOMAIN table |-> IF p \in Run(at, n) THEN h ELSE table[p]]

TlbAdd(t, at, n, h) ==
  [t EXCEPT !.cpu = Write(@, at, n, h), !.dirty = @ \cup Run(at, n)]

TlbDel(t, at, n) ==
  [t EXCEPT !.cpu = Write(@, at, n, NoHandle), !.dirty = @ \ Run(at, n)]

(* adlak_smmu_iova_map: shared buffers go to the top, private ones to the   *)
(* bottom; an address that the other table gave is taken without a look.    *)
Place(t, b) ==
  IF b.at # Invalid THEN [at |-> b.at, pool |-> Mark(t.pool, b.at, b.n)]
  ELSE IF b.kind = "shared" THEN LastFit(t.pool, b.n)
  ELSE FirstFit(t.pool, b.n)

IovaMap(t, b, h) ==
  LET got == Place(t, b) IN
  [at |-> got.at,
   table |-> IF got.at = Invalid THEN t
             ELSE TlbAdd([t EXCEPT !.pool = Counted(got.pool)], got.at, b.n, h)]

UnmapPages(t, b) ==
  TlbDel([t EXCEPT !.pool = Counted(Release(@, b.at, b.n))], b.at, b.n)

IovaUnmap(t, b) == IF b.at = Invalid THEN t ELSE UnmapPages(t, b)

-----------------------------------------------------------------------------
(* Which tables a buffer of a kind is entered in, in the order of           *)
(* adlak_smmu_iova_alloc.                                                   *)

TablesOf(n, kind) ==
  IF ctx[n].type = "PUBLIC_ONLY" THEN <<Public>>
  ELSE IF ctx[n].type = "PRIVATE_ONLY" THEN <<n>>
  ELSE CASE kind = "shared" -> <<Public, n>>
         [] kind = "id1" -> <<n>>
         [] kind = "def" -> <<Public>>
         [] kind = "both" -> <<n, Public>>
         [] kind = "none" -> <<>>

Entered(n, kind) == {TablesOf(n, kind)[i] : i \in DOMAIN TablesOf(n, kind)}

(* The second table takes the address of the first.  A failure of the first *)
(* ends it for a shared buffer; otherwise the second one's result counts.   *)
(* With no table there is nothing to fail, and no address.                  *)
IovaAlloc(n, h, b) ==
  LET order == TablesOf(n, b.kind)
      first == IovaMap(obj[order[1]], b, h)
      second == IovaMap(obj[order[2]], [b EXCEPT !.at = first.at], h)
  IN IF order = <<>> THEN [at |-> Invalid, obj |-> obj]
     ELSE IF Len(order) = 1 \/ (b.kind = "shared" /\ first.at = Invalid)
     THEN [at |-> first.at, obj |-> [obj EXCEPT ![order[1]] = first.table]]
     ELSE [at |-> second.at,
           obj |-> [obj EXCEPT ![order[1]] = first.table, ![order[2]] = second.table]]

IovaFreePublic(n, b) ==   \* mutant: of a shared buffer only the public mapping is removed
  LET o == TablesOf(n, b.kind)[1] IN [obj EXCEPT ![o] = IovaUnmap(@, b)]
IovaFree(n, b) ==
  [o \in Tables |-> IF o \in Entered(n, b.kind) THEN IovaUnmap(obj[o], b) ELSE obj[o]]

-----------------------------------------------------------------------------
Absent == [life |-> "none", type |-> "PUBLIC_ONLY", public |-> FALSE, model |-> FALSE,
           queue |-> NoHandle, updated |-> FALSE, cnt |-> 0, needs |-> {}]

Idle == [net |-> NoNet, table |-> Public, sees |-> {}, rest |-> FALSE]

(* adlak_mem_smmu_init, then adlak_public_cmq_buf_init. *)
Init ==
  /\ obj = [o \in Tables |->
              IF o = Public
              THEN IovaMap(NewTable, [at |-> Invalid, n |-> 1, kind |-> "shared"],
                           PublicQueue).table
              ELSE NoTable]
  /\ buf = [h \in Handle |-> NoBuf]
  /\ ctx = [n \in Net |-> Absent]
  /\ dev = Idle

Live == {h \in Handle : buf[h] # NoBuf}
OwnedBy(n) == {h \in Live : buf[h].own = n}
Pages(h) == IF buf[h].at = Invalid THEN {} ELSE Run(buf[h].at, buf[h].n)
IsOpen(n) == ctx[n].life = "open"

(* Whether a buffer b at its new address leaves the others of n alone.      *)
Apart(n, b) ==
  \A h \in OwnedBy(n) :
    Entered(n, buf[h].kind) \cap Entered(n, b.kind) # {} =>
      Pages(h) \cap Run(b.at, b.n) = {}

Expected(n, b) ==
  /\ b.kind = "both" => "Default" \in Allow
  /\ b.at # Invalid /\ ~Apart(n, b) => "Overlap" \in Allow

Open(n) ==
  /\ ctx[n].life = "none"
  /\ ctx' = [ctx EXCEPT ![n] = [Absent EXCEPT !.life = "open"]]
  /\ UNCHANGED <<obj, buf, dev>>

(* adlak_set_context_attribute, which creates what is not there yet. *)
SetContextAttributeOnce(n, type) ==   \* mutant: nothing is created the second time
  /\ IsOpen(n)
  /\ (OwnedBy(n) # {} \/ ctx[n].model) /\ type # ctx[n].type => "TypeChange" \in Allow
  /\ ctx' = [ctx EXCEPT ![n].type = type, ![n].public = TRUE]
  /\ obj' = IF type # "PUBLIC_ONLY" /\ ~ctx[n].public
            THEN [obj EXCEPT ![n] = NewTable]
            ELSE obj
  /\ UNCHANGED <<buf, dev>>
SetContextAttribute(n, type) ==
  /\ IsOpen(n)
  /\ (OwnedBy(n) # {} \/ ctx[n].model) /\ type # ctx[n].type => "TypeChange" \in Allow
  /\ ctx' = [ctx EXCEPT ![n].type = type, ![n].public = TRUE]
  /\ obj' = IF type # "PUBLIC_ONLY" /\ ~obj[n].live
            THEN [obj EXCEPT ![n] = NewTable]
            ELSE obj
  /\ UNCHANGED <<buf, dev>>

Request(n, pages, kind, ext) ==
  [own |-> n, at |-> Invalid, n |-> pages, kind |-> kind, ext |-> ext]

(* Does n get a handle even if there is no address for b?                   *)
Unplaced(n, b) == b.ext \/ Entered(n, b.kind) = {}

(* A buffer b of n beside those of bufs.                                    *)
Enter(n, h, b, bufs) ==
  LET r == IovaAlloc(n, h, b) IN
  /\ ctx[n].public
  /\ Expected(n, [b EXCEPT !.at = r.at])
  /\ obj' = r.obj
  /\ buf' = [bufs EXCEPT ![h] = IF r.at = Invalid /\ ~Unplaced(n, b) THEN NoBuf
                                ELSE [b EXCEPT !.at = r.at]]

(* The flag is set although the address space may be full.                  *)
AllocRequest(n) ==
  \E h \in Handle \ Live, pages \in 1 .. MaxPages, kind \in Kinds :
    LET b == Request(n, pages, kind, FALSE) IN
    /\ IsOpen(n)
    /\ Enter(n, h, b, buf)
    /\ ctx' = [ctx EXCEPT ![n].updated = TRUE]
    /\ UNCHANGED dev

(* adlak_smmu_attach: the client's own pages.  It does not tell the client  *)
(* that the address space is full.                                          *)
ExtMemAttachRequest(n) ==
  \E h \in Handle \ Live :
    LET b == Request(n, 1, "shared", TRUE) IN
    /\ IsOpen(n)
    /\ Enter(n, h, b, buf)
    /\ ctx' = [ctx EXCEPT ![n].updated = TRUE]
    /\ UNCHANGED dev

Leave(n, h) ==
  /\ obj' = IovaFree(n, buf[h])
  /\ buf' = [buf EXCEPT ![h] = NoBuf]
  /\ UNCHANGED dev

Linked(n) == OwnedBy(n) \ {ctx[n].queue}

FreeRequest(n) ==
  \E h \in Linked(n) :
    /\ IsOpen(n) /\ ctx[n].cnt = 0
    /\ Leave(n, h)
    /\ UNCHANGED ctx

(* Of any buffer, and not refused during an invoke. *)
ExtMemDettachRequest(n) ==
  \E h \in Linked(n) :
    /\ IsOpen(n) /\ (h \in ctx[n].needs => "DettachRunning" \in Allow)
    /\ Leave(n, h)
    /\ UNCHANGED ctx

(* A net with a private command queue, or with the public one, which is     *)
(* also what it gets if no private one can be had.  The queue of an earlier *)
(* net is forgotten where it is; an invoke of that net is not followed.     *)
Forget(n) == [h \in Handle |-> IF h = ctx[n].queue THEN NoBuf ELSE buf[h]]

Register(n) ==
  /\ IsOpen(n) /\ ctx[n].public
  /\ ctx[n].model => "RegisterTwice" \in Allow
  /\ UNCHANGED dev
  /\ \/ \E h \in Handle \ Live :
          LET b == Request(n, 1, "shared", FALSE)
              r == IovaAlloc(n, h, b)
          IN /\ r.at # Invalid
             /\ Enter(n, h, b, Forget(n))
             /\ ctx' = [ctx EXCEPT ![n].model = TRUE, ![n].queue = h,
                                   ![n].updated = TRUE]
     \/ /\ ctx[n].type = "PUBLIC_ONLY" \/ "Fallback" \in Allow
        /\ ctx' = [ctx EXCEPT ![n].model = TRUE, ![n].queue = NoHandle]
        /\ buf' = Forget(n)
        /\ UNCHANGED obj

(* adlak_net_dettach: the queue is freed, the pointer to the public object  *)
(* is cleared, and the private object destroyed.                            *)
NetDettachKeepsTable(n) ==   \* mutant: the private object is not destroyed
  IF ctx[n].queue = NoHandle
  THEN UNCHANGED <<obj, buf>>
  ELSE obj' = IovaFree(n, buf[ctx[n].queue]) /\ buf' = [buf EXCEPT ![ctx[n].queue] = NoBuf]
NetDettach(n) ==
  LET q == ctx[n].queue
      left == IF q = NoHandle THEN obj ELSE IovaFree(n, buf[q])
  IN /\ obj' = IF ctx[n].model THEN [left EXCEPT ![n] = NoTable] ELSE left
     /\ buf' = IF q = NoHandle THEN buf ELSE [buf EXCEPT ![q] = NoBuf]

(* The driver looks for invokes of the net that the client names, and takes *)
(* the client's own net away.                                               *)
Unregister(n) ==
  /\ IsOpen(n) /\ ctx[n].model /\ (ctx[n].cnt = 0 \/ "OtherNet" \in Allow)
  /\ Linked(n) # {} => "FreeAfter" \in Allow
  /\ NetDettach(n)
  /\ ctx' = [ctx EXCEPT ![n].model = FALSE, ![n].queue = NoHandle, ![n].public = FALSE]
  /\ UNCHANGED dev

-----------------------------------------------------------------------------
(* Invokes.  The buffers an invoke needs are those that exist then, and it  *)
(* needs some.                                                              *)

Invoke(n) ==
  /\ IsOpen(n) /\ ctx[n].model /\ ctx[n].cnt = 0 /\ OwnedBy(n) # {}
  /\ ctx' = [ctx EXCEPT ![n].cnt = 1, ![n].needs = OwnedBy(n)]
  /\ UNCHANGED <<obj, buf, dev>>

FlushCache(t) == [t EXCEPT !.dirty = {}]

(* adlak_smmu_invalidate: flushes only for a context that has allocated     *)
(* since; the public table with it, whoever changed it.                     *)
InvalidatePrivate(n) ==   \* mutant: the public table is not flushed with the private one
  IF ~ctx[n].updated THEN obj
  ELSE LET o == IF obj[n].live THEN n ELSE Public IN [obj EXCEPT ![o] = FlushCache(@)]
Invalidate(n) ==
  IF ~ctx[n].updated THEN obj
  ELSE [o \in Tables |-> IF o = Public \/ (o = n /\ obj[o].live)
                         THEN FlushCache(obj[o]) ELSE obj[o]]

(* The tables of a submission, in their order; a model may lie wholly in    *)
(* the part of either table.                                                *)
Entries(n) ==
  IF ctx[n].queue = NoHandle \/ ctx[n].type = "PUBLIC_ONLY" THEN {<<Public>>}
  ELSE IF ctx[n].type = "PRIVATE_ONLY" THEN {<<n>>}
  ELSE {<<Public>>, <<n>>, <<Public, n>>}

Seen(n, t) ==
  {h \in OwnedBy(n) : \A p \in Pages(h) : t.cpu[p] = h /\ p \notin t.dirty}
  \cup {t.cpu[p] : p \in {q \in DOMAIN t.cpu : t.cpu[q] = PublicQueue} \ t.dirty}

SetMmu(n, o, rest) == [net |-> n, table |-> o, sees |-> Seen(n, obj'[o]), rest |-> rest]

Submit(n) ==
  \E entries \in Entries(n) :
    /\ dev.net = NoNet /\ ctx[n].cnt = 1
    /\ obj' = Invalidate(n)
    /\ ctx' = [ctx EXCEPT ![n].updated = FALSE]
    /\ dev' = SetMmu(n, entries[1], Len(entries) > 1)
    /\ UNCHANGED buf

(* The table of the second part is not flushed again. *)
SecondPart(n) ==
  /\ dev.net = n /\ dev.rest
  /\ UNCHANGED <<obj, buf, ctx>>
  /\ dev' = SetMmu(n, n, FALSE)

Finish(n) ==
  /\ dev.net = n /\ ~dev.rest
  /\ dev' = Idle
  /\ ctx' = [ctx EXCEPT ![n].cnt = 0, ![n].needs = {}]
  /\ UNCHANGED <<obj, buf>>

(* A cancelled invoke that was not submitted. *)
Cancel(n) ==
  /\ ctx[n].cnt = 1 /\ dev.net # n
  /\ ctx' = [ctx EXCEPT ![n].cnt = 0, ![n].needs = {}]
  /\ UNCHANGED <<obj, buf, dev>>

Close(n) ==
  /\ IsOpen(n)
  /\ obj[n].live /\ ~ctx[n].model => "NoModel" \in Allow
  /\ ctx' = [ctx EXCEPT ![n].life = "closing"]
  /\ UNCHANGED <<obj, buf, dev>>

FreeAllContext(n) ==
  \E h \in Linked(n) :
    /\ ctx[n].life = "closing" /\ ctx[n].cnt = 0
    /\ Leave(n, h)
    /\ UNCHANGED ctx

DestroyContext(n) ==
  /\ ctx[n].life = "closing" /\ ctx[n].cnt = 0 /\ Linked(n) = {}
  /\ NetDettach(n)
  /\ ctx' = [ctx EXCEPT ![n] = Absent]
  /\ UNCHANGED dev

Next ==
  \E n \in Net :
    \/ Open(n) \/ (\E type \in Types : SetContextAttribute(n, type))
    \/ AllocRequest(n) \/ FreeRequest(n)
    \/ ExtMemAttachRequest(n) \/ ExtMemDettachRequest(n)
    \/ Register(n) \/ Unregister(n)
    \/ Invoke(n) \/ Submit(n) \/ SecondPart(n) \/ Finish(n) \/ Cancel(n)
    \/ Close(n) \/ FreeAllContext(n) \/ DestroyContext(n)

Spec == Init /\ [][Next]_vars

-----------------------------------------------------------------------------
(* Properties. *)

Translations == [Page -> Handle \cup {NoHandle, PublicQueue}]
Pools == [bits : {Bits}, map : SUBSET Page, used : 0 .. Bits]
Objects == [live : BOOLEAN, pool : Pools, cpu : Translations, dirty : SUBSET Page]
Contexts ==
  [life : {"none", "open", "closing"}, type : Types, public : BOOLEAN, model : BOOLEAN,
   queue : Handle \cup {NoHandle}, updated : BOOLEAN, cnt : 0 .. 1, needs : SUBSET Handle]

SmmuTypeOK ==
  /\ obj \in [Tables -> Objects]
  /\ buf \in [Handle -> {NoBuf} \cup Buffers]
  /\ ctx \in [Net -> Contexts]
  /\ dev \in [net : Net \cup {NoNet}, table : Tables,
              sees : SUBSET (Handle \cup {PublicQueue}), rest : BOOLEAN]

(* While the device works on a net, the table it was given exists and leads *)
(* it to every buffer of the invoke, or in one part of a submission to      *)
(* every one that belongs in the table of that part: in the device's cache, *)
(* and in the table itself, should the device read it again.                *)
InParts(n) == ctx[n].type = "PRIVATE_AND_PUBLIC" /\ ctx[n].queue # NoHandle

DeviceReaches ==
  dev.net # NoNet =>
    /\ obj[dev.table].live
    /\ \A h \in ctx[dev.net].needs :
         \/ InParts(dev.net) /\ dev.table \notin Entered(dev.net, buf[h].kind)
         \/ h \in dev.sees /\ \A p \in Pages(h) : obj[dev.table].cpu[p] = h
    /\ ctx[dev.net].queue = NoHandle => PublicQueue \in dev.sees

(* The live buffers that belong in a table, and the pages that should be    *)
(* taken there.                                                             *)
In(o) == {h \in Live : o \in Entered(buf[h].own, buf[h].kind)}

(* A table maps each page of its buffers to that buffer and no other page;  *)
(* exactly the mapped pages and those of the SRAM are taken in the pool.    *)
TablesExact ==
  \A o \in Tables : obj[o].live =>
    /\ \A h \in In(o) : \A p \in Pages(h) : obj[o].cpu[p] = h
    /\ \A p \in DOMAIN obj[o].cpu :
         obj[o].cpu[p] \in {NoHandle, PublicQueue} \/
         (obj[o].cpu[p] \in In(o) /\ p \in Pages(obj[o].cpu[p]))
    /\ obj[o].pool.map =
         Excluded \cup {p \in DOMAIN obj[o].cpu : obj[o].cpu[p] # NoHandle}

(* A table lasts as long as its context's buffers need it, and no longer:   *)
(* the driver dereferences the pointers to the tables of a buffer that it   *)
(* frees without a test, and nothing destroys a private table whose file is *)
(* closed.                                                                  *)
TablesAtHand ==
  \A n \in Net : OwnedBy(n) # {} =>
    ctx[n].public /\ (ctx[n].type # "PUBLIC_ONLY" => obj[n].live)
NoOrphanTable == \A n \in Net : obj[n].live => ctx[n].life # "none" /\ ctx[n].public

TablesLast == TablesAtHand /\ NoOrphanTable

-----------------------------------------------------------------------------
(* The inductive invariant, of clients and a system that keep to the plain  *)
(* case, Allow = {}.                                                        *)

Mapped(t) == {p \in Page : t.cpu[p] # NoHandle}

(* The pool of a table has taken what it maps, and counts no more pages.    *)
PoolAgrees(t) ==
  /\ t.pool.map = Excluded \cup Mapped(t)
  /\ Excluded \cap Mapped(t) = {}
  /\ t.pool.used <= Cardinality(Mapped(t))

(* A table maps its buffers and no others.                                  *)
TableInv(o) ==
  /\ PoolAgrees(obj[o])
  /\ \A p \in Page, h \in Handle : obj[o].cpu[p] = h <=> h \in In(o) /\ p \in Pages(h)

TablesInv ==
  /\ \A o \in Tables : obj[o].live => TableInv(o)
  /\ obj[Public].live /\ \E p \in Page : obj[Public].cpu[p] = PublicQueue
  /\ \A n \in Net, p \in Page : obj[n].cpu[p] # PublicQueue
  /\ \A h \in Live : buf[h].kind # "both" /\ Pages(h) \subseteq Page

(* How far a context has come while it has a table, a net or buffers.       *)
LifeOf(n) ==
  /\ obj[n].live => ctx[n].public
  /\ ctx[n].public => ctx[n].life # "none"
  /\ ctx[n].public /\ ctx[n].type # "PUBLIC_ONLY" => obj[n].live
  /\ OwnedBy(n) # {} \/ ctx[n].model => ctx[n].public
  /\ ctx[n].life = "closing" /\ obj[n].live => ctx[n].model
  /\ ctx[n].queue # NoHandle => ctx[n].model /\ ctx[n].queue \in OwnedBy(n)
  /\ ctx[n].model /\ ctx[n].queue = NoHandle => ctx[n].type = "PUBLIC_ONLY"
  /\ ctx[n].cnt = 1 => ctx[n].model /\ ctx[n].needs # {}
  /\ ctx[n].cnt = 0 => ctx[n].needs = {}
  /\ ctx[n].needs \subseteq OwnedBy(n)

LifeInv == \A n \in Net : LifeOf(n)

(* The device would see what a context has allocated before its last flush, *)
(* and what its invoke needs; with it, the public command queue.            *)
Clean(n, h) ==
  \A o \in Entered(n, buf[h].kind) : Pages(h) \cap obj[o].dirty = {}

QueueClean ==
  \A p \in Page : obj[Public].cpu[p] = PublicQueue => p \notin obj[Public].dirty

FlushOf(n) ==
  /\ ~ctx[n].updated => \A h \in OwnedBy(n) : Clean(n, h)
  /\ ~ctx[n].updated /\ OwnedBy(n) # {} => QueueClean
  /\ dev.net = n => \A h \in ctx[n].needs : Clean(n, h)

FlushInv == \A n \in Net : FlushOf(n)

DevInv ==
  LET n == dev.net IN
  n # NoNet =>
    /\ ctx[n].cnt = 1
    /\ dev.rest => InParts(n)
    /\ CASE ctx[n].type = "PUBLIC_ONLY" -> dev.table = Public
         [] ctx[n].type = "PRIVATE_ONLY" -> dev.table = n
         [] OTHER -> dev.table \in {Public, n}
    /\ \A h \in ctx[n].needs : dev.table \in Entered(n, buf[h].kind) => h \in dev.sees
    /\ ctx[n].queue = NoHandle => PublicQueue \in dev.sees

SmmuInv == SmmuTypeOK /\ TablesInv /\ LifeInv /\ FlushInv /\ DevInv
=============================================================================
