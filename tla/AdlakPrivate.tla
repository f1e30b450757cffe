---------------------------- MODULE AdlakPrivate ----------------------------
(***************************************************************************)
(* Models with a private command queue.  Registration writes the commands  *)
(* of all layers into a buffer of the model; an invoke patches the ones it *)
(* uses and moves the parser's write pointer.  A model of a context with   *)
(* two translation tables runs in two parts: the thread itself waits for   *)
(* the first, then switches the table and submits the second.              *)
(*                                                                         *)
(* It details SUBMIT and SUBMIT_WAIT of AdlakInference as AdlakRing and    *)
(* AdlakIrq do for the public queue.  Sizes and offsets are in words.      *)
(* Left out: submissions through the secure world (the module parameter    *)
(* submit_blocking), and the DRAM overflow of the profiler, for which see  *)
(* AdlakIrq.                                                               *)
(***************************************************************************)
EXTENDS Integers, Sequences, FiniteSets, SequencesExt

CONSTANTS
  Net,          \* contexts, each with at most one model
  NoNet,        \* queue.cmq_buffer_pre = NULL, or another queue
  Models,       \* models: cfg, the words of each layer's configuration from
                \* layer 0 on (0: software), and last, the last layer of the
                \* first table
  NoModel,
  Page,         \* words of a page, to which a buffer is rounded up
  PublicSize,   \* words of the public command queue
  Allow         \* what may happen beyond the plain case:
                \*   "Skip"     parts of a model in another order than the model's
                \*   "Retype"   another smmu_tlb_type after the registration
                \*   "Fail"     an error during the first of two parts
                \*   "Hang"     the device hangs there

Line == 4   \* words to which a layer is aligned

ASSUME PrivateAssumption == Page \in Nat \ {0} /\ Page % Line = 0 /\ PublicSize \in Nat

Types == {"PUBLIC_ONLY", "PRIVATE_ONLY", "PRIVATE_AND_PUBLIC"}

VARIABLES
  net,   \* per context: model, type (smmu_tlb_type), queue (what the buffer
         \* holds), args (whose addresses each layer has), run (the invoke
         \* patched last), storage (parser_storage_info), sem (sem_irq tokens),
         \* and next, the layer the client's next invoke begins with
  pre,   \* queue.cmq_buffer_pre
  dev,   \* device: queue, rpt, wpt, table, stamp, ok, irq (causes), irqOn
  thr,   \* inference thread: pc, net, first, last (layers), partial
  sem_irq,
  ran    \* history: the layers executed in this submission, each with the table
         \* and the addresses it used

vars == <<net, pre, dev, thr, sem_irq, ran>>

-----------------------------------------------------------------------------
(* The layout of a queue. *)

RoundUp(n, a) == ((n + a - 1) \div a) * a

(* A layer with a configuration is one of the device, one without is       *)
(* software.                                                               *)
HwLayers(m) == {i \in DOMAIN m.cfg : m.cfg[i] > 0}
HwFirst(m) == Min(HwLayers(m))
HwLast(m) == Max(HwLayers(m))

ASSUME ModelsAssumption ==
  \A m \in Models :
    /\ IsFiniteSet(DOMAIN m.cfg)
    /\ m.cfg \in [0 .. (Cardinality(DOMAIN m.cfg) - 1) -> Nat]
    /\ HwLayers(m) # {} /\ m.last \in Int

ASSUME NamesAssumption == NoNet \notin Net /\ NoModel \notin Models

(* adlak_invoke_pre_check counts one word per layer more than are written. *)
Expected(c) == RoundUp(c + 8, Line)
Written(c) == RoundUp(c + 7, Line)
Layer(c) == IF c = 0 THEN 0 ELSE Written(c)

(* What the first i layers need, for i up to k. *)
Sums(need, k) ==
  LET sum[i \in 0 .. k] == IF i = 0 THEN 0 ELSE sum[i - 1] + need[i - 1]
  IN sum

ExpectedTotalTight(m) ==   \* mutant: only the configurations are counted
  LET need == [i \in DOMAIN m.cfg |-> RoundUp(m.cfg[i], Line)]
  IN Sums(need, HwLast(m) + 1)[HwLast(m) + 1]
ExpectedTotal(m) ==
  LET need == [i \in DOMAIN m.cfg |-> IF m.cfg[i] = 0 THEN 0 ELSE Expected(m.cfg[i])]
  IN Sums(need, HwLast(m) + 1)[HwLast(m) + 1]

Fits(m) == \A i \in HwLayers(m) : Expected(m.cfg[i]) < PublicSize

Alloc(m) == RoundUp(ExpectedTotal(m), Page)

(* adlak_cmq_private_fill: where each layer begins and ends.  The entries of *)
(* software layers have a read point only.                                  *)
OffsetsStraight(m) ==   \* mutant: the tail is not taken modulo the size
  LET tail[i \in 0 .. HwLast(m) + 1] ==
        IF i = 0 THEN 0 ELSE tail[i - 1] + Layer(m.cfg[i - 1])
  IN [i \in DOMAIN m.cfg |->
        [read |-> IF i <= HwLast(m) THEN tail[i] ELSE 0,
         write |-> IF i \in HwLayers(m) THEN tail[i + 1] ELSE 0]]
Offsets(m) ==
  LET tail[i \in 0 .. HwLast(m) + 1] ==
        IF i = 0 THEN 0 ELSE (tail[i - 1] + Layer(m.cfg[i - 1])) % Alloc(m)
  IN [i \in DOMAIN m.cfg |->
        [read |-> IF i <= HwLast(m) THEN tail[i] ELSE 0,
         write |-> IF i \in HwLayers(m) THEN tail[i + 1] ELSE 0]]

(* The layers whose time stamp raises an interrupt: the last, the last of   *)
(* the first table, and the last before a software layer.                   *)
SoftwareNext(m, i) == i + 1 <= HwLast(m) /\ m.cfg[i + 1] = 0

InterruptingSome(m, type) ==   \* mutant: not before a software layer
  {i \in HwLayers(m) : i = HwLast(m) \/ (type = "PRIVATE_AND_PUBLIC" /\ i = m.last)}
Interrupting(m, type) ==
  {i \in HwLayers(m) :
     \/ i = HwLast(m)
     \/ type = "PRIVATE_AND_PUBLIC" /\ i = m.last
     \/ SoftwareNext(m, i)}

Fill(m, type) == [offs |-> Offsets(m), irqs |-> Interrupting(m, type)]

NoQueue == [offs |-> <<>>, irqs |-> {}]
NoStorage == [rpt |-> 0, wpt |-> 0]

-----------------------------------------------------------------------------
Fresh(type) ==
  [model |-> NoModel, type |-> type, queue |-> NoQueue, args |-> <<>>, run |-> 0,
   storage |-> NoStorage, sem |-> 0, next |-> 0]

Reset0 ==
  [queue |-> NoNet, rpt |-> 0, wpt |-> 0, table |-> "public", stamp |-> -1,
   ok |-> TRUE, irq |-> {}, irqOn |-> TRUE]

Rest == [pc |-> "IDLE", net |-> NoNet, first |-> 0, last |-> 0, partial |-> FALSE]

Init ==
  /\ net = [n \in Net |-> Fresh("PUBLIC_ONLY")]
  /\ pre = NoNet /\ dev = Reset0 /\ thr = Rest /\ sem_irq = 0 /\ ran = <<>>

Registered(n) == net[n].model # NoModel

SetContextAttribute(n, type) ==
  /\ Registered(n) => "Retype" \in Allow /\ thr.net # n
  /\ net' = [net EXCEPT ![n].type = type]
  /\ UNCHANGED <<pre, dev, thr, sem_irq, ran>>

(* adlak_net_attach.  A second registration overwrites the first, whose     *)
(* queue stays allocated, so that the new one is at another address.        *)
NetAttach(n, m) ==
  /\ thr.net # n /\ Fits(m)
  /\ net' = [net EXCEPT ![n] =
       [Fresh(@.type) EXCEPT !.model = m, !.queue = Fill(m, net[n].type),
          !.args = [i \in DOMAIN m.cfg |-> 0], !.next = HwFirst(m)]]
  /\ pre' = IF Registered(n) /\ pre = n THEN NoNet ELSE pre
  /\ UNCHANGED <<dev, thr, sem_irq, ran>>

(* The freed queue's address stays in cmq_buffer_pre; the next queue of n   *)
(* may get the same one.  A registration over the first whose queue cannot  *)
(* be allocated leaves n without a private queue as well: that model uses   *)
(* the public one, and what it submits is PowerCycle's.                     *)
NetDettach(n) ==
  /\ Registered(n) /\ thr.net # n
  /\ net' = [net EXCEPT ![n] = Fresh(@.type)]
  /\ UNCHANGED <<pre, dev, thr, sem_irq, ran>>

-----------------------------------------------------------------------------
(* A submission.  A client invokes the hardware layers up to the next       *)
(* software layer, in the order of the model.                               *)

Segment(m, s, e) ==
  /\ s \in HwLayers(m) /\ e \in HwLayers(m) /\ s <= e
  /\ \A i \in s .. e : i \in HwLayers(m)
  /\ s - 1 \notin HwLayers(m) /\ e + 1 \notin HwLayers(m)

NextStart(m, e) ==
  IF e = HwLast(m) THEN HwFirst(m) ELSE Min({i \in HwLayers(m) : i > e})

(* adlak_parser_resume. *)
StorageKept(n, s) ==   \* mutant: without the read point of the first layer
  IF s = HwFirst(net[n].model) THEN NoStorage ELSE net[n].storage
StorageFor(n, s) ==
  LET read == net[n].queue.offs[s].read IN
  IF s = HwFirst(net[n].model) THEN NoStorage
  ELSE IF net[n].storage.rpt # read THEN [rpt |-> read, wpt |-> read]
  ELSE net[n].storage

Resumed(n, s) ==
  IF pre # n \/ s = HwFirst(net[n].model)
  THEN [dev EXCEPT !.queue = n, !.rpt = StorageFor(n, s).rpt, !.wpt = StorageFor(n, s).wpt]
  ELSE dev

(* The parts of a submission: what is written to the write pointer and which *)
(* table is set before.                                                     *)
Parts(n, s, e) ==
  LET at == net[n].queue.offs
      last == net[n].model.last
      Part(i, t) == [wpt |-> at[i].write, table |-> t]
  IN CASE net[n].type = "PUBLIC_ONLY" -> <<Part(e, "public")>>
       [] net[n].type = "PRIVATE_ONLY" -> <<Part(e, "private")>>
       [] OTHER ->
            IF last >= e THEN <<Part(e, "public")>>
            ELSE IF last < s THEN <<Part(e, "private")>>
            ELSE <<Part(last, "public"), Part(e, "private")>>

(* adlak_cmq_private_patch_and_exec, up to the wait for the first part.     *)
Submit(n) ==
  \E s, e \in DOMAIN net[n].args :
    LET m == net[n].model
        parts == Parts(n, s, e)
        run == 1 - net[n].run
    IN
    /\ thr.pc = "IDLE" /\ Registered(n)
    /\ Segment(m, s, e)
    /\ s # net[n].next => "Skip" \in Allow
    /\ net' = [net EXCEPT ![n].storage = StorageFor(n, s), ![n].run = run,
         ![n].args = [i \in DOMAIN @ |-> IF i \in s .. e THEN run ELSE @[i]],
         ![n].next = NextStart(m, e)]
    /\ pre' = n
    /\ dev' = [Resumed(n, s) EXCEPT !.wpt = parts[1].wpt, !.table = parts[1].table]
    /\ thr' = [pc |-> IF Len(parts) = 2 THEN "PART" ELSE "WAIT", net |-> n,
               first |-> s, last |-> e, partial |-> Len(parts) = 2]
    /\ ran' = <<>>
    /\ UNCHANGED sem_irq

(* adlak_os_sema_take(context->sem_irq), and the second part.  The take is   *)
(* interruptible and its result ignored, but the driver allows its kernel   *)
(* thread no signal.                                                        *)
SecondPartStill ==   \* mutant: invoke_partial stays set
  LET part == Parts(thr.net, thr.first, thr.last)[2] IN
  /\ thr.pc = "PART" /\ net[thr.net].sem > 0
  /\ net' = [net EXCEPT ![thr.net].sem = @ - 1]
  /\ dev' = [dev EXCEPT !.wpt = part.wpt, !.table = part.table]
  /\ thr' = [thr EXCEPT !.pc = "WAIT"]
  /\ UNCHANGED <<pre, sem_irq, ran>>
SecondPart ==
  LET part == Parts(thr.net, thr.first, thr.last)[2] IN
  /\ thr.pc = "PART" /\ net[thr.net].sem > 0
  /\ net' = [net EXCEPT ![thr.net].sem = @ - 1]
  /\ dev' = [dev EXCEPT !.wpt = part.wpt, !.table = part.table]
  /\ thr' = [thr EXCEPT !.pc = "WAIT", !.partial = FALSE]
  /\ UNCHANGED <<pre, sem_irq, ran>>

(* adlak_submit_wait and adlak_irq_bottom_half; AdlakIrq has the details.   *)
(* The invoke has finished if the time stamp is that of its last layer.     *)
TakeToken ==
  /\ thr.pc = "WAIT" /\ sem_irq > 0
  /\ sem_irq' = sem_irq - 1
  /\ thr' = [thr EXCEPT !.pc = IF dev.irqOn /\ dev.stamp = thr.last
                               THEN "FINISHED" ELSE "FAILED"]
  /\ UNCHANGED <<net, pre, dev, ran>>

(* The layer at the read pointer, if the device has something to do. *)
LayersAt(n, rpt) == {i \in HwLayers(net[n].model) : net[n].queue.offs[i].read = rpt}
Busy == dev.ok /\ dev.queue # NoNet /\ dev.rpt # dev.wpt

(* Only a device that is not going to answer runs into the timeout. *)
Expire ==
  /\ thr.pc = "WAIT" /\ sem_irq = 0
  /\ ~Busy /\ (dev.irq = {} \/ ~dev.irqOn)
  /\ thr' = [thr EXCEPT !.pc = "FAILED"]
  /\ UNCHANGED <<net, pre, dev, sem_irq, ran>>

(* adlak_parser_preempt, and the reset after a failure: DEV_RESET and       *)
(* WQ_RESET.                                                                *)
PreemptFinished ==
  /\ thr.pc = "FINISHED"
  /\ net' = [net EXCEPT ![thr.net].storage = [rpt |-> dev.rpt, wpt |-> dev.wpt]]
  /\ thr' = Rest /\ ran' = <<>>
  /\ UNCHANGED <<pre, dev, sem_irq>>

PreemptFailed ==
  /\ thr.pc = "FAILED"
  /\ net' = [net EXCEPT ![thr.net].storage = NoStorage]
  /\ pre' = NoNet /\ dev' = Reset0
  /\ thr' = Rest /\ ran' = <<>>
  /\ UNCHANGED sem_irq

(* The power goes and comes back, or a task with the public queue runs. *)
PowerCycle ==
  /\ thr.pc = "IDLE"
  /\ pre' = NoNet /\ dev' = Reset0
  /\ UNCHANGED <<net, thr, sem_irq, ran>>

-----------------------------------------------------------------------------
(* The device and its interrupt handler. *)

Execute ==
  /\ Busy
  /\ \E i \in LayersAt(dev.queue, dev.rpt) :
       /\ dev' = [dev EXCEPT !.rpt = net[dev.queue].queue.offs[i].write, !.stamp = i,
                    !.irq = IF i \in net[dev.queue].queue.irqs THEN @ \cup {"TS"} ELSE @]
       /\ ran' = Append(ran, [layer |-> i, table |-> dev.table,
                              arg |-> net[dev.queue].args[i]])
  /\ UNCHANGED <<net, pre, thr, sem_irq>>

Fault(kind) == thr.pc = "PART" => kind \in Allow

Fail ==
  /\ Busy /\ Fault("Fail")
  /\ dev' = [dev EXCEPT !.ok = FALSE, !.irq = @ \cup {"ERR"}]
  /\ UNCHANGED <<net, pre, thr, sem_irq, ran>>

Hang ==
  /\ Busy /\ Fault("Hang")
  /\ dev' = [dev EXCEPT !.ok = FALSE]
  /\ UNCHANGED <<net, pre, thr, sem_irq, ran>>

(* adlak_irq_proc gives one of two semaphores; an error disables interrupts. *)
HandlerOne ==   \* mutant: always the one of the thread's wait
  /\ dev.irqOn /\ dev.irq # {} /\ thr.net # NoNet
  /\ dev' = [dev EXCEPT !.irq = {}, !.irqOn = "ERR" \notin dev.irq]
  /\ sem_irq' = sem_irq + 1
  /\ UNCHANGED <<net, pre, thr, ran>>
Handler ==
  /\ dev.irqOn /\ dev.irq # {} /\ thr.net # NoNet
  /\ dev' = [dev EXCEPT !.irq = {}, !.irqOn = "ERR" \notin dev.irq]
  /\ IF thr.partial
     THEN net' = [net EXCEPT ![thr.net].sem = @ + 1] /\ UNCHANGED sem_irq
     ELSE sem_irq' = sem_irq + 1 /\ UNCHANGED net
  /\ UNCHANGED <<pre, thr, ran>>

Device == Execute \/ Fail \/ Hang

ThreadStep == SecondPart \/ TakeToken \/ Expire \/ PreemptFinished \/ PreemptFailed

Next ==
  \/ \E n \in Net :
       \/ \E type \in Types : SetContextAttribute(n, type)
       \/ \E m \in Models : NetAttach(n, m)
       \/ NetDettach(n) \/ Submit(n)
  \/ ThreadStep \/ PowerCycle
  \/ Device \/ Handler

Spec == Init /\ [][Next]_vars

(* The thread and the handler run, and the device goes on or fails. *)
FairSpec == Spec /\ WF_vars(ThreadStep) /\ WF_vars(Handler) /\ WF_vars(Device)

-----------------------------------------------------------------------------
(* Properties. *)

Queues == {NoQueue} \cup {Fill(m, type) : m \in Models, type \in Types}
Args == {<<>>} \cup UNION {[DOMAIN m.cfg -> 0 .. 1] : m \in Models}
Storages == [rpt : Nat, wpt : Nat]
Contexts ==
  [model : Models \cup {NoModel}, type : Types, queue : Queues, args : Args,
   run : 0 .. 1, storage : Storages, sem : 0 .. 1, next : Nat]

PrivTypeOK ==
  /\ net \in [Net -> Contexts]
  /\ pre \in Net \cup {NoNet}
  /\ dev \in [queue : Net \cup {NoNet}, rpt : Nat, wpt : Nat,
              table : {"public", "private"}, stamp : Int, ok : BOOLEAN,
              irq : SUBSET {"TS", "ERR"}, irqOn : BOOLEAN]
  /\ thr \in [pc : {"IDLE", "PART", "WAIT", "FINISHED", "FAILED"},
              net : Net \cup {NoNet}, first : Int, last : Int, partial : BOOLEAN]
  /\ sem_irq \in 0 .. 1

(* The words that a layer's commands take up. *)
Words(n, i) ==
  {(net[n].queue.offs[i].read + k) % Alloc(net[n].model) :
     k \in 0 .. (Written(net[n].model.cfg[i]) - 1)}

(* The commands of a model's layers do not overlap in its buffer. *)
LayersApart ==
  \A n \in Net : Registered(n) =>
    \A i, j \in HwLayers(net[n].model) : i # j => Words(n, i) \cap Words(n, j) = {}

(* What a submission should execute: the hardware layers of the invoke, each *)
(* with its addresses, and with the table its layer belongs to.             *)
TableOf(n, i) ==
  IF net[n].type = "PRIVATE_ONLY" \/
     (net[n].type = "PRIVATE_AND_PUBLIC" /\ i > net[n].model.last)
  THEN "private" ELSE "public"

Plan ==
  [k \in 1 .. (thr.last - thr.first + 1) |->
     LET i == thr.first + k - 1 IN
     [layer |-> i, table |-> TableOf(thr.net, i), arg |-> net[thr.net].run]]

(* The device executes nothing but the layers of the invoke, in their order, *)
(* and all of them if the invoke is reported to have finished.              *)
RunsAsPlanned ==
  thr.pc # "IDLE" =>
    /\ IsPrefix(ran, Plan)
    /\ thr.pc = "FINISHED" => ran = Plan

(* An invoke is only failed if the device has. *)
FailureIsReal == thr.pc = "FAILED" => ~dev.ok

(* No token and no interrupt is left for the next submission. *)
NothingLeft ==
  thr.pc = "IDLE" => sem_irq = 0 /\ dev.irq = {} /\ \A n \in Net : net[n].sem = 0

(* The second part is not submitted before the first has been executed. *)
SecondAfterFirst ==
  thr.pc = "WAIT" /\ dev.table = "private" =>
    \A i \in thr.first .. thr.last :
      TableOf(thr.net, i) = "public" => \E k \in DOMAIN ran : ran[k].layer = i

SubmissionEnds == thr.pc # "IDLE" ~> thr.pc = "IDLE"

-----------------------------------------------------------------------------
(* The inductive invariant of the plain case, Allow = {}, of models no      *)
(* invoke of which fills their queue.                                       *)

OneInvoke(m) == HwFirst(m) .. HwLast(m) \subseteq HwLayers(m)
Full(m) == Offsets(m)[HwLast(m)].write = 0

PlainModels == \A m \in Models : ~(OneInvoke(m) /\ Full(m))

(* A registered model: what registration has set up, and what a submission   *)
(* leaves to the next one.                                                  *)
Positions(m) == [rpt : 0 .. (Alloc(m) - 1), wpt : 0 .. (Alloc(m) - 1)]
NetInv ==
  \A n \in Net : Registered(n) =>
    /\ net[n].queue = Fill(net[n].model, net[n].type)
    /\ net[n].args \in [DOMAIN net[n].model.cfg -> 0 .. 1]
    /\ net[n].next \in HwLayers(net[n].model)
    /\ net[n].storage \in Positions(net[n].model)

(* Between submissions the device rests where the client of the queue used   *)
(* last goes on.                                                            *)
RestInv ==
  thr.pc = "IDLE" =>
    /\ thr = Rest /\ ran = <<>>
    /\ sem_irq = 0 /\ \A n \in Net : net[n].sem = 0
    /\ dev.ok /\ dev.irqOn /\ dev.irq = {} /\ dev.rpt = dev.wpt
    /\ \A n \in Net :
         pre = n /\ Registered(n) /\ net[n].next # HwFirst(net[n].model) =>
           /\ dev.queue = n
           /\ dev.rpt = net[n].queue.offs[net[n].next].read

(* During a submission: the layers that the device has executed.            *)
Done == Len(ran)
All == thr.last - thr.first + 1
InTwo(n) ==
  /\ net[n].type = "PRIVATE_AND_PUBLIC"
  /\ thr.first <= net[n].model.last /\ net[n].model.last < thr.last
FirstPart(n) == net[n].model.last - thr.first + 1

RanInv(n) ==
  /\ ran \in Seq([layer : Int, table : {"public", "private"}, arg : 0 .. 1])
  /\ Done <= All /\ \A k \in 1 .. Done : ran[k] = Plan[k]

(* The device is behind the last of them; it works on the part of the queue  *)
(* that it was given.                                                       *)
PlaceInv(n) ==
  /\ pre = n /\ dev.queue = n
  /\ dev.rpt = IF Done = 0 THEN net[n].queue.offs[thr.first].read
               ELSE net[n].queue.offs[thr.first + Done - 1].write
  /\ Done > 0 => dev.stamp = thr.first + Done - 1
  /\ IF thr.pc = "PART"
     THEN /\ InTwo(n) /\ Done <= FirstPart(n)
          /\ dev.wpt = net[n].queue.offs[net[n].model.last].write
          /\ dev.table = "public"
     ELSE /\ InTwo(n) => Done >= FirstPart(n)
          /\ dev.wpt = net[n].queue.offs[thr.last].write
          /\ dev.table = TableOf(n, thr.last)

(* The interrupt of a part that has been executed, or of one that failed,    *)
(* and the token that it becomes.                                           *)
Signal(cause, tokens) ==
  \/ dev.irq = {cause} /\ dev.irqOn /\ tokens = 0
  \/ dev.irq = {} /\ (dev.irqOn <=> cause = "TS") /\ tokens = 1
Silent(tokens) == dev.irq = {} /\ dev.irqOn /\ tokens = 0

SignalInv(n) ==
  /\ thr.pc = "PART" =>
       /\ thr.partial /\ dev.ok /\ sem_irq = 0
       /\ IF Done = FirstPart(n) THEN Signal("TS", net[n].sem) ELSE Silent(net[n].sem)
  /\ thr.pc # "PART" => ~thr.partial /\ net[n].sem = 0
  /\ thr.pc = "WAIT" =>
       IF Done = All THEN dev.ok /\ Signal("TS", sem_irq)
       ELSE Silent(sem_irq) \/ (~dev.ok /\ Signal("ERR", sem_irq))
  /\ thr.pc = "FINISHED" => Done = All /\ dev.ok /\ Silent(sem_irq)
  /\ thr.pc = "FAILED" => ~dev.ok /\ dev.irq = {} /\ sem_irq = 0

WorkInv ==
  thr.pc # "IDLE" =>
    LET n == thr.net
        m == net[n].model
    IN /\ n \in Net /\ Registered(n)
       /\ Segment(m, thr.first, thr.last) /\ net[n].next = NextStart(m, thr.last)
       /\ \A i \in thr.first .. thr.last : net[n].args[i] = net[n].run
       /\ \A o \in Net \ {n} : net[o].sem = 0
       /\ RanInv(n) /\ PlaceInv(n) /\ SignalInv(n)

PrivInv == PrivTypeOK /\ NetInv /\ RestInv /\ WorkInv
=============================================================================
