------------------------------- MODULE AdlakLife -------------------------------
(***************************************************************************)
(* The life of the device: loading the module, probe, remove, and who may  *)
(* change the device's power in between.  adlak_platform_device.c,         *)
(* adlak_device.c, adlak_platform_config.c, adlak_dpm.c, and the init and  *)
(* deinit functions of the parts they call.                                *)
(*                                                                         *)
(* The kernel's thread runs a list of steps.  A probe takes one resource   *)
(* after the other; when a step fails, the code jumps to one of its labels *)
(* and gives back what the steps after the label name.  The steps of the   *)
(* inference thread are those of AdlakInference that matter to its own end *)
(* and to the power; register accesses through sysfs and debugfs are the   *)
(* third process.  A wk_update that is missing does not hold the thread    *)
(* up: the timer gives one each period.                                    *)
(***************************************************************************)
EXTENDS Integers, Sequences, FiniteSets

CONSTANTS
  MayFail,      \* steps of load and probe that may fail
  MaxMinors,    \* ADLAK_MAX_DEVICES
  MaxContexts,  \* bound on open files
  Allow         \* what the system may do beyond the plain case:
                \*   "Rebind"         probe after mem_deinit, in the same module
                \*   "ThreadFails"    kthread_create fails
                \*   "StopUnstarted"  stop the thread before it ran at all
                \*   "Unmapped"       the registers cannot be mapped
                \*   "Races"          register accesses beside the thread
                \*   "OpenAtRemove"   files that are open when the device goes
                \*   "DebugAtRemove"  register accesses while the device goes

ASSUME LifeAssumption == MaxMinors \in Nat \ {0} /\ MaxContexts \in Nat

VARIABLES
  at,     \* out (no module), in (no device), up or failed, once todo is empty
  doing,  \* todo's steps "take" or "give" what they name
  todo,   \* what the thread that loads, probes, removes or unloads has left
  held,   \* what is allocated, registered or initialised
  lock,   \* that thread holds dev_mutex
  thr,    \* the inference thread: pc, stop (thrd_should_stop), strategy
  pw,     \* power: usage (runtime PM), clk, susp (is_suspend), dpm (pdpm), cur
  dbg,    \* a register access: none, has seen is_suspend, or the registers are on
  ctxs,   \* open files
  mod     \* statics of the module: uid (ptr_mem_uid and its pool), minors

vars == <<at, doing, todo, held, lock, thr, pw, dbg, ctxs, mod>>

-----------------------------------------------------------------------------
(* The steps, in the code's order. *)

ModuleInit == <<"major", "class", "classfile", "driver">>
ModuleExit == <<"classfile", "class", "major">>

DeviceInit == <<"locks", "lock", "ids", "pm", "mem", "queue", "dpm", "hw", "thread",
                "irq", "suspend", "unlock">>
CreateCdev == <<"minor", "cdev", "node", "sysfs">>
DestroyCdev == <<"sysfs", "node", "cdev", "minor">>
Probing == <<"alloc", "resource", "sys", "region">> \o DeviceInit \o <<"fops">> \o CreateCdev

InferenceDeinit == <<"stop", "join", "await", "thread">>
DeviceInitUndo == InferenceDeinit \o <<"hw", "dpm", "queue", "mem", "pm", "ids", "unlock">>
DeviceDeinitPdpm ==   \* mutant: pdpm is freed before the power is given up
  InferenceDeinit \o <<"lock", "resume", "hw", "irq", "queue", "unlock",
    "contexts", "lock", "mem", "dpm", "pm", "ids", "unlock">>
DeviceDeinitLocked ==   \* mutant: the thread is stopped under dev_mutex
  <<"lock">> \o InferenceDeinit \o <<"resume", "hw", "irq", "queue", "unlock",
    "contexts", "lock", "mem", "pm", "dpm", "ids", "unlock">>
DeviceDeinit == InferenceDeinit \o <<"lock", "resume", "hw", "irq", "queue", "unlock",
                  "contexts", "lock", "mem", "pm", "dpm", "ids", "unlock">>
Removing == DeviceDeinit \o <<"lock", "sys", "region">> \o DestroyCdev \o
            <<"unlock", "locks", "alloc">>

ModuleSteps == {"major", "class", "classfile", "driver"}
DeviceSteps == {Probing[i] : i \in DOMAIN Probing}
Silent == {"resource", "fops", "driver", "lock", "unlock", "suspend"}
Resources == (ModuleSteps \cup DeviceSteps \cup {"map"}) \ Silent

From(s, seq) == LET i == CHOOSE i \in DOMAIN seq : seq[i] = s
                IN  SubSeq(seq, i, Len(seq))

(* Where each failing step's goto leads. *)
InitLabelOneOff ==   \* mutant: a failed mem_init leaves the power on
  [ids |-> "unlock", pm |-> "ids", mem |-> "ids", queue |-> "mem",
   dpm |-> "queue", hw |-> "dpm", irq |-> "stop"]
InitLabel == [ids |-> "unlock", pm |-> "ids", mem |-> "pm", queue |-> "mem",
              dpm |-> "queue", hw |-> "dpm", irq |-> "stop"]
CdevLabel == [minor |-> <<>>, cdev |-> <<>>, node |-> <<"cdev">>, sysfs |-> <<"node", "cdev">>]

UndoOf(s) ==
  CASE s \in {"alloc", "major", "driver"} -> <<>>
    [] s \in {"class", "classfile"} -> <<"major">>
    [] s \in {"resource", "region"} -> <<"alloc">>
    [] s \in DOMAIN InitLabel -> From(InitLabel[s], DeviceInitUndo) \o <<"region", "alloc">>
    [] s \in DOMAIN CdevLabel -> CdevLabel[s] \o DeviceDeinit \o <<"region", "alloc">>

-----------------------------------------------------------------------------
(* Power. *)

ClkUpdate(p, f) == IF p.dpm = "live" THEN [p EXCEPT !.cur = f] ELSE p

SetPower(p, on) == [p EXCEPT !.usage = IF on THEN @ + 1 ELSE @ - 1]
SetClock(p, on) == ClkUpdate([p EXCEPT !.clk = on], IF on THEN "on" ELSE "off")

PlatformPmInit(p) == [SetClock(SetPower(p, TRUE), TRUE) EXCEPT !.susp = FALSE]
PlatformPmDeinit(p) == [SetPower(SetClock(p, FALSE), FALSE) EXCEPT !.susp = TRUE]

PowerUp(p) == [SetClock(SetPower(p, TRUE), TRUE) EXCEPT !.susp = FALSE]
PlatformResumeAgain(p) == PowerUp(p)   \* mutant: is_suspend is not tested
PlatformResume(p) == IF p.susp THEN PowerUp(p) ELSE p
PlatformSuspendClocked(p) ==   \* mutant: the clocks stay on
  IF p.susp THEN p ELSE SetPower([p EXCEPT !.susp = TRUE], FALSE)
PlatformSuspend(p) ==
  IF p.susp THEN p ELSE SetPower(SetClock([p EXCEPT !.susp = TRUE], FALSE), FALSE)

DpmInit(p) == [p EXCEPT !.dpm = "live", !.cur = "off"]
DpmDeinit(p) == IF p.dpm = "none" THEN p ELSE [p EXCEPT !.dpm = "freed"]

DpmAdjust(p, expect) ==
  [(IF expect = "off" THEN PlatformSuspend(p)
    ELSE IF p.cur = "off" THEN PlatformResume(p)
    ELSE SetClock(p, TRUE)) EXCEPT !.cur = expect]

StageAdjust(p, strategy) ==
  LET expect == IF strategy = "MAX" THEN "on" ELSE "off"
  IN  IF p.dpm = "none" \/ p.cur = expect THEN p ELSE DpmAdjust(p, expect)

Powered(p) == p.usage > 0 /\ p.clk

-----------------------------------------------------------------------------
NoThread == [pc |-> "none", stop |-> FALSE, strategy |-> "MIN"]
NoPower == [usage |-> 0, clk |-> FALSE, susp |-> FALSE, dpm |-> "none", cur |-> "off"]
Init ==
  /\ at = "out" /\ doing = "give" /\ todo = <<>>
  /\ held = {} /\ lock = FALSE /\ ctxs = 0
  /\ thr = NoThread /\ pw = NoPower /\ dbg = "none"
  /\ mod = [uid |-> "none", minors |-> 0]

Up == at = "up" /\ todo = <<>>
Quiet == dbg = "none" \/ "Races" \in Allow

Begin(place, how, steps) == at' = place /\ doing' = how /\ todo' = steps

LoadModule ==
  /\ at = "out" /\ todo = <<>>
  /\ Begin("in", "take", ModuleInit)
  /\ held' = {} /\ mod' = [uid |-> "none", minors |-> 0]
  /\ UNCHANGED <<lock, thr, pw, dbg, ctxs>>

UnloadModule ==
  /\ at \in {"in", "failed"} /\ todo = <<>>
  /\ Begin("out", "give", ModuleExit)
  /\ held' = held \cap ModuleSteps
  /\ UNCHANGED <<lock, thr, pw, dbg, ctxs, mod>>

(* A new struct adlak_device.  What a failed probe left is not followed on. *)
Probe ==
  /\ at \in {"in", "failed"} /\ todo = <<>>
  /\ mod.uid = "hollow" => "Rebind" \in Allow
  /\ Begin("up", "take", Probing)
  /\ held' = held \cap ModuleSteps
  /\ thr' = NoThread /\ pw' = [NoPower EXCEPT !.usage = pw.usage]
  /\ UNCHANGED <<lock, dbg, ctxs, mod>>

Remove ==
  /\ Up
  /\ ctxs > 0 => "OpenAtRemove" \in Allow
  /\ Begin("in", "give", Removing)
  /\ UNCHANGED <<held, lock, thr, pw, dbg, ctxs, mod>>

-----------------------------------------------------------------------------
(* One step of todo. *)

Now(how, s) == todo # <<>> /\ doing = how /\ s = Head(todo) /\ Quiet

Done == todo' = Tail(todo) /\ UNCHANGED <<at, doing>>
Took(s) == Done /\ held' = held \cup {s}
Gave(s) == Done /\ held' = held \ {s}

Lock(how) == Now(how, "lock") /\ ~lock /\ lock' = TRUE /\ Done
             /\ UNCHANGED <<held, thr, pw, dbg, ctxs, mod>>
Unlock(how) == Now(how, "unlock") /\ lock' = FALSE /\ Done
               /\ UNCHANGED <<held, thr, pw, dbg, ctxs, mod>>

Fail(s) ==
  /\ Now("take", s)
  /\ s \in MayFail \/ (s = "minor" /\ mod.minors = MaxMinors)
  /\ Begin(IF s \in ModuleSteps THEN "out" ELSE "failed", "give", UndoOf(s))
  /\ \/ s # "mem" /\ mod' = mod
     \/ s = "mem" /\ \E u \in {"none", "live", "hollow"} :
          /\ mod.uid = "none" \/ u \in {mod.uid, "hollow"}
          /\ mod' = [mod EXCEPT !.uid = u]
  /\ UNCHANGED <<held, lock, thr, pw, dbg, ctxs>>

(* Requests that only take: the class, the device's data, the mutexes, the  *)
(* net ids, the queue, the hardware info, the interrupt, the device nodes.  *)
Plain == {"major", "class", "classfile", "alloc", "locks", "ids", "queue", "hw", "irq",
          "cdev", "node", "sysfs"}
TakePlain(s) ==
  Now("take", s) /\ s \in Plain /\ Took(s) /\ UNCHANGED <<lock, thr, pw, dbg, ctxs, mod>>
TakeNothing(s) ==
  Now("take", s) /\ s \in {"driver", "resource", "fops"} /\ Done
  /\ UNCHANGED <<held, lock, thr, pw, dbg, ctxs, mod>>

(* A regulator that cannot be enabled or set is put back; the probe goes on *)
(* without it.                                                              *)
VoltageInit ==
  Now("take", "sys") /\ (Took("sys") \/ (Done /\ UNCHANGED held))
  /\ UNCHANGED <<lock, thr, pw, dbg, ctxs, mod>>

(* adlak_create_ioregion returns the region it has allocated even when the  *)
(* registers cannot be requested or mapped.                                 *)
CreateIoregion ==
  /\ Now("take", "region") /\ Done
  /\ \/ held' = held \cup {"region", "map"}
     \/ "Unmapped" \in Allow /\ held' = held \cup {"region"}
  /\ UNCHANGED <<lock, thr, pw, dbg, ctxs, mod>>

PmInit == Now("take", "pm") /\ Took("pm") /\ pw' = PlatformPmInit(pw)
          /\ UNCHANGED <<lock, thr, dbg, ctxs, mod>>

(* adlak_mem_uid_init keeps the pool that ptr_mem_uid points to, if any. *)
MemInit ==
  /\ Now("take", "mem") /\ Took("mem")
  /\ mod' = [mod EXCEPT !.uid = IF @ = "none" THEN "live" ELSE @]
  /\ UNCHANGED <<lock, thr, pw, dbg, ctxs>>

TakeDpm == Now("take", "dpm") /\ Took("dpm") /\ pw' = DpmInit(pw)
           /\ UNCHANGED <<lock, thr, dbg, ctxs, mod>>

(* The result of adlak_os_thread_create is overwritten by the unlock's. *)
ThreadCreate ==
  /\ Now("take", "thread") /\ Took("thread")
  /\ \/ thr' = [NoThread EXCEPT !.pc = "created"]
     \/ "ThreadFails" \in Allow /\ UNCHANGED thr
  /\ UNCHANGED <<lock, pw, dbg, ctxs, mod>>

SuspendFirst == Now("take", "suspend") /\ Done /\ pw' = PlatformSuspend(pw)
                /\ UNCHANGED <<held, lock, thr, dbg, ctxs, mod>>

MinorGet == Now("take", "minor") /\ mod.minors < MaxMinors /\ Took("minor")
            /\ mod' = [mod EXCEPT !.minors = @ + 1] /\ UNCHANGED <<lock, thr, pw, dbg, ctxs>>

-----------------------------------------------------------------------------
GivePlain(s) ==
  /\ Now("give", s) /\ s \in Plain \cup {"sys"}
  /\ Gave(s) /\ UNCHANGED <<lock, thr, pw, dbg, ctxs, mod>>

(* adlak_destroy_ioregion does nothing to a region that is not mapped. *)
DestroyIoregion ==
  /\ Now("give", "region") /\ Done
  /\ held' = IF "map" \in held THEN held \ {"region", "map"} ELSE held
  /\ UNCHANGED <<lock, thr, pw, dbg, ctxs, mod>>

(* adlak_os_thread_detach: tell the thread, wait until it has ended, wait   *)
(* until it has answered.  A thread that never ran ends without an answer.  *)
ThreadStop ==
  /\ Now("give", "stop") /\ Done
  /\ thr.pc = "created" => "StopUnstarted" \in Allow
  /\ thr' = [thr EXCEPT !.stop = (thr.pc # "none")]
  /\ UNCHANGED <<held, lock, pw, dbg, ctxs, mod>>
ThreadJoin ==
  /\ Now("give", "join") /\ Done
  /\ thr.pc \in {"none", "created", "gone"}
  /\ thr' = IF thr.pc = "created" THEN [thr EXCEPT !.pc = "gone"] ELSE thr
  /\ UNCHANGED <<held, lock, pw, dbg, ctxs, mod>>
ThreadAwait ==
  /\ Now("give", "await") /\ Done
  /\ ~thr.stop
  /\ UNCHANGED <<held, lock, thr, pw, dbg, ctxs, mod>>
ThreadFree ==
  /\ Now("give", "thread") /\ Gave("thread")
  /\ thr' = NoThread
  /\ UNCHANGED <<lock, pw, dbg, ctxs, mod>>

ResumeLast == Now("give", "resume") /\ Done /\ pw' = PlatformResume(pw)
              /\ UNCHANGED <<held, lock, thr, dbg, ctxs, mod>>

DestroyAllContext == Now("give", "contexts") /\ Done /\ ctxs' = 0
                     /\ UNCHANGED <<held, lock, thr, pw, dbg, mod>>

(* The pool of the ids is freed; ptr_mem_uid stays. *)
MemDeinit == Now("give", "mem") /\ Gave("mem") /\ mod' = [mod EXCEPT !.uid = "hollow"]
             /\ UNCHANGED <<lock, thr, pw, dbg, ctxs>>

PmDeinit == Now("give", "pm") /\ Gave("pm") /\ pw' = PlatformPmDeinit(pw)
            /\ UNCHANGED <<lock, thr, dbg, ctxs, mod>>

GiveDpm == Now("give", "dpm") /\ Gave("dpm") /\ pw' = DpmDeinit(pw)
           /\ UNCHANGED <<lock, thr, dbg, ctxs, mod>>

MinorRemove == Now("give", "minor") /\ Gave("minor")
               /\ mod' = [mod EXCEPT !.minors = @ - 1] /\ UNCHANGED <<lock, thr, pw, dbg, ctxs>>

KernelStep ==
  \/ \E how \in {"take", "give"} : Lock(how) \/ Unlock(how)
  \/ \E s \in ModuleSteps \cup DeviceSteps :
       TakePlain(s) \/ TakeNothing(s) \/ Fail(s) \/ GivePlain(s)
  \/ VoltageInit \/ CreateIoregion \/ PmInit \/ MemInit \/ TakeDpm
  \/ ThreadCreate \/ SuspendFirst \/ MinorGet
  \/ DestroyIoregion \/ ThreadStop \/ ThreadJoin \/ ThreadAwait \/ ThreadFree
  \/ ResumeLast \/ DestroyAllContext \/ MemDeinit \/ PmDeinit \/ GiveDpm \/ MinorRemove

-----------------------------------------------------------------------------
(* The inference thread. *)

Runs(pc) == thr.pc = pc /\ UNCHANGED <<at, doing, todo, held, lock, dbg, ctxs, mod>>

ThreadStart == Runs("created") /\ thr' = [thr EXCEPT !.pc = "head"] /\ UNCHANGED pw

ThreadHead ==
  /\ Runs("head") /\ UNCHANGED pw
  /\ thr' = IF thr.stop THEN [thr EXCEPT !.pc = "gone", !.stop = FALSE]
            ELSE [thr EXCEPT !.pc = "lock"]

(* Each round reads pm_suspend under dev_mutex. *)
ThreadLock == Runs("lock") /\ ~lock /\ thr' = [thr EXCEPT !.pc = "work"] /\ UNCHANGED pw

ThreadIdle == Runs("work") /\ thr' = [thr EXCEPT !.pc = "head"] /\ UNCHANGED pw

ThreadAdjust ==
  /\ Runs("work") /\ ~lock /\ Quiet
  /\ \E strategy \in {"MIN", "MAX"} \ {thr.strategy} :
       /\ thr' = [thr EXCEPT !.pc = "head", !.strategy = strategy]
       /\ pw' = StageAdjust(pw, strategy)

ThreadStep == ThreadStart \/ ThreadHead \/ ThreadLock \/ ThreadIdle \/ ThreadAdjust

-----------------------------------------------------------------------------
(* Clients.  A register access tests is_suspend, in adlak_platform_resume  *)
(* or before it, and takes no lock.                                        *)

Open ==
  /\ "node" \in held /\ ~lock /\ ctxs < MaxContexts
  /\ Up \/ "OpenAtRemove" \in Allow
  /\ ctxs' = ctxs + 1
  /\ UNCHANGED <<at, doing, todo, held, lock, thr, pw, dbg, mod>>
Close ==
  /\ ctxs > 0 /\ ~lock /\ Up
  /\ ctxs' = ctxs - 1
  /\ UNCHANGED <<at, doing, todo, held, lock, thr, pw, dbg, mod>>

Debugs(from, to) == dbg = from /\ dbg' = to
                    /\ UNCHANGED <<at, doing, todo, held, lock, thr, ctxs, mod>>
DebugCheck ==
  /\ "sysfs" \in held
  /\ Up \/ "DebugAtRemove" \in Allow
  /\ Debugs("none", IF pw.susp THEN "suspended" ELSE "on")
  /\ UNCHANGED pw
DebugResume == Debugs("suspended", "on") /\ pw' = PowerUp(pw)
DebugAccess == Debugs("on", "none") /\ UNCHANGED pw
SetClkCore == Debugs("on", "none") /\ pw' = SetClock(pw, TRUE)

DebugStep == DebugResume \/ DebugAccess \/ SetClkCore

Next ==
  \/ LoadModule \/ UnloadModule \/ Probe \/ Remove
  \/ KernelStep \/ ThreadStep
  \/ Open \/ Close \/ DebugCheck \/ DebugStep

(* The kernel's thread, the inference thread and a client inside a call are *)
(* scheduled.                                                               *)
Fairness == WF_vars(KernelStep) /\ WF_vars(ThreadStep) /\ WF_vars(DebugStep)

Spec == Init /\ [][Next]_vars /\ Fairness

-----------------------------------------------------------------------------
LifeTypeOK ==
  /\ at \in {"out", "in", "up", "failed"} /\ doing \in {"take", "give"}
  /\ held \subseteq Resources /\ lock \in BOOLEAN
  /\ thr \in [pc : {"none", "created", "head", "lock", "work", "gone"}, stop : BOOLEAN,
              strategy : {"MIN", "MAX"}]
  /\ pw \in [usage : 0 .. 1, clk : BOOLEAN, susp : BOOLEAN, dpm : {"none", "live", "freed"},
             cur : {"off", "on"}]
  /\ dbg \in {"none", "suspended", "on"}
  /\ ctxs \in 0 .. MaxContexts
  /\ mod \in [uid : {"none", "live", "hollow"}, minors : 0 .. MaxMinors]

(* What a step reads, locks or writes: the mutexes, the semaphores of the   *)
(* queue, the mapped registers and the hardware info, the pool of the ids.  *)
Needs(how, s) ==
  CASE s \in {"lock", "unlock"} -> {"locks"}
    [] s \in {"stop", "thread"} -> {"queue"}
    [] s = "hw" -> {"region", "map"} \cup (IF how = "give" THEN {"hw"} ELSE {})
    [] s = "resume" -> {"pm", "hw", "map"}
    [] s = "suspend" -> {"pm", "hw"}
    [] s = "contexts" /\ ctxs > 0 -> {"locks", "queue", "mem", "ids"}
    [] how = "give" /\ s \in {"queue", "mem", "pm", "ids", "irq", "region", "alloc"} -> {s}
    [] OTHER -> {}

ChangesClock == {"pm", "resume", "suspend"}
NeedsUid(how, s) == s = "mem" \/ (s = "contexts" /\ ctxs > 0)

(* No step uses what is not there: a mutex, a semaphore or a pool that was  *)
(* destroyed, hardware info or a pdpm that was freed, registers that are    *)
(* not mapped or not powered.  It holds for every order of the undo labels  *)
(* that the allowed failures reach, and for the thread and the clients that *)
(* run meanwhile.                                                           *)
UsesHeld ==
  /\ todo # <<>> =>
       /\ Needs(doing, Head(todo)) \subseteq held
       /\ Head(todo) \in ChangesClock => pw.dpm # "freed"
       /\ Head(todo) = "hw" => Powered(pw)
       /\ NeedsUid(doing, Head(todo)) => mod.uid # "hollow"
  /\ thr.pc = "work" =>
       /\ {"locks", "queue", "dpm", "hw", "map"} \subseteq held
       /\ thr.strategy = "MAX" => Powered(pw)
  /\ dbg # "none" => {"pm", "hw", "map", "dpm"} \subseteq held
  /\ dbg = "on" => Powered(pw)

(* After load, probe, remove and unload, and after each failure of one of   *)
(* them, all of its resources are held or none: a device that is up has its *)
(* thread, one that went is off and has left nothing.  A failed probe has   *)
(* left what no label gives back: the regulator, the two locks, the minor.  *)
AllOrNothing ==
  todo = <<>> =>
    /\ at = "out" => held = {}
    /\ at = "in" => held = ModuleSteps \ Silent
    /\ at = "failed" => held \ {"sys", "locks", "minor"} = ModuleSteps \ Silent
    /\ at = "up" => Resources \ held \subseteq {"sys"} /\ thr.pc # "none"
    /\ at # "up" => pw.usage = 0 /\ ~pw.clk /\ thr.pc = "none" /\ ~lock

(* The power domain, the clocks, is_suspend and the frequency that dpm      *)
(* believes in change together, and the device is powered when the thread   *)
(* takes it to be, whoever switched it last: probe, the thread, a client of *)
(* sysfs, remove.                                                           *)
PowerAgrees ==
  /\ "pm" \in held /\ dbg = "none" =>
       /\ pw.usage = IF pw.susp THEN 0 ELSE 1
       /\ pw.clk = ~pw.susp
  /\ Up /\ dbg = "none" =>
       /\ pw.cur = IF pw.susp THEN "off" ELSE "on"
       /\ thr.strategy = "MAX" => ~pw.susp

(* Every load, probe, remove and unload comes to an end, though remove      *)
(* waits for the inference thread and both use dev_mutex.                   *)
ProbeEnds == todo # <<>> ~> todo = <<>>

-----------------------------------------------------------------------------
(* The inductive invariant.  What is held follows from the steps that are   *)
(* still ahead; so do the order of the thread's end, of the power and of    *)
(* the mutex.                                                               *)

(* What may be left of a list. *)
Tails(L) == {SubSeq(L, k, Len(L)) : k \in 1 .. Len(L) + 1}

(* The steps still to come.                                                 *)
Ahead(t) == {t[i] : i \in DOMAIN t}

(* The mapped registers go with their region. *)
Due(t) == Ahead(t) \cup (IF "region" \in Ahead(t) THEN {"map"} ELSE {})

(* The next step on the mutex of the device is to unlock it. *)
Inside(t) == \E i \in DOMAIN t : t[i] = "unlock" /\ \A j \in 1 .. i : t[j] # "lock"

(* What a probe that fails in DeviceInit, and one that fails after it, give *)
(* back at most.                                                            *)
UndoInit == <<"queue", "mem", "pm", "ids", "unlock", "region", "alloc">>
UndoCdev == <<"node", "cdev">> \o DeviceDeinit \o <<"region", "alloc">>

(* The steps whose failure the labels undo.  That of "hw" uses a pdpm that  *)
(* was freed, that of "irq" stops the thread under dev_mutex, those of      *)
(* "classfile" and "driver" leave what was taken.                           *)
Survivable == {"major", "class", "alloc", "resource", "region", "ids", "pm", "mem", "queue",
  "dpm", "minor", "cdev", "node", "sysfs"}

(* The plain case, with the failures that the labels are right for.         *)
PlainLife == Allow = {} /\ MayFail \subseteq Survivable

(* The lists that end in a place.                                           *)
Lists(place, how) ==
  CASE how = "take" /\ place = "in" -> {ModuleInit}
    [] how = "take" /\ place = "up" -> {Probing}
    [] how = "give" /\ place = "out" -> {ModuleExit}
    [] how = "give" /\ place = "in" -> {Removing}
    [] how = "give" /\ place = "failed" -> {UndoInit, UndoCdev}
    [] OTHER -> {}

(* The kernel's thread is somewhere in one of them.                         *)
TodoInv == \E L \in Lists(at, doing) : todo \in Tails(L)

(* What a list takes in the end, and what one that gives leaves. *)
Wanted == IF at = "up" THEN Resources ELSE ModuleSteps \ Silent
Left == IF at = "out" THEN {} ELSE ModuleSteps \ Silent

(* What may be held or not. *)
Loose == CASE at = "failed" -> {"sys", "locks", "minor"}
           [] at = "out" -> {}
           [] OTHER -> {"sys"}

(* Steps that take have taken what is no longer ahead; steps that give back *)
(* still hold what is.                                                      *)
HeldInv ==
  /\ held \subseteq Resources
  /\ doing = "take" =>
       \A r \in Resources \ Loose : r \in held <=> r \in Wanted /\ r \notin Due(todo)
  /\ doing = "give" =>
       \A r \in Resources \ Loose : r \in held <=> r \in Left \/ r \in Due(todo)
  /\ "sys" \in held => at \in {"up", "failed"} \/ "sys" \in Ahead(todo)
  /\ doing = "give" /\ {"lock", "unlock"} \cap Ahead(todo) # {} => "locks" \in held

Alive == {"created", "head", "lock", "work"}

(* The thread runs until it is told to stop, and is gone once it was joined.*)
(* It works only while nobody is inside dev_mutex.                          *)
ThreadInv ==
  /\ "thread" \notin held => thr = NoThread
  /\ "thread" \in held /\ (doing = "give" => "stop" \in Ahead(todo)) =>
       thr.pc \in Alive /\ ~thr.stop
  /\ "thread" \in held /\ doing = "give" /\ "stop" \notin Ahead(todo) =>
       thr.pc \in {"head", "lock", "work", "gone"} /\ (thr.stop <=> thr.pc # "gone")
  /\ "thread" \in held /\ doing = "give" /\ "join" \notin Ahead(todo) => thr.pc = "gone"
  /\ thr.pc = "work" => ~lock
  /\ doing = "take" /\ "suspend" \in Ahead(todo) => thr.strategy = "MIN"

(* is_suspend decides on power domain, clocks and frequency, from pm to pm. *)
(* Between the last step that switches the power and its end the device is  *)
(* on, so that the steps in between may use the registers.                  *)
PowerInv ==
  /\ "pm" \in held => pw.usage = (IF pw.susp THEN 0 ELSE 1) /\ (pw.clk <=> ~pw.susp)
  /\ "pm" \notin held => pw.usage = 0 /\ ~pw.clk
  /\ pw.dpm = "live" <=> "dpm" \in held
  /\ pw.dpm = "freed" => at # "up" /\ "pm" \notin held
  /\ "pm" \in held /\ doing = "take" /\ "suspend" \in Ahead(todo) => ~pw.susp
  /\ "pm" \in held /\ doing = "give" /\ "resume" \notin Ahead(todo) => ~pw.susp
  /\ "dpm" \in held /\ "pm" \in held /\ "suspend" \notin Ahead(todo)
       /\ (doing = "take" \/ "resume" \in Ahead(todo)) =>
       pw.cur = IF pw.susp THEN "off" ELSE "on"
  /\ thr.pc # "gone" /\ thr.strategy = "MAX" => ~pw.susp

(* The statics of the module: a probe never meets a pool that was freed.    *)
ModInv ==
  /\ "mem" \in held => mod.uid = "live"
  /\ doing = "take" /\ at = "up" => mod.uid # "hollow"
  /\ "minor" \in held => mod.minors > 0

(* Files are open on a device that is up; a register access may go on until *)
(* remove's first step, and nobody switches the power meanwhile.            *)
ClientInv ==
  /\ ctxs > 0 => Up
  /\ dbg # "none" => "sysfs" \in held /\ (Up \/ todo = Removing)
  /\ dbg = "suspended" => pw.susp
  /\ dbg = "on" => ~pw.susp

LifeInv ==
  /\ LifeTypeOK /\ TodoInv /\ HeldInv /\ (lock <=> Inside(todo))
  /\ ThreadInv /\ PowerInv /\ ModInv /\ ClientInv
=============================================================================
