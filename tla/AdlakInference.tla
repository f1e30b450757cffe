--------------------------- MODULE AdlakInference ---------------------------
(***************************************************************************)
(* The inference thread of the ADLA driver over the work queue of         *)
(* AdlakWorkqueue, with the DPM timer that makes it idle down and the     *)
(* system suspend and resume callbacks that stop and restart it.          *)
(*                                                                         *)
(* One action is one state of the thread's loop up to the next lock it    *)
(* takes.  The thread is pipelined: task "pre" has ended and waits to be  *)
(* reported while task "cur" is already running.                          *)
(***************************************************************************)
EXTENDS AdlakWorkqueue

CONSTANTS
  TeeNet,      \* nets whose model is executed by the TEE
  Suspends,    \* does the kernel suspend the system?
  IdleLimit    \* idle timer ticks before the device is powered down (10)

ASSUME InferenceAssumption ==
  /\ TeeNet \subseteq Net
  /\ Suspends \in BOOLEAN
  /\ IdleLimit \in Nat \ {0}

VARIABLES
  pc,            \* inference_state
  cur, pre,      \* ptask_sch_cur, ptask_sch_pre
  sig,           \* the reported task whose context->wait is still to be woken
  netPrev,       \* net_id_invoke_previous
  pmSnap,        \* the local pm_suspend in WQ_CHECK
  noPending,     \* was the local pending_num 0?
  dpm,           \* dpm_stategy
  device,        \* device_state
  idle,          \* wq_idel_cnt, counted to IdleLimit
  submitted,     \* submit_num differs from the timer's submit_num_pre
  pm_suspend, is_suspend,   \* the fields of padlak
  sem_pm_wakeup,
  system         \* the kernel's suspend: "up", "suspending" or "suspended"

threadVars == <<pc, cur, pre, sig, netPrev, pmSnap, noPending, dpm, device>>
timerVars  == <<idle, submitted>>
pmVars     == <<pm_suspend, is_suspend, sem_pm_wakeup, system>>
vars       == <<queueVars, threadVars, timerVars, pmVars>>

ReportState == {"REPORT_TASK_PRE", "REPORT_TASK_PRE2", "REPORT_TEE"}
InferenceState ==
  {"RESUME", "DEV_RESET", "WQ_RESET", "WQ_CHECK", "WQ_TAKE", "SLEEP_CHECK",
   "PM_SLEEP", "POST_TASK", "SUBMIT", "SUBMIT_TEE", "SUBMIT_WAIT", "CHECK_TASK",
   "REPORT_TASK_CUR"} \cup ReportState

TypeOK ==
  /\ QueueTypeOK
  /\ pc \in InferenceState
  /\ {cur, pre, sig} \subseteq Task \cup {None}
  /\ netPrev \in Net \cup {None}
  /\ {pmSnap, noPending, submitted, pm_suspend, is_suspend} \subseteq BOOLEAN
  /\ dpm \in {"MIN", "MAX"}
  /\ device \in {"INIT", "IDLE", "BUSY", "ERR"}
  /\ idle \in 0..IdleLimit
  /\ sem_pm_wakeup \in 0..MaxTokens
  /\ system \in {"up", "suspending", "suspended"}

(* The device is left suspended by adlak_device_init; the thread's first    *)
(* loop sets its locals and goes on to RESUME.                              *)
Init ==
  /\ QueueInit
  /\ pc = "RESUME"
  /\ cur = None /\ pre = None /\ sig = None /\ netPrev = None
  /\ pmSnap = FALSE /\ noPending = TRUE
  /\ dpm = "MIN" /\ device = "INIT"
  /\ idle = 0 /\ submitted = TRUE
  /\ pm_suspend = FALSE /\ is_suspend = TRUE /\ sem_pm_wakeup = 0
  /\ system = "up"

-----------------------------------------------------------------------------
(* The inference thread.  A reported task's context->wait is signalled      *)
(* after wq_mutex is released, before the thread does anything else.        *)

At(location) == pc = location /\ sig = None
Goto(location) == pc' = location

ResumeUnrecorded ==   \* mutant: the device is powered, is_suspend stays
  /\ At("RESUME") /\ dpm # "MAX"
  /\ dpm' = "MAX"
  /\ Goto("DEV_RESET")
  /\ UNCHANGED <<queueVars, cur, pre, sig, netPrev, pmSnap, noPending, device,
                 timerVars, pmVars>>
Resume ==
  /\ At("RESUME") /\ dpm # "MAX"
  /\ dpm' = "MAX" /\ is_suspend' = FALSE
  /\ Goto("DEV_RESET")
  /\ UNCHANGED <<queueVars, cur, pre, sig, netPrev, pmSnap, noPending, device,
                 timerVars, pm_suspend, sem_pm_wakeup, system>>

DevReset ==
  /\ At("DEV_RESET")
  /\ device' = "IDLE"
  /\ Goto("WQ_RESET")
  /\ UNCHANGED <<queueVars, cur, pre, sig, netPrev, pmSnap, noPending, dpm,
                 timerVars, pmVars>>

WqReset ==
  /\ At("WQ_RESET")
  /\ sched_num' = 0
  /\ cur' = None /\ pre' = None
  /\ Goto("WQ_CHECK")
  /\ UNCHANGED <<ctxVars, waiting, taskVars, pending_list, scheduled_list,
                 finished_list, ahead, pending_num, wk_update, histVars,
                 sig, netPrev, pmSnap, noPending, dpm, device, timerVars, pmVars>>

(* The report of pre is not delayed when there is nothing to run next. *)
ReportFirstInSwap == ValidNum(netPrev) = 0 /\ pre # None /\ netPrev # None  \* mutant
ReportFirst == ValidNum(netPrev) = 0 /\ pre # None

(* pm_suspend is read at the top of the loop. *)
WqCheck ==
  /\ At("WQ_CHECK") /\ ~corrupt
  /\ pmSnap' = pm_suspend
  /\ netPrev' = ValidNet(netPrev)
  /\ noPending' = (pending_num = 0)
  /\ Goto(IF ReportFirst THEN "REPORT_TASK_PRE2" ELSE "WQ_TAKE")
  /\ UNCHANGED <<queueVars, cur, pre, sig, dpm, device, timerVars, pmVars>>

(* There is work and the device is powered down. *)
NeedsResume == 0 < ValidNum(netPrev) /\ dpm = "MIN"

(* A suspend request comes before the work that is pending. *)
AfterTakeDropsPre ==   \* mutant: without reporting pre
  IF pmSnap THEN "SLEEP_CHECK"
  ELSE IF NeedsResume THEN "RESUME"
  ELSE IF 0 < ValidNum(netPrev) THEN "POST_TASK" ELSE "SLEEP_CHECK"
AfterTake ==
  IF pmSnap THEN IF pre # None THEN "REPORT_TASK_PRE2" ELSE "SLEEP_CHECK"
  ELSE IF NeedsResume THEN "RESUME"
  ELSE IF 0 < ValidNum(netPrev) THEN "POST_TASK" ELSE "SLEEP_CHECK"

(* The thread sleeps on wk_update, then looks at the queue again.  It gives *)
(* the token back to resume the device, or to poll while the next part of   *)
(* the model it has to go on with is not there yet.                         *)
WqTake ==
  LET blocked == ValidNum(netPrev) = 0 /\ 0 < pending_num
  IN
  /\ At("WQ_TAKE") /\ ~corrupt /\ wk_update > 0
  /\ netPrev' = ValidNet(netPrev)
  /\ noPending' = (pending_num = 0)
  /\ wk_update' = IF blocked \/ NeedsResume THEN wk_update ELSE wk_update - 1
  /\ idle' = IF NeedsResume THEN 0 ELSE idle
  /\ Goto(AfterTake)
  /\ UNCHANGED <<ctxVars, waiting, taskVars, listVars, histVars, cur, pre, sig,
                 pmSnap, dpm, device, submitted, pmVars>>

(* Idle for long: power the device down.  A suspend request: power it down, *)
(* acknowledge the request and sleep until the system has resumed.          *)
IdleDown == noPending /\ IdleLimit <= idle

PmDownWhenEmpty == pm_suspend /\ device = "IDLE" /\ noPending   \* mutant: work first
PmDown == pm_suspend /\ device = "IDLE"

SleepCheck ==
  /\ At("SLEEP_CHECK")
  /\ IF IdleDown \/ PmDown THEN dpm' = "MIN" /\ is_suspend' = (is_suspend \/ dpm # "MIN")
     ELSE UNCHANGED <<dpm, is_suspend>>
  /\ pm_suspend' = (pm_suspend /\ ~PmDown)
  /\ Goto(IF PmDown THEN "PM_SLEEP" ELSE "WQ_CHECK")
  /\ UNCHANGED <<queueVars, cur, pre, sig, netPrev, pmSnap, noPending, device,
                 timerVars, sem_pm_wakeup, system>>

PmSleep ==
  /\ At("PM_SLEEP") /\ sem_pm_wakeup > 0
  /\ sem_pm_wakeup' = sem_pm_wakeup - 1
  /\ Goto("WQ_CHECK")
  /\ UNCHANGED <<queueVars, cur, pre, sig, netPrev, pmSnap, noPending, dpm, device,
                 timerVars, pm_suspend, is_suspend, system>>

(* adlak_queue_schedule_update found no task: the queue was emptied by      *)
(* cancellations since it was looked at.                                    *)
PostNothing ==
  /\ At("POST_TASK") /\ ~corrupt
  /\ Eligible(netPrev) = {}
  /\ pending_num' = IF pending_list = {} THEN pending_num - 1 ELSE pending_num
  /\ Goto("WQ_CHECK")
  /\ UNCHANGED <<ctxVars, waiting, taskVars, pending_list, scheduled_list,
                 finished_list, ahead, sched_num, wk_update, histVars,
                 cur, pre, sig, netPrev, pmSnap, noPending, dpm, device,
                 timerVars, pmVars>>

PostTask ==
  /\ At("POST_TASK") /\ ~corrupt
  /\ \E t \in Eligible(netPrev) :
       /\ Schedule(t)
       /\ cur' = t
       /\ Goto(IF Owner[t] \in TeeNet THEN "REPORT_TEE" ELSE "SUBMIT")
  /\ submitted' = TRUE
  /\ UNCHANGED <<ctxVars, waiting, taskVars, wk_update, histVars, pre, sig,
                 netPrev, pmSnap, noPending, dpm, device, idle, pmVars>>

(* adlak_submit_patch_and_exec refuses a task that is not pending; the      *)
(* thread ignores its answer.  Left out: with the module parameter          *)
(* submit_blocking, a debugging aid, a task with a private queue runs in    *)
(* the TEE and goes from here to CHECK_TASK, without the report of pre.     *)
Submit ==
  /\ At("SUBMIT")
  /\ state' = [state EXCEPT ![cur] = IF @ = "PENDING" THEN "RUNNING" ELSE @]
  /\ netPrev' = IF ShareSwap /\ partial[cur] THEN Owner[cur] ELSE None
  /\ device' = "BUSY"
  /\ Goto("REPORT_TASK_PRE")
  /\ UNCHANGED <<ctxVars, waiting, canceled, partial, listVars, wk_update, histVars,
                 cur, pre, sig, pmSnap, noPending, dpm, timerVars, pmVars>>

(* The TEE runs the task to its end within the call. *)
SubmitTee ==
  /\ At("SUBMIT_TEE")
  /\ \E result \in {"FINISHED", "FAIL"} : state' = [state EXCEPT ![cur] = result]
  /\ netPrev' = None
  /\ Goto("CHECK_TASK")
  /\ UNCHANGED <<ctxVars, waiting, canceled, partial, listVars, wk_update, histVars,
                 cur, pre, sig, pmSnap, noPending, dpm, device, timerVars, pmVars>>

AfterReportNoWait == [loc \in ReportState |->   \* mutant: does not wait for the device
  CASE loc = "REPORT_TASK_PRE"  -> "CHECK_TASK"
    [] loc = "REPORT_TASK_PRE2" -> "WQ_CHECK"
    [] loc = "REPORT_TEE"       -> "SUBMIT_TEE"]
AfterReport == [loc \in ReportState |->
  CASE loc = "REPORT_TASK_PRE"  -> "SUBMIT_WAIT"
    [] loc = "REPORT_TASK_PRE2" -> "WQ_CHECK"
    [] loc = "REPORT_TEE"       -> "SUBMIT_TEE"]

(* The task to wake up for after UpdateTaskState(t). *)
Signalled(t) == IF canceled[t] THEN None ELSE t

ReportPre ==
  /\ pc \in ReportState /\ sig = None
  /\ IF pre # None /\ Reportable(pre)
       THEN UpdateTaskState(pre) /\ sig' = Signalled(pre)
       ELSE UNCHANGED <<queueVars, sig>>
  /\ pre' = None
  /\ Goto(AfterReport[pc])
  /\ UNCHANGED <<cur, netPrev, pmSnap, noPending, dpm, device, timerVars, pmVars>>

(* The end of the wait for the device: the interrupt or two timeouts and    *)
(* the bottom half that judges them.                                        *)
SubmitWait ==
  /\ At("SUBMIT_WAIT")
  /\ \E result \in {"FINISHED", "FAIL"} :
       /\ state' = [state EXCEPT ![cur] = result]
       /\ device' = IF result = "FINISHED" THEN "IDLE" ELSE "ERR"
  /\ Goto("CHECK_TASK")
  /\ UNCHANGED <<ctxVars, waiting, canceled, partial, listVars, wk_update, histVars,
                 cur, pre, sig, netPrev, pmSnap, noPending, dpm, timerVars, pmVars>>

CheckFinished ==
  /\ At("CHECK_TASK") /\ state[cur] = "FINISHED"
  /\ pre' = cur /\ cur' = None
  /\ Goto("WQ_CHECK")
  /\ UNCHANGED <<queueVars, sig, netPrev, pmSnap, noPending, dpm, device, timerVars,
                 pmVars>>

CheckFail ==
  /\ At("CHECK_TASK") /\ state[cur] = "FAIL"
  /\ Goto("REPORT_TASK_CUR")
  /\ UNCHANGED <<queueVars, cur, pre, sig, netPrev, pmSnap, noPending, dpm, device,
                 timerVars, pmVars>>

(* A failed task is reported at once, and the device is reset. *)
ReportCur ==
  /\ At("REPORT_TASK_CUR")
  /\ IF Reportable(cur)
       THEN UpdateTaskState(cur) /\ sig' = Signalled(cur) /\ cur' = None
       ELSE UNCHANGED <<queueVars, sig, cur>>
  /\ Goto("DEV_RESET")
  /\ UNCHANGED <<pre, netPrev, pmSnap, noPending, dpm, device, timerVars, pmVars>>

(* adlak_to_umd_sinal_give(ptask->context->wait) *)
Signal ==
  /\ sig # None
  /\ sig' = None
  /\ UNCHANGED <<queueVars, pc, cur, pre, netPrev, pmSnap, noPending, dpm, device,
                 timerVars, pmVars>>

ThreadNext ==
  \/ Resume \/ DevReset \/ WqReset \/ WqCheck \/ WqTake \/ SleepCheck \/ PmSleep
  \/ PostNothing \/ PostTask \/ Submit \/ SubmitTee \/ ReportPre \/ SubmitWait
  \/ CheckFinished \/ CheckFail \/ ReportCur \/ Signal

-----------------------------------------------------------------------------
(* The DPM timer: a period without a submit counts as idle, and wakes the   *)
(* thread up to notice.                                                     *)
TimerTickQuiet ==   \* mutant: counts, but wakes nobody up
  /\ IF submitted
       THEN submitted' = FALSE /\ idle' = 0
       ELSE /\ idle' = IF idle < IdleLimit THEN idle + 1 ELSE idle
            /\ UNCHANGED submitted
  /\ UNCHANGED <<queueVars, threadVars, pmVars>>
TimerTick ==
  /\ IF submitted
       THEN submitted' = FALSE /\ idle' = 0 /\ UNCHANGED wk_update
       ELSE /\ idle' = IF idle < IdleLimit THEN idle + 1 ELSE idle
            /\ wk_update' = Give(wk_update)
            /\ UNCHANGED submitted
  /\ UNCHANGED <<ctxVars, waiting, taskVars, listVars, histVars, threadVars, pmVars>>

(* The kernel suspends the system when no user process is inside a call:    *)
(* they are frozen first.                                                   *)
Freezable == \A n \in Net : waiting[n] = None /\ ~Closed(n)

SysSuspend ==
  /\ Suspends /\ system = "up" /\ Freezable
  /\ IF is_suspend
       THEN system' = "suspended" /\ UNCHANGED pm_suspend
       ELSE system' = "suspending" /\ pm_suspend' = TRUE
  /\ UNCHANGED <<queueVars, threadVars, timerVars, is_suspend, sem_pm_wakeup>>

SuspendPoll ==
  /\ system = "suspending" /\ ~pm_suspend
  /\ system' = "suspended"
  /\ UNCHANGED <<queueVars, threadVars, timerVars, pm_suspend, is_suspend,
                 sem_pm_wakeup>>

SysResume ==
  /\ system = "suspended"
  /\ system' = "up"
  /\ sem_pm_wakeup' = Give(sem_pm_wakeup)
  /\ UNCHANGED <<queueVars, threadVars, timerVars, pm_suspend, is_suspend>>

UserStep == /\ system = "up"
            /\ UserNext
            /\ UNCHANGED <<threadVars, timerVars, pmVars>>

Next ==
  \/ UserStep \/ ThreadNext \/ TimerTick
  \/ SysSuspend \/ SuspendPoll \/ SysResume

Spec == Init /\ [][Next]_vars

(* The thread, the timer and the callbacks run; a close that has begun is   *)
(* carried through; users owe nothing else.                                 *)
UserClose(n) == /\ system = "up" /\ ctx[n] # "open" /\ Destroy(n)
                /\ UNCHANGED <<threadVars, timerVars, pmVars>>

Fairness ==
  /\ WF_vars(ThreadNext) /\ WF_vars(TimerTick)
  /\ WF_vars(SuspendPoll) /\ WF_vars(SysResume)
  /\ \A n \in Net : WF_vars(UserClose(n))

FairSpec == Spec /\ Fairness

-----------------------------------------------------------------------------
(* Properties.                                                             *)

InFlight == {cur, pre} \ {None}
OnDevice == {"SUBMIT", "SUBMIT_TEE", "SUBMIT_WAIT", "REPORT_TASK_PRE", "REPORT_TEE"}

(* Every task the thread took from the queue is in its hands until it is    *)
(* reported: resets of the device and of the queue after a failure, a       *)
(* resume or a suspend (WQ_RESET forgets cur and pre) lose none.            *)
ScheduledIsHeld == scheduled_list = InFlight

(* Close and unregister free a context and its task structs while other     *)
(* actors are running: nothing that is still linked or that the thread      *)
(* still works on may belong to freed memory.                               *)
ContextOutlivesTasks ==
  \A t \in Linked \cup InFlight : model[Owner[t]] /\ ctx[Owner[t]] # "absent"

(* The thread signals ptask->context->wait after it has dropped wq_mutex:   *)
(* the task and its context must still be there.                            *)
SignalReachesLiveContext ==
  sig # None => model[Owner[sig]] /\ ctx[Owner[sig]] # "absent"

(* pending_num decides whether the thread looks for work: it may exceed the *)
(* length of pending_list after cancellations, but never fall short of it,  *)
(* which would leave a task in the queue for ever.                          *)
PendingNumCovers == pending_num >= Cardinality(pending_list)

(* invoke_cnt, which tells adlak_mem_free_request that the buffers are in   *)
(* use, counts exactly the linked tasks of the context; sched_num the       *)
(* scheduled ones, although WQ_RESET zeroes it.                             *)
CountsExact ==
  /\ \A n \in Net : ctx[n] # "absent" =>
       invoke_cnt[n] = Cardinality(Linked \cap TasksOf(n))
  /\ pc \notin {"WQ_RESET"} => sched_num = Cardinality(scheduled_list)

(* A close that waits for ctx_idle will be answered: the token is there, or *)
(* a task of the context is still to be reported.                           *)
CloseWillEnd ==
  \A n \in Net : ctx[n] = "drain" =>
    ctx_idle[n] > 0 \/ scheduled_list \cap TasksOf(n) # {}

(* Once close has deleted a context's invokes none of its tasks waits for   *)
(* the device or for the user again.                                        *)
DrainedStaysDrained ==
  \A n \in Net : ctx[n] \in {"drain", "idle"} =>
    TasksOf(n) \cap (pending_list \cup finished_list) = {}

(* A user that waits for a finished invoke finds a token in invoke_state,   *)
(* in whatever order finish, wait, timeout and cancel happened.             *)
NoLostWakeup ==
  \A n \in Net : waiting[n] \in finished_list => invoke_state[n] > 0

(* The converse, which the ASSERT(0) in adlak_wait_until_finished states:   *)
(* a waiting user that gets a token finds a result of its net.              *)
WaitFindsResult ==
  \A n \in Net : waiting[n] # None /\ invoke_state[n] > 0 =>
    TasksOf(n) \cap finished_list # {}

(* The ASSERTs of the thread's loop.                                        *)
AssertResume    == pc = "RESUME" => dpm # "MAX"
AssertBlocked   == pc = "WQ_TAKE" /\ ValidNum(netPrev) = 0 /\ 0 < pending_num => ShareSwap
AssertPost      == pc = "POST_TASK" => cur = None
AssertSleep     == pc = "SLEEP_CHECK" /\ noPending /\ dpm # "MIN" => InFlight = {}
AssertSubmit    == pc = "SUBMIT" => state[cur] = "PENDING"
AssertTaskState == pc = "CHECK_TASK" => state[cur] \in {"FINISHED", "FAIL"}

AssertsHold ==
  AssertResume /\ AssertBlocked /\ AssertPost /\ AssertSleep /\ AssertSubmit
    /\ AssertTaskState

(* The device is powered whenever the thread works on it, and it is idle    *)
(* whenever it is powered down.                                             *)
PoweredWhileBusy ==
  /\ cur # None \/ pc \in OnDevice \cup {"DEV_RESET", "WQ_RESET"} =>
       ~is_suspend /\ dpm = "MAX"
  /\ is_suspend => device \in {"INIT", "IDLE"}

(* A suspend that the driver has answered with success lasts until the      *)
(* system resumes: the device stays off.                                    *)
SuspendLasts == system = "suspended" => is_suspend

(* The thread that has acknowledged a suspend sleeps until the resume       *)
(* callback wakes it up.                                                    *)
SleepsUntilResume ==
  [][pc = "PM_SLEEP" /\ pc' # "PM_SLEEP" => system = "up"]_vars

(* Tasks keep the order of their queueing up to the report, run one at a    *)
(* time and vanish only on request.                                         *)
Phase == [t \in Task |->
  IF t \in pending_list THEN "queued"
  ELSE IF t \in scheduled_list
    THEN IF Reportable(t) THEN "ended" ELSE "running"
  ELSE IF t \in finished_list THEN "reported" ELSE "free"]

Service == INSTANCE JobService WITH Job <- Task, phase <- Phase

ServiceOfJobs == Service!JobSpec

(* Every pending task leaves the queue, once the system stays up...         *)
StaysUp == <>[](system = "up")
WorkIsTaken ==
  StaysUp => \A t \in Task : t \in pending_list ~> t \notin pending_list

(* ... and every task the thread has taken is reported or dropped.          *)
WorkIsReported ==
  StaysUp => \A t \in Task : t \in scheduled_list ~> t \notin scheduled_list

(* A close ends and a suspend is answered, whatever the thread was doing.   *)
CloseEnds == StaysUp => \A n \in Net : Closed(n) ~> ctx[n] = "absent"
SuspendAnswered == system = "suspending" ~> system = "suspended"

(* A device that is no longer used is powered down in the end, even if      *)
(* cancellations left pending_num above zero.                               *)
IdlePowersDown ==
  StaysUp /\ <>[](pending_list \cup scheduled_list = {}) => <>[]is_suspend
=============================================================================
