------------------------------ MODULE AdlakIrq ------------------------------
(***************************************************************************)
(* The end of a submission in the ADLA driver: the device, its interrupt  *)
(* handler adlak_irq_proc, the two bounded waits of adlak_submit_wait and *)
(* the bottom half that decides from the recorded interrupt status        *)
(* whether the task has finished or failed.  It details SUBMIT_WAIT of    *)
(* AdlakInference.                                                        *)
(***************************************************************************)
EXTENDS Integers

CONSTANTS
  Task,        \* the task structs, each used for invoke after invoke
  Stamp,       \* the time stamp that ends the task: its last layer
  None,        \* the NULL task pointer
  Expires,     \* may both waits expire while the device is still working?
  MaxTokens    \* bound: tokens counted in sem_irq

ASSUME IrqAssumption ==
  /\ None \notin Task
  /\ Stamp \in [Task -> Nat \ {0}]
  /\ Expires \in BOOLEAN
  /\ MaxTokens \in Nat \ {0}

VARIABLES
  pc,         \* where the inference thread is
  cur,        \* queue.ptask_sch_cur
  result,     \* its state
  masked,     \* ptask->hw_stat.irq_status.irq_masked, as a set of causes
  stamp,      \* ptask->hw_stat.irq_status.time_stamp
  timeout,    \* ptask->hw_stat.irq_status.timeout
  sem_irq,    \* tokens
  raw,        \* the register IRQ_RAW
  enabled,    \* is the register IRQ_MASK set?
  tsReg,      \* the register PS_TIME_STAMP
  device,     \* "idle", "busy" or "hung"
  job,        \* the task whose commands it was given last
  latched,    \* has the CPU taken an interrupt whose handler is still to run?
  outcome,    \* history: how the device ended this submission, if it has
  stale,      \* history: did it begin with the timeout of an earlier one?
  overrun     \* history: has the profiler's buffer overrun since the last reset?

status   == <<masked, stamp, timeout>>
hardware == <<raw, enabled, tsReg, device, job>>
irqVars  == <<pc, cur, result, status, sem_irq, hardware, latched, outcome, stale,
              overrun>>

(* "TS": time stamp, the end of the task; "ERR": the errors that stop it;   *)
(* "OVF": the profiler's FIFO or arbiter overflows; "DRAM": its buffer in   *)
(* memory does, which stops the device no more than "OVF" but is not told   *)
(* from "ERR" by the driver; "SW": the driver's own timeout.                *)
HwCause  == {"TS", "ERR", "OVF", "DRAM"}
MaskErr  == {"ERR", "OVF", "DRAM", "SW"}

IrqTypeOK ==
  /\ pc \in {"IDLE", "SUBMIT", "WAIT1", "WAIT2", "EXPIRED", "POLL", "JUDGE",
             "CHECK", "RESET"}
  /\ cur \in Task \cup {None}
  /\ result \in {"NONE", "RUNNING", "FINISHED", "FAIL"}
  /\ masked \in [Task -> SUBSET (HwCause \cup {"SW"})]
  /\ stamp \in [Task -> Nat]
  /\ timeout \in [Task -> BOOLEAN]
  /\ sem_irq \in 0..MaxTokens
  /\ raw \subseteq HwCause
  /\ enabled \in BOOLEAN /\ latched \in BOOLEAN
  /\ tsReg \in Nat
  /\ device \in {"idle", "busy", "hung"}
  /\ job \in Task \cup {None}
  /\ device = "busy" => job # None
  /\ outcome \in {"none", "finished", "error", "hung"}
  /\ stale \in BOOLEAN /\ overrun \in BOOLEAN

IrqInit ==
  /\ pc = "IDLE" /\ cur = None /\ result = "NONE"
  /\ masked = [t \in Task |-> {}]
  /\ stamp = [t \in Task |-> 0]
  /\ timeout = [t \in Task |-> FALSE]
  /\ sem_irq = 0
  /\ raw = {} /\ enabled = TRUE /\ tsReg = 0
  /\ device = "idle" /\ job = None
  /\ latched = FALSE /\ outcome = "none" /\ stale = FALSE /\ overrun = FALSE

-----------------------------------------------------------------------------
(* The device, and the CPU that takes its level-triggered interrupt.        *)


Finish ==
  /\ device = "busy"
  /\ raw' = raw \cup {"TS"}
  /\ tsReg' = Stamp[job]
  /\ device' = "idle" /\ outcome' = "finished"
  /\ UNCHANGED <<pc, cur, result, status, sem_irq, enabled, job, latched, stale,
                 overrun>>

Fail ==
  /\ device = "busy"
  /\ raw' = raw \cup {"ERR"}
  /\ device' = "hung" /\ outcome' = "error"
  /\ UNCHANGED <<pc, cur, result, status, sem_irq, enabled, tsReg, job,
                 latched, stale, overrun>>

Hang ==
  /\ device = "busy"
  /\ device' = "hung" /\ outcome' = "hung"
  /\ UNCHANGED <<pc, cur, result, status, sem_irq, raw, enabled, tsReg, job,
                 latched, stale, overrun>>

Overflow ==
  /\ device = "busy" /\ "OVF" \notin raw
  /\ raw' = raw \cup {"OVF"}
  /\ UNCHANGED <<pc, cur, result, status, sem_irq, enabled, tsReg, device, job,
                 latched, outcome, stale, overrun>>

DramOverflow ==
  /\ device = "busy" /\ "DRAM" \notin raw
  /\ raw' = raw \cup {"DRAM"} /\ overrun' = TRUE
  /\ UNCHANGED <<pc, cur, result, status, sem_irq, enabled, tsReg, device, job,
                 latched, outcome, stale>>

Latch ==
  /\ enabled /\ raw # {} /\ ~latched
  /\ latched' = TRUE
  /\ UNCHANGED <<pc, cur, result, status, sem_irq, hardware, outcome, stale,
                 overrun>>

-----------------------------------------------------------------------------
(* adlak_irq_proc for the task t, under padlak->spinlock.                   *)

IrqMasked(t) == (IF enabled THEN raw ELSE {}) \cup (IF timeout[t] THEN {"SW"} ELSE {})

(* "OVF" is acknowledged alone: the other causes raise the interrupt again. *)
(* The rest of mask_err disables all interrupts and clears every cause, the *)
(* end of the task and what its device has yet to say included.             *)
Disables(m) == m \cap MaskErr # {}

AckedAll(m) == IF Disables(m) THEN HwCause ELSE m   \* mutant: with the others
Acked(m) ==
  IF "OVF" \in m THEN {"OVF"} ELSE IF Disables(m) THEN HwCause ELSE m

(* After the timeout nobody waits for the token. *)
TokenGivenOnOvf(t, m) == ~timeout[t] /\ m # {}   \* mutant: for an overflow, too
TokenGivenAlways(t, m) == m # {} /\ "OVF" \notin m   \* mutant: after a timeout, too
TokenGiven(t, m) == ~timeout[t] /\ m # {} /\ "OVF" \notin m

IrqProc(t) ==
  LET m == IrqMasked(t)
  IN  /\ masked' = [masked EXCEPT ![t] = m]
      /\ stamp' = [stamp EXCEPT ![t] = tsReg]
      /\ raw' = raw \ Acked(m)
      /\ enabled' = (enabled /\ ("OVF" \in m \/ ~Disables(m)))
      /\ sem_irq' = IF TokenGiven(t, m) /\ sem_irq < MaxTokens
                      THEN sem_irq + 1 ELSE sem_irq

(* Without a current task the handler does nothing and is called again.     *)
Handler ==
  /\ latched
  /\ latched' = FALSE
  /\ IF cur = None
       THEN UNCHANGED <<masked, stamp, sem_irq, raw, enabled>>
       ELSE IrqProc(cur)
  /\ UNCHANGED <<pc, cur, result, timeout, tsReg, device, job, outcome, stale,
                 overrun>>

-----------------------------------------------------------------------------
(* The inference thread.                                                   *)

(* The task is posted and its last layer given to the device. *)
Submit(t) ==
  /\ pc = "IDLE"
  /\ cur' = t /\ result' = "RUNNING"
  /\ device' = "busy" /\ job' = t /\ outcome' = "none"
  /\ stale' = timeout[t]
  /\ pc' = "SUBMIT"
  /\ UNCHANGED <<status, sem_irq, raw, enabled, tsReg, latched, overrun>>

(* Only now the timeout of the struct's earlier invoke is cleared. *)
SubmitEnd ==
  /\ pc = "SUBMIT"
  /\ timeout' = [timeout EXCEPT ![cur] = FALSE]
  /\ pc' = "WAIT1"
  /\ UNCHANGED <<cur, result, masked, stamp, sem_irq, hardware, latched, outcome, stale,
                 overrun>>

WaitTakeAny ==   \* mutant: an interrupted wait counts as a success
  /\ pc \in {"WAIT1", "WAIT2"}
  /\ sem_irq' = sem_irq - 1
  /\ timeout' = [timeout EXCEPT ![cur] = FALSE]
  /\ pc' = "JUDGE"
  /\ UNCHANGED <<cur, result, masked, stamp, hardware, latched, outcome, stale,
                 overrun>>
WaitTake ==
  /\ pc \in {"WAIT1", "WAIT2"} /\ sem_irq > 0
  /\ sem_irq' = sem_irq - 1
  /\ timeout' = [timeout EXCEPT ![cur] = FALSE]
  /\ pc' = "JUDGE"
  /\ UNCHANGED <<cur, result, masked, stamp, hardware, latched, outcome, stale,
                 overrun>>

(* Unless Expires, a wait expires only if nothing is going to end it. *)
NoAnswerToCome == device # "busy" /\ ~latched /\ (raw = {} \/ ~enabled)

WaitExpireOnce ==   \* mutant: the second wait has no timeout
  /\ pc = "WAIT1" /\ sem_irq = 0
  /\ Expires \/ NoAnswerToCome
  /\ pc' = "WAIT2"
  /\ UNCHANGED <<cur, result, status, sem_irq, hardware, latched, outcome, stale,
                 overrun>>
WaitExpire ==
  /\ pc \in {"WAIT1", "WAIT2"} /\ sem_irq = 0
  /\ Expires \/ NoAnswerToCome
  /\ pc' = IF pc = "WAIT1" THEN "WAIT2" ELSE "EXPIRED"
  /\ UNCHANGED <<cur, result, status, sem_irq, hardware, latched, outcome, stale,
                 overrun>>

MarkTimeout ==
  /\ pc = "EXPIRED"
  /\ timeout' = [timeout EXCEPT ![cur] = TRUE]
  /\ pc' = "POLL"
  /\ UNCHANGED <<cur, result, masked, stamp, sem_irq, hardware, latched, outcome, stale,
                 overrun>>

Poll ==
  /\ pc = "POLL"
  /\ IrqProc(cur)
  /\ pc' = "JUDGE"
  /\ UNCHANGED <<cur, result, timeout, tsReg, device, job, latched, outcome, stale,
                 overrun>>

(* adlak_irq_bottom_half *)
FinishedIfStamp == stamp[cur] = Stamp[cur]   \* mutant: whatever the causes
Finished == "TS" \in masked[cur] /\ stamp[cur] = Stamp[cur]

Judge ==
  /\ pc = "JUDGE"
  /\ result' = IF Finished THEN "FINISHED" ELSE "FAIL"
  /\ pc' = "CHECK"
  /\ UNCHANGED <<cur, status, sem_irq, hardware, latched, outcome, stale,
                 overrun>>

(* CHECK_TASK, and REPORT_TASK_CUR after a failure. *)
Check ==
  /\ pc = "CHECK"
  /\ cur' = None /\ result' = "NONE"
  /\ pc' = IF result = "FAIL" THEN "RESET" ELSE "IDLE"
  /\ UNCHANGED <<status, sem_irq, hardware, latched, outcome, stale,
                 overrun>>

(* adlak_hal_reset_and_start: the pending causes are cleared and the        *)
(* interrupts enabled again; the tokens of sem_irq stay.                    *)
DevResetNoStart ==   \* mutant: without adlak_hal_start
  /\ pc = "RESET"
  /\ raw' = {}
  /\ tsReg' \in {0, tsReg}
  /\ device' = "idle" /\ outcome' = "none" /\ overrun' = FALSE
  /\ pc' = "IDLE"
  /\ UNCHANGED <<cur, result, status, sem_irq, enabled, job, latched, stale>>
DevReset ==
  /\ pc = "RESET"
  /\ raw' = {} /\ enabled' = TRUE
  /\ tsReg' \in {0, tsReg}
  /\ device' = "idle" /\ outcome' = "none" /\ overrun' = FALSE
  /\ pc' = "IDLE"
  /\ UNCHANGED <<cur, result, status, sem_irq, job, latched, stale>>

WaitStep == WaitTake \/ WaitExpire \/ MarkTimeout \/ Poll

IrqNext ==
  \/ Finish \/ Fail \/ Hang \/ Overflow \/ DramOverflow \/ Latch \/ Handler
  \/ \E t \in Task : Submit(t)
  \/ SubmitEnd \/ WaitStep \/ Judge \/ Check \/ DevReset

IrqSpec == IrqInit /\ [][IrqNext]_irqVars

(* The thread and the handler run, and the device answers or hangs. *)
IrqFairness ==
  /\ WF_irqVars(SubmitEnd) /\ WF_irqVars(WaitStep) /\ WF_irqVars(Judge)
  /\ WF_irqVars(Check) /\ WF_irqVars(DevReset)
  /\ WF_irqVars(Latch) /\ WF_irqVars(Handler)
  /\ WF_irqVars(Finish \/ Fail \/ Hang)

FairIrq == IrqSpec /\ IrqFairness

-----------------------------------------------------------------------------
(* Properties.                                                             *)

(* "wait until finished": a task is called finished only if the device has  *)
(* finished it, this time.                                                  *)
FinishedIsTrue == pc = "CHECK" /\ result = "FINISHED" => outcome = "finished"

(* ... and a task that the device has finished is not called failed, unless *)
(* the buffer of the profiler has overrun since the last reset.             *)
FinishIsJudged ==
  pc = "CHECK" /\ result = "FAIL" /\ ~overrun => outcome # "finished"

(* This is so whenever the struct's last invoke has not timed out, however  *)
(* the interrupt, the other overflows and the submission interleave.        *)
FinishIsSeen == ~stale => FinishIsJudged

(* The ASSERT(0) of the bottom half: there is a cause it knows, and a time  *)
(* stamp is the one of the task.                                            *)
AssertStatus ==
  pc = "JUDGE" => /\ masked[cur] # {}
                  /\ "TS" \in masked[cur] => stamp[cur] = Stamp[cur]

(* No token is left over for the next task, whose wait it would end.        *)
NoTokenLeft == pc \in {"IDLE", "RESET"} => sem_irq = 0

(* "interrupt disabled temporary!": a submission starts with interrupts     *)
(* enabled and none pending.                                                *)
InterruptsOn == pc = "IDLE" => enabled /\ raw = {}

(* They are, unless the profiler's buffer has overrun: a cause that comes   *)
(* with the end of the task disables them, and there is no reset after it.  *)
InterruptsStayOn == pc = "IDLE" => raw = {} /\ (enabled \/ overrun)

(* The inductive invariant behind these, when Expires is FALSE: what is      *)
(* known of the device and the interrupt at each place of the thread.       *)
Waiting == pc \in {"SUBMIT", "WAIT1", "WAIT2"}

(* An interrupt that was taken has a cause, and its handler a task. *)
LatchedInv == latched => enabled /\ raw # {} /\ Waiting

(* The device has the current task, or has answered it.  It is still at     *)
(* work after the wait only if an overrun has ended that, unheard.          *)
DeviceInv ==
  /\ device = "busy" => /\ outcome = "none"
                        /\ pc \notin {"IDLE", "EXPIRED", "POLL"}
                        /\ Waiting \/ (overrun /\ ~enabled)
  /\ pc \in {"IDLE", "RESET"} => cur = None
  /\ pc \notin {"IDLE", "RESET"} => cur \in Task
  /\ device = "busy" /\ cur # None => job = cur
  /\ Waiting => /\ outcome = "none" => device = "busy"
                /\ pc = "SUBMIT" => timeout[cur] = stale
                /\ pc # "SUBMIT" => ~timeout[cur]

(* The answer is still to be handled, is a token, or will not be seen: it   *)
(* was swallowed by the timeout of an earlier submission, or the interrupts *)
(* are still disabled after an overrun.                                     *)
Unhandled ==
  /\ sem_irq = 0 /\ enabled
  /\ "TS" \in raw <=> outcome = "finished"
  /\ "ERR" \in raw <=> outcome = "error"
  /\ "DRAM" \in raw => overrun
  /\ outcome = "finished" => tsReg = Stamp[cur]

Recorded ==
  /\ ~latched /\ masked[cur] # {} /\ masked[cur] \subseteq {"TS", "ERR", "DRAM"}
  /\ "TS" \in masked[cur] =>
       outcome = "finished" /\ stamp[cur] = Stamp[cur] /\ raw = {}
  /\ "ERR" \in masked[cur] => outcome = "error"
  /\ "DRAM" \in masked[cur] => overrun /\ ~enabled
  /\ outcome = "finished" => "TS" \in masked[cur] \/ overrun
  /\ enabled \/ overrun \/ "ERR" \in masked[cur]
  /\ enabled => raw = {} /\ device # "busy"

Silent == sem_irq = 0 /\ ~enabled /\ ~latched /\ (stale \/ overrun)

AnswerInv ==
  /\ Waiting => Unhandled \/ (sem_irq = 1 /\ Recorded) \/ Silent
  /\ pc \in {"EXPIRED", "POLL"} => stale \/ overrun \/ outcome = "hung"
  /\ pc = "POLL" => timeout[cur]
  /\ ~Waiting => sem_irq = 0 /\ (raw = {} \/ ~enabled)
  /\ pc = "IDLE" => raw = {} /\ (enabled \/ overrun)

JudgeInv ==
  /\ pc = "JUDGE" =>
       \/ Recorded
       \/ masked[cur] = {"SW"} /\ (stale \/ overrun \/ outcome = "hung")
  /\ pc = "CHECK" =>
       \/ /\ result = "FINISHED" /\ outcome = "finished"
          /\ raw = {} /\ (enabled \/ overrun)
       \/ result = "FAIL" /\ (stale \/ overrun \/ outcome # "finished")

IrqInv == IrqTypeOK /\ LatchedInv /\ DeviceInv /\ AnswerInv /\ JudgeInv

(* Every submission ends, whatever the device does.                         *)
SubmissionEnds == pc # "IDLE" ~> pc = "IDLE"
=============================================================================
