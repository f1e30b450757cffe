--------------------------- MODULE AdlakIrqProofs ---------------------------
(***************************************************************************)
(* IrqInv is an invariant of AdlakIrq, for any task structs and time       *)
(* stamps, on a device that answers before both waits have expired or not  *)
(* at all.  One lemma for each action, then the properties that follow.    *)
(***************************************************************************)
EXTENDS AdlakIrq, TLAPS

USE DEF IrqInv, status, hardware, Waiting

(* The initial state, in which nothing was submitted yet. *)
LEMMA IrqInitInv == IrqInit => IrqInv
<1> SUFFICES ASSUME IrqInit PROVE IrqInv
  OBVIOUS
<1>1. sem_irq \in 0..MaxTokens
  BY IrqAssumption DEF IrqAssumption, IrqInit
<1>2. masked \in [Task -> SUBSET (HwCause \cup {"SW"})]
  BY DEF IrqInit
<1>3. IrqTypeOK
  BY <1>1, <1>2 DEF IrqInit, IrqTypeOK
<1> QED BY <1>3 DEF IrqInit, LatchedInv, DeviceInv, AnswerInv, JudgeInv

(* A step in which nothing changes. *)
LEMMA IrqStutter == IrqInv /\ UNCHANGED irqVars => IrqInv'
BY DEF irqVars, IrqTypeOK, LatchedInv, DeviceInv, AnswerInv, JudgeInv,
       Unhandled, Recorded, Silent

(* What the device does while the thread waits for it is to be handled, or  *)
(* is not seen; an overrun or a recorded error may have left it at work.    *)
LEMMA BusyIsAnswered ==
  ASSUME IrqInv, device = "busy"
  PROVE  /\ outcome = "none" /\ pc \notin {"IDLE", "EXPIRED", "POLL"}
         /\ Waiting \/ (overrun /\ ~enabled)
         /\ cur # None => job = cur /\ cur \in Task
         /\ job \in Task
BY IrqAssumption DEF IrqAssumption, IrqTypeOK, DeviceInv

(* The device finishes the task. *)
LEMMA FinishInv == IrqInv /\ Finish => IrqInv'
<1> SUFFICES ASSUME IrqInv, Finish PROVE IrqInv'
  OBVIOUS
<1>1. /\ outcome = "none" /\ pc \notin {"IDLE", "EXPIRED", "POLL"} /\ job \in Task
      /\ Waiting \/ (overrun /\ ~enabled)
  BY BusyIsAnswered DEF Finish
<1>2. IrqTypeOK'
  BY <1>1, IrqAssumption DEF IrqAssumption, Finish, IrqTypeOK, HwCause
<1>3. Waiting => cur \in Task /\ job = cur
  BY BusyIsAnswered, IrqAssumption DEF IrqAssumption, Finish, DeviceInv
<1>4. Unhandled /\ Waiting => Unhandled'
  BY <1>1, <1>3 DEF Finish, Unhandled
<1>5. Recorded => Recorded'
  BY <1>1 DEF Finish, Recorded
<1>6. Silent => Silent'
  BY DEF Finish, Silent
<1>7. LatchedInv' /\ DeviceInv'
  BY <1>1 DEF Finish, LatchedInv, DeviceInv
<1>8. AnswerInv'
  BY <1>1, <1>4, <1>5, <1>6 DEF Finish, AnswerInv
<1>9. JudgeInv'
  BY <1>1, <1>5 DEF Finish, JudgeInv
<1> QED BY <1>2, <1>7, <1>8, <1>9

(* The device fails. *)
LEMMA FailInv == IrqInv /\ Fail => IrqInv'
<1> SUFFICES ASSUME IrqInv, Fail PROVE IrqInv'
  OBVIOUS
<1>1. /\ outcome = "none" /\ pc \notin {"IDLE", "EXPIRED", "POLL"}
      /\ Waiting \/ (overrun /\ ~enabled)
  BY BusyIsAnswered DEF Fail
<1>2. IrqTypeOK'
  BY <1>1 DEF Fail, IrqTypeOK, HwCause
<1>3. Unhandled => Unhandled'
  BY <1>1 DEF Fail, Unhandled
<1>4. Recorded => Recorded'
  BY <1>1 DEF Fail, Recorded
<1>5. Silent => Silent'
  BY DEF Fail, Silent
<1>6. LatchedInv' /\ DeviceInv'
  BY <1>1 DEF Fail, LatchedInv, DeviceInv
<1>7. AnswerInv' /\ JudgeInv'
  BY <1>1, <1>3, <1>4, <1>5 DEF Fail, AnswerInv, JudgeInv
<1> QED BY <1>2, <1>6, <1>7

(* The device hangs. *)
LEMMA HangInv == IrqInv /\ Hang => IrqInv'
<1> SUFFICES ASSUME IrqInv, Hang PROVE IrqInv'
  OBVIOUS
<1>1. /\ outcome = "none" /\ pc \notin {"IDLE", "EXPIRED", "POLL"}
      /\ Waiting \/ (overrun /\ ~enabled)
  BY BusyIsAnswered DEF Hang
<1>2. IrqTypeOK'
  BY <1>1 DEF Hang, IrqTypeOK, HwCause
<1>3. Unhandled => Unhandled'
  BY <1>1 DEF Hang, Unhandled
<1>4. Recorded => Recorded'
  BY <1>1 DEF Hang, Recorded
<1>5. Silent => Silent'
  BY DEF Hang, Silent
<1>6. LatchedInv' /\ DeviceInv'
  BY <1>1 DEF Hang, LatchedInv, DeviceInv
<1>7. AnswerInv' /\ JudgeInv'
  BY <1>1, <1>3, <1>4, <1>5 DEF Hang, AnswerInv, JudgeInv
<1> QED BY <1>2, <1>6, <1>7

(* The profiler's FIFO or arbiter overflows. *)
LEMMA OverflowInv == IrqInv /\ Overflow => IrqInv'
<1> SUFFICES ASSUME IrqInv, Overflow PROVE IrqInv'
  OBVIOUS
<1>1. /\ outcome = "none" /\ pc \notin {"IDLE", "EXPIRED", "POLL"}
      /\ Waiting \/ (overrun /\ ~enabled)
  BY BusyIsAnswered DEF Overflow
<1>2. IrqTypeOK'
  BY <1>1 DEF Overflow, IrqTypeOK, HwCause
<1>3. Unhandled => Unhandled'
  BY <1>1 DEF Overflow, Unhandled
<1>4. Recorded => Recorded'
  BY <1>1 DEF Overflow, Recorded
<1>5. Silent => Silent'
  BY DEF Overflow, Silent
<1>6. LatchedInv' /\ DeviceInv'
  BY <1>1 DEF Overflow, LatchedInv, DeviceInv
<1>7. AnswerInv' /\ JudgeInv'
  BY <1>1, <1>3, <1>4, <1>5 DEF Overflow, AnswerInv, JudgeInv
<1> QED BY <1>2, <1>6, <1>7

(* The profiler's buffer overruns. *)
LEMMA DramOverflowInv == IrqInv /\ DramOverflow => IrqInv'
<1> SUFFICES ASSUME IrqInv, DramOverflow PROVE IrqInv'
  OBVIOUS
<1>1. /\ outcome = "none" /\ pc \notin {"IDLE", "EXPIRED", "POLL"}
      /\ Waiting \/ (overrun /\ ~enabled)
  BY BusyIsAnswered DEF DramOverflow
<1>2. IrqTypeOK'
  BY <1>1 DEF DramOverflow, IrqTypeOK, HwCause
<1>3. Unhandled => Unhandled'
  BY <1>1 DEF DramOverflow, Unhandled
<1>4. Recorded => Recorded'
  BY <1>1 DEF DramOverflow, Recorded
<1>5. Silent => Silent'
  BY DEF DramOverflow, Silent
<1>6. LatchedInv' /\ DeviceInv'
  BY <1>1 DEF DramOverflow, LatchedInv, DeviceInv
<1>7. AnswerInv' /\ JudgeInv'
  BY <1>1, <1>3, <1>4, <1>5 DEF DramOverflow, AnswerInv, JudgeInv
<1> QED BY <1>2, <1>6, <1>7

(* The CPU takes an interrupt only while an answer is still to be handled.  *)
LEMMA LatchInv == IrqInv /\ Latch => IrqInv'
<1> SUFFICES ASSUME IrqInv, Latch PROVE IrqInv'
  OBVIOUS
<1>1. Waiting
  BY DEF Latch, AnswerInv, IrqTypeOK
<1>2. Unhandled /\ Unhandled'
  BY <1>1 DEF Latch, AnswerInv, Unhandled, Recorded, Silent
<1>3. IrqTypeOK' /\ LatchedInv' /\ DeviceInv'
  BY <1>1 DEF Latch, IrqTypeOK, LatchedInv, DeviceInv
<1> QED BY <1>1, <1>2, <1>3 DEF Latch, AnswerInv, JudgeInv

(* What adlak_irq_proc records, acknowledges and gives has the right type.  *)
LEMMA IrqProcType ==
  ASSUME IrqTypeOK, NEW t \in Task, IrqProc(t)
  PROVE  /\ masked' \in [Task -> SUBSET (HwCause \cup {"SW"})]
         /\ stamp' \in [Task -> Nat]
         /\ sem_irq' \in 0..MaxTokens
         /\ raw' \subseteq HwCause /\ enabled' \in BOOLEAN
<1>1. IrqMasked(t) \subseteq HwCause \cup {"SW"}
  BY DEF IrqMasked, IrqTypeOK
<1>2. masked' \in [Task -> SUBSET (HwCause \cup {"SW"})] /\ stamp' \in [Task -> Nat]
  BY <1>1 DEF IrqProc, IrqTypeOK
<1>3. sem_irq' \in 0..MaxTokens
  BY IrqAssumption DEF IrqProc, IrqTypeOK, IrqAssumption
<1> QED BY <1>2, <1>3 DEF IrqProc, IrqTypeOK

(* The handler acknowledges "OVF" alone, records an answer and gives its    *)
(* token, or swallows it after the timeout of an earlier submission.        *)
LEMMA HandlerInv == IrqInv /\ Handler => IrqInv'
<1> SUFFICES ASSUME IrqInv, Handler PROVE IrqInv'
  OBVIOUS
<1>1. Waiting /\ cur \in Task /\ cur # None /\ enabled /\ raw # {}
  BY IrqAssumption DEF IrqAssumption, Handler, LatchedInv, DeviceInv
<1>2. Unhandled /\ IrqProc(cur) /\ ~latched'
  BY <1>1 DEF Handler, AnswerInv, Recorded, Silent
<1>3. IrqTypeOK'
  BY <1>1, <1>2, IrqProcType DEF Handler, IrqTypeOK
<1>4. LatchedInv' /\ DeviceInv' /\ JudgeInv'
  BY <1>1, <1>2 DEF Handler, LatchedInv, DeviceInv, JudgeInv
<1> DEFINE m == IrqMasked(cur)
<1>5. m = raw \cup (IF timeout[cur] THEN {"SW"} ELSE {})
  BY <1>1 DEF IrqMasked
<1>6. CASE "OVF" \in raw
  <2>1. "OVF" \in m /\ ~TokenGiven(cur, m)
    BY <1>5, <1>6 DEF TokenGiven
  <2>2. raw' = raw \ {"OVF"} /\ enabled' /\ sem_irq' = sem_irq
    BY <1>1, <1>2, <2>1 DEF IrqProc, Acked
  <2>3. Unhandled'
    BY <1>2, <2>2 DEF Handler, Unhandled
  <2> QED BY <1>1, <1>3, <1>4, <2>3 DEF Handler, AnswerInv
<1>7. CASE "OVF" \notin raw /\ timeout[cur]
  <2>1. "OVF" \notin m /\ Disables(m) /\ ~TokenGiven(cur, m)
    BY <1>5, <1>7 DEF TokenGiven, Disables, MaskErr
  <2>2. raw' = {} /\ ~enabled' /\ sem_irq' = sem_irq
    BY <1>2, <2>1 DEF IrqProc, Acked, IrqTypeOK
  <2>3. stale
    BY <1>1, <1>7 DEF DeviceInv
  <2>4. Silent'
    BY <1>2, <2>2, <2>3 DEF Handler, Unhandled, Silent
  <2> QED BY <1>1, <1>3, <1>4, <2>2, <2>4 DEF Handler, AnswerInv
<1>8. CASE "OVF" \notin raw /\ ~timeout[cur]
  <2>1. m = raw /\ TokenGiven(cur, m)
    BY <1>1, <1>5, <1>8 DEF TokenGiven
  <2>2. sem_irq' = 1 /\ masked'[cur] = raw /\ stamp'[cur] = tsReg
    BY <1>1, <1>2, <2>1, IrqAssumption DEF IrqAssumption, IrqProc, Unhandled, IrqTypeOK
  <2>3. raw \subseteq {"TS", "ERR", "DRAM"}
    BY <1>8 DEF IrqTypeOK, HwCause
  <2>4. raw' = {} /\ enabled' = (raw \cap {"ERR", "DRAM"} = {})
    BY <1>1, <1>2, <1>8, <2>1, <2>3 DEF IrqProc, Acked, Disables, MaskErr, IrqTypeOK, HwCause
  <2>5. enabled' => device # "busy"
    BY <1>1, <1>2, <2>3, <2>4 DEF Unhandled, DeviceInv
  <2>6. Recorded'
    BY <1>1, <1>2, <2>2, <2>3, <2>4, <2>5 DEF Handler, Unhandled, Recorded
  <2> QED BY <1>1, <1>3, <1>4, <2>2, <2>4, <2>6 DEF Handler, AnswerInv
<1> QED BY <1>6, <1>7, <1>8

(* A task is posted and submitted: nothing is left of the last one but,      *)
(* after an overrun, that the interrupts are disabled.                      *)
LEMMA SubmitInv == \A t \in Task : IrqInv /\ Submit(t) => IrqInv'
<1> SUFFICES ASSUME IrqInv, NEW t \in Task, Submit(t) PROVE IrqInv'
  OBVIOUS
<1>1. IrqTypeOK'
  BY IrqAssumption DEF IrqAssumption, Submit, IrqTypeOK
<1>2. ~latched /\ sem_irq = 0 /\ raw = {} /\ (enabled \/ overrun)
  BY DEF Submit, LatchedInv, AnswerInv
<1>3. Unhandled' \/ Silent'
  BY <1>2 DEF Submit, Unhandled, Silent
<1> QED BY <1>1, <1>2, <1>3 DEF Submit, LatchedInv, DeviceInv, AnswerInv, JudgeInv

(* The timeout flag of an earlier submission is cleared. *)
LEMMA SubmitEndInv == IrqInv /\ SubmitEnd => IrqInv'
<1> SUFFICES ASSUME IrqInv, SubmitEnd PROVE IrqInv'
  OBVIOUS
<1>1. cur \in Task
  BY DEF SubmitEnd, DeviceInv
<1>2. IrqTypeOK'
  BY <1>1 DEF SubmitEnd, IrqTypeOK
<1>3. LatchedInv' /\ DeviceInv' /\ JudgeInv'
  BY <1>1 DEF SubmitEnd, LatchedInv, DeviceInv, JudgeInv, IrqTypeOK
<1> QED BY <1>2, <1>3 DEF SubmitEnd, AnswerInv, Unhandled, Recorded, Silent

(* A wait takes the token, which comes with a recorded answer. *)
LEMMA WaitTakeInv == IrqInv /\ WaitTake => IrqInv'
<1> SUFFICES ASSUME IrqInv, WaitTake PROVE IrqInv'
  OBVIOUS
<1>1. cur \in Task /\ Waiting
  BY DEF WaitTake, DeviceInv
<1>2. sem_irq = 1 /\ Recorded
  BY <1>1 DEF WaitTake, AnswerInv, Unhandled, Silent
<1>3. sem_irq' = 0 /\ Recorded'
  BY <1>2 DEF WaitTake, Recorded
<1>4. IrqTypeOK'
  BY <1>1, <1>3, IrqAssumption DEF IrqAssumption, WaitTake, IrqTypeOK
<1>5. device = "busy" => overrun /\ ~enabled
  BY <1>2 DEF DeviceInv, Recorded
<1>6. LatchedInv' /\ DeviceInv'
  BY <1>1, <1>2, <1>5 DEF WaitTake, LatchedInv, DeviceInv, Recorded
<1>7. raw = {} \/ ~enabled
  BY <1>2 DEF Recorded
<1> QED BY <1>3, <1>4, <1>6, <1>7 DEF WaitTake, AnswerInv, JudgeInv

(* A wait expires: the device hangs, or its answer will not be seen. *)
LEMMA WaitExpireInv == ~Expires /\ IrqInv /\ WaitExpire => IrqInv'
<1> SUFFICES ASSUME ~Expires, IrqInv, WaitExpire PROVE IrqInv'
  OBVIOUS
<1>1. /\ cur \in Task /\ Waiting
      /\ device # "busy" /\ ~latched /\ sem_irq = 0 /\ (raw = {} \/ ~enabled)
  BY DEF WaitExpire, DeviceInv, NoAnswerToCome
<1>2. Unhandled \/ Silent
  BY <1>1 DEF AnswerInv
<1>3. stale \/ overrun \/ outcome = "hung"
  BY <1>1, <1>2 DEF Unhandled, Silent, DeviceInv, IrqTypeOK
<1>4. IrqTypeOK' /\ LatchedInv' /\ DeviceInv' /\ JudgeInv'
  BY <1>1 DEF WaitExpire, IrqTypeOK, LatchedInv, DeviceInv, JudgeInv
<1>5. Unhandled' \/ Silent'
  BY <1>2 DEF WaitExpire, Unhandled, Silent
<1> QED BY <1>1, <1>3, <1>4, <1>5 DEF WaitExpire, AnswerInv

(* The timeout is recorded in the task. *)
LEMMA MarkTimeoutInv == IrqInv /\ MarkTimeout => IrqInv'
<1> SUFFICES ASSUME IrqInv, MarkTimeout PROVE IrqInv'
  OBVIOUS
<1>1. cur \in Task /\ timeout'[cur]
  BY DEF MarkTimeout, DeviceInv, IrqTypeOK
<1>2. IrqTypeOK'
  BY <1>1 DEF MarkTimeout, IrqTypeOK
<1> QED BY <1>1, <1>2 DEF MarkTimeout, LatchedInv, DeviceInv, AnswerInv, JudgeInv

(* The poll finds nothing but the timeout. *)
LEMMA PollInv == IrqInv /\ Poll => IrqInv'
<1> SUFFICES ASSUME IrqInv, Poll PROVE IrqInv'
  OBVIOUS
<1>1. cur \in Task /\ IrqProc(cur) /\ IrqMasked(cur) = {"SW"}
  BY DEF Poll, DeviceInv, AnswerInv, IrqMasked
<1>2. IrqTypeOK'
  BY <1>1, IrqProcType DEF Poll, IrqTypeOK
<1>3. raw' = {} /\ sem_irq' = 0 /\ masked'[cur] = {"SW"}
  BY <1>1 DEF Poll, IrqProc, Acked, Disables, MaskErr, TokenGiven, AnswerInv, IrqTypeOK
<1> QED BY <1>1, <1>2, <1>3 DEF Poll, LatchedInv, DeviceInv, AnswerInv, JudgeInv

(* The bottom half judges the task. *)
LEMMA JudgeStepInv == IrqInv /\ Judge => IrqInv'
<1> SUFFICES ASSUME IrqInv, Judge PROVE IrqInv'
  OBVIOUS
<1>1. IrqTypeOK'
  BY DEF Judge, IrqTypeOK
<1>2. CASE Finished
  <2>1. outcome = "finished" /\ raw = {} /\ (enabled \/ overrun)
    BY <1>2 DEF Judge, Finished, JudgeInv, Recorded
  <2> QED BY <1>1, <1>2, <2>1 DEF Judge, LatchedInv, DeviceInv, AnswerInv, JudgeInv
<1>3. CASE ~Finished
  <2>1. stale \/ overrun \/ outcome # "finished"
    BY <1>3 DEF Judge, Finished, JudgeInv, Recorded
  <2> QED BY <1>1, <1>3, <2>1 DEF Judge, LatchedInv, DeviceInv, AnswerInv, JudgeInv
<1> QED BY <1>2, <1>3

(* The thread lets go of the task, which after an overrun the device may    *)
(* still work on until it is reset.                                         *)
LEMMA CheckInv == IrqInv /\ Check => IrqInv'
<1> SUFFICES ASSUME IrqInv, Check PROVE IrqInv'
  OBVIOUS
<1>1. IrqTypeOK'
  BY DEF Check, IrqTypeOK
<1>2. CASE result = "FAIL"
  BY <1>1, <1>2 DEF Check, LatchedInv, DeviceInv, AnswerInv, JudgeInv
<1>3. CASE result # "FAIL"
  <2>1. outcome = "finished" /\ raw = {} /\ (enabled \/ overrun)
    BY <1>3 DEF Check, JudgeInv
  <2> QED BY <1>1, <1>3, <2>1 DEF Check, LatchedInv, DeviceInv, AnswerInv, JudgeInv
<1> QED BY <1>2, <1>3

(* The device is reset. *)
LEMMA DevResetInv == IrqInv /\ DevReset => IrqInv'
<1> SUFFICES ASSUME IrqInv, DevReset PROVE IrqInv'
  OBVIOUS
<1>1. tsReg \in Nat /\ tsReg' \in Nat
  BY DEF DevReset, IrqTypeOK
<1>2. IrqTypeOK'
  BY <1>1 DEF DevReset, IrqTypeOK
<1> QED BY <1>2 DEF DevReset, LatchedInv, DeviceInv, AnswerInv, JudgeInv

(* Every step keeps the invariant. *)
LEMMA IrqNextInv == ~Expires /\ IrqInv /\ [IrqNext]_irqVars => IrqInv'
<1> HIDE DEF IrqInv
<1> QED BY IrqStutter, FinishInv, FailInv, HangInv, OverflowInv, DramOverflowInv, LatchInv, HandlerInv,
        SubmitInv, SubmitEndInv, WaitTakeInv, WaitExpireInv, MarkTimeoutInv, PollInv,
        JudgeStepInv, CheckInv, DevResetInv DEF IrqNext, WaitStep

(* The invariant holds for any tasks and time stamps if the device answers  *)
(* before both waits have expired, or not at all.                           *)
THEOREM IrqInvariantHolds ==
  ASSUME ~Expires
  PROVE  IrqSpec => []IrqInv
<1>1. IrqInv /\ [IrqNext]_irqVars => IrqInv'
  BY IrqNextInv
<1> HIDE DEF IrqInv
<1> QED BY <1>1, IrqInitInv, PTL DEF IrqSpec

(* "wait until finished": what is called finished was finished this time.   *)
THEOREM FinishedTasksAreFinished ==
  ASSUME ~Expires
  PROVE  IrqSpec => []FinishedIsTrue
<1>1. IrqInv => FinishedIsTrue
  BY DEF FinishedIsTrue, JudgeInv
<1> HIDE DEF IrqInv
<1> QED BY <1>1, IrqInvariantHolds, PTL

(* A task that the device has finished is not called failed, unless the     *)
(* struct's last invoke has timed out or the profiler's buffer has overrun. *)
THEOREM FinishesAreSeen ==
  ASSUME ~Expires
  PROVE  IrqSpec => []FinishIsSeen
<1>1. IrqInv => FinishIsSeen
  BY DEF FinishIsSeen, FinishIsJudged, JudgeInv
<1> HIDE DEF IrqInv
<1> QED BY <1>1, IrqInvariantHolds, PTL

(* No token of sem_irq is left over for the next task.                      *)
THEOREM NoTokenIsLeft ==
  ASSUME ~Expires
  PROVE  IrqSpec => []NoTokenLeft
<1>1. IrqInv => NoTokenLeft
  BY DEF NoTokenLeft, AnswerInv
<1> HIDE DEF IrqInv
<1> QED BY <1>1, IrqInvariantHolds, PTL

(* A submission starts with no interrupt pending, and with the interrupts   *)
(* disabled only if the profiler's buffer has overrun since the last reset. *)
THEOREM InterruptsAreOn ==
  ASSUME ~Expires
  PROVE  IrqSpec => []InterruptsStayOn
<1>1. IrqInv => InterruptsStayOn
  BY DEF InterruptsStayOn, AnswerInv
<1> HIDE DEF IrqInv
<1> QED BY <1>1, IrqInvariantHolds, PTL

(* The bottom half finds a cause it knows and the time stamp of its task.   *)
THEOREM BottomHalfAssertHolds ==
  ASSUME ~Expires
  PROVE  IrqSpec => []AssertStatus
<1>1. IrqInv => AssertStatus
  BY DEF AssertStatus, JudgeInv, Recorded
<1> HIDE DEF IrqInv
<1> QED BY <1>1, IrqInvariantHolds, PTL
=============================================================================
