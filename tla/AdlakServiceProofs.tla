------------------------- MODULE AdlakServiceProofs -------------------------
(***************************************************************************)
(* AdlakInference implements JobService and counts its tasks exactly, for  *)
(* every value of the constants and users that keep to Discipline.  First *)
(* the invariants that are needed besides IInv, with one lemma for each   *)
(* way a step acts on the lists; then the steps as steps of JobService,   *)
(* in the same order.                                                     *)
(***************************************************************************)
EXTENDS AdlakInferenceProofs

USE DEF queueVars, ctxVars, taskVars, listVars, histVars,
        threadVars, timerVars, pmVars

(* Tasks that leave a set are not counted any more.                         *)
LEMMA FewerCounted ==
  ASSUME NEW S \in SUBSET Task, NEW R \in SUBSET S
  PROVE  Cardinality(S \ R) = Cardinality(S) - Cardinality(R)
<1>1. IsFiniteSet(S) /\ S \cap R = R
  BY TaskSets
<1> QED BY <1>1, FS_Difference

(* A new task counts one more.                                              *)
LEMMA OneMoreCounted ==
  ASSUME NEW S \in SUBSET Task, NEW t \in Task \ S
  PROVE  Cardinality(S \cup {t}) = Cardinality(S) + 1
BY TaskSets, FS_AddElement

(* The facts of IInv that matter here.                                      *)
LEMMA ListFacts ==
  ASSUME IInv
  PROVE  /\ pending_list \in SUBSET Task /\ scheduled_list \in SUBSET Task
         /\ finished_list \in SUBSET Task /\ asked \in SUBSET Task
         /\ pending_list \cap scheduled_list = {}
         /\ pending_list \cap finished_list = {}
         /\ scheduled_list \cap finished_list = {}
         /\ state \in [Task -> TaskState]
         /\ canceled \in [Task -> BOOLEAN]
         /\ ahead \in [Task -> SUBSET Task]
         /\ invoke_cnt \in [Net -> Int] /\ sched_num \in Int
         /\ Owner \in [Task -> Net] /\ None \notin Task
         /\ cur \in Task \cup {None} /\ pre \in Task \cup {None}
         /\ scheduled_list = InFlight
BY WorkqueueAssumption
   DEF IInv, WorkqueueAssumption, TypeOK, QueueTypeOK, ListsInv, HeldInv

-----------------------------------------------------------------------------
(* The order of the pending list.                                           *)

(* A step that leaves the pending list alone.                               *)
LEMMA OrderFrame ==
  ASSUME OrderInv, UNCHANGED <<pending_list, ahead>>
  PROVE  OrderInv'
BY DEF OrderInv

(* A new task is behind all others.                                         *)
LEMMA OrderInvoke ==
  ASSUME IInv, OrderInv, NEW n \in Net, NEW t \in TasksOf(n), InvokeRequest(n, t)
  PROVE  OrderInv'
<1>1. ahead' = [ahead EXCEPT ![t] = pending_list \ {t}]
      /\ pending_list' = pending_list \cup {t} /\ t \in Task
      /\ ahead \in [Task -> SUBSET Task]
  BY ListFacts DEF InvokeRequest, TasksOf
<1> QED BY <1>1 DEF OrderInv

(* Tasks that leave the list leave the order.                               *)
LEMMA OrderUnlink ==
  ASSUME OrderInv, NEW T, pending_list' = pending_list \ T, ahead' = Unlink(T)
  PROVE  OrderInv'
BY DEF OrderInv, Unlink

(* Every step keeps the order.                                              *)
LEMMA OrderNext ==
  ASSUME IInv, OrderInv, [Next]_vars
  PROVE  OrderInv'
<1>1. CASE UserStep
  <2>1. PICK n \in Net :
          \/ CreateContext(n) \/ RegisterNets(n) \/ Unregister(n)
          \/ InvokeRefused(n) \/ WaitTake(n) \/ WaitTimeout(n) \/ Destroy(n)
          \/ \E t \in TasksOf(n) : InvokeRequest(n, t) \/ WaitBegin(n, t)
          \/ \E t \in Task : CancelInvoke(n, t)
    BY <1>1 DEF UserStep, UserNext
  <2>2. CASE \/ CreateContext(n) \/ RegisterNets(n) \/ InvokeRefused(n)
             \/ WaitTake(n) \/ WaitTimeout(n) \/ DestroyMark(n)
             \/ DestroyTake(n) \/ DestroyFree(n)
             \/ \E t \in TasksOf(n) : WaitBegin(n, t)
    BY <2>2, OrderFrame
       DEF CreateContext, RegisterNets, InvokeRefused, WaitTake, WaitTimeout,
           DestroyMark, DestroyTake, DestroyFree, FreeModel, WaitBegin
  <2>3. CASE Unregister(n) \/ DestroyDelAll(n)
    BY <2>3, OrderUnlink DEF Unregister, DestroyDelAll, InvokeDel
  <2>4. CASE \E t \in Task : CancelInvoke(n, t)
    BY <2>4, OrderUnlink DEF CancelInvoke, InvokeDel
  <2>5. CASE \E t \in TasksOf(n) : InvokeRequest(n, t)
    BY <2>5, OrderInvoke
  <2> QED BY <2>1, <2>2, <2>3, <2>4, <2>5 DEF Destroy
<1>2. CASE PostTask
  BY <1>2, OrderUnlink DEF PostTask, Schedule
<1>3. CASE ThreadNext /\ ~PostTask
  BY <1>3, OrderFrame
     DEF ThreadNext, Resume, DevReset, WqReset, WqCheck, WqTake, SleepCheck,
         PmSleep, PostNothing, Submit, SubmitTee, ReportPre, SubmitWait,
         CheckFinished, CheckFail, ReportCur, Signal, UpdateTaskState
<1>4. CASE TimerTick \/ SysSuspend \/ SuspendPoll \/ SysResume \/ UNCHANGED vars
  BY <1>4, OrderFrame
     DEF TimerTick, SysSuspend, SuspendPoll, SysResume, vars
<1> QED BY <1>1, <1>2, <1>3, <1>4 DEF Next

-----------------------------------------------------------------------------
(* The cancelled tasks.                                                     *)

(* A step that changes neither the lists nor the flags.                     *)
LEMMA AskedFrame ==
  ASSUME AskedInv, UNCHANGED <<pending_list, scheduled_list, canceled, asked>>
  PROVE  AskedInv'
BY DEF AskedInv

(* The flag of a task that is invoked is clear.                             *)
LEMMA AskedInvoke ==
  ASSUME ~InvokeCanceled, AskedInv, NEW n, NEW t, InvokeRequest(n, t)
  PROVE  AskedInv'
BY DEF AskedInv, InvokeRequest

(* The flag is set for the tasks whose user asks to drop them.              *)
LEMMA AskedDel ==
  ASSUME IInv, AskedInv, NEW T, InvokeDel(T), canceled' = Flagged(T)
  PROVE  AskedInv'
<1>1. scheduled_list' = scheduled_list /\ pending_list' = pending_list \ T
      /\ asked' = asked \cup (T \cap scheduled_list)
  BY DEF InvokeDel
<1>2. \A t \in Task : canceled'[t] <=> canceled[t] \/ t \in T \cap scheduled_list
  BY DEF Flagged
<1> QED BY <1>1, <1>2, ListFacts DEF AskedInv

(* A model that is freed leaves no flag, and no task of it is scheduled.    *)
LEMMA AskedFree ==
  ASSUME IInv, AskedInv, NEW n, TasksOf(n) \cap scheduled_list = {},
         pending_list' \subseteq pending_list,
         UNCHANGED <<scheduled_list, asked>>,
         canceled' = [t \in Task |-> canceled[t] /\ Owner[t] # n]
  PROVE  AskedInv'
<1>1. \A t \in Task : canceled'[t] <=> canceled[t] /\ Owner[t] # n
  OBVIOUS
<1> QED BY <1>1, ListFacts DEF AskedInv, TasksOf

(* A new struct has no flag, and none is made for a task that is linked.    *)
LEMMA AskedRegister ==
  ASSUME IInv, AskedInv, NEW n, RegisterNets(n)
  PROVE  AskedInv'
<1>1. \A t \in Linked : canceled'[t] = canceled[t]
  BY ListFacts DEF RegisterNets, Linked
<1>2. UNCHANGED <<pending_list, scheduled_list, asked>>
  BY DEF RegisterNets
<1> QED BY <1>1, <1>2 DEF AskedInv, Linked

(* A task that is scheduled has not been cancelled.                         *)
LEMMA AskedSchedule ==
  ASSUME IInv, AskedInv, NEW t \in pending_list, Schedule(t),
         UNCHANGED <<canceled, asked>>
  PROVE  AskedInv'
BY ListFacts DEF AskedInv, Schedule

(* A task that is reported or dropped is forgotten.                         *)
LEMMA AskedUpdate ==
  ASSUME AskedInv, NEW t, UpdateTaskState(t)
  PROVE  AskedInv'
BY DEF AskedInv, UpdateTaskState

(* A context is freed when none of its tasks is linked.                     *)
LEMMA IdleIsFree ==
  ASSUME IInv, NEW n \in Net, ctx[n] = "idle"
  PROVE  TasksOf(n) \cap Linked = {}
BY DEF IInv, AliveInv, TasksOf, Linked

(* Every step keeps AskedInv, if no cancelled task is invoked again.        *)
LEMMA AskedNext ==
  ASSUME Discipline, ~InvokeCanceled, IInv, AskedInv, [Next]_vars
  PROVE  AskedInv'
<1>1. CASE UserStep
  <2>1. PICK n \in Net :
          \/ CreateContext(n) \/ RegisterNets(n) \/ Unregister(n)
          \/ InvokeRefused(n) \/ WaitTake(n) \/ WaitTimeout(n) \/ Destroy(n)
          \/ \E t \in TasksOf(n) : InvokeRequest(n, t) \/ WaitBegin(n, t)
          \/ \E t \in Task : CancelInvoke(n, t)
    BY <1>1 DEF UserStep, UserNext
  <2>2. CASE \/ CreateContext(n) \/ InvokeRefused(n) \/ WaitTake(n) \/ WaitTimeout(n)
             \/ DestroyMark(n) \/ DestroyTake(n)
             \/ \E t \in TasksOf(n) : WaitBegin(n, t)
    BY <2>2, AskedFrame
       DEF CreateContext, InvokeRefused, WaitTake, WaitTimeout,
           DestroyMark, DestroyTake, WaitBegin
  <2>3. CASE Unregister(n)
    <3>1. CASE Busy(TasksOf(n))
      BY <2>3, <3>1, UnregisterOwn, AskedDel
    <3>2. CASE ~Busy(TasksOf(n))
      <4>1. asked' = asked /\ scheduled_list' = scheduled_list
            /\ pending_list' \subseteq pending_list
        BY <2>3, <3>2, UnregisterOwn DEF InvokeDel, Busy
      <4>2. canceled' = [t \in Task |-> canceled[t] /\ Owner[t] # n]
        BY <2>3, <3>2, UnregisterOwn
      <4> QED BY <3>2, <4>1, <4>2, AskedFree DEF Busy
    <3> QED BY <3>1, <3>2
  <2>4. CASE DestroyFree(n)
    <3>1. UNCHANGED <<pending_list, scheduled_list, asked>> /\ ctx[n] = "idle"
          /\ canceled' = [t \in Task |-> canceled[t] /\ Owner[t] # n]
      BY <2>4 DEF DestroyFree
    <3>2. TasksOf(n) \cap scheduled_list = {}
      BY <3>1, IdleIsFree DEF Linked
    <3> QED BY <3>1, <3>2, AskedFree
  <2>5. CASE DestroyDelAll(n)
    BY <2>5, AskedDel DEF DestroyDelAll
  <2>6. CASE \E t \in Task : CancelInvoke(n, t)
    BY <2>6, AskedDel DEF CancelInvoke
  <2>7. CASE \E t \in TasksOf(n) : InvokeRequest(n, t)
    BY <2>7, AskedInvoke
  <2>8. CASE RegisterNets(n)
    BY <2>8, AskedRegister
  <2> QED BY <2>1, <2>2, <2>3, <2>4, <2>5, <2>6, <2>7, <2>8 DEF Destroy
<1>2. CASE PostTask
  <2>1. PICK t \in Eligible(netPrev) : Schedule(t)
    BY <1>2 DEF PostTask
  <2>2. t \in pending_list
    BY DEF Eligible
  <2>3. UNCHANGED <<canceled, asked>>
    BY <1>2 DEF PostTask
  <2> QED BY <2>1, <2>2, <2>3, AskedSchedule
<1>3. CASE ReportPre
  BY <1>3, AskedFrame, AskedUpdate DEF ReportPre
<1>4. CASE ReportCur
  BY <1>4, AskedFrame, AskedUpdate DEF ReportCur
<1>5. CASE ThreadNext /\ ~PostTask /\ ~ReportPre /\ ~ReportCur
  BY <1>5, AskedFrame
     DEF ThreadNext, Resume, DevReset, WqReset, WqCheck, WqTake, SleepCheck,
         PmSleep, PostNothing, Submit, SubmitTee, SubmitWait,
         CheckFinished, CheckFail, Signal
<1>6. CASE TimerTick \/ SysSuspend \/ SuspendPoll \/ SysResume \/ UNCHANGED vars
  BY <1>6, AskedFrame
     DEF TimerTick, SysSuspend, SuspendPoll, SysResume, vars
<1> QED BY <1>1, <1>2, <1>3, <1>4, <1>5, <1>6 DEF Next

-----------------------------------------------------------------------------
(* The counts.                                                              *)

(* A step that changes neither the lists nor the counts.                    *)
LEMMA CountsFrame ==
  ASSUME CountsInv, UNCHANGED <<pending_list, scheduled_list, finished_list,
                                invoke_cnt, sched_num>>
  PROVE  CountsInv'
BY DEF CountsInv, Linked, TasksOf

(* An invoke counts its task, which was not linked.                         *)
LEMMA CountsInvoke ==
  ASSUME Discipline, IInv, CountsInv, NEW n \in Net, NEW t \in TasksOf(n),
         InvokeRequest(n, t)
  PROVE  CountsInv'
<1>1. t \in Task /\ Owner[t] = n /\ t \notin Linked
  BY DEF TasksOf, Discipline, InvokeRequest
<1>2. Linked' = Linked \cup {t}
  BY DEF Linked, InvokeRequest
<1>3. invoke_cnt' = [invoke_cnt EXCEPT ![n] = @ + 1]
      /\ UNCHANGED <<sched_num, scheduled_list>>
  BY DEF InvokeRequest
<1>4. Linked \in SUBSET Task
  BY ListFacts DEF Linked
<1>5. ASSUME NEW m \in Net
      PROVE  invoke_cnt'[m] = Cardinality(Linked' \cap TasksOf(m))
  <2>1. CASE m = n
    <3>1. Linked' \cap TasksOf(m) = (Linked \cap TasksOf(m)) \cup {t}
      BY <1>2, <2>1
    <3>2. Linked \cap TasksOf(m) \in SUBSET Task
          /\ t \in Task \ (Linked \cap TasksOf(m))
      BY <1>1, <1>4
    <3>3. Cardinality(Linked' \cap TasksOf(m)) = Cardinality(Linked \cap TasksOf(m)) + 1
      BY <3>1, <3>2, OneMoreCounted
    <3> QED BY <1>3, <2>1, <3>3, ListFacts DEF CountsInv
  <2>2. CASE m # n
    <3>1. Linked' \cap TasksOf(m) = Linked \cap TasksOf(m)
      BY <1>1, <1>2, <2>2 DEF TasksOf
    <3> QED BY <1>3, <2>2, <3>1, ListFacts DEF CountsInv
  <2> QED BY <2>1, <2>2
<1>6. TasksOf(n)' = TasksOf(n)
  BY DEF TasksOf
<1> QED BY <1>3, <1>5 DEF CountsInv, TasksOf

(* Tasks that leave their list are counted off, those that are scheduled    *)
(* stay.                                                                    *)
LEMMA CountsDel ==
  ASSUME IInv, CountsInv, NEW T \in SUBSET Task, InvokeDel(T)
  PROVE  CountsInv'
<1>1. Linked' = Linked \ Deleted(T) /\ Deleted(T) \subseteq Linked
      /\ Linked \in SUBSET Task
  BY ListFacts DEF Linked, Deleted, InvokeDel
<1>2. UNCHANGED <<sched_num, scheduled_list>>
  BY DEF InvokeDel
<1>3. ASSUME NEW m \in Net
      PROVE  invoke_cnt'[m] = Cardinality(Linked' \cap TasksOf(m))
  <2>1. Linked' \cap TasksOf(m)
          = (Linked \cap TasksOf(m)) \ (Deleted(T) \cap TasksOf(m))
    BY <1>1
  <2>2. Cardinality(Linked' \cap TasksOf(m))
          = Cardinality(Linked \cap TasksOf(m)) - Cardinality(Deleted(T) \cap TasksOf(m))
    BY <1>1, <2>1, FewerCounted
  <2>3. invoke_cnt'[m] = invoke_cnt[m] - Cardinality(Deleted(T) \cap TasksOf(m))
    BY DEF InvokeDel
  <2> QED BY <2>2, <2>3 DEF CountsInv
<1> QED BY <1>2, <1>3 DEF CountsInv, TasksOf

(* A context that is freed has no linked task, and its count is reset.      *)
LEMMA CountsFree ==
  ASSUME IInv, CountsInv, NEW n \in Net, DestroyFree(n)
  PROVE  CountsInv'
<1>1. UNCHANGED <<pending_list, scheduled_list, finished_list, sched_num>>
      /\ invoke_cnt' = [invoke_cnt EXCEPT ![n] = 0] /\ ctx[n] = "idle"
  BY DEF DestroyFree
<1>2. Cardinality(Linked \cap TasksOf(n)) = 0
  BY <1>1, IdleIsFree, NoTask
<1>3. Linked' = Linked
  BY <1>1 DEF Linked
<1>4. ASSUME NEW m \in Net
      PROVE  invoke_cnt'[m] = Cardinality(Linked' \cap TasksOf(m))
  BY <1>1, <1>2, <1>3, ListFacts DEF CountsInv
<1> QED BY <1>1, <1>4 DEF CountsInv, TasksOf

(* A task that is scheduled stays linked.                                   *)
LEMMA CountsSchedule ==
  ASSUME IInv, CountsInv, NEW t \in pending_list, Schedule(t), UNCHANGED invoke_cnt
  PROVE  CountsInv'
<1>1. Linked' = Linked /\ scheduled_list' = scheduled_list \cup {t}
      /\ sched_num' = sched_num + 1
  BY DEF Schedule, Linked
<1>2. t \in Task \ scheduled_list
  BY ListFacts
<1>3. Cardinality(scheduled_list') = Cardinality(scheduled_list) + 1
  BY <1>1, <1>2, ListFacts, OneMoreCounted
<1> QED BY <1>1, <1>3 DEF CountsInv, TasksOf

(* A task that is reported stays linked, one that is dropped is counted     *)
(* off.                                                                     *)
LEMMA CountsUpdate ==
  ASSUME IInv, CountsInv, NEW t \in scheduled_list, UpdateTaskState(t)
  PROVE  CountsInv'
<1>1. scheduled_list' = scheduled_list \ {t} /\ sched_num' = sched_num - 1
      /\ pending_list' = pending_list
  BY DEF UpdateTaskState
<1>2. t \in Task /\ Owner[t] \in Net /\ t \in Linked /\ Linked \in SUBSET Task
  BY ListFacts DEF Linked
<1>3. Cardinality(scheduled_list') = Cardinality(scheduled_list) - 1
  BY <1>1, ListFacts, OneTask
<1>4. ASSUME NEW m \in Net
      PROVE  invoke_cnt'[m] = Cardinality(Linked' \cap TasksOf(m))
  <2>1. CASE canceled[t]
    <3>1. Linked' = Linked \ {t}
          /\ invoke_cnt' = [invoke_cnt EXCEPT ![Owner[t]] = @ - 1]
      BY <1>1, <2>1, ListFacts DEF UpdateTaskState, Linked
    <3>2. CASE m = Owner[t]
      <4>1. Linked' \cap TasksOf(m) = (Linked \cap TasksOf(m)) \ {t}
        BY <3>1
      <4>2. t \in Linked \cap TasksOf(m) /\ Linked \cap TasksOf(m) \in SUBSET Task
        BY <1>2, <3>2 DEF TasksOf
      <4>3. Cardinality(Linked' \cap TasksOf(m))
              = Cardinality(Linked \cap TasksOf(m)) - 1
        BY <1>2, <4>1, <4>2, OneTask
      <4> QED BY <3>1, <3>2, <4>3, ListFacts DEF CountsInv
    <3>3. CASE m # Owner[t]
      <4>1. Linked' \cap TasksOf(m) = Linked \cap TasksOf(m)
        BY <3>1, <3>3 DEF TasksOf
      <4> QED BY <3>1, <3>3, <4>1, ListFacts DEF CountsInv
    <3> QED BY <3>2, <3>3
  <2>2. CASE ~canceled[t]
    <3>1. Linked' = Linked /\ invoke_cnt' = invoke_cnt
      BY <1>1, <2>2 DEF UpdateTaskState, Linked
    <3> QED BY <3>1 DEF CountsInv
  <2> QED BY <2>1, <2>2
<1> QED BY <1>1, <1>3, <1>4 DEF CountsInv, TasksOf

(* The reset of the queue: the thread holds nothing by then.                *)
LEMMA CountsReset ==
  ASSUME IInv, CountsInv, WqReset
  PROVE  CountsInv'
<1>1. scheduled_list = {}
  BY DEF IInv, WqReset, At, HeldInv, InFlight, HasCur, MayHavePre, ReportState
<1> QED BY <1>1, NoTask DEF WqReset, CountsInv, Linked, TasksOf

(* Every step keeps the counts.                                             *)
LEMMA CountsNext ==
  ASSUME Discipline, IInv, CountsInv, [Next]_vars
  PROVE  CountsInv'
<1>1. CASE UserStep
  <2>1. PICK n \in Net :
          \/ CreateContext(n) \/ RegisterNets(n) \/ Unregister(n)
          \/ InvokeRefused(n) \/ WaitTake(n) \/ WaitTimeout(n) \/ Destroy(n)
          \/ \E t \in TasksOf(n) : InvokeRequest(n, t) \/ WaitBegin(n, t)
          \/ \E t \in Task : CancelInvoke(n, t)
    BY <1>1 DEF UserStep, UserNext
  <2>2. CASE \/ CreateContext(n) \/ RegisterNets(n) \/ InvokeRefused(n)
             \/ WaitTake(n) \/ WaitTimeout(n) \/ DestroyMark(n) \/ DestroyTake(n)
             \/ \E t \in TasksOf(n) : WaitBegin(n, t)
    BY <2>2, CountsFrame
       DEF CreateContext, RegisterNets, InvokeRefused, WaitTake, WaitTimeout,
           DestroyMark, DestroyTake, WaitBegin
  <2>3. CASE Unregister(n) \/ DestroyDelAll(n)
    BY <2>3, UnregisterOwn, CountsDel DEF DestroyDelAll, TasksOf
  <2>4. CASE DestroyFree(n)
    BY <2>4, CountsFree
  <2>5. CASE \E t \in Task : CancelInvoke(n, t)
    BY <2>5, CountsDel DEF CancelInvoke
  <2>6. CASE \E t \in TasksOf(n) : InvokeRequest(n, t)
    BY <2>6, CountsInvoke
  <2> QED BY <2>1, <2>2, <2>3, <2>4, <2>5, <2>6 DEF Destroy
<1>2. CASE PostTask
  <2>1. PICK t \in Eligible(netPrev) : Schedule(t)
    BY <1>2 DEF PostTask
  <2>2. t \in pending_list
    BY DEF Eligible
  <2>3. UNCHANGED invoke_cnt
    BY <1>2 DEF PostTask
  <2> QED BY <2>1, <2>2, <2>3, CountsSchedule
<1>3. CASE ReportPre
  <2>1. CASE pre # None /\ Reportable(pre)
    <3>1. pre \in scheduled_list
      BY <2>1, ListFacts DEF InFlight
    <3> QED BY <1>3, <2>1, <3>1, CountsUpdate DEF ReportPre
  <2>2. CASE ~(pre # None /\ Reportable(pre))
    BY <1>3, <2>2, CountsFrame DEF ReportPre
  <2> QED BY <2>1, <2>2
<1>4. CASE ReportCur
  <2>1. CASE Reportable(cur)
    <3>1. cur \in scheduled_list
      BY <1>4, ListFacts DEF IInv, HeldInv, HasCur, InFlight, ReportCur, At
    <3> QED BY <1>4, <2>1, <3>1, CountsUpdate DEF ReportCur
  <2>2. CASE ~Reportable(cur)
    BY <1>4, <2>2, CountsFrame DEF ReportCur
  <2> QED BY <2>1, <2>2
<1>5. CASE WqReset
  BY <1>5, CountsReset
<1>6. CASE ThreadNext /\ ~PostTask /\ ~ReportPre /\ ~ReportCur /\ ~WqReset
  BY <1>6, CountsFrame
     DEF ThreadNext, Resume, DevReset, WqCheck, WqTake, SleepCheck, PmSleep,
         PostNothing, Submit, SubmitTee, SubmitWait, CheckFinished, CheckFail,
         Signal
<1>7. CASE TimerTick \/ SysSuspend \/ SuspendPoll \/ SysResume \/ UNCHANGED vars
  BY <1>7, CountsFrame
     DEF TimerTick, SysSuspend, SuspendPoll, SysResume, vars
<1> QED BY <1>1, <1>2, <1>3, <1>4, <1>5, <1>6, <1>7 DEF Next

-----------------------------------------------------------------------------
(* The steps as steps of JobService.                                        *)

(* Reading a job's phase from the lists.                                    *)
LEMMA PhaseOf ==
  ASSUME IInv, NEW t \in Task
  PROVE  /\ Phase[t] = "queued" <=> t \in pending_list
         /\ Phase[t] = "running" <=> t \in scheduled_list /\ ~Reportable(t)
         /\ Phase[t] = "ended" <=> t \in scheduled_list /\ Reportable(t)
         /\ Phase[t] = "reported" <=> t \in finished_list
         /\ Phase[t] = "free" <=> t \notin Linked
BY ListFacts DEF Phase, Linked

(* Steps that change neither the lists nor whether a scheduled task has     *)
(* ended.                                                                   *)
LEMMA JobFrame ==
  ASSUME UNCHANGED <<pending_list, scheduled_list, finished_list, ahead, asked>>,
         \A t \in scheduled_list : Reportable(t)' <=> Reportable(t)
  PROVE  UNCHANGED Service!jobVars
<1>1. Phase' = Phase
  BY DEF Phase
<1> QED BY <1>1 DEF Service!jobVars

(* A step of JobService in terms of single phases.                          *)
LEMMA PhaseExcept ==
  ASSUME NEW t \in Task, NEW p, \A u \in Task \ {t} : Phase'[u] = Phase[u], Phase'[t] = p
  PROVE  Phase' = [Phase EXCEPT ![t] = p]
<1>1. Phase' = [u \in Task |-> Phase'[u]] /\ Phase = [u \in Task |-> Phase[u]]
  BY DEF Phase
<1> QED BY <1>1

(* An invoke queues a job behind all those already queued.                  *)
LEMMA JobQueue ==
  ASSUME Discipline, IInv, NEW n \in Net, NEW t \in TasksOf(n), InvokeRequest(n, t)
  PROVE  Service!Queue(t)
<1>1. t \in Task /\ t \notin Linked
  BY DEF TasksOf, Discipline, InvokeRequest
<1>2. pending_list' = pending_list \cup {t}
      /\ UNCHANGED <<scheduled_list, finished_list, asked>>
      /\ ahead' = [ahead EXCEPT ![t] = pending_list \ {t}]
      /\ state' = [state EXCEPT ![t] = "PENDING"]
  BY DEF InvokeRequest
<1>3. ASSUME NEW u \in Task \ {t} PROVE Phase'[u] = Phase[u]
  BY <1>2, <1>3, ListFacts DEF Phase, Reportable
<1>4. Phase'[t] = "queued"
  BY <1>1, <1>2 DEF Phase
<1>5. Phase' = [Phase EXCEPT ![t] = "queued"]
  BY <1>1, <1>3, <1>4, PhaseExcept
<1>6. Service!In("queued") = pending_list
  BY PhaseOf, ListFacts DEF Service!In
<1>7. pending_list \ {t} = pending_list
  BY <1>1 DEF Linked
<1> QED BY <1>1, <1>2, <1>5, <1>6, <1>7, PhaseOf DEF Service!Queue

(* A cancellation, the removal of a model or a close withdraws jobs.        *)
LEMMA JobWithdraw ==
  ASSUME IInv, NEW T \in SUBSET Task, InvokeDel(T),
         \A u \in scheduled_list : state'[u] = state[u]
  PROVE  Service!JobNext
<1>1. finished_list' = finished_list \ T /\ pending_list' = pending_list \ T
      /\ scheduled_list' = scheduled_list /\ ahead' = Unlink(T)
      /\ asked' = asked \cup (T \cap scheduled_list)
  BY DEF InvokeDel
<1>2. ASSUME NEW u \in Task
      PROVE  Phase'[u] = IF u \in T /\ Phase[u] \in {"queued", "reported"}
                           THEN "free" ELSE Phase[u]
  <2>1. CASE u \in scheduled_list
    <3>1. Reportable(u)' <=> Reportable(u)
      BY <2>1 DEF Reportable
    <3> QED BY <1>1, <2>1, <3>1, ListFacts DEF Phase
  <2>2. CASE u \notin scheduled_list
    BY <1>1, <2>2, ListFacts DEF Phase
  <2> QED BY <2>1, <2>2
<1>3. Phase' = [u \in Task |-> Phase'[u]]
  BY DEF Phase
<1>4. Phase' = [u \in Task |-> IF u \in T /\ Phase[u] \in {"queued", "reported"}
                                 THEN "free" ELSE Phase[u]]
  BY <1>2, <1>3
<1>5. {u \in T : Phase[u] \in {"running", "ended"}} = T \cap scheduled_list
  BY PhaseOf
<1>6. Service!Withdraw(T)
  BY <1>1, <1>4, <1>5 DEF Service!Withdraw, Service!Dequeue, Unlink
<1> QED BY <1>6 DEF Service!JobNext

(* The thread starts the oldest queued job; the one before has ended.       *)
LEMMA JobStart ==
  ASSUME ~ShareSwap, IInv, OrderInv, PostTask
  PROVE  Service!JobNext
<1>1. PICK t \in Eligible(netPrev) : Schedule(t)
  BY DEF PostTask
<1>2. netPrev = None
  BY DEF IInv, NetInv
<1>3. t \in pending_list /\ t \in Task /\ ahead[t] = {}
  BY <1>2, ListFacts DEF Eligible, OrderInv
<1>4. pending_list' = pending_list \ {t} /\ ahead' = Unlink({t})
      /\ scheduled_list' = scheduled_list \cup {t}
      /\ UNCHANGED <<finished_list, state, asked>>
  BY <1>1 DEF Schedule, PostTask
<1>5. state[t] = "PENDING"
  BY <1>3 DEF IInv, ListsInv
<1>6. cur = None /\ \A u \in scheduled_list : Reportable(u)
  BY ListFacts DEF IInv, HeldInv, HasCur, ReportState, InFlight, Reportable,
     PostTask, At
<1>7. Service!In("running") = {}
  BY <1>6, PhaseOf DEF Service!In
<1>8. ASSUME NEW u \in Task \ {t} PROVE Phase'[u] = Phase[u]
  BY <1>4, <1>8 DEF Phase, Reportable
<1>9. Phase'[t] = "running"
  BY <1>3, <1>4, <1>5 DEF Phase, Reportable
<1>10. Phase' = [Phase EXCEPT ![t] = "running"]
  BY <1>3, <1>8, <1>9, PhaseExcept
<1>11. Service!Start(t)
  BY <1>3, <1>4, <1>7, <1>10, PhaseOf DEF Service!Start, Service!Dequeue, Unlink
<1> QED BY <1>3, <1>11 DEF Service!JobNext

(* The device ends the running job; the one before it has been reported.    *)
LEMMA JobEnd ==
  ASSUME IInv, SubmitWait \/ SubmitTee
  PROVE  Service!JobNext
<1>1. pc \in {"SUBMIT_WAIT", "SUBMIT_TEE"}
  BY DEF SubmitWait, SubmitTee, At
<1>2. cur \in Task /\ scheduled_list = {cur} /\ ~Reportable(cur)
  BY <1>1, ListFacts DEF IInv, HeldInv, HasCur, MayHavePre, ReportState, InFlight,
     Reportable
<1>3. PICK result \in {"FINISHED", "FAIL"} : state' = [state EXCEPT ![cur] = result]
  BY DEF SubmitWait, SubmitTee
<1>4. UNCHANGED <<pending_list, scheduled_list, finished_list, ahead, asked>>
  BY DEF SubmitWait, SubmitTee
<1>5. state'[cur] = result /\ \A u \in Task \ {cur} : state'[u] = state[u]
  BY <1>2, <1>3, ListFacts
<1>6. ASSUME NEW u \in Task \ {cur} PROVE Phase'[u] = Phase[u]
  BY <1>4, <1>5, <1>6 DEF Phase, Reportable
<1>7. Phase'[cur] = "ended"
  BY <1>2, <1>4, <1>5, ListFacts DEF Phase, Reportable
<1>8. Phase' = [Phase EXCEPT ![cur] = "ended"]
  BY <1>2, <1>6, <1>7, PhaseExcept
<1>9. Service!In("ended") = {}
  BY <1>2, PhaseOf DEF Service!In
<1>10. Service!End(cur)
  BY <1>2, <1>4, <1>8, <1>9, PhaseOf DEF Service!End
<1> QED BY <1>2, <1>10 DEF Service!JobNext

(* A job that has ended is reported, or forgotten at its owner's request.   *)
LEMMA JobUpdate ==
  ASSUME IInv, AskedInv, NEW t \in scheduled_list, Reportable(t), UpdateTaskState(t)
  PROVE  Service!JobNext
<1>1. scheduled_list' = scheduled_list \ {t} /\ asked' = asked \ {t}
      /\ UNCHANGED <<pending_list, ahead, state>>
  BY DEF UpdateTaskState
<1>2. t \in Task /\ t \notin pending_list /\ t \notin finished_list
  BY ListFacts
<1>3. CASE canceled[t]
  <2>1. finished_list' = finished_list /\ t \in asked
    BY <1>3 DEF UpdateTaskState, AskedInv
  <2>2. ASSUME NEW u \in Task \ {t} PROVE Phase'[u] = Phase[u]
    BY <1>1, <2>1, <2>2 DEF Phase, Reportable
  <2>3. Phase'[t] = "free"
    BY <1>1, <1>2, <2>1 DEF Phase
  <2>4. Phase' = [Phase EXCEPT ![t] = "free"]
    BY <1>2, <2>2, <2>3, PhaseExcept
  <2>5. Service!Discard(t)
    BY <1>1, <1>2, <2>1, <2>4, PhaseOf DEF Service!Discard
  <2> QED BY <1>2, <2>5 DEF Service!JobNext
<1>4. CASE ~canceled[t]
  <2>1. finished_list' = finished_list \cup {t}
    BY <1>4 DEF UpdateTaskState
  <2>2. ASSUME NEW u \in Task \ {t} PROVE Phase'[u] = Phase[u]
    BY <1>1, <2>1, <2>2 DEF Phase, Reportable
  <2>3. Phase'[t] = "reported"
    BY <1>1, <1>2, <2>1 DEF Phase
  <2>4. Phase' = [Phase EXCEPT ![t] = "reported"]
    BY <1>2, <2>2, <2>3, PhaseExcept
  <2>5. Service!Report(t)
    BY <1>1, <1>2, <2>4, PhaseOf DEF Service!Report
  <2> QED BY <1>2, <2>5 DEF Service!JobNext
<1> QED BY <1>3, <1>4

(* A context that is freed has no job.                                      *)
LEMMA JobFree ==
  ASSUME IInv, NEW n \in Net, DestroyFree(n)
  PROVE  UNCHANGED Service!jobVars
<1>1. UNCHANGED <<pending_list, scheduled_list, finished_list, ahead, asked>>
      /\ ctx[n] = "idle"
      /\ state' = [t \in Task |-> IF Owner[t] = n THEN "NONE" ELSE state[t]]
  BY DEF DestroyFree, FreeModel
<1>2. \A t \in scheduled_list : Owner[t] # n
  BY <1>1, IdleIsFree, ListFacts DEF TasksOf, Linked
<1>3. \A t \in scheduled_list : Reportable(t)' <=> Reportable(t)
  BY <1>1, <1>2, ListFacts DEF Reportable
<1> QED BY <1>1, <1>3, JobFrame

(* The task is handed to the device: it is already the running job.         *)
LEMMA JobSubmit ==
  ASSUME IInv, Submit
  PROVE  UNCHANGED Service!jobVars
<1>1. UNCHANGED <<pending_list, scheduled_list, finished_list, ahead, asked>>
      /\ state' = [state EXCEPT ![cur] = IF @ = "PENDING" THEN "RUNNING" ELSE @]
      /\ pc = "SUBMIT"
  BY DEF Submit, At
<1>2. cur \in Task /\ state[cur] = "PENDING"
  BY <1>1, ListFacts DEF IInv, HeldInv, HasCur
<1>3. state'[cur] = "RUNNING" /\ \A u \in Task \ {cur} : state'[u] = state[u]
  BY <1>1, <1>2, ListFacts
<1>4. \A t \in scheduled_list : Reportable(t)' <=> Reportable(t)
  BY <1>2, <1>3, ListFacts DEF Reportable
<1> QED BY <1>1, <1>4, JobFrame

(* A step of a user is a step of JobService, or none.                       *)
LEMMA JobUser ==
  ASSUME Discipline, IInv, UserStep
  PROVE  Service!JobNext \/ UNCHANGED Service!jobVars
<1>1. PICK n \in Net :
        \/ CreateContext(n) \/ RegisterNets(n) \/ Unregister(n)
        \/ InvokeRefused(n) \/ WaitTake(n) \/ WaitTimeout(n) \/ Destroy(n)
        \/ \E t \in TasksOf(n) : InvokeRequest(n, t) \/ WaitBegin(n, t)
        \/ \E t \in Task : CancelInvoke(n, t)
  BY DEF UserStep, UserNext
<1>2. CASE \/ CreateContext(n) \/ InvokeRefused(n) \/ WaitTake(n) \/ WaitTimeout(n)
           \/ DestroyMark(n) \/ DestroyTake(n)
           \/ \E t \in TasksOf(n) : WaitBegin(n, t)
  <2>1. UNCHANGED <<pending_list, scheduled_list, finished_list, ahead, asked, state>>
    BY <1>2
       DEF CreateContext, InvokeRefused, WaitTake, WaitTimeout,
           DestroyMark, DestroyTake, WaitBegin
  <2>2. \A t \in scheduled_list : Reportable(t)' <=> Reportable(t)
    BY <2>1 DEF Reportable
  <2> QED BY <2>1, <2>2, JobFrame
<1>3. CASE Unregister(n)
  <2>1. \A u \in scheduled_list : state'[u] = state[u]
    BY <1>3, UnregisterOwn, ListFacts DEF FreeModel, Busy, TasksOf
  <2> QED BY <1>3, <2>1, UnregisterOwn, JobWithdraw DEF TasksOf
<1>4. CASE DestroyDelAll(n)
  BY <1>4, JobWithdraw DEF DestroyDelAll, TasksOf
<1>5. CASE DestroyFree(n)
  BY <1>5, JobFree
<1>6. CASE \E t \in Task : CancelInvoke(n, t)
  BY <1>6, JobWithdraw DEF CancelInvoke
<1>7. CASE \E t \in TasksOf(n) : InvokeRequest(n, t)
  BY <1>7, JobQueue DEF Service!JobNext, TasksOf
<1>8. CASE RegisterNets(n)
  <2>1. UNCHANGED <<pending_list, scheduled_list, finished_list, ahead, asked>>
    BY <1>8 DEF RegisterNets
  <2>2. \A t \in scheduled_list : Reportable(t)' <=> Reportable(t)
    BY <1>8, ListFacts DEF RegisterNets, Linked, Reportable
  <2> QED BY <2>1, <2>2, JobFrame
<1> QED BY <1>1, <1>2, <1>3, <1>4, <1>5, <1>6, <1>7, <1>8 DEF Destroy

(* A step of the thread is a step of JobService, or none.                   *)
LEMMA JobThread ==
  ASSUME ~ShareSwap, IInv, OrderInv, AskedInv, ThreadNext
  PROVE  Service!JobNext \/ UNCHANGED Service!jobVars
<1>1. CASE PostTask
  BY <1>1, JobStart
<1>2. CASE SubmitWait \/ SubmitTee
  BY <1>2, JobEnd
<1>3. CASE Submit
  BY <1>3, JobSubmit
<1>4. CASE ReportPre /\ pre # None /\ Reportable(pre)
  <2>1. pre \in scheduled_list
    BY <1>4, ListFacts DEF InFlight
  <2> QED BY <1>4, <2>1, JobUpdate DEF ReportPre
<1>5. CASE ReportCur /\ Reportable(cur)
  <2>1. cur \in scheduled_list
    BY <1>5, ListFacts DEF IInv, HeldInv, HasCur, InFlight, ReportCur, At
  <2> QED BY <1>5, <2>1, JobUpdate DEF ReportCur
<1>6. CASE \/ ReportPre /\ ~(pre # None /\ Reportable(pre))
           \/ ReportCur /\ ~Reportable(cur)
           \/ Resume \/ DevReset \/ WqReset \/ WqCheck \/ WqTake \/ SleepCheck
           \/ PmSleep \/ PostNothing \/ CheckFinished \/ CheckFail \/ Signal
  <2>1. UNCHANGED <<pending_list, scheduled_list, finished_list, ahead, asked, state>>
    BY <1>6
       DEF ReportPre, ReportCur, Resume, DevReset, WqReset, WqCheck, WqTake,
           SleepCheck, PmSleep, PostNothing, CheckFinished, CheckFail, Signal
  <2>2. \A t \in scheduled_list : Reportable(t)' <=> Reportable(t)
    BY <2>1 DEF Reportable
  <2> QED BY <2>1, <2>2, JobFrame
<1> QED BY <1>1, <1>2, <1>3, <1>4, <1>5, <1>6 DEF ThreadNext

(* Every step is a step of JobService, or none.                             *)
LEMMA JobStep ==
  ASSUME Discipline, ~ShareSwap, IInv, OrderInv, AskedInv, [Next]_vars
  PROVE  [Service!JobNext]_Service!jobVars
<1>1. CASE UserStep
  BY <1>1, JobUser
<1>2. CASE ThreadNext
  BY <1>2, JobThread
<1>3. CASE TimerTick \/ SysSuspend \/ SuspendPoll \/ SysResume \/ UNCHANGED vars
  <2>1. UNCHANGED <<pending_list, scheduled_list, finished_list, ahead, asked, state>>
    BY <1>3 DEF TimerTick, SysSuspend, SuspendPoll, SysResume, vars
  <2>2. \A t \in scheduled_list : Reportable(t)' <=> Reportable(t)
    BY <2>1 DEF Reportable
  <2> QED BY <2>1, <2>2, JobFrame
<1> QED BY <1>1, <1>2, <1>3 DEF Next

(* In the beginning no job is queued.                                       *)
LEMMA JobInitial ==
  ASSUME Init
  PROVE  Service!JobInit
BY DEF Init, QueueInit, Service!JobInit, Phase

-----------------------------------------------------------------------------
(* The results.                                                             *)

(* The invariants hold in the beginning.                                    *)
LEMMA ServiceInit ==
  ASSUME Init
  PROVE  OrderInv /\ AskedInv /\ CountsInv
BY NoTask DEF Init, QueueInit, OrderInv, AskedInv, CountsInv, Linked

(* invoke_cnt and sched_num count the linked and the scheduled tasks,       *)
(* through cancellations, closes and the resets of the thread.              *)
THEOREM CountsAreExact ==
  ASSUME Discipline
  PROVE  Spec => []CountsExact
<1>1. Init => CountsInv
  BY ServiceInit
<1>2. IInv /\ CountsInv /\ [Next]_vars => CountsInv'
  BY CountsNext
<1>3. CountsInv => CountsExact
  BY DEF CountsInv, CountsExact
<1> QED BY <1>1, <1>2, <1>3, InvariantHolds, PTL DEF Spec

(* The driver serves its clients as JobService says: the initial states and *)
(* the steps map to its own, when share_swap_en does not let the parts of a *)
(* model overtake other models.                                             *)
THEOREM DriverServesJobs ==
  ASSUME Discipline, ~InvokeCanceled, ~ShareSwap
  PROVE  Spec => ServiceOfJobs
<1>1. Init => OrderInv /\ AskedInv
  BY ServiceInit
<1>2. IInv /\ OrderInv /\ AskedInv /\ [Next]_vars => OrderInv' /\ AskedInv'
  BY OrderNext, AskedNext
<1>3. IInv /\ OrderInv /\ AskedInv /\ [Next]_vars => [Service!JobNext]_Service!jobVars
  BY JobStep
<1>4. Init => Service!JobInit
  BY JobInitial
<1> QED BY <1>1, <1>2, <1>3, <1>4, InvariantHolds, PTL
        DEF Spec, ServiceOfJobs, Service!JobSpec
=============================================================================
