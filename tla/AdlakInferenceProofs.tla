------------------------ MODULE AdlakInferenceProofs ------------------------
(***************************************************************************)
(* IInv is an invariant of AdlakInference, for every value of the         *)
(* constants and users that keep to Discipline.  There is one lemma for   *)
(* each action, with a step for each part of IInv that it can disturb.    *)
(***************************************************************************)
EXTENDS AdlakInferenceInv, FiniteSetTheorems, TLAPS

USE DEF IInv, queueVars, ctxVars, taskVars, listVars, histVars,
        threadVars, timerVars, pmVars

(* Sets of tasks are finite. *)
LEMMA TaskSets ==
  ASSUME NEW S \in SUBSET Task
  PROVE  IsFiniteSet(S) /\ Cardinality(S) \in Nat
BY WorkqueueAssumption, FS_Subset, FS_CardinalityType DEF WorkqueueAssumption

(* Fewer tasks are not more. *)
LEMMA FewerTasks ==
  ASSUME NEW S \in SUBSET Task, NEW R \in SUBSET S
  PROVE  Cardinality(R) <= Cardinality(S)
BY TaskSets, FS_Subset

(* One task more, one task less. *)
LEMMA OneTask ==
  ASSUME NEW S \in SUBSET Task, NEW t \in Task
  PROVE  /\ Cardinality(S \cup {t}) <= Cardinality(S) + 1
         /\ t \in S => Cardinality(S \ {t}) = Cardinality(S) - 1
BY TaskSets, FS_AddElement, FS_RemoveElement

(* The empty set. *)
LEMMA NoTask == Cardinality({}) = 0
BY FS_EmptySet

(* ListsInv, about the lists, is kept by steps that leave its variables     *)
(* alone.                                                                   *)
LEMMA ListsFrame ==
  ASSUME ListsInv, UNCHANGED <<corrupt, pending_list, scheduled_list,
                     finished_list, state>>
  PROVE  ListsInv'
BY DEF ListsInv

(* AliveInv, about the contexts and the lists, is kept by steps that leave  *)
(* its variables alone.                                                     *)
LEMMA AliveFrame ==
  ASSUME AliveInv, UNCHANGED <<pending_list, scheduled_list, finished_list,
                     model, ctx, canceled>>
  PROVE  AliveInv'
BY DEF AliveInv, Linked

(* CloseInv, about ctx_idle, is kept by steps that leave its variables      *)
(* alone.                                                                   *)
LEMMA CloseFrame ==
  ASSUME CloseInv, UNCHANGED <<pending_list, scheduled_list, ctx_idle, ctx>>
  PROVE  CloseInv'
BY DEF CloseInv, Closed

(* CloseWillEnd, about a waiting close, is kept by steps that leave its     *)
(* variables alone.                                                         *)
LEMMA CloseWillEndFrame ==
  ASSUME CloseWillEnd, UNCHANGED <<ctx, ctx_idle, scheduled_list>>
  PROVE  CloseWillEnd'
BY DEF CloseWillEnd, TasksOf

(* HeldInv, about what the thread holds, is kept by steps that leave its    *)
(* variables alone.                                                         *)
LEMMA HeldFrame ==
  ASSUME HeldInv, UNCHANGED <<scheduled_list, cur, pre, pc, state>>
  PROVE  HeldInv'
BY DEF HeldInv, InFlight, HasCur, MayHavePre, ReportState

(* NetInv, about the thread's next net, is kept by steps that leave its     *)
(* variables alone.                                                         *)
LEMMA NetFrame ==
  ASSUME NetInv, UNCHANGED <<netPrev, cur, pc, pre, pending_num>>
  PROVE  NetInv'
BY DEF NetInv

(* PowerInv, about the power, is kept by steps that leave its variables     *)
(* alone.                                                                   *)
LEMMA PowerFrame ==
  ASSUME PowerInv, UNCHANGED <<is_suspend, dpm, pc, pre, cur, device, state>>
  PROVE  PowerInv'
BY DEF PowerInv, HasCur

(* NumInv, about the counts, is kept by steps that leave its variables      *)
(* alone.                                                                   *)
LEMMA NumFrame ==
  ASSUME NumInv, UNCHANGED <<pending_num, pending_list, pc>>
  PROVE  NumInv'
BY DEF NumInv, PendingNumCovers

(* WaitInv, about the waits, is kept by steps that leave its variables      *)
(* alone.                                                                   *)
LEMMA WaitFrame ==
  ASSUME WaitInv, UNCHANGED <<waited, finished_list, waiting, invoke_state>>
  PROVE  WaitInv'
BY DEF WaitInv, TasksOf


(* open: a context with nothing linked is added.                            *)
LEMMA CreateContextStep ==
  ASSUME NEW n \in Net, Discipline, IInv, CreateContext(n),
         UNCHANGED <<threadVars, timerVars, pmVars>>
  PROVE  IInv'
<1>1. TypeOK'
  BY DEF CreateContext, TypeOK, QueueTypeOK, ContextState
<1>2. AliveInv'
  BY DEF CreateContext, Linked, AliveInv
<1>3. CloseInv'
  BY DEF CreateContext, Closed, CloseInv
<1>4. CloseWillEnd'
  BY DEF CreateContext, CloseWillEnd
<1>5. /\ ListsInv' /\ HeldInv' /\ NetInv' /\ PowerInv'
      /\ NumInv' /\ WaitInv'
  BY DEF CreateContext, ListsInv, HeldInv, InFlight, NetInv, PowerInv,
     NumInv, PendingNumCovers, WaitInv
<1> QED BY <1>1, <1>2, <1>3, <1>4, <1>5

(* A registration in an open context: only a task that is linked nowhere    *)
(* gets a new struct, so neither the lists nor the thread hold one.         *)
LEMMA RegisterNetsStep ==
  ASSUME NEW n \in Net, Discipline, IInv, RegisterNets(n),
         UNCHANGED <<threadVars, timerVars, pmVars>>
  PROVE  IInv'
<1>1. \A t \in Linked : state'[t] = state[t] /\ canceled'[t] = canceled[t]
  BY DEF RegisterNets, Linked, TypeOK, QueueTypeOK
<1>2. /\ pre # None => pre \in Linked
      /\ cur # None => cur \in Linked
  BY DEF HeldInv, InFlight, Linked
<1>3. TypeOK'
  BY DEF RegisterNets, TypeOK, QueueTypeOK, TaskState
<1>4. ListsInv'
  BY <1>1 DEF RegisterNets, ListsInv, Linked
<1>5. AliveInv'
  BY <1>1 DEF RegisterNets, AliveInv, Linked, TypeOK, QueueTypeOK
<1>6. HeldInv'
  BY <1>1, <1>2 DEF RegisterNets, HeldInv, InFlight, HasCur, ReportState
<1>7. PowerInv'
  BY <1>1, <1>2 DEF RegisterNets, PowerInv, HeldInv, HasCur
<1>8. /\ CloseInv' /\ CloseWillEnd' /\ NetInv' /\ NumInv' /\ WaitInv'
  BY CloseFrame, CloseWillEndFrame, NetFrame, NumFrame, WaitFrame
     DEF RegisterNets
<1> QED BY <1>3, <1>4, <1>5, <1>6, <1>7, <1>8

(* The deletion of invokes keeps the types.                                 *)
LEMMA DelTypes ==
  ASSUME NEW T \in SUBSET Task, TypeOK, InvokeDel(T)
  PROVE  /\ invoke_cnt' \in [Net -> Int] /\ pending_num' \in Nat
         /\ ahead' \in [Task -> SUBSET Task]
         /\ pending_list' \subseteq Task /\ finished_list' \subseteq Task
         /\ asked' \subseteq Task /\ waited' \subseteq Task
<1>1. \A m \in Net : Cardinality(Deleted(T) \cap TasksOf(m)) \in Nat
  <2>1. \A m \in Net : Deleted(T) \cap TasksOf(m) \in SUBSET Task
    BY DEF Deleted, TasksOf
  <2> QED BY <2>1, TaskSets
<1>2. invoke_cnt' \in [Net -> Int] /\ pending_num' \in Nat
  BY <1>1 DEF InvokeDel, DeletedNum, TypeOK, QueueTypeOK
<1>3. ahead' \in [Task -> SUBSET Task]
  BY DEF InvokeDel, Unlink, TypeOK, QueueTypeOK
<1>4. /\ pending_list' \subseteq Task /\ finished_list' \subseteq Task
      /\ asked' \subseteq Task /\ waited' \subseteq Task
  BY DEF InvokeDel, TypeOK, QueueTypeOK
<1> QED BY <1>2, <1>3, <1>4

(* An invoke: Discipline keeps it from linking a task twice.                *)
LEMMA InvokeRequestStep ==
  ASSUME NEW n \in Net, NEW t \in TasksOf(n), Discipline, IInv, InvokeRequest(n, t),
         UNCHANGED <<threadVars, timerVars, pmVars>>
  PROVE  IInv'
<1>1. TypeOK'
  BY WorkqueueAssumption
     DEF InvokeRequest, Give, TasksOf, TypeOK, QueueTypeOK, TaskState
<1>2. ListsInv'
  BY DEF InvokeRequest, Linked, TasksOf, Discipline, TypeOK, QueueTypeOK,
     ListsInv
<1>3. AliveInv'
  BY DEF InvokeRequest, Linked, TasksOf, AliveInv
<1>4. CloseInv'
  BY DEF InvokeRequest, TasksOf, TypeOK, QueueTypeOK, CloseInv, Closed
<1>5. HeldInv'
  BY DEF InvokeRequest, Linked, Discipline, HeldInv, InFlight, HasCur
<1>6. NetInv'
  BY DEF InvokeRequest, TypeOK, QueueTypeOK, NetInv
<1>7. PowerInv'
  BY DEF InvokeRequest, Linked, Discipline, HeldInv, InFlight, HasCur,
     PowerInv
<1>8. NumInv'
  BY TaskSets, FewerTasks, OneTask
     DEF InvokeRequest, TasksOf, TypeOK, QueueTypeOK, NumInv,
         PendingNumCovers
<1>9. CloseWillEnd' /\ WaitInv'
  BY CloseWillEndFrame, WaitFrame DEF InvokeRequest
<1> QED BY <1>1, <1>2, <1>3, <1>4, <1>5, <1>6, <1>7, <1>8, <1>9

(* An invoke that is refused only wakes up the thread.                      *)
LEMMA InvokeRefusedStep ==
  ASSUME NEW n \in Net, Discipline, IInv, InvokeRefused(n),
         UNCHANGED <<threadVars, timerVars, pmVars>>
  PROVE  IInv'
<1>1. TypeOK'
  BY WorkqueueAssumption DEF InvokeRefused, Give, TypeOK, QueueTypeOK
<1>2. /\ ListsInv' /\ AliveInv' /\ CloseInv' /\ CloseWillEnd'
      /\ HeldInv' /\ NetInv' /\ PowerInv' /\ NumInv'
      /\ WaitInv'
  BY ListsFrame, AliveFrame, CloseFrame, CloseWillEndFrame, HeldFrame,
     NetFrame, PowerFrame, NumFrame, WaitFrame DEF InvokeRefused
<1> QED BY <1>1, <1>2

(* The cancellation of an invoke: a scheduled one stays with the thread.    *)
LEMMA CancelInvokeStep ==
  ASSUME NEW n \in Net, NEW t \in Task, Discipline, IInv, CancelInvoke(n, t),
         UNCHANGED <<threadVars, timerVars, pmVars>>
  PROVE  IInv'
<1>1. TypeOK'
  <2>1. InvokeDel({t}) /\ canceled' = Flagged({t})
        /\ UNCHANGED <<ctx, model, state, corrupt>>
    BY DEF CancelInvoke
  <2>2. canceled' \in [Task -> BOOLEAN]
    BY <2>1 DEF Flagged, TypeOK, QueueTypeOK
  <2> QED BY <2>1, <2>2, DelTypes DEF InvokeDel, TypeOK, QueueTypeOK
<1>2. ListsInv'
  BY DEF CancelInvoke, InvokeDel, ListsInv
<1>3. AliveInv'
  BY DEF CancelInvoke, InvokeDel, Flagged, TypeOK, QueueTypeOK, AliveInv,
     Linked
<1>4. CloseInv'
  BY DEF CancelInvoke, InvokeDel, CloseInv, Closed
<1>5. NetInv'
  BY DEF CancelInvoke, InvokeDel, DeletedNum, TypeOK, QueueTypeOK, NetInv
<1>6. NumInv'
  BY TaskSets, FewerTasks
     DEF CancelInvoke, InvokeDel, DeletedNum, TypeOK, QueueTypeOK, NumInv,
         PendingNumCovers
<1>7. WaitInv'
  BY DEF CancelInvoke, InvokeDel, WaitInv
<1>8. CloseWillEnd' /\ HeldInv' /\ PowerInv'
  BY CloseWillEndFrame, HeldFrame, PowerFrame DEF CancelInvoke, InvokeDel
<1> QED BY <1>1, <1>2, <1>3, <1>4, <1>5, <1>6, <1>7, <1>8

(* The removal of a model by a user that names its own net.                 *)
LEMMA UnregisterOwn ==
  ASSUME NEW n \in Net, Discipline, Unregister(n)
  PROVE  LET T == TasksOf(n)
         IN  /\ InvokeDel(T) /\ UNCHANGED ctx
             /\ IF Busy(T)
                  THEN canceled' = Flagged(T) /\ UNCHANGED <<model, state, corrupt>>
                  ELSE /\ FreeModel(n)
                       /\ canceled' = [t \in Task |-> canceled[t] /\ Owner[t] # n]
                       /\ corrupt' = (T \cap Linked' # {})
BY DEF Unregister, Named, Discipline

(* The removal of a model: it is freed only if nothing of it is linked.     *)
LEMMA UnregisterStep ==
  ASSUME NEW n \in Net, Discipline, IInv, Unregister(n),
         UNCHANGED <<threadVars, timerVars, pmVars>>
  PROVE  IInv'
<1> DEFINE T == TasksOf(n)
<1>del. /\ InvokeDel(T) /\ UNCHANGED ctx
      /\ IF Busy(T)
           THEN canceled' = Flagged(T) /\ UNCHANGED <<model, state, corrupt>>
           ELSE /\ FreeModel(n)
                /\ canceled' = [t \in Task |-> canceled[t] /\ Owner[t] # n]
                /\ corrupt' = (T \cap Linked' # {})
  BY UnregisterOwn
<1>sound. corrupt' = FALSE
  <2>1. CASE Busy(T)
    BY <1>del, <2>1 DEF ListsInv
  <2>2. CASE ~Busy(T)
    <3>1. T \cap Linked' = {}
      BY <1>del, <2>2 DEF InvokeDel, Busy, Linked
    <3> QED BY <1>del, <2>2, <3>1
  <2> QED BY <2>1, <2>2
<1>1. TypeOK'
  <2>1. T \in SUBSET Task
    BY DEF TasksOf
  <2>2. canceled' \in [Task -> BOOLEAN]
    BY <1>del DEF Flagged, TypeOK, QueueTypeOK
  <2>3. state' \in [Task -> TaskState] /\ model' \in [Net -> BOOLEAN]
    BY <1>del DEF FreeModel, TypeOK, QueueTypeOK, TaskState
  <2> QED
    BY <1>del, <1>sound, <2>1, <2>2, <2>3, DelTypes
       DEF InvokeDel, TypeOK, QueueTypeOK
<1>2. ListsInv'
  BY <1>del, <1>sound DEF InvokeDel, FreeModel, TasksOf, TypeOK, QueueTypeOK,
     ListsInv
<1>3. AliveInv'
  BY <1>del, WorkqueueAssumption
     DEF InvokeDel, Busy, Flagged, FreeModel, TasksOf, TypeOK,
         QueueTypeOK, AliveInv, Linked
<1>4. CloseInv'
  BY <1>del DEF InvokeDel, CloseInv, Closed
<1>5. HeldInv'
  BY <1>del DEF InvokeDel, Busy, FreeModel, TasksOf, TypeOK, HeldInv,
     InFlight, HasCur
<1>6. NetInv'
  BY <1>del DEF InvokeDel, DeletedNum, TypeOK, QueueTypeOK, NetInv
<1>7. PowerInv'
  BY <1>del DEF Busy, FreeModel, TasksOf, TypeOK, HeldInv, InFlight,
     HasCur, PowerInv
<1>8. NumInv'
  BY <1>del, TaskSets, FewerTasks
     DEF InvokeDel, DeletedNum, TypeOK, QueueTypeOK, NumInv,
         PendingNumCovers
<1>9. WaitInv'
  BY <1>del DEF InvokeDel, WaitInv
<1>10. CloseWillEnd'
  BY CloseWillEndFrame, <1>del DEF InvokeDel, FreeModel
<1> QED BY <1>1, <1>2, <1>3, <1>4, <1>5, <1>6, <1>7, <1>8, <1>9, <1>10

(* The begin of a wait: for a task that has its token still to come or in   *)
(* store.                                                                   *)
LEMMA WaitBeginStep ==
  ASSUME NEW n \in Net, NEW t \in TasksOf(n), Discipline, IInv, WaitBegin(n, t),
         UNCHANGED <<threadVars, timerVars, pmVars>>
  PROVE  IInv'
<1>1. TypeOK'
  BY DEF WaitBegin, TasksOf, TypeOK, QueueTypeOK
<1>2. WaitInv'
  BY DEF WaitBegin, WaitInv
<1>3. /\ ListsInv' /\ AliveInv' /\ CloseInv' /\ CloseWillEnd'
      /\ HeldInv' /\ NetInv' /\ PowerInv' /\ NumInv'
  BY ListsFrame, AliveFrame, CloseFrame, CloseWillEndFrame, HeldFrame,
     NetFrame, PowerFrame, NumFrame DEF WaitBegin
<1> QED BY <1>1, <1>2, <1>3

(* A wait that takes a token: no other result needs that one, as the        *)
(* context has one model.                                                   *)
LEMMA WaitTakeStep ==
  ASSUME NEW n \in Net, Discipline, IInv, WaitTake(n),
         UNCHANGED <<threadVars, timerVars, pmVars>>
  PROVE  IInv'
<1>1. TypeOK'
  BY WorkqueueAssumption DEF WaitTake, TypeOK, QueueTypeOK
<1>2. WaitInv'
  BY DEF WaitTake, Discipline, TypeOK, QueueTypeOK, WaitInv, TasksOf
<1>3. /\ ListsInv' /\ AliveInv' /\ CloseInv' /\ CloseWillEnd'
      /\ HeldInv' /\ NetInv' /\ PowerInv' /\ NumInv'
  BY ListsFrame, AliveFrame, CloseFrame, CloseWillEndFrame, HeldFrame,
     NetFrame, PowerFrame, NumFrame DEF WaitTake
<1> QED BY <1>1, <1>2, <1>3

(* A wait that expires leaves the results their tokens.                     *)
LEMMA WaitTimeoutStep ==
  ASSUME NEW n \in Net, Discipline, IInv, WaitTimeout(n),
         UNCHANGED <<threadVars, timerVars, pmVars>>
  PROVE  IInv'
<1>1. TypeOK'
  BY DEF WaitTimeout, TypeOK, QueueTypeOK
<1>2. WaitInv'
  BY DEF WaitTimeout, WaitInv
<1>3. /\ ListsInv' /\ AliveInv' /\ CloseInv' /\ CloseWillEnd'
      /\ HeldInv' /\ NetInv' /\ PowerInv' /\ NumInv'
  BY ListsFrame, AliveFrame, CloseFrame, CloseWillEndFrame, HeldFrame,
     NetFrame, PowerFrame, NumFrame DEF WaitTimeout
<1> QED BY <1>1, <1>2, <1>3

(* close marks the context.                                                 *)
LEMMA DestroyMarkStep ==
  ASSUME NEW n \in Net, Discipline, IInv, DestroyMark(n),
         UNCHANGED <<threadVars, timerVars, pmVars>>
  PROVE  IInv'
<1>1. TypeOK'
  BY DEF DestroyMark, TypeOK, QueueTypeOK, ContextState
<1>2. AliveInv'
  BY DEF DestroyMark, AliveInv, Linked
<1>3. CloseInv'
  BY DEF DestroyMark, CloseInv, Closed
<1>4. CloseWillEnd'
  BY DEF DestroyMark, CloseWillEnd
<1>5. /\ ListsInv' /\ HeldInv' /\ NetInv' /\ PowerInv'
      /\ NumInv' /\ WaitInv'
  BY ListsFrame, HeldFrame, NetFrame, PowerFrame, NumFrame, WaitFrame
     DEF DestroyMark
<1> QED BY <1>1, <1>2, <1>3, <1>4, <1>5

(* close deletes the invokes: a cancelled task in the hands of the thread   *)
(* may be left.                                                             *)
LEMMA DestroyDelAllStep ==
  ASSUME NEW n \in Net, Discipline, IInv, DestroyDelAll(n),
         UNCHANGED <<threadVars, timerVars, pmVars>>
  PROVE  IInv'
<1>1. TypeOK'
  <2>1. InvokeDel(TasksOf(n)) /\ canceled' = Flagged(TasksOf(n))
        /\ UNCHANGED <<model, state, corrupt>>
    BY DEF DestroyDelAll
  <2>2. canceled' \in [Task -> BOOLEAN]
    BY <2>1 DEF Flagged, TypeOK, QueueTypeOK
  <2>3. ctx' \in [Net -> ContextState]
    BY DEF DestroyDelAll, TypeOK, QueueTypeOK, ContextState
  <2>4. TasksOf(n) \in SUBSET Task
    BY DEF TasksOf
  <2> QED BY <2>1, <2>2, <2>3, <2>4, DelTypes DEF InvokeDel, TypeOK, QueueTypeOK
<1>2. ListsInv'
  BY DEF DestroyDelAll, InvokeDel, ListsInv
<1>3. AliveInv'
  BY DEF DestroyDelAll, InvokeDel, Busy, Flagged, TasksOf, TypeOK,
     QueueTypeOK, AliveInv, Linked
<1>4. CloseInv'
  BY DEF DestroyDelAll, InvokeDel, CloseInv, Closed
<1>5. CloseWillEnd'
  BY DEF DestroyDelAll, InvokeDel, Busy, CloseWillEnd
<1>6. NetInv'
  BY DEF DestroyDelAll, InvokeDel, DeletedNum, TypeOK, QueueTypeOK, NetInv
<1>7. NumInv'
  <2>1. pending_list \ TasksOf(n) \in SUBSET pending_list
    OBVIOUS
  <2>2. Cardinality(pending_list \ TasksOf(n)) <= Cardinality(pending_list)
    BY <2>1, FewerTasks DEF TypeOK, QueueTypeOK
  <2>3. Cardinality(pending_list \ TasksOf(n)) \in Nat
         /\ Cardinality(pending_list) \in Nat
    BY TaskSets DEF TypeOK, QueueTypeOK
  <2>4. QED
    BY <2>2, <2>3 DEF DestroyDelAll, InvokeDel, DeletedNum, NumInv,
       PendingNumCovers, TypeOK, QueueTypeOK
<1>8. WaitInv'
  BY DEF DestroyDelAll, InvokeDel, WaitInv
<1>9. HeldInv' /\ PowerInv'
  BY HeldFrame, PowerFrame DEF DestroyDelAll, InvokeDel
<1> QED BY <1>1, <1>2, <1>3, <1>4, <1>5, <1>6, <1>7, <1>8, <1>9

(* close waits for the thread: with the token nothing of the context is     *)
(* scheduled.                                                               *)
LEMMA DestroyTakeStep ==
  ASSUME NEW n \in Net, Discipline, IInv, DestroyTake(n),
         UNCHANGED <<threadVars, timerVars, pmVars>>
  PROVE  IInv'
<1>1. TypeOK'
  BY WorkqueueAssumption DEF DestroyTake, TypeOK, QueueTypeOK, ContextState
<1>2. AliveInv'
  BY DEF DestroyTake, Discipline, AliveInv, Linked, CloseInv
<1>3. CloseInv'
  BY DEF DestroyTake, CloseInv, Closed
<1>4. CloseWillEnd'
  BY DEF DestroyTake, TypeOK, QueueTypeOK, CloseWillEnd
<1>5. /\ ListsInv' /\ HeldInv' /\ NetInv' /\ PowerInv'
      /\ NumInv' /\ WaitInv'
  BY ListsFrame, HeldFrame, NetFrame, PowerFrame, NumFrame, WaitFrame
     DEF DestroyTake
<1> QED BY <1>1, <1>2, <1>3, <1>4, <1>5

(* close frees the context, of which nothing is linked.                     *)
LEMMA DestroyFreeStep ==
  ASSUME NEW n \in Net, Discipline, IInv, DestroyFree(n),
         UNCHANGED <<threadVars, timerVars, pmVars>>
  PROVE  IInv'
<1>1. TypeOK'
  BY WorkqueueAssumption
     DEF DestroyFree, FreeModel, TypeOK, QueueTypeOK, ContextState,
         TaskState
<1>2. ListsInv'
  BY DEF DestroyFree, FreeModel, TypeOK, QueueTypeOK, ListsInv, AliveInv
<1>3. AliveInv'
  BY DEF DestroyFree, FreeModel, TypeOK, QueueTypeOK, AliveInv, Linked
<1>4. CloseInv'
  BY DEF DestroyFree, TypeOK, QueueTypeOK, CloseInv, Closed
<1>5. CloseWillEnd'
  BY DEF DestroyFree, CloseWillEnd
<1>6. HeldInv'
  BY DEF DestroyFree, FreeModel, TypeOK, AliveInv, HeldInv, InFlight, HasCur
<1>7. PowerInv'
  BY DEF DestroyFree, FreeModel, TypeOK, AliveInv, HeldInv, InFlight,
     HasCur, PowerInv
<1>8. WaitInv'
  BY DEF DestroyFree, AliveInv, WaitInv
<1>9. NetInv' /\ NumInv'
  BY NetFrame, NumFrame DEF DestroyFree
<1> QED BY <1>1, <1>2, <1>3, <1>4, <1>5, <1>6, <1>7, <1>8, <1>9

(* The power comes back.                                                    *)
LEMMA ResumeStep ==
  ASSUME Discipline, IInv, Resume
  PROVE  IInv'
<1>1. TypeOK'
  <2>1. QueueTypeOK'
    BY DEF Resume, TypeOK, QueueTypeOK
  <2>2. is_suspend' \in BOOLEAN
    BY Zenon DEF Resume
  <2>3. QED
    BY <2>1, <2>2 DEF Resume, Goto, TypeOK, InferenceState
<1>2. HeldInv'
  BY DEF Resume, At, Goto, HeldInv, InFlight, HasCur, MayHavePre,
     ReportState
<1>3. NetInv'
  BY DEF Resume, At, Goto, NetInv
<1>4. PowerInv'
  BY DEF Resume, Goto, PowerInv, HasCur
<1>5. NumInv'
  BY DEF Resume, Goto, NumInv, PendingNumCovers
<1>6. /\ ListsInv' /\ AliveInv' /\ CloseInv' /\ CloseWillEnd'
      /\ WaitInv'
  BY ListsFrame, AliveFrame, CloseFrame, CloseWillEndFrame, WaitFrame
     DEF Resume
<1> QED BY <1>1, <1>2, <1>3, <1>4, <1>5, <1>6

(* The device is reset.                                                     *)
LEMMA DevResetStep ==
  ASSUME Discipline, IInv, DevReset
  PROVE  IInv'
<1>1. TypeOK'
  BY DEF DevReset, Goto, TypeOK, QueueTypeOK, InferenceState
<1>2. HeldInv'
  BY DEF DevReset, At, Goto, HeldInv, InFlight, HasCur, MayHavePre,
     ReportState
<1>3. NetInv'
  BY DEF DevReset, At, Goto, NetInv
<1>4. PowerInv'
  BY DEF DevReset, At, Goto, PowerInv
<1>5. NumInv'
  BY DEF DevReset, Goto, NumInv, PendingNumCovers
<1>6. /\ ListsInv' /\ AliveInv' /\ CloseInv' /\ CloseWillEnd'
      /\ WaitInv'
  BY ListsFrame, AliveFrame, CloseFrame, CloseWillEndFrame, WaitFrame
     DEF DevReset
<1> QED BY <1>1, <1>2, <1>3, <1>4, <1>5, <1>6

(* The queue is reset: the thread forgets nothing, as it holds nothing by   *)
(* then.                                                                    *)
LEMMA WqResetStep ==
  ASSUME Discipline, IInv, WqReset
  PROVE  IInv'
<1>1. TypeOK'
  BY DEF WqReset, Goto, TypeOK, QueueTypeOK, InferenceState
<1>2. HeldInv'
  BY DEF WqReset, At, Goto, HeldInv, InFlight, HasCur, MayHavePre,
     ReportState
<1>3. NetInv'
  BY DEF WqReset, NetInv
<1>4. PowerInv'
  BY DEF WqReset, At, Goto, PowerInv
<1>5. NumInv'
  BY DEF WqReset, Goto, NumInv, PendingNumCovers
<1>6. /\ ListsInv' /\ AliveInv' /\ CloseInv' /\ CloseWillEnd'
      /\ WaitInv'
  BY ListsFrame, AliveFrame, CloseFrame, CloseWillEndFrame, WaitFrame
     DEF WqReset
<1> QED BY <1>1, <1>2, <1>3, <1>4, <1>5, <1>6

(* The thread looks at the queue.                                           *)
LEMMA WqCheckStep ==
  ASSUME Discipline, IInv, WqCheck
  PROVE  IInv'
<1>1. TypeOK'
  BY DEF WqCheck, Goto, ValidNet, TypeOK, QueueTypeOK, InferenceState,
     ReportState
<1>2. HeldInv'
  BY DEF WqCheck, At, Goto, HeldInv, InFlight, HasCur, MayHavePre,
     ReportState
<1>3. NetInv'
  BY DEF WqCheck, At, Goto, ReportFirst, ValidNum, ValidNet, TasksOf,
     Discipline, TypeOK, QueueTypeOK, ListsInv, HeldInv, HasCur, NetInv
<1>4. PowerInv'
  BY DEF WqCheck, At, Goto, PowerInv, HasCur
<1>5. NumInv'
  BY DEF WqCheck, Goto, NumInv, PendingNumCovers
<1>6. /\ ListsInv' /\ AliveInv' /\ CloseInv' /\ CloseWillEnd'
      /\ WaitInv'
  BY ListsFrame, AliveFrame, CloseFrame, CloseWillEndFrame, WaitFrame
     DEF WqCheck
<1> QED BY <1>1, <1>2, <1>3, <1>4, <1>5, <1>6

(* The thread takes a token of wk_update and looks again.                   *)
LEMMA WqTakeStep ==
  ASSUME Discipline, IInv, WqTake
  PROVE  IInv'
<1>1. TypeOK'
  BY WorkqueueAssumption, InferenceAssumption
     DEF WqTake, Goto, AfterTake, ValidNet, TypeOK, QueueTypeOK,
         InferenceState, ReportState
<1>2. HeldInv'
  BY DEF WqTake, At, Goto, AfterTake, NeedsResume, ValidNum, ValidNet,
     HeldInv, InFlight, HasCur, MayHavePre, ReportState, NetInv, PowerInv
<1>3. NetInv'
  BY DEF WqTake, At, ValidNet, NetInv
<1>4. PowerInv'
  BY DEF WqTake, At, Goto, AfterTake, NeedsResume, TypeOK, PowerInv, HasCur
<1>5. NumInv'
  BY DEF WqTake, Goto, AfterTake, ValidNum, NumInv, PendingNumCovers
<1>6. /\ ListsInv' /\ AliveInv' /\ CloseInv' /\ CloseWillEnd'
      /\ WaitInv'
  BY ListsFrame, AliveFrame, CloseFrame, CloseWillEndFrame, WaitFrame
     DEF WqTake
<1> QED BY <1>1, <1>2, <1>3, <1>4, <1>5, <1>6

(* The thread powers the device down: it holds nothing by then.             *)
LEMMA SleepCheckStep ==
  ASSUME Discipline, IInv, SleepCheck
  PROVE  IInv'
<1>1. TypeOK'
  BY DEF SleepCheck, Goto, IdleDown, PmDown, TypeOK, QueueTypeOK,
     InferenceState
<1>2. HeldInv'
  BY DEF SleepCheck, At, Goto, HeldInv, InFlight, HasCur, MayHavePre,
     ReportState
<1>3. NetInv'
  BY DEF SleepCheck, At, Goto, NetInv
<1>4. PowerInv'
  BY DEF SleepCheck, At, Goto, IdleDown, PmDown, TypeOK, ReportState,
     HeldInv, HasCur, MayHavePre, PowerInv
<1>5. NumInv'
  BY DEF SleepCheck, Goto, NumInv, PendingNumCovers
<1>6. /\ ListsInv' /\ AliveInv' /\ CloseInv' /\ CloseWillEnd'
      /\ WaitInv'
  BY ListsFrame, AliveFrame, CloseFrame, CloseWillEndFrame, WaitFrame
     DEF SleepCheck
<1> QED BY <1>1, <1>2, <1>3, <1>4, <1>5, <1>6

(* The thread sleeps through a suspend.                                     *)
LEMMA PmSleepStep ==
  ASSUME Discipline, IInv, PmSleep
  PROVE  IInv'
<1>1. TypeOK'
  BY WorkqueueAssumption
     DEF PmSleep, Goto, TypeOK, QueueTypeOK, InferenceState
<1>2. HeldInv'
  BY DEF PmSleep, At, Goto, HeldInv, InFlight, HasCur, MayHavePre
<1>3. NetInv'
  BY DEF PmSleep, At, Goto, NetInv
<1>4. PowerInv'
  BY DEF PmSleep, At, Goto, PowerInv, HasCur
<1>5. NumInv'
  BY DEF PmSleep, Goto, NumInv, PendingNumCovers
<1>6. /\ ListsInv' /\ AliveInv' /\ CloseInv' /\ CloseWillEnd'
      /\ WaitInv'
  BY ListsFrame, AliveFrame, CloseFrame, CloseWillEndFrame, WaitFrame
     DEF PmSleep
<1> QED BY <1>1, <1>2, <1>3, <1>4, <1>5, <1>6

(* The thread finds no task, and corrects pending_num if the list is empty. *)
LEMMA PostNothingStep ==
  ASSUME Discipline, IInv, PostNothing
  PROVE  IInv'
<1>1. TypeOK'
  BY DEF PostNothing, At, Goto, TypeOK, QueueTypeOK, InferenceState, NumInv
<1>2. HeldInv'
  BY DEF PostNothing, At, Goto, HeldInv, InFlight, HasCur, MayHavePre
<1>3. NetInv'
  BY DEF PostNothing, At, Goto, NetInv
<1>4. PowerInv'
  BY DEF PostNothing, At, Goto, PowerInv
<1>5. NumInv'
  BY TaskSets, FewerTasks, NoTask
     DEF PostNothing, At, Goto, TypeOK, QueueTypeOK, NumInv,
         PendingNumCovers
<1>6. /\ ListsInv' /\ AliveInv' /\ CloseInv' /\ CloseWillEnd'
      /\ WaitInv'
  BY ListsFrame, AliveFrame, CloseFrame, CloseWillEndFrame, WaitFrame
     DEF PostNothing
<1> QED BY <1>1, <1>2, <1>3, <1>4, <1>5, <1>6

(* The thread takes a task from the queue.                                  *)
LEMMA PostTaskStep ==
  ASSUME Discipline, IInv, PostTask
  PROVE  IInv'
<1>1. TypeOK'
  BY DEF PostTask, At, Goto, Eligible, Schedule, Unlink, TypeOK,
     QueueTypeOK, InferenceState, ReportState, NumInv
<1>2. ListsInv'
  BY DEF PostTask, Eligible, Schedule, ListsInv
<1>3. AliveInv'
  BY DEF PostTask, Eligible, Schedule, AliveInv, Linked
<1>4. CloseInv'
  BY DEF PostTask, Eligible, Schedule, CloseInv, Closed
<1>5. CloseWillEnd'
  BY DEF PostTask, Schedule, CloseWillEnd
<1>6. HeldInv'
  BY WorkqueueAssumption
     DEF PostTask, At, Goto, Eligible, Schedule, TypeOK, QueueTypeOK,
         ReportState, ListsInv, HeldInv, InFlight, HasCur, MayHavePre
<1>7. NetInv'
  BY WorkqueueAssumption DEF PostTask, Goto, Eligible, TasksOf, NetInv
<1>8. PowerInv'
  BY DEF PostTask, At, Goto, PowerInv
<1>9. NumInv'
  BY TaskSets, OneTask
     DEF PostTask, Goto, Eligible, Schedule, TypeOK, QueueTypeOK, NumInv,
         PendingNumCovers
<1>10. WaitInv'
  BY WaitFrame DEF PostTask, Goto, Schedule
<1> QED BY <1>1, <1>2, <1>3, <1>4, <1>5, <1>6, <1>7, <1>8, <1>9, <1>10

(* The thread submits its task to the device.                               *)
LEMMA SubmitStep ==
  ASSUME Discipline, IInv, Submit
  PROVE  IInv'
<1>1. TypeOK'
  <2>1. QueueTypeOK'
    BY DEF Submit, TypeOK, QueueTypeOK, TaskState
  <2>2. netPrev' \in Net \cup {None}
    BY WorkqueueAssumption
       DEF WorkqueueAssumption, Submit, At, TypeOK, HeldInv, HasCur
  <2>3. QED
    BY <2>1, <2>2 DEF Submit, Goto, TypeOK, InferenceState, ReportState
<1>2. ListsInv'
  BY DEF Submit, At, ListsInv, HeldInv, InFlight, HasCur
<1>3. HeldInv'
  BY DEF Submit, At, Goto, TypeOK, QueueTypeOK, ReportState, HeldInv,
     InFlight, HasCur, MayHavePre
<1>4. NetInv'
  BY DEF Submit, At, Goto, HeldInv, HasCur, NetInv
<1>5. PowerInv'
  BY DEF Submit, At, Goto, PowerInv, HasCur
<1>6. NumInv'
  BY DEF Submit, Goto, NumInv, PendingNumCovers
<1>7. AliveInv' /\ CloseInv' /\ CloseWillEnd' /\ WaitInv'
  BY AliveFrame, CloseFrame, CloseWillEndFrame, WaitFrame DEF Submit
<1> QED BY <1>1, <1>2, <1>3, <1>4, <1>5, <1>6, <1>7

(* The TEE executes the task.                                               *)
LEMMA SubmitTeeStep ==
  ASSUME Discipline, IInv, SubmitTee
  PROVE  IInv'
<1>1. TypeOK'
  BY DEF SubmitTee, At, Goto, TypeOK, QueueTypeOK, TaskState,
     InferenceState, HeldInv, HasCur
<1>2. ListsInv'
  BY DEF SubmitTee, At, ListsInv, HeldInv, InFlight, HasCur
<1>3. HeldInv'
  BY DEF SubmitTee, At, Goto, TypeOK, QueueTypeOK, ReportState, HeldInv,
     InFlight, HasCur, MayHavePre
<1>4. NetInv'
  BY DEF SubmitTee, Goto, NetInv
<1>5. PowerInv'
  BY DEF SubmitTee, At, Goto, PowerInv, HasCur
<1>6. NumInv'
  BY DEF SubmitTee, Goto, NumInv, PendingNumCovers
<1>7. AliveInv' /\ CloseInv' /\ CloseWillEnd' /\ WaitInv'
  BY AliveFrame, CloseFrame, CloseWillEndFrame, WaitFrame DEF SubmitTee
<1> QED BY <1>1, <1>2, <1>3, <1>4, <1>5, <1>6, <1>7

(* The thread reports the task before, or drops it if it was cancelled.     *)
LEMMA ReportPreStep ==
  ASSUME Discipline, IInv, ReportPre
  PROVE  IInv'
<1>1. TypeOK'
  BY WorkqueueAssumption
     DEF ReportPre, AfterReport, Goto, Signalled, UpdateTaskState, Give,
         TypeOK, QueueTypeOK, InferenceState, ReportState
<1>2. ListsInv'
  BY DEF ReportPre, Reportable, UpdateTaskState, ListsInv
<1>3. AliveInv'
  BY DEF ReportPre, UpdateTaskState, AliveInv, Linked, HeldInv, InFlight
<1>4. CloseInv'
  BY WorkqueueAssumption
     DEF ReportPre, Reportable, UpdateTaskState, Discipline, TypeOK,
         QueueTypeOK, ListsInv, CloseInv, Closed
<1>5. CloseWillEnd'
  BY WorkqueueAssumption
     DEF ReportPre, UpdateTaskState, Give, Closed, TypeOK, QueueTypeOK,
         CloseWillEnd, TasksOf
<1>6. HeldInv'
  BY DEF ReportPre, AfterReport, Goto, Reportable, UpdateTaskState, HeldInv,
     InFlight, HasCur, ReportState
<1>7. NetInv'
  BY DEF ReportPre, AfterReport, Goto, ReportState, NetInv
<1>8. PowerInv'
  BY DEF ReportPre, AfterReport, Goto, ReportState, PowerInv, HasCur
<1>9. NumInv'
  BY DEF ReportPre, AfterReport, Goto, UpdateTaskState, ReportState, NumInv,
     PendingNumCovers
<1>10. WaitInv'
  BY WorkqueueAssumption
     DEF ReportPre, UpdateTaskState, Give, TypeOK, QueueTypeOK, WaitInv
<1> QED BY <1>1, <1>2, <1>3, <1>4, <1>5, <1>6, <1>7, <1>8, <1>9, <1>10

(* The device is done with the task.                                        *)
LEMMA SubmitWaitStep ==
  ASSUME Discipline, IInv, SubmitWait
  PROVE  IInv'
<1>1. TypeOK'
  BY DEF SubmitWait, At, Goto, TypeOK, QueueTypeOK, TaskState,
     InferenceState, HeldInv, HasCur
<1>2. ListsInv'
  BY DEF SubmitWait, At, ListsInv, HeldInv
<1>3. HeldInv'
  BY DEF SubmitWait, At, Goto, TypeOK, QueueTypeOK, ReportState, HeldInv,
     InFlight, HasCur, MayHavePre
<1>4. NetInv'
  BY DEF SubmitWait, At, Goto, NetInv
<1>5. PowerInv'
  BY DEF SubmitWait, At, Goto, TypeOK, QueueTypeOK, HeldInv, HasCur,
     PowerInv
<1>6. NumInv'
  BY DEF SubmitWait, Goto, NumInv, PendingNumCovers
<1>7. AliveInv' /\ CloseInv' /\ CloseWillEnd' /\ WaitInv'
  BY AliveFrame, CloseFrame, CloseWillEndFrame, WaitFrame DEF SubmitWait
<1> QED BY <1>1, <1>2, <1>3, <1>4, <1>5, <1>6, <1>7

(* A finished task is kept for its report.                                  *)
LEMMA CheckFinishedStep ==
  ASSUME Discipline, IInv, CheckFinished
  PROVE  IInv'
<1>1. TypeOK'
  BY DEF CheckFinished, Goto, TypeOK, QueueTypeOK, InferenceState
<1>2. HeldInv'
  BY DEF CheckFinished, At, Goto, HeldInv, InFlight, HasCur, MayHavePre,
     ReportState
<1>3. NetInv'
  BY DEF CheckFinished, At, Goto, NetInv
<1>4. PowerInv'
  BY DEF CheckFinished, At, Goto, PowerInv, HasCur
<1>5. NumInv'
  BY DEF CheckFinished, Goto, NumInv, PendingNumCovers
<1>6. /\ ListsInv' /\ AliveInv' /\ CloseInv' /\ CloseWillEnd'
      /\ WaitInv'
  BY ListsFrame, AliveFrame, CloseFrame, CloseWillEndFrame, WaitFrame
     DEF CheckFinished
<1> QED BY <1>1, <1>2, <1>3, <1>4, <1>5, <1>6

(* A failed task is not.                                                    *)
LEMMA CheckFailStep ==
  ASSUME Discipline, IInv, CheckFail
  PROVE  IInv'
<1>1. TypeOK'
  BY DEF CheckFail, Goto, TypeOK, QueueTypeOK, InferenceState
<1>2. HeldInv'
  BY DEF CheckFail, At, Goto, HeldInv, InFlight, HasCur, MayHavePre,
     ReportState
<1>3. NetInv'
  BY DEF CheckFail, At, Goto, NetInv
<1>4. PowerInv'
  BY DEF CheckFail, At, Goto, PowerInv, HasCur
<1>5. NumInv'
  BY DEF CheckFail, Goto, NumInv, PendingNumCovers
<1>6. /\ ListsInv' /\ AliveInv' /\ CloseInv' /\ CloseWillEnd'
      /\ WaitInv'
  BY ListsFrame, AliveFrame, CloseFrame, CloseWillEndFrame, WaitFrame
     DEF CheckFail
<1> QED BY <1>1, <1>2, <1>3, <1>4, <1>5, <1>6

(* A failed task is reported at once.                                       *)
LEMMA ReportCurStep ==
  ASSUME Discipline, IInv, ReportCur
  PROVE  IInv'
<1>1. TypeOK'
  BY WorkqueueAssumption
     DEF ReportCur, At, Goto, Signalled, UpdateTaskState, Give, TypeOK,
         QueueTypeOK, InferenceState, HeldInv, HasCur
<1>2. ListsInv'
  BY DEF ReportCur, Reportable, UpdateTaskState, ListsInv
<1>3. AliveInv'
  BY DEF ReportCur, At, UpdateTaskState, AliveInv, Linked, HeldInv,
     InFlight, HasCur
<1>4. CloseInv'
  BY WorkqueueAssumption
     DEF ReportCur, At, UpdateTaskState, Discipline, TypeOK, QueueTypeOK,
         ListsInv, CloseInv, Closed, HeldInv, HasCur
<1>5. CloseWillEnd'
  BY WorkqueueAssumption
     DEF ReportCur, UpdateTaskState, Give, Closed, TypeOK, QueueTypeOK,
         CloseWillEnd, TasksOf
<1>6. HeldInv'
  BY DEF ReportCur, At, Goto, Reportable, UpdateTaskState, HeldInv,
     InFlight, HasCur, MayHavePre, ReportState
<1>7. NetInv'
  BY DEF ReportCur, At, HeldInv, MayHavePre, ReportState, NetInv
<1>8. PowerInv'
  BY DEF ReportCur, At, Goto, PowerInv, HasCur
<1>9. NumInv'
  BY DEF ReportCur, Goto, UpdateTaskState, NumInv, PendingNumCovers
<1>10. WaitInv'
  BY WorkqueueAssumption
     DEF ReportCur, At, UpdateTaskState, Give, TypeOK, QueueTypeOK, HeldInv,
         HasCur, WaitInv
<1> QED BY <1>1, <1>2, <1>3, <1>4, <1>5, <1>6, <1>7, <1>8, <1>9, <1>10

(* The user of a reported task is woken up.                                 *)
LEMMA SignalStep ==
  ASSUME Discipline, IInv, Signal
  PROVE  IInv'
<1>1. TypeOK'
  BY DEF Signal, TypeOK, QueueTypeOK
<1>2. /\ ListsInv' /\ AliveInv' /\ CloseInv' /\ CloseWillEnd'
      /\ HeldInv' /\ NetInv' /\ PowerInv' /\ NumInv'
      /\ WaitInv'
  BY ListsFrame, AliveFrame, CloseFrame, CloseWillEndFrame, HeldFrame,
     NetFrame, PowerFrame, NumFrame, WaitFrame DEF Signal
<1> QED BY <1>1, <1>2

(* The timer counts idle periods.                                           *)
LEMMA TimerTickStep ==
  ASSUME Discipline, IInv, TimerTick
  PROVE  IInv'
<1>1. TypeOK'
  <2>1. QueueTypeOK'
    BY WorkqueueAssumption
       DEF WorkqueueAssumption, TimerTick, Give, TypeOK, QueueTypeOK
  <2>2. submitted' \in BOOLEAN
    BY Zenon DEF TimerTick, TypeOK
  <2>3. idle' \in 0..IdleLimit
    BY InferenceAssumption DEF InferenceAssumption, TimerTick, TypeOK
  <2>4. QED
    BY <2>1, <2>2, <2>3 DEF TimerTick, TypeOK
<1>2. /\ ListsInv' /\ AliveInv' /\ CloseInv' /\ CloseWillEnd'
      /\ HeldInv' /\ NetInv' /\ PowerInv' /\ NumInv'
      /\ WaitInv'
  BY ListsFrame, AliveFrame, CloseFrame, CloseWillEndFrame, HeldFrame,
     NetFrame, PowerFrame, NumFrame, WaitFrame DEF TimerTick
<1> QED BY <1>1, <1>2

(* The kernel begins a suspend.                                             *)
LEMMA SysSuspendStep ==
  ASSUME Discipline, IInv, SysSuspend
  PROVE  IInv'
<1>1. TypeOK'
  <2>1. QueueTypeOK'
    BY DEF SysSuspend, TypeOK, QueueTypeOK
  <2>2. pm_suspend' \in BOOLEAN /\ system' \in {"up", "suspending", "suspended"}
    BY Zenon DEF SysSuspend, TypeOK
  <2>3. QED
    BY <2>1, <2>2 DEF SysSuspend, TypeOK
<1>2. /\ ListsInv' /\ AliveInv' /\ CloseInv' /\ CloseWillEnd'
      /\ HeldInv' /\ NetInv' /\ PowerInv' /\ NumInv'
      /\ WaitInv'
  BY ListsFrame, AliveFrame, CloseFrame, CloseWillEndFrame, HeldFrame,
     NetFrame, PowerFrame, NumFrame, WaitFrame DEF SysSuspend
<1> QED BY <1>1, <1>2

(* The suspend callback sees that the thread has powered the device down.   *)
LEMMA SuspendPollStep ==
  ASSUME Discipline, IInv, SuspendPoll
  PROVE  IInv'
<1>1. TypeOK'
  BY DEF SuspendPoll, TypeOK, QueueTypeOK
<1>2. /\ ListsInv' /\ AliveInv' /\ CloseInv' /\ CloseWillEnd'
      /\ HeldInv' /\ NetInv' /\ PowerInv' /\ NumInv'
      /\ WaitInv'
  BY ListsFrame, AliveFrame, CloseFrame, CloseWillEndFrame, HeldFrame,
     NetFrame, PowerFrame, NumFrame, WaitFrame DEF SuspendPoll
<1> QED BY <1>1, <1>2

(* The kernel resumes.                                                      *)
LEMMA SysResumeStep ==
  ASSUME Discipline, IInv, SysResume
  PROVE  IInv'
<1>1. TypeOK'
  BY WorkqueueAssumption DEF SysResume, Give, TypeOK, QueueTypeOK
<1>2. /\ ListsInv' /\ AliveInv' /\ CloseInv' /\ CloseWillEnd'
      /\ HeldInv' /\ NetInv' /\ PowerInv' /\ NumInv'
      /\ WaitInv'
  BY ListsFrame, AliveFrame, CloseFrame, CloseWillEndFrame, HeldFrame,
     NetFrame, PowerFrame, NumFrame, WaitFrame DEF SysResume
<1> QED BY <1>1, <1>2

-----------------------------------------------------------------------------
(* The initial states satisfy the invariant.                                *)
LEMMA InitInv ==
  ASSUME Discipline, Init
  PROVE  IInv
<1>1. TypeOK
  <2>1. /\ ctx \in [Net -> ContextState] /\ model \in [Net -> BOOLEAN]
        /\ invoke_cnt \in [Net -> Int] /\ waiting \in [Net -> Task \cup {None}]
    BY DEF Init, QueueInit, ContextState
  <2>2. /\ invoke_state \in [Net -> 0..MaxTokens]
        /\ ctx_idle \in [Net -> 0..MaxTokens] /\ wk_update \in 0..MaxTokens
        /\ sem_pm_wakeup \in 0..MaxTokens
    BY WorkqueueAssumption DEF WorkqueueAssumption, Init, QueueInit
  <2>3. /\ state \in [Task -> TaskState] /\ canceled \in [Task -> BOOLEAN]
        /\ partial \in [Task -> BOOLEAN] /\ ahead \in [Task -> SUBSET Task]
    BY DEF Init, QueueInit, TaskState
  <2>4. corrupt \in BOOLEAN
    BY Zenon DEF Init, QueueInit
  <2>5. /\ pending_list \subseteq Task /\ scheduled_list \subseteq Task
        /\ finished_list \subseteq Task /\ asked \subseteq Task
        /\ waited \subseteq Task /\ pending_num \in Nat /\ sched_num \in Int
    BY DEF Init, QueueInit
  <2>6. {pmSnap, noPending, submitted, pm_suspend, is_suspend} \subseteq BOOLEAN
    BY Zenon DEF Init
  <2>7. idle \in 0..IdleLimit
    BY InferenceAssumption DEF InferenceAssumption, Init
  <2>8. /\ pc \in InferenceState /\ {cur, pre, sig} \subseteq Task \cup {None}
        /\ netPrev \in Net \cup {None} /\ dpm \in {"MIN", "MAX"}
        /\ device \in {"INIT", "IDLE", "BUSY", "ERR"}
        /\ system \in {"up", "suspending", "suspended"}
    BY DEF Init, InferenceState
  <2> QED BY <2>1, <2>2, <2>3, <2>4, <2>5, <2>6, <2>7, <2>8
          DEF TypeOK, QueueTypeOK
<1>2. ListsInv /\ AliveInv /\ CloseInv /\ CloseWillEnd /\ WaitInv
  BY DEF Init, QueueInit, ListsInv, AliveInv, Linked, CloseInv, CloseWillEnd,
         WaitInv, TasksOf
<1>3. HeldInv /\ NetInv /\ PowerInv
  BY DEF Init, QueueInit, HeldInv, InFlight, HasCur, ReportState, NetInv,
         PowerInv
<1>4. NumInv
  BY NoTask DEF Init, QueueInit, NumInv, PendingNumCovers
<1> QED BY <1>1, <1>2, <1>3, <1>4

(* A step of a user preserves the invariant.                                *)
LEMMA UserInv ==
  ASSUME Discipline, IInv, UserStep
  PROVE  IInv'
<1>1. UNCHANGED <<threadVars, timerVars, pmVars>>
  BY DEF UserStep
<1>2. PICK n \in Net :
        \/ CreateContext(n) \/ RegisterNets(n) \/ Unregister(n)
        \/ InvokeRefused(n) \/ WaitTake(n) \/ WaitTimeout(n) \/ Destroy(n)
        \/ \E t \in TasksOf(n) : InvokeRequest(n, t) \/ WaitBegin(n, t)
        \/ \E t \in Task : CancelInvoke(n, t)
  BY DEF UserStep, UserNext
<1>3. CASE CreateContext(n)
  BY <1>1, <1>3, CreateContextStep
<1>4. CASE RegisterNets(n)
  BY <1>1, <1>4, RegisterNetsStep
<1>5. CASE Unregister(n)
  BY <1>1, <1>5, UnregisterStep
<1>6. CASE InvokeRefused(n)
  BY <1>1, <1>6, InvokeRefusedStep
<1>7. CASE WaitTake(n)
  BY <1>1, <1>7, WaitTakeStep
<1>8. CASE WaitTimeout(n)
  BY <1>1, <1>8, WaitTimeoutStep
<1>9. CASE Destroy(n)
  BY <1>1, <1>9, DestroyMarkStep, DestroyDelAllStep, DestroyTakeStep,
     DestroyFreeStep DEF Destroy
<1>10. CASE \E t \in TasksOf(n) : InvokeRequest(n, t) \/ WaitBegin(n, t)
  BY <1>1, <1>10, InvokeRequestStep, WaitBeginStep
<1>11. CASE \E t \in Task : CancelInvoke(n, t)
  BY <1>1, <1>11, CancelInvokeStep
<1> QED BY <1>2, <1>3, <1>4, <1>5, <1>6, <1>7, <1>8, <1>9, <1>10, <1>11

(* A step of the inference thread preserves the invariant.                  *)
LEMMA ThreadInv ==
  ASSUME Discipline, IInv, ThreadNext
  PROVE  IInv'
BY ResumeStep, DevResetStep, WqResetStep, WqCheckStep, WqTakeStep,
   SleepCheckStep, PmSleepStep, PostNothingStep, PostTaskStep, SubmitStep,
   SubmitTeeStep, ReportPreStep, SubmitWaitStep, CheckFinishedStep,
   CheckFailStep, ReportCurStep, SignalStep DEF ThreadNext

(* A step that changes nothing preserves the invariant.                     *)
LEMMA StutterInv ==
  ASSUME IInv, UNCHANGED vars
  PROVE  IInv'
<1>1. TypeOK'
  BY DEF vars, TypeOK, QueueTypeOK
<1>2. /\ ListsInv' /\ AliveInv' /\ CloseInv' /\ CloseWillEnd' /\ HeldInv'
      /\ NetInv' /\ PowerInv' /\ NumInv' /\ WaitInv'
  BY ListsFrame, AliveFrame, CloseFrame, CloseWillEndFrame, HeldFrame,
     NetFrame, PowerFrame, NumFrame, WaitFrame DEF vars
<1> QED BY <1>1, <1>2

(* Every step preserves the invariant.                                      *)
LEMMA NextInv ==
  ASSUME Discipline, IInv, [Next]_vars
  PROVE  IInv'
<1>1. CASE UserStep
  BY <1>1, UserInv
<1>2. CASE ThreadNext
  BY <1>2, ThreadInv
<1>3. CASE TimerTick
  BY <1>3, TimerTickStep
<1>4. CASE SysSuspend \/ SuspendPoll \/ SysResume
  BY <1>4, SysSuspendStep, SuspendPollStep, SysResumeStep
<1>5. CASE UNCHANGED vars
  BY <1>5, StutterInv
<1> QED BY <1>1, <1>2, <1>3, <1>4, <1>5 DEF Next

(* The invariant holds in every state that is reached by users that keep to *)
(* Discipline.                                                              *)
THEOREM InvariantHolds ==
  ASSUME Discipline
  PROVE  Spec => []IInv
<1>1. Init => IInv
  BY InitInv
<1>2. IInv /\ [Next]_vars => IInv'
  BY NextInv
<1> HIDE DEF IInv
<1> QED BY <1>1, <1>2, PTL DEF Spec

-----------------------------------------------------------------------------
(* What follows from it.                                                    *)

(* The queue and the thread keep their types: in particular pending_num is  *)
(* never negative, although cancelled tasks stay counted in it and          *)
(* PostNothing subtracts one for an empty list.                             *)
THEOREM TypeCorrect ==
  ASSUME Discipline
  PROVE  Spec => []TypeOK
<1>1. IInv => TypeOK
  OBVIOUS
<1> HIDE DEF IInv
<1> QED BY <1>1, InvariantHolds, PTL

(* The thread holds every scheduled task, through resets and suspends.      *)
THEOREM ScheduledTasksAreHeld ==
  ASSUME Discipline
  PROVE  Spec => []ScheduledIsHeld
<1>1. IInv => ScheduledIsHeld
  BY DEF HeldInv, ScheduledIsHeld
<1> HIDE DEF IInv
<1> QED BY <1>1, InvariantHolds, PTL

(* close and unregister free nothing that is linked or on the device.       *)
THEOREM ContextsOutliveTheirTasks ==
  ASSUME Discipline
  PROVE  Spec => []ContextOutlivesTasks
<1>1. IInv => ContextOutlivesTasks
  <2> SUFFICES ASSUME IInv, NEW t \in Linked \cup InFlight
               PROVE  model[Owner[t]] /\ ctx[Owner[t]] # "absent"
    BY DEF ContextOutlivesTasks
  <2>1. t \in Linked
    BY DEF HeldInv, Linked
  <2> QED BY <2>1 DEF AliveInv, Linked
<1> HIDE DEF IInv
<1> QED BY <1>1, InvariantHolds, PTL

(* pending_num never falls short of the pending list.                       *)
THEOREM PendingNumIsEnough ==
  ASSUME Discipline
  PROVE  Spec => []PendingNumCovers
<1>1. IInv => PendingNumCovers
  BY DEF NumInv
<1> HIDE DEF IInv
<1> QED BY <1>1, InvariantHolds, PTL

(* A close that waits has its token, or a scheduled task that will give it. *)
THEOREM ClosesWillEnd ==
  ASSUME Discipline
  PROVE  Spec => []CloseWillEnd
<1>1. IInv => CloseWillEnd
  OBVIOUS
<1> HIDE DEF IInv
<1> QED BY <1>1, InvariantHolds, PTL

(* After close has deleted the invokes none is pending or finished again.   *)
THEOREM DrainedContextsStayDrained ==
  ASSUME Discipline
  PROVE  Spec => []DrainedStaysDrained
<1>1. IInv => DrainedStaysDrained
  BY DEF DrainedStaysDrained, AliveInv, TasksOf
<1> HIDE DEF IInv
<1> QED BY <1>1, InvariantHolds, PTL

(* A wait for a finished invoke finds a token.                              *)
THEOREM NoWakeupIsLost ==
  ASSUME Discipline
  PROVE  Spec => []NoLostWakeup
<1>1. IInv => NoLostWakeup
  <2> SUFFICES ASSUME IInv, NEW n \in Net, waiting[n] \in finished_list
               PROVE  invoke_state[n] > 0
    BY DEF NoLostWakeup
  <2>1. waiting[n] # None
    BY WorkqueueAssumption DEF WorkqueueAssumption, TypeOK, QueueTypeOK
  <2> QED BY <2>1 DEF WaitInv, TasksOf
<1> HIDE DEF IInv
<1> QED BY <1>1, InvariantHolds, PTL

(* The assertions of the thread's loop hold.                                *)
THEOREM ThreadAssertsHold ==
  ASSUME Discipline
  PROVE  Spec => []AssertsHold
<1>1. IInv => AssertsHold
  <2> SUFFICES ASSUME IInv PROVE AssertsHold
    OBVIOUS
  <2>1. AssertResume
    BY DEF AssertResume, PowerInv
  <2>2. AssertBlocked
    BY DEF AssertBlocked, NetInv, ValidNum, ValidNet
  <2>3. AssertPost
    BY DEF AssertPost, HeldInv, HasCur, ReportState
  <2>4. AssertSleep
    BY DEF AssertSleep, HeldInv, InFlight, HasCur, MayHavePre, ReportState
  <2>5. AssertSubmit /\ AssertTaskState
    BY DEF AssertSubmit, AssertTaskState, HeldInv
  <2> QED BY <2>1, <2>2, <2>3, <2>4, <2>5 DEF AssertsHold
<1> HIDE DEF IInv
<1> QED BY <1>1, InvariantHolds, PTL

(* The device is powered while the thread works on it, and idle while it is *)
(* powered down.                                                            *)
THEOREM DeviceIsPowered ==
  ASSUME Discipline
  PROVE  Spec => []PoweredWhileBusy
<1>1. IInv => PoweredWhileBusy
  <2> SUFFICES ASSUME IInv PROVE PoweredWhileBusy
    OBVIOUS
  <2>1. cur # None \/ pc \in OnDevice \cup {"DEV_RESET", "WQ_RESET"}
          => ~is_suspend /\ dpm = "MAX"
    BY DEF OnDevice, HeldInv, HasCur, PowerInv
  <2>2. is_suspend => device \in {"INIT", "IDLE"}
    BY DEF HasCur, PowerInv, TypeOK
  <2> QED BY <2>1, <2>2 DEF PoweredWhileBusy
<1> HIDE DEF IInv
<1> QED BY <1>1, InvariantHolds, PTL
=============================================================================
