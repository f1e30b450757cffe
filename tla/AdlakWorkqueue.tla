--------------------------- MODULE AdlakWorkqueue ---------------------------
(***************************************************************************)
(* The work queue of the ADLA driver and the requests of user processes   *)
(* that act on it: open, register, invoke, cancel, unregister, wait and   *)
(* close.  The inference thread, which consumes the queue, is composed in *)
(* AdlakInference.  A critical section under wq_mutex is one action.      *)
(***************************************************************************)
EXTENDS Integers, FiniteSets

CONSTANTS
  Net,            \* net ids; at any time one open file (context) has the id
  Task,           \* the task structs, one for each registered model
  Owner,          \* the net whose model the task belongs to
  None,           \* the NULL task pointer, the net id -1
  ShareSwap,      \* padlak->share_swap_en
  InvokeLinked,   \* may a user invoke a model whose last invoke is not over?
  InvokeCanceled, \* may a user invoke a model of which it cancelled a
                  \* scheduled invoke, without registering it again?
  ForeignIndex,   \* may a user name another net in cancel and unregister?
  CloseSignals,   \* may a signal reach a process that waits in close?
  MaxTokens,      \* bound: tokens counted in a semaphore
  MaxPendingNum   \* bound: pending_num in the guard of InvokeRequest

ASSUME WorkqueueAssumption ==
  /\ None \notin Net \cup Task
  /\ IsFiniteSet(Task)
  /\ Owner \in [Task -> Net]
  /\ {ShareSwap, InvokeLinked, InvokeCanceled, ForeignIndex, CloseSignals}
       \subseteq BOOLEAN
  /\ MaxTokens \in Nat \ {0}
  /\ MaxPendingNum \in Nat

VARIABLES
  ctx,            \* life of the context: ContextState
  model,          \* is pmodel_attr_list set?
  invoke_cnt,     \* context->invoke_cnt
  invoke_state,   \* tokens of context->invoke_state
  ctx_idle,       \* tokens of context->ctx_idle
  waiting,        \* the task for which the net's WAIT_UNTIL_FINISH waits
  state,          \* ptask->state, "NONE" while the struct is not allocated
  canceled,       \* ptask->flag & ADLAK_TASK_CANCELED
  partial,        \* invoke_end_idx < hw_layer_last
  pending_list, scheduled_list, finished_list,  \* the tasks linked in each list
  ahead,          \* the tasks that precede a task in pending_list
  pending_num, sched_num,
  wk_update,      \* tokens of pwq->wk_update
  corrupt,        \* was a task initialised or freed while linked in a list?
  asked,          \* history: the scheduled tasks whose user cancelled this invoke
  waited          \* history: the finished tasks a WAIT_UNTIL_FINISH has returned

ctxVars   == <<ctx, model, invoke_cnt, invoke_state, ctx_idle>>
taskVars  == <<state, canceled, partial>>
listVars  == <<pending_list, scheduled_list, finished_list, ahead,
               pending_num, sched_num>>
histVars  == <<corrupt, asked, waited>>
queueVars == <<ctxVars, waiting, taskVars, listVars, wk_update, histVars>>

(* "closed": CONTEXT_STATE_CLOSED is set; "drain": close waits for         *)
(* ctx_idle; "idle": close is about to free the context.                   *)
ContextState == {"absent", "open", "closed", "drain", "idle"}
Closed(n)    == ctx[n] \in {"closed", "drain", "idle"}

TaskState == {"NONE", "PENDING", "RUNNING", "FINISHED", "FAIL"}

TasksOf(n) == {t \in Task : Owner[t] = n}
Linked     == pending_list \cup scheduled_list \cup finished_list

Give(sem) == IF sem < MaxTokens THEN sem + 1 ELSE sem

(* pending_list without the tasks T, in the same order. *)
Unlink(T) == [t \in Task |-> IF t \in T THEN {} ELSE ahead[t] \ T]

QueueTypeOK ==
  /\ ctx \in [Net -> ContextState]
  /\ model \in [Net -> BOOLEAN]
  /\ invoke_cnt \in [Net -> Int]
  /\ invoke_state \in [Net -> 0..MaxTokens]
  /\ ctx_idle \in [Net -> 0..MaxTokens]
  /\ waiting \in [Net -> Task \cup {None}]
  /\ state \in [Task -> TaskState]
  /\ canceled \in [Task -> BOOLEAN]
  /\ partial \in [Task -> BOOLEAN]
  /\ pending_list \subseteq Task
  /\ scheduled_list \subseteq Task
  /\ finished_list \subseteq Task
  /\ ahead \in [Task -> SUBSET Task]
  /\ pending_num \in Nat
  /\ sched_num \in Int
  /\ wk_update \in 0..MaxTokens
  /\ corrupt \in BOOLEAN
  /\ asked \subseteq Task
  /\ waited \subseteq Task

QueueInit ==
  /\ ctx = [n \in Net |-> "absent"]
  /\ model = [n \in Net |-> FALSE]
  /\ invoke_cnt = [n \in Net |-> 0]
  /\ invoke_state = [n \in Net |-> 0]
  /\ ctx_idle = [n \in Net |-> 0]
  /\ waiting = [n \in Net |-> None]
  /\ state = [t \in Task |-> "NONE"]
  /\ canceled = [t \in Task |-> FALSE]
  /\ partial = [t \in Task |-> FALSE]
  /\ pending_list = {} /\ scheduled_list = {} /\ finished_list = {}
  /\ ahead = [t \in Task |-> {}]
  /\ pending_num = 0 /\ sched_num = 0
  /\ wk_update = 0
  /\ corrupt = FALSE
  /\ asked = {} /\ waited = {}

-----------------------------------------------------------------------------
(* Requests of the user of net n.                                          *)

(* open: a context with a free net id; its count and its semaphores are 0, *)
(* as DestroyFree leaves those of an absent one.                           *)
CreateContext(n) ==
  /\ ctx[n] = "absent"
  /\ ctx' = [ctx EXCEPT ![n] = "open"]
  /\ UNCHANGED <<model, invoke_cnt, invoke_state, ctx_idle, waiting, taskVars,
                 listVars, wk_update, histVars>>

(* An earlier registration is overwritten: the model's struct is a new one, *)
(* and what is linked in a list stays there.  A Task stands for both        *)
(* structs, for the new one as soon as the old one has left its list.       *)
RegisterNets(n) ==
  LET new == TasksOf(n) \ Linked
  IN  /\ ctx[n] = "open"
      /\ model' = [model EXCEPT ![n] = TRUE]
      /\ state' = [t \in Task |-> IF t \in new THEN "NONE" ELSE state[t]]
      /\ canceled' = [t \in Task |-> canceled[t] /\ t \notin new]
      /\ UNCHANGED <<ctx, invoke_cnt, invoke_state, ctx_idle, waiting, partial,
                     listVars, wk_update, histVars>>

(* The task struct is the one the model's earlier invokes used: its flag is *)
(* not cleared, and list_add_tail relinks it wherever it is linked.         *)
InvokeRequest(n, t) ==
  /\ ctx[n] = "open" /\ model[n] /\ waiting[n] = None
  /\ InvokeLinked \/ t \notin Linked
  /\ InvokeCanceled \/ ~canceled[t]
  /\ pending_num < MaxPendingNum
  /\ state' = [state EXCEPT ![t] = "PENDING"]
  /\ \E p \in BOOLEAN : /\ p => ShareSwap
                        /\ partial' = [partial EXCEPT ![t] = p]
  /\ invoke_cnt' = [invoke_cnt EXCEPT ![n] = @ + 1]
  /\ pending_list' = pending_list \cup {t}
  /\ ahead' = [ahead EXCEPT ![t] = pending_list \ {t}]
  /\ pending_num' = pending_num + 1
  /\ wk_update' = Give(wk_update)
  /\ corrupt' = (corrupt \/ t \in Linked)
  /\ UNCHANGED <<ctx, model, invoke_state, ctx_idle, waiting, canceled,
                 scheduled_list, finished_list, sched_num, asked, waited>>

(* An invoke that adlak_invoke_create refuses wakes the thread up all the   *)
(* same.  That its error is taken for a task is not followed.               *)
InvokeRefused(n) ==
  /\ ctx[n] = "open" /\ model[n] /\ waiting[n] = None
  /\ wk_update' = Give(wk_update)
  /\ UNCHANGED <<ctxVars, waiting, taskVars, listVars, histVars>>

(* The tasks of T that leave their list at once. *)
DeletedFinishedOnly(T) == T \cap finished_list    \* mutant: forgets the pending
Deleted(T) == T \cap (finished_list \cup pending_list)

(* What is subtracted from pending_num: the count of tasks deleted from the *)
(* pending list, but it is set to 0 before it is used.                      *)
DeletedNumKept(T) == Cardinality(T \cap pending_list)   \* mutant: not zeroed
DeletedNumAll(T)  == Cardinality(Deleted(T))   \* mutant: of both lists
DeletedNum(T) == 0

(* Is one of the tasks T in the thread's hands? *)
BusyRunning(T) == \E t \in T : state[t] = "RUNNING"  \* mutant: not ended
BusyLinked(T) == T \cap Linked # {}  \* mutant: in whichever list
Busy(T) == T \cap scheduled_list # {}

(* Those of the tasks T that are finished or pending leave their lists, the *)
(* scheduled ones are flagged by the caller's Flagged.                      *)
InvokeDel(T) ==
  /\ ~corrupt
  /\ finished_list' = finished_list \ T
  /\ pending_list' = pending_list \ T
  /\ ahead' = Unlink(T)
  /\ invoke_cnt' = [n \in Net |->
       invoke_cnt[n] - Cardinality(Deleted(T) \cap TasksOf(n))]
  /\ pending_num' = pending_num - DeletedNum(T)
  /\ asked' = asked \cup (T \cap scheduled_list)
  /\ waited' = waited \ T
  /\ UNCHANGED <<scheduled_list, sched_num, invoke_state, ctx_idle, waiting,
                 partial, wk_update>>

FlaggedRunning(T) ==   \* mutant: not those that have ended
  [t \in Task |-> canceled[t] \/ (t \in T \cap scheduled_list /\ state[t] = "RUNNING")]
FlaggedAnyNet(T) ==    \* mutant: the net ids are not compared
  [t \in Task |-> canceled[t] \/ t \in scheduled_list]
Flagged(T) ==
  [t \in Task |-> canceled[t] \/ t \in T \cap scheduled_list]

(* The tasks that a request of n can mean by the net id it names, which is  *)
(* not compared with n's own: -1 stands for all nets.                       *)
Named(n) == {TasksOf(n)} \cup
  IF ForeignIndex THEN {Task} \cup {TasksOf(m) : m \in Net} ELSE {}

(* INVOKE_CANCEL answers success whether or not the task is still running. *)
CancelInvoke(n, t) ==
  /\ ctx[n] = "open" /\ t \in Linked \cap UNION Named(n)
  /\ InvokeDel({t})
  /\ canceled' = Flagged({t})
  /\ UNCHANGED <<ctx, model, state, corrupt>>

(* The model's memory, with its task struct, is freed. *)
FreeModel(n) ==
  /\ model' = [model EXCEPT ![n] = FALSE]
  /\ state' = [t \in Task |-> IF Owner[t] = n THEN "NONE" ELSE state[t]]

(* DESTROY_NETWORK deletes the invokes of the net that is named and frees   *)
(* the caller's model unless one of these is scheduled.                     *)
Unregister(n) ==
  /\ ctx[n] = "open" /\ model[n] /\ waiting[n] = None
  /\ \E T \in Named(n) :
       /\ InvokeDel(T)
       /\ IF Busy(T)
            THEN canceled' = Flagged(T) /\ UNCHANGED <<model, state, corrupt>>
            ELSE /\ FreeModel(n)
                 /\ canceled' = [t \in Task |-> canceled[t] /\ Owner[t] # n]
                 /\ corrupt' = (TasksOf(n) \cap Linked' # {})
  /\ UNCHANGED ctx

(* WAIT_UNTIL_FINISH on the invoke of t, once for each invoke. *)
WaitBeginFresh(n, t) ==   \* mutant: throws the stale tokens away first
  /\ ctx[n] = "open" /\ waiting[n] = None
  /\ t \in Linked \ waited
  /\ waiting' = [waiting EXCEPT ![n] = t]
  /\ invoke_state' = [invoke_state EXCEPT ![n] = 0]
  /\ UNCHANGED <<ctx, model, invoke_cnt, ctx_idle, taskVars, listVars, wk_update,
                 histVars>>
WaitBegin(n, t) ==
  /\ ctx[n] = "open" /\ waiting[n] = None
  /\ t \in Linked \ waited
  /\ waiting' = [waiting EXCEPT ![n] = t]
  /\ UNCHANGED <<ctxVars, taskVars, listVars, wk_update, histVars>>

(* A token is taken; without the result in finished_list the wait goes on. *)
WaitTake(n) ==
  /\ waiting[n] # None /\ invoke_state[n] > 0 /\ ~corrupt
  /\ invoke_state' = [invoke_state EXCEPT ![n] = @ - 1]
  /\ IF waiting[n] \in finished_list
       THEN /\ waiting' = [waiting EXCEPT ![n] = None]
            /\ waited' = waited \cup {waiting[n]}
       ELSE UNCHANGED <<waiting, waited>>
  /\ UNCHANGED <<ctx, model, invoke_cnt, ctx_idle, taskVars, listVars,
                 wk_update, corrupt, asked>>

WaitTimeout(n) ==
  /\ waiting[n] # None /\ invoke_state[n] = 0
  /\ waiting' = [waiting EXCEPT ![n] = None]
  /\ UNCHANGED <<ctxVars, taskVars, listVars, wk_update, histVars>>

(* close, in four steps: mark, delete the invokes, wait for the one that    *)
(* the thread holds, free.                                                  *)
DestroyMark(n) ==
  /\ ctx[n] = "open" /\ waiting[n] = None
  /\ ctx' = [ctx EXCEPT ![n] = "closed"]
  /\ UNCHANGED <<model, invoke_cnt, invoke_state, ctx_idle, waiting, taskVars,
                 listVars, wk_update, histVars>>

DestroyDelAll(n) ==
  /\ ctx[n] = "closed"
  /\ InvokeDel(TasksOf(n))
  /\ canceled' = Flagged(TasksOf(n))
  /\ ctx' = [ctx EXCEPT ![n] = IF Busy(TasksOf(n)) THEN "drain" ELSE "idle"]
  /\ UNCHANGED <<model, state, corrupt>>

(* A signal ends the wait with EINTR, and close goes on: ASSERT(0) stops    *)
(* only a debug build.                                                      *)
DestroyTake(n) ==
  /\ ctx[n] = "drain"
  /\ ctx_idle[n] > 0 \/ CloseSignals
  /\ ctx_idle' = [ctx_idle EXCEPT ![n] = IF @ > 0 THEN @ - 1 ELSE @]
  /\ ctx' = [ctx EXCEPT ![n] = "idle"]
  /\ UNCHANGED <<model, invoke_cnt, invoke_state, waiting, taskVars, listVars,
                 wk_update, histVars>>

DestroyFree(n) ==
  /\ ctx[n] = "idle"
  /\ ctx' = [ctx EXCEPT ![n] = "absent"]
  /\ FreeModel(n)
  /\ canceled' = [t \in Task |-> canceled[t] /\ Owner[t] # n]
  /\ invoke_cnt' = [invoke_cnt EXCEPT ![n] = 0]
  /\ invoke_state' = [invoke_state EXCEPT ![n] = 0]
  /\ ctx_idle' = [ctx_idle EXCEPT ![n] = 0]
  /\ UNCHANGED <<waiting, partial, listVars, wk_update, histVars>>

Destroy(n) ==
  DestroyMark(n) \/ DestroyDelAll(n) \/ DestroyTake(n) \/ DestroyFree(n)

UserNext ==
  \E n \in Net :
    \/ CreateContext(n) \/ RegisterNets(n) \/ Unregister(n)
    \/ InvokeRefused(n) \/ WaitTake(n) \/ WaitTimeout(n) \/ Destroy(n)
    \/ \E t \in TasksOf(n) : InvokeRequest(n, t) \/ WaitBegin(n, t)
    \/ \E t \in Task : CancelInvoke(n, t)

-----------------------------------------------------------------------------
(* The critical sections of the inference thread.                          *)

(* adlak_get_valid_num: the net whose next part must run first, if any... *)
ValidNet(prev) ==
  IF prev = None \/ pending_num <= 0 THEN prev
  ELSE IF pending_list \cap TasksOf(prev) # {}
    THEN IF Closed(prev) THEN None ELSE prev
    ELSE IF ctx[prev] = "absent" THEN None ELSE prev

(* ... and how many pending tasks may run, given that net.                 *)
ValidNum(prev) ==
  LET net == ValidNet(prev)
  IN  IF net = None THEN pending_num
      ELSE IF pending_num > 0 /\ pending_list \cap TasksOf(net) # {} THEN 1 ELSE 0

(* The task adlak_queue_schedule_update takes: the first of the list, or    *)
(* the first of the net prev.                                               *)
EligibleLast(prev) ==   \* mutant: the list is a stack
  {t \in pending_list : \A u \in pending_list : t \notin ahead[u]}
Eligible(prev) ==
  LET from == IF prev = None THEN pending_list ELSE pending_list \cap TasksOf(prev)
  IN  {t \in from : ahead[t] \cap from = {}}

Schedule(t) ==
  /\ pending_list' = pending_list \ {t}
  /\ ahead' = Unlink({t})
  /\ scheduled_list' = scheduled_list \cup {t}
  /\ pending_num' = pending_num - 1
  /\ sched_num' = sched_num + 1
  /\ UNCHANGED finished_list

(* adlak_queue_update_task_state: the result of t is handed to its user, or *)
(* dropped if the task was cancelled.                                       *)
ReportableSuccess(t) == state[t] = "FINISHED"   \* mutant: a failure is not an end
Reportable(t) == state[t] \in {"FINISHED", "FAIL"}

UpdateTaskState(t) ==
  /\ ~corrupt
  /\ sched_num' = sched_num - 1
  /\ scheduled_list' = scheduled_list \ {t}
  /\ IF canceled[t]
       THEN /\ invoke_cnt' = [invoke_cnt EXCEPT ![Owner[t]] = @ - 1]
            /\ UNCHANGED <<finished_list, invoke_state>>
       ELSE /\ finished_list' = finished_list \cup {t}
            /\ invoke_state' = [invoke_state EXCEPT ![Owner[t]] = Give(@)]
            /\ UNCHANGED invoke_cnt
  /\ ctx_idle' = IF Closed(Owner[t])
                   THEN [ctx_idle EXCEPT ![Owner[t]] = Give(@)] ELSE ctx_idle
  /\ asked' = asked \ {t}
  /\ UNCHANGED <<ctx, model, waiting, taskVars, pending_list, ahead,
                 pending_num, wk_update, corrupt, waited>>
=============================================================================
