------------------------- MODULE AdlakInferenceInv -------------------------
(***************************************************************************)
(* The inductive invariant of AdlakInference, for users that keep to what *)
(* the driver takes for granted.  TLC checks it on small instances,       *)
(* AdlakInferenceProofs proves it.                                        *)
(***************************************************************************)
EXTENDS AdlakInference

(* The driver is used as it expects: one model for each open file, no      *)
(* invoke of a model whose last invoke is still linked in a list, no request *)
(* that names the net of another file, and no signal to a process that      *)
(* waits in close.                                                          *)
Discipline ==
  /\ ~InvokeLinked /\ ~ForeignIndex /\ ~CloseSignals
  /\ \A t, u \in Task : Owner[t] = Owner[u] => t = u

(* A task is linked in at most one list, and is pending as long as it is    *)
(* in the pending list.                                                     *)
ListsInv ==
  /\ ~corrupt
  /\ pending_list \cap scheduled_list = {}
  /\ pending_list \cap finished_list = {}
  /\ scheduled_list \cap finished_list = {}
  /\ \A t \in pending_list : state[t] = "PENDING"

(* How far a close may have come while a task of the context is linked.     *)
AliveInv ==
  /\ \A t \in Linked : model[Owner[t]]
  /\ \A t \in pending_list \cup finished_list : ctx[Owner[t]] \in {"open", "closed"}
  /\ \A t \in scheduled_list :
       /\ ctx[Owner[t]] \in {"open", "closed", "drain"}
       /\ ctx[Owner[t]] = "drain" => canceled[t]

(* ctx_idle has a token only after the last report of a closing context.    *)
CloseInv ==
  /\ \A t \in pending_list \cup scheduled_list : ctx_idle[Owner[t]] = 0
  /\ \A n \in Net : ctx_idle[n] > 0 => Closed(n)

(* What the thread holds, in which state, at each place of its loop.        *)
HasCur == {"SUBMIT", "SUBMIT_TEE", "SUBMIT_WAIT", "REPORT_TASK_PRE", "REPORT_TEE",
           "CHECK_TASK", "REPORT_TASK_CUR"}
MayHavePre == {"WQ_CHECK", "WQ_TAKE", "POST_TASK", "SUBMIT"} \cup ReportState

HeldInv ==
  /\ scheduled_list = InFlight
  /\ pre # None => pre # cur /\ state[pre] = "FINISHED" /\ pc \in MayHavePre
  /\ cur # None <=> pc \in HasCur
  /\ pc \in {"SUBMIT", "SUBMIT_TEE", "REPORT_TEE"} => state[cur] = "PENDING"
  /\ pc \in {"REPORT_TASK_PRE", "SUBMIT_WAIT"} => state[cur] = "RUNNING"
  /\ pc = "CHECK_TASK" => state[cur] \in {"FINISHED", "FAIL"}
  /\ pc = "REPORT_TASK_CUR" => state[cur] = "FAIL"

(* The net that share_swap_en makes the thread go on with is the one whose  *)
(* task it has run last, and it does not sleep on an unreported task.       *)
NetInv ==
  /\ ~ShareSwap => netPrev = None
  /\ cur # None /\ pc \notin {"SUBMIT", "REPORT_TEE", "SUBMIT_TEE"} =>
       netPrev \in {None, Owner[cur]}
  /\ pre # None /\ cur = None => netPrev \in {None, Owner[pre]}
  /\ pre # None /\ pc = "WQ_TAKE" => netPrev = None /\ 0 < pending_num

(* Power: the thread holds tasks only while the device is on.               *)
PowerInv ==
  /\ is_suspend <=> dpm = "MIN"
  /\ pc \in HasCur \cup {"POST_TASK", "DEV_RESET", "WQ_RESET"} \/ pre # None => dpm = "MAX"
  /\ pc = "RESUME" => dpm = "MIN"
  /\ device = "BUSY" => pc \in {"REPORT_TASK_PRE", "SUBMIT_WAIT"}
  /\ device = "ERR" => \/ pc \in {"REPORT_TASK_CUR", "DEV_RESET"}
                       \/ pc = "CHECK_TASK" /\ state[cur] = "FAIL"

NumInv ==
  /\ PendingNumCovers
  /\ pc = "POST_TASK" => 0 < pending_num

(* A result that no wait has returned has its token in invoke_state.        *)
WaitInv ==
  /\ waited \subseteq finished_list
  /\ \A n \in Net : waiting[n] # None => waiting[n] \in TasksOf(n) \ waited
  /\ \A t \in finished_list \ waited : invoke_state[Owner[t]] > 0

IInv ==
  /\ TypeOK
  /\ ListsInv /\ AliveInv /\ CloseInv /\ CloseWillEnd /\ HeldInv /\ NetInv
  /\ PowerInv /\ NumInv /\ WaitInv

-----------------------------------------------------------------------------
(* What the implementation of JobService and the counts rest on as well.    *)

(* The order of pending_list is about the tasks linked in it.               *)
OrderInv ==
  \A t \in Task : /\ ahead[t] \subseteq pending_list
                  /\ t \notin pending_list => ahead[t] = {}

(* A user that invokes no canceled task makes the sticky flag of a linked   *)
(* one say what it is meant to: its user has cancelled this invoke.         *)
AskedInv ==
  /\ asked \subseteq scheduled_list
  /\ \A t \in pending_list : ~canceled[t]
  /\ \A t \in scheduled_list : canceled[t] <=> t \in asked

(* The counts, with those of contexts that are absent and of the thread's   *)
(* resets.                                                                  *)
CountsInv ==
  /\ \A n \in Net : invoke_cnt[n] = Cardinality(Linked \cap TasksOf(n))
  /\ sched_num = Cardinality(scheduled_list)
=============================================================================
