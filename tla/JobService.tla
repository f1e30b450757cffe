---------------------------- MODULE JobService ----------------------------
(***************************************************************************)
(* What the ADLA driver promises to the programs that submit inferences,  *)
(* without lists, locks, counters or threads: a job is queued, jobs run   *)
(* one at a time in the order they were queued, a job that ended is       *)
(* reported before the next one ends, and a job disappears unreported     *)
(* only when its owner asked for that.  AdlakInference implements it.     *)
(***************************************************************************)
CONSTANTS Job

VARIABLES
  phase,      \* what happened to the job
  ahead,      \* the queued jobs that were queued before it
  asked       \* the jobs on the device whose owner wants them withdrawn

jobVars == <<phase, ahead, asked>>

Phases == {"free", "queued", "running", "ended", "reported"}

JobTypeOK ==
  /\ phase \in [Job -> Phases]
  /\ ahead \in [Job -> SUBSET Job]
  /\ asked \subseteq Job

In(p) == {j \in Job : phase[j] = p}

Dequeue(J) == [j \in Job |-> IF j \in J THEN {} ELSE ahead[j] \ J]

JobInit ==
  /\ phase = [j \in Job |-> "free"]
  /\ ahead = [j \in Job |-> {}]
  /\ asked = {}

(* A client queues a job behind all those already queued. *)
Queue(j) ==
  /\ phase[j] = "free"
  /\ phase' = [phase EXCEPT ![j] = "queued"]
  /\ ahead' = [ahead EXCEPT ![j] = In("queued")]
  /\ UNCHANGED asked

(* The oldest queued job gets the device once the one before has ended. *)
Start(j) ==
  /\ phase[j] = "queued" /\ ahead[j] = {}
  /\ In("running") = {}
  /\ phase' = [phase EXCEPT ![j] = "running"]
  /\ ahead' = Dequeue({j})
  /\ UNCHANGED asked

(* The device is done with the job; the one before it is reported by then. *)
End(j) ==
  /\ phase[j] = "running"
  /\ In("ended") = {}
  /\ phase' = [phase EXCEPT ![j] = "ended"]
  /\ UNCHANGED <<ahead, asked>>

Report(j) ==
  /\ phase[j] = "ended"
  /\ phase' = [phase EXCEPT ![j] = "reported"]
  /\ asked' = asked \ {j}
  /\ UNCHANGED ahead

(* An ended job is forgotten instead of reported: its owner asked for it. *)
Discard(j) ==
  /\ phase[j] = "ended" /\ j \in asked
  /\ phase' = [phase EXCEPT ![j] = "free"]
  /\ asked' = asked \ {j}
  /\ UNCHANGED ahead

(* An owner withdraws jobs: the queued and reported ones are gone at once, *)
(* those on the device are only marked.                                    *)
Withdraw(J) ==
  /\ phase' = [j \in Job |-> IF j \in J /\ phase[j] \in {"queued", "reported"}
                               THEN "free" ELSE phase[j]]
  /\ ahead' = Dequeue(J)
  /\ asked' = asked \cup {j \in J : phase[j] \in {"running", "ended"}}

JobNext ==
  \/ \E j \in Job : Queue(j) \/ Start(j) \/ End(j) \/ Report(j) \/ Discard(j)
  \/ \E J \in SUBSET Job : Withdraw(J)

JobSpec == JobInit /\ [][JobNext]_jobVars
=============================================================================
