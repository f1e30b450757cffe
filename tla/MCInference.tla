---------------------------- MODULE MCInference ----------------------------
(***************************************************************************)
(* Small instances of AdlakInference for TLC.                             *)
(***************************************************************************)
EXTENDS AdlakInferenceInv, TLC

CONSTANTS n1, n2, t1, t2

OneModel     == t1 :> n1
OneModelEach == (t1 :> n1) @@ (t2 :> n2)
TwoModels    == (t1 :> n1) @@ (t2 :> n1)

(* Two clients: n2's keeps its file and its model, collects results by      *)
(* polling, invokes and cancels; n1's does all that the driver offers.      *)
Keep(n) ==
  /\ ctx[n] = "open" => ctx'[n] = "open"
  /\ model[n] => model'[n]
  /\ waiting'[n] = waiting[n]

CoreClients == Keep(n2)

(* The same, of an n1 that polls, too, and keeps its model until it closes. *)
Poll ==
  /\ \A n \in Net : model[n] => model'[n] \/ ctx[n] = "idle"
  /\ waiting' = waiting

SwapClients == Poll /\ Keep(n2)

(* Clients that keep their files open, too, for liveness with several nets. *)
StayOpen == \A n \in Net : Keep(n)

CancelSpec == Init /\ [][Next /\ StayOpen]_vars /\ Fairness

(* The same, of clients that cancel no invoke before it was scheduled.      *)
BusySpec ==
  /\ Init /\ Fairness
  /\ [][Next /\ StayOpen /\ pending_list \subseteq pending_list' \cup scheduled_list']_vars
=============================================================================
