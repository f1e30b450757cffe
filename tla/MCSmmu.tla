------------------------------- MODULE MCSmmu -------------------------------
(***************************************************************************)
(* Small instances of AdlakSmmu for TLC.                                   *)
(***************************************************************************)
EXTENDS AdlakSmmu, TLC

CONSTANTS n1, n2, h1, h2, h3

Handles == Permutations(Handle)

(* n1's client has buffers of all kinds if it has two tables, and else one   *)
(* small buffer beside its queue.  n2's uses the public table and the       *)
(* public command queue; it has one small buffer, and keeps its net and its *)
(* file.                                                                    *)
Plain(b) == b.n = 1 \/ b.kind = "shared"
Small(b) == b.n = 1 /\ b.kind = "shared" /\ ~b.ext
Owned(n) == {h \in Handle : buf'[h] # NoBuf /\ buf'[h].own = n}

SmmuClients ==
  /\ IF ctx'[n1].type = "PRIVATE_AND_PUBLIC"
     THEN \A h \in Owned(n1) : Plain(buf'[h])
     ELSE /\ \A h \in Owned(n1) : Small(buf'[h])
          /\ Cardinality(Owned(n1)) <= 2
  /\ ctx'[n2].type = "PUBLIC_ONLY" /\ ctx'[n2].queue = NoHandle
  /\ ctx[n2].model => ctx'[n2].model
  /\ ctx'[n2].life # "closing"
  /\ \A h \in Owned(n2) : Small(buf'[h])
  /\ Cardinality(Owned(n2)) <= 1
=============================================================================
