------------------------------- MODULE MCMem -------------------------------
(***************************************************************************)
(* Small instances of AdlakMem for TLC.                                    *)
(***************************************************************************)
EXTENDS AdlakMem, TLC

CONSTANTS n1, n2, h1, h2, h3

Handles == Permutations(Handle)

Lost(n) == {h \in Handle : buf[h] # NoBuf /\ buf[h].own = n /\ buf[h].role = "lost"}
Ext(n) == {h \in Handle : buf[h] # NoBuf /\ buf[h].own = n /\ buf[h].where = "ext"}

(* n1's client does all that the driver offers.  It has at most one buffer  *)
(* that is external or lost.  When it has lost one, of one page or in the   *)
(* area, it has at most one other, asks for no more and does not open the   *)
(* device again, and n2's client keeps it open.                             *)
Busy(n) ==
  /\ Cardinality((Ext(n) \cup Lost(n))') <= 1
  /\ \A h \in Lost(n)' : buf'[h].n = 1 \/ buf'[h].shared
  /\ Lost(n)' # {} => ctx[n2].life = "open" /\ Cardinality(OwnedBy(n)') <= 2
  /\ Lost(n) # {} =>
       /\ Linked(n)' \subseteq Linked(n)
       /\ ctx[n].life = "none" => ctx'[n].life = "none"

(* n2's client, whose net is of no interest, has at most one buffer, in the *)
(* area: it asks for it, frees it and closes.  Without a pool there is      *)
(* nothing to share, and it stays away.                                     *)
Plain(n) ==
  /\ ~ctx'[n].model /\ Lost(n)' = {} /\ Ext(n)' = {} /\ Cardinality(OwnedBy(n)') <= 1
  /\ \A h \in OwnedBy(n)' : buf'[h].shared
  /\ hasPool \/ ctx'[n].life = "none"

MemClients == Busy(n1) /\ Plain(n2)
=============================================================================
