------------------------------ MODULE PageStore ------------------------------
(***************************************************************************)
(* What the memory manager promises to the programs that share its pool,   *)
(* without bitmap, search, counters or lists: a buffer holds one run of    *)
(* pages that nobody else has, from when it is given out until it is given *)
(* back, and the swap buffers of all models lie in one common area, which  *)
(* grows while it is used but never moves, and goes with its last user.    *)
(* What is never given back is held, or uses the area, for ever.  AdlakMem *)
(* implements it.                                                          *)
(***************************************************************************)
CONSTANTS
  Buffer,
  PageRun,    \* the sets of pages that follow one another
  AllPages

VARIABLES
  held,       \* the pages that a buffer has for itself
  users,      \* the buffers in the common area
  area,       \* the pages of that area
  kept        \* what the driver keeps for itself and never gives out

storeVars == <<held, users, area, kept>>

StoreTypeOK ==
  /\ held \in [Buffer -> SUBSET AllPages]
  /\ users \subseteq Buffer
  /\ area \subseteq AllPages
  /\ kept \subseteq AllPages

Free == AllPages \ (kept \cup area \cup UNION {held[b] : b \in Buffer})

StoreInit ==
  /\ held = [b \in Buffer |-> {}]
  /\ users = {}
  /\ area = {}
  /\ kept \in PageRun /\ kept \subseteq AllPages

(* A buffer gets a run of free pages, ... *)
Obtain(b, P) ==
  /\ held[b] = {} /\ b \notin users
  /\ P \subseteq Free
  /\ held' = [held EXCEPT ![b] = P]
  /\ UNCHANGED <<users, area, kept>>

(* ... and gives back what it has, no page more and none less. *)
GiveUp(b) ==
  /\ held' = [held EXCEPT ![b] = {}]
  /\ UNCHANGED <<users, area, kept>>

(* The area keeps its pages when free ones next to it are added. *)
Widened(A) == area \subseteq A /\ A \ area \subseteq Free

Join(b, A) ==
  /\ held[b] = {} /\ b \notin users
  /\ Widened(A)
  /\ users' = users \cup {b}
  /\ area' = A
  /\ UNCHANGED <<held, kept>>

(* A request for which the area grew may be taken back while others use it. *)
Widen(A) ==
  /\ users # {}
  /\ Widened(A)
  /\ area' = A
  /\ UNCHANGED <<held, users, kept>>

Leave(b) ==
  /\ b \in users
  /\ users' = users \ {b}
  /\ area' = IF users = {b} THEN {} ELSE area
  /\ UNCHANGED <<held, kept>>

StoreNext ==
  \/ \E P \in PageRun : Widen(P)
  \/ \E b \in Buffer :
       \/ \E P \in PageRun : Obtain(b, P) \/ Join(b, P)
       \/ GiveUp(b)
       \/ Leave(b)

StoreSpec == StoreInit /\ [][StoreNext]_storeVars
=============================================================================
