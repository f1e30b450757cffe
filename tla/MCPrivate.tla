------------------------------ MODULE MCPrivate ------------------------------
(***************************************************************************)
(* Small instances of AdlakPrivate for TLC.                                *)
(***************************************************************************)
EXTENDS AdlakPrivate, TLC

CONSTANTS n1, n2

Model(words, last) ==
  [cfg |-> [i \in 0 .. (Len(words) - 1) |-> words[i + 1]], last |-> last]

(* A queue that its layers fill up to the last word, in two segments; a      *)
(* segment that belongs to both tables; one segment for each table, with     *)
(* software layers around them.                                              *)
SomeModels == {Model(<<2, 0, 2>>, 0), Model(<<1, 0, 1, 5>>, 2), Model(<<0, 3, 0, 1, 0>>, 1)}

(* The layers of one invoke fill the queue. *)
FullModel == {Model(<<2, 2>>, 0)}

Nets == Permutations(Net)
=============================================================================
