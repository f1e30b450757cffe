---------------------------- MODULE AdlakBitmapPool ----------------------------
(***************************************************************************)
(* The allocators of mm/adlak_mm_common.c: a pool of pages whose taken     *)
(* pages are the set bits of a bitmap, and the bitmap of identifiers.      *)
(*                                                                         *)
(* A pool is a record: bits pages numbered from 0, map the pages whose bit *)
(* is set, used the counter used_count.  The counter is a size_t in the    *)
(* code and only bits - used_count is ever tested; an integer that may go  *)
(* below 0 gives the same differences.                                     *)
(***************************************************************************)
EXTENDS Integers, FiniteSets

Invalid == -1            \* ADLAK_INVALID_ADDR, as a page number

Run(s, n) == s .. (s + n - 1)

Least(S) == CHOOSE x \in S : \A y \in S : x <= y

Greatest(S) == CHOOSE x \in S : \A y \in S : y <= x

(* The pages of an excluded area are set and never counted. *)
NewPool(bits, excluded) ==
    [bits |-> bits, map |-> excluded \cap Run(0, bits), used |-> 0]

(* Where n pages that are free one after another begin. *)
GapsPastEnd(p, n) ==   \* mutant: the last run may end one page late
    {s \in 0 .. (p.bits - n + 1) : Run(s, n) \cap p.map = {}}
Gaps(p, n) == {s \in 0 .. (p.bits - n) : Run(s, n) \cap p.map = {}}

Refused(p, n) == n > p.bits - p.used

Take(p, s, n) == [p EXCEPT !.map = @ \cup Run(s, n), !.used = @ + n]

Granted(p, s, n) == [at |-> s, pool |-> Take(p, s, n)]

NotGranted(p) == [at |-> Invalid, pool |-> p]

FirstFit(p, n) ==
    IF Refused(p, n) \/ Gaps(p, n) = {}
    THEN NotGranted(p)
    ELSE Granted(p, Least(Gaps(p, n)), n)

(* The scan from the top meets the highest gap first. *)
HighestGap(p, n) == IF Gaps(p, n) = {} THEN Invalid ELSE Greatest(Gaps(p, n))

LastFit(p, n) ==
    IF Refused(p, n) \/ HighestGap(p, n) = Invalid
    THEN NotGranted(p)
    ELSE Granted(p, HighestGap(p, n), n)

ReleaseUncounted(p, s, n) ==   \* mutant: used_count stays
    IF s = Invalid THEN p ELSE [p EXCEPT !.map = @ \ Run(s, n)]
Release(p, s, n) ==
    IF s = Invalid
    THEN p
    ELSE [p EXCEPT !.map = @ \ Run(s, n), !.used = @ - n]

(* The pages become taken whether they were free or not, and the counter   *)
(* goes down, not up.                                                      *)
Mark(p, s, n) ==
    IF s = Invalid
    THEN p
    ELSE [p EXCEPT !.map = @ \cup Run(s, n), !.used = @ - n]
=============================================================================
