----------------------------- MODULE AdlakRing -----------------------------
(***************************************************************************)
(* The public command queue of the ADLA driver: a ring in memory into     *)
(* which the inference thread writes the layers of a task while the       *)
(* parser of the device reads those already submitted.  Offsets and sizes *)
(* are counted in units of 16 bytes, to which every layer is aligned.     *)
(*                                                                         *)
(* AdlakInference's SUBMIT, the interrupt, CHECK_TASK, DEV_RESET and      *)
(* WQ_RESET are the steps of this module that touch the ring.             *)
(***************************************************************************)
EXTENDS Integers

CONSTANTS
  Size,        \* cmq_buffer_public.size
  LayerMax,    \* bound: the largest layer that a user asks for
  LayersMax,   \* bound: layers of a task
  SlowDevice   \* may a layer take longer than the space check waits?

ASSUME RingAssumption ==
  /\ Size \in Nat \ {0, 1, 2} /\ LayerMax \in Nat \ {0, 1}
  /\ LayersMax \in Nat \ {0}
  /\ SlowDevice \in BOOLEAN

VARIABLES
  pc,        \* where the thread is in the submission of a task
  left,      \* layers of the task still to be written
  layer,     \* the size of the next one
  wr, rd,    \* cmq_wr_offset, cmq_rd_offset: the driver's view of the ring
  rpt, wpt,  \* the registers PS_RBF_RPT and PS_RBF_WPT of the parser
  saved,     \* parser_storage_info, NoStorage while its size is 0
  bufferPre, \* does queue.cmq_buffer_pre point to this ring?
  unread     \* history: the slots with commands the device is still to read

thread   == <<pc, left, layer>>
parser   == <<rpt, wpt>>
ringVars == <<thread, wr, rd, parser, saved, bufferPre, unread>>

Slot == 0..(Size - 1)

(* adlak_invoke_pre_check refuses a model with a layer as large as the ring. *)
Accepted == {k \in 2..LayerMax : k < Size}

NoStorage == [rpt |-> -1, wpt |-> -1]

AdvanceOnly(o, k) == o + k   \* mutant: does not wrap around
Advance(o, k) == (o + k) % Size
Span(o, k)    == {Advance(o, i) : i \in 0..(k - 1)}
Used(r, w)    == (w - r) % Size
Window(r, w)  == Span(r, Used(r, w))

RingTypeOK ==
  /\ pc \in {"IDLE", "CHECK", "WROTE", "RUN", "GAVEUP", "RESET"}
  /\ left \in 0..LayersMax
  /\ layer \in 0..LayerMax
  /\ {wr, rd, rpt, wpt} \subseteq Slot
  /\ saved \in [rpt : Slot, wpt : Slot] \cup {NoStorage}
  /\ bufferPre \in BOOLEAN
  /\ unread \subseteq Slot

RingInit ==
  /\ pc = "IDLE" /\ left = 0 /\ layer = 0
  /\ wr = 0 /\ rd = 0 /\ rpt = 0 /\ wpt = 0
  /\ saved = NoStorage /\ bufferPre = FALSE
  /\ unread = {}

-----------------------------------------------------------------------------
(* The inference thread.                                                   *)

(* What the parser continues from. *)
Storage == IF saved = NoStorage THEN [rpt |-> 0, wpt |-> 0] ELSE saved

(* The parser is loaded with what was saved if the ring was not the last    *)
(* one in use, or if the task is the first part of a model's layers.        *)
ReloadFirst(first) == first   \* mutant: after a reset it goes on as it was
Reload(first) == ~bufferPre \/ first

(* adlak_parser_resume, then the preamble: one unit, without a space check  *)
(* and not submitted on its own.                                            *)
StartTask ==
  /\ pc = "IDLE"
  /\ \E first \in BOOLEAN :
       LET r == IF Reload(first) THEN Storage.rpt ELSE rd
           w == IF Reload(first) THEN Storage.wpt ELSE wr
       IN  /\ rd' = r /\ wr' = Advance(w, 1)
           /\ rpt' = IF Reload(first) THEN r ELSE rpt
           /\ wpt' = IF Reload(first) THEN w ELSE wpt
           /\ unread' = unread \cup {w}
  /\ saved' = Storage
  /\ bufferPre' = TRUE
  /\ left' \in 1..LayersMax
  /\ layer' \in Accepted
  /\ pc' = "CHECK"

(* adlak_cmq_remain_space_check, with the read offset of the last time. *)
Remain(r, w) == IF r <= w THEN Size - w + r ELSE r - w
RoomOrEqual == layer <= Remain(rd, wr)       \* mutant: fills the ring up
Room        == layer < Remain(rd, wr)

RefreshRdWpt == rd' = wpt   \* mutant: takes the wrong register
RefreshRd    == rd' = rpt

(* No room: look again at how far the device has read. *)
WaitForSpace ==
  /\ pc = "CHECK" /\ ~Room
  /\ RefreshRd
  /\ UNCHANGED <<thread, wr, parser, saved, bufferPre, unread>>

(* After 50000 attempts the task is given up.  A device that keeps reading  *)
(* is faster than that unless SlowDevice.                                   *)
GiveUpBehind ==   \* mutant: an idle device is waited for without end
  /\ pc = "CHECK" /\ ~Room /\ rpt # wpt
  /\ SlowDevice
  /\ pc' = "GAVEUP"
  /\ UNCHANGED <<left, layer, wr, rd, parser, saved, bufferPre, unread>>
GiveUp ==
  /\ pc = "CHECK" /\ ~Room
  /\ SlowDevice \/ (rd = rpt /\ rpt = wpt)
  /\ pc' = "GAVEUP"
  /\ UNCHANGED <<left, layer, wr, rd, parser, saved, bufferPre, unread>>

WriteLayer ==
  /\ pc = "CHECK" /\ Room
  /\ unread' = unread \cup Span(wr, layer)
  /\ wr' = Advance(wr, layer)
  /\ RefreshRd
  /\ left' = left - 1
  /\ pc' = "WROTE"
  /\ UNCHANGED <<layer, parser, saved, bufferPre>>

(* adlak_hal_submit.  The wait for the device while wr = rd ends anyway. *)
SubmitLayer ==
  /\ pc = "WROTE"
  /\ wpt' = wr
  /\ rd' = IF wr = rd THEN rpt ELSE rd
  /\ IF left = 0
       THEN pc' = "RUN" /\ layer' = 0
       ELSE pc' = "CHECK" /\ layer' \in Accepted
  /\ UNCHANGED <<left, wr, rpt, saved, bufferPre, unread>>

(* adlak_parser_preempt after the task has finished, ... *)
PreemptFinished ==
  /\ pc = "RUN" /\ rpt = wpt
  /\ saved' = [rpt |-> rpt, wpt |-> wpt]
  /\ RefreshRd
  /\ pc' = "IDLE"
  /\ UNCHANGED <<left, layer, wr, parser, bufferPre, unread>>

(* ... or failed: what the parser has not read is forgotten. *)
PreemptFailed ==
  /\ pc \in {"RUN", "GAVEUP"}
  /\ saved' = NoStorage
  /\ pc' = "RESET" /\ left' = 0 /\ layer' = 0
  /\ unread' = {}
  /\ UNCHANGED <<wr, rd, parser, bufferPre>>

(* DEV_RESET, after a failure or when the power comes back, and WQ_RESET.   *)
PowerDown ==
  /\ pc = "IDLE"
  /\ pc' = "RESET"
  /\ UNCHANGED <<left, layer, wr, rd, parser, saved, bufferPre, unread>>

ResetParser ==   \* mutant: cmq_buffer_pre is not cleared
  /\ pc = "RESET"
  /\ \E o \in Slot : rpt' = o /\ wpt' = o
  /\ pc' = "IDLE"
  /\ UNCHANGED <<left, layer, wr, rd, saved, bufferPre, unread>>
Reset ==
  /\ pc = "RESET"
  /\ \E o \in Slot : rpt' = o /\ wpt' = o
  /\ bufferPre' = FALSE
  /\ pc' = "IDLE"
  /\ UNCHANGED <<left, layer, wr, rd, saved, unread>>

(* A task of a model with a private queue uses the parser in between. *)
RunPrivate ==
  /\ pc = "IDLE"
  /\ \E o \in Slot : rpt' = o /\ wpt' = o
  /\ bufferPre' = FALSE
  /\ UNCHANGED <<thread, wr, rd, saved, unread>>

-----------------------------------------------------------------------------
(* The device reads what has been submitted.  A hung device does not, so    *)
(* the liveness below rests on the two timeouts of adlak_submit_wait.       *)
Read ==
  /\ pc \in {"CHECK", "WROTE", "RUN", "GAVEUP"} /\ rpt # wpt
  /\ rpt' = Advance(rpt, 1)
  /\ unread' = unread \ {rpt}
  /\ UNCHANGED <<thread, wr, rd, wpt, saved, bufferPre>>

(* adlak_irq_proc: an error interrupt may come during the submission. *)
Interrupt ==
  /\ pc \in {"CHECK", "WROTE", "RUN", "GAVEUP"}
  /\ RefreshRd
  /\ UNCHANGED <<thread, wr, parser, saved, bufferPre, unread>>

ThreadStep ==
  \/ StartTask \/ GiveUp \/ WaitForSpace \/ WriteLayer \/ SubmitLayer
  \/ PreemptFinished \/ PreemptFailed \/ PowerDown \/ Reset \/ RunPrivate

RingNext == ThreadStep \/ Read \/ Interrupt

RingSpec == RingInit /\ [][RingNext]_ringVars

(* The thread goes on with a task it has begun, and the wait for its end    *)
(* is bounded by timeouts.                                                  *)
RingFairness ==
  /\ WF_ringVars(WriteLayer) /\ WF_ringVars(SubmitLayer)
  /\ WF_ringVars(WaitForSpace) /\ WF_ringVars(GiveUp)
  /\ WF_ringVars(PreemptFailed) /\ WF_ringVars(Reset)
  /\ WF_ringVars(Read)

FairRing == RingSpec /\ RingFairness

-----------------------------------------------------------------------------
(* Properties.                                                             *)

Active == pc \in {"CHECK", "WROTE", "RUN", "GAVEUP"}

(* No command is overwritten before the parser has read it, although the    *)
(* space check works with an old read offset and the preamble is written    *)
(* without one: the unread commands are exactly those between the parser's  *)
(* read offset and the driver's write offset.                               *)
NothingOverwritten == Active => unread = Window(rpt, wr)

(* The parser never runs into slots without commands. *)
ReadsCommands == Active /\ rpt # wpt => rpt \in unread

(* The free space the driver computes from its copy of the read offset is   *)
(* never more than there is.                                                *)
SpaceIsConservative == Active => Remain(rd, wr) <= Remain(rpt, wr)

(* "wpt = rpt", which the parser takes for an empty ring, never happens     *)
(* when a layer is submitted.                                               *)
SubmitIsSeen == pc = "WROTE" => wr # rpt

(* A task starts where the parser stopped, with nothing left to read.       *)
StartsEmpty == pc = "IDLE" /\ bufferPre => rpt = wpt /\ wr = wpt /\ rd = rpt

(* A model that adlak_invoke_pre_check accepted is not given up for want of *)
(* space: "size_max cannot be equal to cmq_total_size".                     *)
AcceptedFits == pc # "GAVEUP"

(* The submission of a task ends, whether there is room for it or not.      *)
SubmissionEnds == Active ~> ~Active

(* The inductive invariant behind these: the read offset the driver knows,  *)
(* the parser's two and the write offset follow one another on the ring.    *)
StorageInv == saved # NoStorage => saved.rpt = saved.wpt

RestInv ==
  /\ pc \in {"IDLE", "RESET"} => unread = {}
  /\ StartsEmpty

OffsetsInv ==
  Active => /\ NothingOverwritten
            /\ Used(rpt, wpt) <= Used(rpt, wr)
            /\ Used(rpt, wr) <= Used(rd, wr)

ProgressInv ==
  /\ pc = "CHECK" => left > 0 /\ layer \in Accepted
  /\ pc = "WROTE" => Used(rpt, wpt) < Used(rpt, wr)
  /\ pc = "RUN" => wpt = wr

RingInv == RingTypeOK /\ StorageInv /\ RestInv /\ OffsetsInv /\ ProgressInv
=============================================================================
