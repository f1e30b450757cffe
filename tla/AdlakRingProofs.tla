--------------------------- MODULE AdlakRingProofs ---------------------------
(***************************************************************************)
(* RingInv is an invariant of AdlakRing for a ring of any size.            *)
(***************************************************************************)
EXTENDS AdlakRing, TLAPS

(* A number below the modulus is its own remainder, ... *)
LEMMA ModBelow ==
  ASSUME NEW n \in Nat \ {0}, NEW x \in 0..(n - 1)
  PROVE  x % n = x
OBVIOUS

(* ... one of the next turn is reduced by it, ... *)
LEMMA ModAbove ==
  ASSUME NEW n \in Nat \ {0}, NEW x \in n..(2 * n - 1)
  PROVE  x % n = x - n
OBVIOUS

(* ... and one of the last turn increased. *)
LEMMA ModNegative ==
  ASSUME NEW n \in Nat \ {0}, NEW x \in (-n)..(-1)
  PROVE  x % n = x + n
OBVIOUS

(* Slots are the numbers below the size, of which there are some. *)
LEMMA SlotIs ==
  /\ Size \in Nat \ {0} /\ Size > 2
  /\ \A x : x \in Slot <=> x \in Int /\ 0 <= x /\ x < Size
BY RingAssumption DEF Slot, RingAssumption

(* How far it is from one slot to another. *)
LEMMA UsedIs ==
  ASSUME NEW r \in Slot, NEW w \in Slot
  PROVE  /\ Used(r, w) = IF r <= w THEN w - r ELSE w - r + Size
         /\ Used(r, w) \in Slot
<1>1. r \in Int /\ w \in Int /\ 0 <= r /\ r < Size /\ 0 <= w /\ w < Size
  BY SlotIs
<1>2. CASE r <= w
  <2>1. w - r \in 0..(Size - 1)
    BY <1>1, <1>2, SlotIs
  <2>2. (w - r) % Size = w - r
    BY <2>1, ModBelow, SlotIs
  <2> QED BY <1>1, <1>2, <2>2, SlotIs DEF Used
<1>3. CASE ~(r <= w)
  <2>1. w - r \in (-Size)..(-1)
    BY <1>1, <1>3, SlotIs
  <2>2. (w - r) % Size = w - r + Size
    BY <2>1, ModNegative, SlotIs
  <2> QED BY <1>1, <1>3, <2>2, SlotIs DEF Used
<1> QED BY <1>2, <1>3

(* Where a command of k units ends that begins at o. *)
LEMMA AdvanceIs ==
  ASSUME NEW o \in Slot, NEW k \in 0..Size
  PROVE  /\ Advance(o, k) = IF o + k < Size THEN o + k ELSE o + k - Size
         /\ Advance(o, k) \in Slot
<1>1. o \in Int /\ 0 <= o /\ o < Size /\ k \in Int /\ 0 <= k /\ k <= Size
  BY SlotIs
<1>2. CASE o + k < Size
  <2>1. o + k \in 0..(Size - 1)
    BY <1>1, <1>2, SlotIs
  <2>2. (o + k) % Size = o + k
    BY <2>1, ModBelow, SlotIs
  <2> QED BY <1>1, <1>2, <2>2, SlotIs DEF Advance
<1>3. CASE ~(o + k < Size)
  <2>1. o + k \in Size..(2 * Size - 1)
    BY <1>1, <1>3, SlotIs
  <2>2. (o + k) % Size = o + k - Size
    BY <2>1, ModAbove, SlotIs
  <2> QED BY <1>1, <1>3, <2>2, SlotIs DEF Advance
<1> QED BY <1>2, <1>3

(* The slots of k units from o on are those less than k away. *)
LEMMA SpanIs ==
  ASSUME NEW o \in Slot, NEW k \in 0..Size
  PROVE  Span(o, k) = {x \in Slot : Used(o, x) < k}
<1>1. ASSUME NEW i \in 0..(k - 1)
      PROVE  Advance(o, i) \in Slot /\ Used(o, Advance(o, i)) = i
  <2>1. i \in 0..Size /\ i \in Int /\ 0 <= i /\ i < Size
    BY SlotIs
  <2>2. /\ Advance(o, i) = IF o + i < Size THEN o + i ELSE o + i - Size
        /\ Advance(o, i) \in Slot
    BY <2>1, AdvanceIs
  <2>3. Used(o, Advance(o, i)) = IF o <= Advance(o, i) THEN Advance(o, i) - o
                                 ELSE Advance(o, i) - o + Size
    BY <2>2, UsedIs
  <2> QED BY <2>1, <2>2, <2>3, SlotIs
<1>2. ASSUME NEW x \in Slot, Used(o, x) < k
      PROVE  \E i \in 0..(k - 1) : x = Advance(o, i)
  <2>1. /\ Used(o, x) = IF o <= x THEN x - o ELSE x - o + Size
        /\ Used(o, x) \in Slot
    BY UsedIs
  <2>2. Used(o, x) \in 0..(k - 1) /\ Used(o, x) \in 0..Size
    BY <1>2, <2>1, SlotIs
  <2>3. Advance(o, Used(o, x)) = IF o + Used(o, x) < Size THEN o + Used(o, x)
                                 ELSE o + Used(o, x) - Size
    BY <2>2, AdvanceIs
  <2>4. x = Advance(o, Used(o, x))
    BY <2>1, <2>3, SlotIs
  <2> QED BY <2>2, <2>4
<1>3. \A x \in Span(o, k) : x \in Slot /\ Used(o, x) < k
  <2> SUFFICES ASSUME NEW i \in 0..(k - 1)
               PROVE  Advance(o, i) \in Slot /\ Used(o, Advance(o, i)) < k
    BY DEF Span
  <2> QED BY <1>1
<1>4. \A x \in Slot : Used(o, x) < k => x \in Span(o, k)
  BY <1>2 DEF Span
<1> QED BY <1>3, <1>4

(* What is unread between two offsets. *)
LEMMA WindowIs ==
  ASSUME NEW r \in Slot, NEW w \in Slot
  PROVE  Window(r, w) = {x \in Slot : Used(r, x) < Used(r, w)}
<1>1. Used(r, w) \in 0..Size
  BY UsedIs, SlotIs
<1> QED BY <1>1, SpanIs DEF Window

(* A command of k units for which there is room is written behind the       *)
(* unread ones.                                                             *)
LEMMA WindowGrows ==
  ASSUME NEW r \in Slot, NEW w \in Slot, NEW k \in 0..Size, Used(r, w) + k < Size
  PROVE  /\ Used(r, Advance(w, k)) = Used(r, w) + k
         /\ Window(r, Advance(w, k)) = Window(r, w) \cup Span(w, k)
<1> DEFINE v == Advance(w, k)
<1>1. v \in Slot /\ v = IF w + k < Size THEN w + k ELSE w + k - Size
  BY AdvanceIs
<1>2. /\ Used(r, w) = IF r <= w THEN w - r ELSE w - r + Size
      /\ Used(r, v) = IF r <= v THEN v - r ELSE v - r + Size
  BY <1>1, UsedIs
<1> HIDE DEF v
<1>3. Used(r, v) = Used(r, w) + k
  BY <1>1, <1>2, SlotIs
<1>4. ASSUME NEW x \in Slot
      PROVE  Used(r, x) < Used(r, w) + k <=> Used(r, x) < Used(r, w) \/ Used(w, x) < k
  <2>1. /\ Used(r, x) = IF r <= x THEN x - r ELSE x - r + Size
        /\ Used(w, x) = IF w <= x THEN x - w ELSE x - w + Size
    BY UsedIs
  <2> QED BY <1>2, <2>1, SlotIs
<1>5. Window(r, v) = Window(r, w) \cup Span(w, k)
  <2>1. /\ Window(r, v) = {x \in Slot : Used(r, x) < Used(r, v)}
        /\ Window(r, w) = {x \in Slot : Used(r, x) < Used(r, w)}
    BY <1>1, WindowIs
  <2>2. Span(w, k) = {x \in Slot : Used(w, x) < k}
    BY SpanIs
  <2> QED BY <1>3, <1>4, <2>1, <2>2
<1> QED BY <1>3, <1>5 DEF v

(* A unit is read. *)
LEMMA WindowShrinks ==
  ASSUME NEW r \in Slot, NEW w \in Slot, Used(r, w) > 0
  PROVE  /\ Advance(r, 1) \in Slot
         /\ \A x \in Slot \ {r} : Used(Advance(r, 1), x) = Used(r, x) - 1
         /\ w # r
         /\ Window(Advance(r, 1), w) = Window(r, w) \ {r}
<1> DEFINE s == Advance(r, 1)
<1>1. s \in Slot /\ s = IF r + 1 < Size THEN r + 1 ELSE r + 1 - Size
  BY AdvanceIs, SlotIs
<1> HIDE DEF s
<1>2. ASSUME NEW x \in Slot
      PROVE  /\ Used(r, x) = IF r <= x THEN x - r ELSE x - r + Size
             /\ Used(s, x) = IF s <= x THEN x - s ELSE x - s + Size
  BY <1>1, UsedIs
<1>3. w # r
  BY <1>2, SlotIs
<1>4. ASSUME NEW x \in Slot
      PROVE  x # r => Used(s, x) = Used(r, x) - 1
  BY <1>1, <1>2, SlotIs
<1>5. ASSUME NEW x \in Slot
      PROVE  Used(s, x) < Used(s, w) <=> Used(r, x) < Used(r, w) /\ x # r
  <2>1. /\ Used(r, x) = IF r <= x THEN x - r ELSE x - r + Size
        /\ Used(s, x) = IF s <= x THEN x - s ELSE x - s + Size
        /\ Used(r, w) = IF r <= w THEN w - r ELSE w - r + Size
        /\ Used(s, w) = IF s <= w THEN w - s ELSE w - s + Size
    BY <1>2
  <2> QED BY <1>1, <1>3, <2>1, SlotIs
<1>6. Window(s, w) = Window(r, w) \ {r}
  <2>1. /\ Window(s, w) = {x \in Slot : Used(s, x) < Used(s, w)}
        /\ Window(r, w) = {x \in Slot : Used(r, x) < Used(r, w)}
    BY <1>1, WindowIs
  <2> QED BY <1>5, <2>1
<1> QED BY <1>1, <1>3, <1>4, <1>6 DEF s

-----------------------------------------------------------------------------
USE DEF RingInv, thread, parser, Active

(* A layer that is accepted is smaller than the ring. *)
LEMMA AcceptedIs ==
  ASSUME NEW k \in Accepted
  PROVE  k \in 0..Size /\ k \in 0..LayerMax /\ k \in Int /\ 1 < k /\ k < Size
BY RingAssumption, SlotIs DEF RingAssumption, Accepted

(* The offsets of a ring that is not empty, as numbers. *)
LEMMA NoneUsed ==
  ASSUME NEW r \in Slot, NEW w \in Slot
  PROVE  /\ Used(r, w) \in Int /\ 0 <= Used(r, w) /\ Used(r, w) < Size
         /\ Used(r, w) = 0 <=> r = w
         /\ Used(r, r) = 0 /\ Window(r, r) = {}
<1>1. /\ Used(r, w) = IF r <= w THEN w - r ELSE w - r + Size
      /\ Used(r, r) = 0
      /\ Used(r, w) \in Slot
  BY UsedIs, SlotIs
<1>2. \A x \in Slot : ~(Used(r, x) < 0)
  BY UsedIs, SlotIs
<1>3. Window(r, r) = {}
  BY <1>1, <1>2, WindowIs
<1> QED BY <1>1, <1>3, SlotIs

(* The ring is empty at first. *)
LEMMA RingInitInv == RingInit => RingInv
<1> SUFFICES ASSUME RingInit PROVE RingInv
  OBVIOUS
<1>1. 0 \in Slot /\ 0 \in 0..LayersMax /\ 0 \in 0..LayerMax
  BY SlotIs, RingAssumption DEF RingAssumption
<1>2. RingTypeOK
  BY <1>1 DEF RingInit, RingTypeOK
<1> QED BY <1>2 DEF RingInit, StorageInv, RestInv, StartsEmpty, OffsetsInv, ProgressInv

(* A step in which nothing changes. *)
LEMMA RingStutter == RingInv /\ UNCHANGED ringVars => RingInv'
BY DEF ringVars, RingTypeOK, StorageInv, RestInv, StartsEmpty, OffsetsInv,
       NothingOverwritten, ProgressInv, Used, Window, Span, Advance

(* A task starts on an empty ring, wherever the parser goes on, and its     *)
(* preamble is the only unread unit.                                        *)
LEMMA StartTaskInv == RingInv /\ StartTask => RingInv'
<1> SUFFICES ASSUME RingInv, StartTask PROVE RingInv'
  OBVIOUS
<1>1. 0 \in Slot /\ 1 \in 0..Size
  BY SlotIs
<1>2. Storage \in [rpt : Slot, wpt : Slot] /\ Storage.rpt = Storage.wpt
  BY <1>1 DEF Storage, StorageInv, NoStorage, RingTypeOK
<1>3. PICK o \in Slot : /\ rd' = o /\ rpt' = o /\ wpt' = o /\ wr' = Advance(o, 1)
                        /\ unread' = unread \cup {o}
  <2>1. PICK first \in BOOLEAN :
          LET r == IF Reload(first) THEN Storage.rpt ELSE rd
              w == IF Reload(first) THEN Storage.wpt ELSE wr
          IN  /\ rd' = r /\ wr' = Advance(w, 1)
              /\ rpt' = IF Reload(first) THEN r ELSE rpt
              /\ wpt' = IF Reload(first) THEN w ELSE wpt
              /\ unread' = unread \cup {w}
    BY DEF StartTask
  <2>2. CASE Reload(first)
    BY <1>2, <2>1, <2>2
  <2>3. CASE ~Reload(first)
    <3>1. rpt = wpt /\ wr = wpt /\ rd = rpt /\ rd \in Slot
      BY <2>3 DEF Reload, RestInv, StartsEmpty, StartTask, RingTypeOK
    <3> QED BY <2>1, <2>3, <3>1
  <2> QED BY <2>2, <2>3
<1>4. unread = {} /\ left' \in 1..LayersMax /\ layer' \in Accepted /\ pc' = "CHECK"
      /\ saved' = Storage /\ bufferPre' = TRUE
  BY DEF StartTask, RestInv
<1>5. wr' \in Slot
  BY <1>1, <1>3, AdvanceIs
<1>6. Used(o, Advance(o, 1)) = 1 /\ Window(o, Advance(o, 1)) = Span(o, 1)
  <2>1. Used(o, o) = 0 /\ Window(o, o) = {} /\ Used(o, o) + 1 < Size
    BY NoneUsed, SlotIs
  <2>2. /\ Used(o, Advance(o, 1)) = Used(o, o) + 1
        /\ Window(o, Advance(o, 1)) = Window(o, o) \cup Span(o, 1)
    BY <1>1, <2>1, WindowGrows
  <2> QED BY <2>1, <2>2
<1>7. Span(o, 1) = {o}
  <2>1. Advance(o, 0) = o
    BY AdvanceIs, SlotIs
  <2> QED BY <2>1 DEF Span
<1>8. RingTypeOK' /\ layer' \in Accepted
  BY <1>2, <1>3, <1>4, <1>5, AcceptedIs, RingAssumption DEF RingTypeOK, RingAssumption
<1>9. OffsetsInv'
  <2>1. NothingOverwritten'
    BY <1>3, <1>4, <1>6, <1>7 DEF NothingOverwritten
  <2>2. Used(rpt', wpt') = 0 /\ Used(rpt', wr') = 1 /\ Used(rd', wr') = 1
    BY <1>3, <1>6, NoneUsed
  <2> QED BY <2>1, <2>2 DEF OffsetsInv
<1> QED BY <1>2, <1>4, <1>8, <1>9
        DEF StorageInv, RestInv, StartsEmpty, ProgressInv

(* The offsets of an active task are slots, with distances between them.    *)
LEMMA Offsets ==
  ASSUME RingInv, pc \in {"CHECK", "WROTE", "RUN", "GAVEUP"}
  PROVE  /\ wr \in Slot /\ rd \in Slot /\ rpt \in Slot /\ wpt \in Slot
         /\ unread = Window(rpt, wr)
         /\ Used(rpt, wpt) \in Int /\ 0 <= Used(rpt, wpt)
         /\ Used(rpt, wr) \in Int /\ Used(rd, wr) \in Int
         /\ Used(rpt, wpt) <= Used(rpt, wr) /\ Used(rpt, wr) <= Used(rd, wr)
         /\ Used(rd, wr) < Size
<1>1. wr \in Slot /\ rd \in Slot /\ rpt \in Slot /\ wpt \in Slot
  BY DEF RingTypeOK
<1> QED BY <1>1, NoneUsed DEF OffsetsInv, NothingOverwritten

(* The driver takes the parser's read offset. *)
LEMMA RefreshInv ==
  ASSUME RingInv, pc \in {"CHECK", "WROTE", "RUN", "GAVEUP"}, RefreshRd,
         UNCHANGED <<thread, wr, parser, saved, bufferPre, unread>>
  PROVE  RingInv'
<1>1. RingTypeOK'
  BY DEF RefreshRd, RingTypeOK
<1>2. OffsetsInv'
  BY Offsets DEF RefreshRd, OffsetsInv, NothingOverwritten, Used, Window, Span, Advance
<1>3. Used(rpt, wpt)' = Used(rpt, wpt) /\ Used(rpt, wr)' = Used(rpt, wr)
  BY DEF Used
<1> QED BY <1>1, <1>2, <1>3 DEF StorageInv, RestInv, StartsEmpty, ProgressInv

(* A look at the parser, by the thread ... *)
LEMMA WaitForSpaceInv == RingInv /\ WaitForSpace => RingInv'
BY RefreshInv DEF WaitForSpace

(* ... or by the handler of an error. *)
LEMMA InterruptInv == RingInv /\ Interrupt => RingInv'
BY RefreshInv DEF Interrupt

(* The task is given up. *)
LEMMA GiveUpInv == RingInv /\ GiveUp => RingInv'
<1> SUFFICES ASSUME RingInv, GiveUp PROVE RingInv'
  OBVIOUS
<1>1. RingTypeOK'
  BY DEF GiveUp, RingTypeOK
<1>2. OffsetsInv'
  BY DEF GiveUp, OffsetsInv, NothingOverwritten, Used, Window, Span, Advance
<1> QED BY <1>1, <1>2 DEF GiveUp, StorageInv, RestInv, StartsEmpty, ProgressInv

(* A layer for which the driver sees room is written behind the unread ones. *)
LEMMA WriteLayerInv == RingInv /\ WriteLayer => RingInv'
<1> SUFFICES ASSUME RingInv, WriteLayer PROVE RingInv'
  OBVIOUS
<1>1. layer \in 0..Size /\ layer \in Int /\ 1 < layer /\ left \in 1..LayersMax
  BY AcceptedIs, RingAssumption DEF WriteLayer, ProgressInv, RingTypeOK, RingAssumption
<1>2. Used(rpt, wr) + layer < Size
  <2>1. layer < Size - Used(rd, wr)
    <3>1. Used(rd, wr) = IF rd <= wr THEN wr - rd ELSE wr - rd + Size
      BY Offsets, UsedIs DEF WriteLayer
    <3> QED BY <1>1, <3>1, Offsets, SlotIs DEF WriteLayer, Room, Remain
  <2> QED BY <1>1, <2>1, Offsets, SlotIs DEF WriteLayer
<1>3. /\ Used(rpt, Advance(wr, layer)) = Used(rpt, wr) + layer
      /\ Window(rpt, Advance(wr, layer)) = Window(rpt, wr) \cup Span(wr, layer)
  BY <1>1, <1>2, Offsets, WindowGrows DEF WriteLayer
<1>4. wr' = Advance(wr, layer) /\ rd' = rpt /\ rpt' = rpt /\ wpt' = wpt
      /\ unread' = unread \cup Span(wr, layer) /\ pc' = "WROTE"
  BY DEF WriteLayer, RefreshRd
<1>5. wr' \in Slot
  BY <1>1, <1>4, Offsets, AdvanceIs DEF WriteLayer
<1>6. RingTypeOK'
  <2>1. left' \in 0..LayersMax
    BY <1>1, RingAssumption DEF WriteLayer, RingAssumption
  <2>2. Span(wr, layer) \subseteq Slot
    BY <1>1, Offsets, SpanIs DEF WriteLayer
  <2> QED BY <1>4, <1>5, <2>1, <2>2 DEF WriteLayer, RingTypeOK
<1>7. NothingOverwritten'
  BY <1>3, <1>4, Offsets DEF WriteLayer, NothingOverwritten
<1>8. /\ Used(rpt', wpt') = Used(rpt, wpt)
      /\ Used(rpt', wr') = Used(rpt, wr) + layer
      /\ Used(rd', wr') = Used(rpt, wr) + layer
  BY <1>3, <1>4
<1>9. Used(rpt', wpt') < Used(rpt', wr') /\ Used(rpt', wr') <= Used(rd', wr')
  BY <1>1, <1>8, Offsets DEF WriteLayer
<1>10. OffsetsInv'
  BY <1>7, <1>8, <1>9, <1>1, Offsets DEF WriteLayer, OffsetsInv
<1> QED BY <1>4, <1>6, <1>9, <1>10
        DEF WriteLayer, StorageInv, RestInv, StartsEmpty, ProgressInv

(* What was written is submitted. *)
LEMMA SubmitLayerInv == RingInv /\ SubmitLayer => RingInv'
<1> SUFFICES ASSUME RingInv, SubmitLayer PROVE RingInv'
  OBVIOUS
<1>1. /\ wpt' = wr /\ wr' = wr /\ rpt' = rpt /\ unread' = unread
      /\ rd' = rd \/ rd' = rpt
      /\ pc' = "RUN" \/ (pc' = "CHECK" /\ left # 0 /\ layer' \in Accepted)
  BY DEF SubmitLayer
<1>2. RingTypeOK'
  BY <1>1, Offsets, AcceptedIs, RingAssumption
     DEF SubmitLayer, RingTypeOK, RingAssumption
<1>3. NothingOverwritten'
  BY <1>1, Offsets DEF SubmitLayer, NothingOverwritten
<1>4. Used(rpt', wpt') <= Used(rpt', wr') /\ Used(rpt', wr') <= Used(rd', wr')
  BY <1>1, Offsets DEF SubmitLayer
<1>5. OffsetsInv'
  BY <1>3, <1>4 DEF OffsetsInv
<1>6. pc' = "CHECK" => left' > 0
  BY <1>1, RingAssumption DEF SubmitLayer, RingTypeOK, RingAssumption
<1> QED BY <1>1, <1>2, <1>5, <1>6
        DEF SubmitLayer, StorageInv, RestInv, StartsEmpty, ProgressInv

(* The parser has read everything when a task has finished. *)
LEMMA PreemptFinishedInv == RingInv /\ PreemptFinished => RingInv'
<1> SUFFICES ASSUME RingInv, PreemptFinished PROVE RingInv'
  OBVIOUS
<1>1. wr = rpt /\ wpt = rpt /\ rpt \in Slot
  BY DEF PreemptFinished, ProgressInv, RingTypeOK
<1>2. unread = {}
  BY <1>1, Offsets, NoneUsed DEF PreemptFinished
<1>3. RingTypeOK'
  BY <1>1 DEF PreemptFinished, RefreshRd, RingTypeOK
<1> QED BY <1>1, <1>2, <1>3
        DEF PreemptFinished, RefreshRd, StorageInv, RestInv, StartsEmpty, OffsetsInv,
            ProgressInv, NoStorage

(* A task has failed, and what it has left is forgotten. *)
LEMMA PreemptFailedInv == RingInv /\ PreemptFailed => RingInv'
<1> SUFFICES ASSUME RingInv, PreemptFailed PROVE RingInv'
  OBVIOUS
<1>1. RingTypeOK'
  BY RingAssumption DEF PreemptFailed, RingTypeOK, RingAssumption
<1> QED BY <1>1
        DEF PreemptFailed, StorageInv, RestInv, StartsEmpty, OffsetsInv, ProgressInv

(* The power goes, ... *)
LEMMA PowerDownInv == RingInv /\ PowerDown => RingInv'
BY DEF PowerDown, RingTypeOK, StorageInv, RestInv, StartsEmpty, OffsetsInv, ProgressInv

(* ... the device is reset, ... *)
LEMMA ResetInv == RingInv /\ Reset => RingInv'
BY DEF Reset, RingTypeOK, StorageInv, RestInv, StartsEmpty, OffsetsInv, ProgressInv

(* ... or another queue uses the parser. *)
LEMMA RunPrivateInv == RingInv /\ RunPrivate => RingInv'
BY DEF RunPrivate, RingTypeOK, StorageInv, RestInv, StartsEmpty, OffsetsInv, ProgressInv

(* The parser reads a unit. *)
LEMMA ReadInv == RingInv /\ Read => RingInv'
<1> SUFFICES ASSUME RingInv, Read PROVE RingInv'
  OBVIOUS
<1> DEFINE s == Advance(rpt, 1)
<1>1. /\ rpt' = s /\ unread' = unread \ {rpt} /\ pc' = pc
      /\ wr' = wr /\ wpt' = wpt /\ rd' = rd /\ rpt # wpt
  BY DEF Read
<1>2. Used(rpt, wpt) > 0 /\ Used(rpt, wr) > 0
  BY <1>1, Offsets, NoneUsed DEF Read
<1>3. /\ s \in Slot
      /\ Used(s, wpt) = Used(rpt, wpt) - 1 /\ Used(s, wr) = Used(rpt, wr) - 1
      /\ Window(s, wr) = Window(rpt, wr) \ {rpt}
  <2>1. wr # rpt /\ wr \in Slot /\ wpt \in Slot
    BY <1>2, Offsets, NoneUsed DEF Read
  <2> QED BY <1>1, <1>2, <2>1, Offsets, WindowShrinks DEF Read
<1> HIDE DEF s
<1>4. RingTypeOK'
  BY <1>1, <1>3 DEF Read, RingTypeOK
<1>5. NothingOverwritten'
  BY <1>1, <1>3, Offsets DEF Read, NothingOverwritten
<1>6. /\ Used(rpt', wpt') <= Used(rpt', wr') /\ Used(rpt', wr') <= Used(rd', wr')
      /\ Used(rpt, wpt) < Used(rpt, wr) => Used(rpt', wpt') < Used(rpt', wr')
  BY <1>1, <1>3, Offsets DEF Read
<1>7. OffsetsInv'
  BY <1>5, <1>6 DEF OffsetsInv
<1> QED BY <1>1, <1>4, <1>6, <1>7 DEF Read, StorageInv, RestInv, StartsEmpty, ProgressInv

(* Every step keeps the invariant. *)
LEMMA RingNextInv == RingInv /\ [RingNext]_ringVars => RingInv'
<1> HIDE DEF RingInv
<1> QED BY RingStutter, StartTaskInv, GiveUpInv, WaitForSpaceInv, WriteLayerInv,
        SubmitLayerInv, PreemptFinishedInv, PreemptFailedInv, PowerDownInv, ResetInv,
        RunPrivateInv, ReadInv, InterruptInv DEF RingNext, ThreadStep

(* The invariant holds for a ring of any size, with layers of any size that *)
(* is accepted.                                                             *)
THEOREM RingInvariantHolds == RingSpec => []RingInv
<1> HIDE DEF RingInv
<1> QED BY RingInitInv, RingNextInv, PTL DEF RingSpec

(* Type correctness: the offsets of driver and parser stay in the ring.     *)
THEOREM RingTypeCorrect == RingSpec => []RingTypeOK
<1>1. RingInv => RingTypeOK
  OBVIOUS
<1> HIDE DEF RingInv
<1> QED BY <1>1, RingInvariantHolds, PTL

(* The unread commands are those between the parser's read offset and the   *)
(* driver's write offset: none is overwritten.                              *)
THEOREM NoCommandIsOverwritten == RingSpec => []NothingOverwritten
<1>1. RingInv => NothingOverwritten
  BY DEF OffsetsInv, NothingOverwritten
<1> HIDE DEF RingInv
<1> QED BY <1>1, RingInvariantHolds, PTL

(* The parser reads nothing but commands. *)
THEOREM ParserReadsCommands == RingSpec => []ReadsCommands
<1>1. RingInv => ReadsCommands
  <2> SUFFICES ASSUME RingInv, pc \in {"CHECK", "WROTE", "RUN", "GAVEUP"}, rpt # wpt
               PROVE  rpt \in unread
    BY DEF ReadsCommands
  <2>1. Used(rpt, rpt) = 0 /\ 0 < Used(rpt, wpt)
    BY Offsets, NoneUsed
  <2>2. Used(rpt, rpt) < Used(rpt, wr)
    BY <2>1, Offsets
  <2> QED BY <2>2, Offsets, WindowIs
<1> HIDE DEF RingInv
<1> QED BY <1>1, RingInvariantHolds, PTL

(* The driver never sees more room than there is. *)
THEOREM SpaceCheckIsConservative == RingSpec => []SpaceIsConservative
<1>1. RingInv => SpaceIsConservative
  <2> SUFFICES ASSUME RingInv, pc \in {"CHECK", "WROTE", "RUN", "GAVEUP"}
               PROVE  Remain(rd, wr) <= Remain(rpt, wr)
    BY DEF SpaceIsConservative
  <2>1. /\ Used(rd, wr) = IF rd <= wr THEN wr - rd ELSE wr - rd + Size
        /\ Used(rpt, wr) = IF rpt <= wr THEN wr - rpt ELSE wr - rpt + Size
    BY Offsets, UsedIs
  <2> QED BY <2>1, Offsets, SlotIs DEF Remain
<1> HIDE DEF RingInv
<1> QED BY <1>1, RingInvariantHolds, PTL

(* A submitted layer is never taken for an empty ring: "wpt = rpt".         *)
THEOREM SubmissionsAreSeen == RingSpec => []SubmitIsSeen
<1>1. RingInv => SubmitIsSeen
  <2> SUFFICES ASSUME RingInv, pc = "WROTE", wr = rpt PROVE FALSE
    BY DEF SubmitIsSeen
  <2>1. Used(rpt, wr) = 0 /\ 0 <= Used(rpt, wpt) /\ Used(rpt, wpt) \in Int
    BY Offsets, NoneUsed
  <2> QED BY <2>1 DEF ProgressInv
<1> HIDE DEF RingInv
<1> QED BY <1>1, RingInvariantHolds, PTL

(* A task starts where the parser stopped. *)
THEOREM TasksStartEmpty == RingSpec => []StartsEmpty
<1>1. RingInv => StartsEmpty
  BY DEF RestInv
<1> HIDE DEF RingInv
<1> QED BY <1>1, RingInvariantHolds, PTL
=============================================================================
