----------------------------- MODULE AdlakLifeProofs -----------------------------
(***************************************************************************)
(* LifeInv is an invariant of AdlakLife for any number of minors and open  *)
(* files and any failures that the code survives, in the plain case,       *)
(* Allow = {}.                                                             *)
(***************************************************************************)
EXTENDS AdlakLife, SequenceTheorems, TLAPS

-----------------------------------------------------------------------------
(* Lists of steps. *)

Names == {"major", "class", "classfile", "driver", "alloc", "resource", "sys", "region",
  "locks", "lock", "ids", "pm", "mem", "queue", "dpm", "hw", "thread", "irq", "suspend",
  "unlock", "fops", "minor", "cdev", "node", "sysfs", "stop", "join", "await", "resume",
  "contexts"}

(* t is what is left of L before its step k. *)
LeftAt(t, L, k) == k \in 1 .. Len(L) + 1 /\ t = SubSeq(L, k, Len(L))

(* What is left of a list, step by step.                                    *)
LEMMA LeftIs ==
  ASSUME NEW S, NEW L \in Seq(S), NEW t, NEW k, LeftAt(t, L, k)
  PROVE  /\ Len(L) \in Nat /\ k \in 1 .. Len(L) + 1
         /\ t \in Seq(S) /\ Len(t) = Len(L) + 1 - k /\ DOMAIN t = 1 .. Len(t)
         /\ \A i \in 1 .. Len(t) : t[i] = L[k + i - 1]
         /\ t = <<>> <=> k = Len(L) + 1
<1>1. Len(L) \in Nat /\ k \in 1 .. Len(L) + 1 /\ \A i \in k .. Len(L) : L[i] \in S
  BY LenProperties, ElementOfSeq DEF LeftAt
<1>2. /\ t \in Seq(S)
      /\ Len(t) = IF k <= Len(L) THEN Len(L) - k + 1 ELSE 0
      /\ \A i \in 1 .. Len(L) - k + 1 : t[i] = L[k + i - 1]
  BY <1>1, SubSeqProperties DEF LeftAt
<1>3. DOMAIN t = 1 .. Len(t) /\ Len(t) \in Nat
  BY <1>2, LenProperties
<1>4. t = <<>> <=> Len(t) = 0
  BY <1>2, EmptySeq
<1> QED BY <1>1, <1>2, <1>3, <1>4

(* What is ahead, in places of the whole list.                              *)
LEMMA AheadIs ==
  ASSUME NEW S, NEW L \in Seq(S), NEW t, NEW k, LeftAt(t, L, k)
  PROVE  /\ \A x : x \in Ahead(t) <=> \E i \in k .. Len(L) : L[i] = x
         /\ Inside(t) <=> \E i \in k .. Len(L) :
                            L[i] = "unlock" /\ \A j \in k .. i : L[j] # "lock"
<1>1. /\ Len(L) \in Nat /\ k \in 1 .. Len(L) + 1 /\ Len(t) = Len(L) + 1 - k
      /\ DOMAIN t = 1 .. Len(t)
      /\ \A i \in 1 .. Len(t) : t[i] = L[k + i - 1]
  BY LeftIs
<1>2. \A i \in k .. Len(L) : i - k + 1 \in 1 .. Len(t) /\ t[i - k + 1] = L[i]
  BY <1>1
<1>3. \A i \in 1 .. Len(t) : k + i - 1 \in k .. Len(L) /\ t[i] = L[k + i - 1]
  BY <1>1
<1>4. ASSUME NEW x
      PROVE  x \in Ahead(t) <=> \E i \in k .. Len(L) : L[i] = x
  <2>1. ASSUME x \in Ahead(t)
        PROVE  \E i \in k .. Len(L) : L[i] = x
    <3>1. PICK i \in 1 .. Len(t) : t[i] = x
      BY <1>1, <2>1 DEF Ahead
    <3> QED BY <1>3, <3>1
  <2>2. ASSUME NEW i \in k .. Len(L), L[i] = x
        PROVE  x \in Ahead(t)
    BY <1>1, <1>2, <2>2 DEF Ahead
  <2> QED BY <2>1, <2>2
<1>5. ASSUME Inside(t)
      PROVE  \E i \in k .. Len(L) : L[i] = "unlock" /\ \A j \in k .. i : L[j] # "lock"
  <2>1. PICK i \in 1 .. Len(t) : t[i] = "unlock" /\ \A j \in 1 .. i : t[j] # "lock"
    BY <1>1, <1>5 DEF Inside
  <2>2. k + i - 1 \in k .. Len(L) /\ L[k + i - 1] = "unlock"
    BY <1>3, <2>1
  <2>3. ASSUME NEW j \in k .. (k + i - 1)
        PROVE  L[j] # "lock"
    <3>1. j \in k .. Len(L) /\ j - k + 1 \in 1 .. i
      BY <1>1, <2>1
    <3> QED BY <1>2, <2>1, <3>1
  <2> QED BY <2>2, <2>3
<1>6. ASSUME NEW i \in k .. Len(L), L[i] = "unlock", \A j \in k .. i : L[j] # "lock"
      PROVE  Inside(t)
  <2>1. i - k + 1 \in 1 .. Len(t) /\ t[i - k + 1] = "unlock"
    BY <1>2, <1>6
  <2>2. ASSUME NEW j \in 1 .. (i - k + 1)
        PROVE  t[j] # "lock"
    <3>1. j \in 1 .. Len(t) /\ k + j - 1 \in k .. i
      BY <1>1, <2>1
    <3> QED BY <1>3, <1>6, <3>1
  <2> QED BY <1>1, <2>1, <2>2 DEF Inside
<1> QED BY <1>4, <1>5, <1>6

(* One step is done. *)
LEMMA OneDone ==
  ASSUME NEW S, NEW L \in Seq(S), NEW t, NEW k, LeftAt(t, L, k), t # <<>>
  PROVE  /\ k \in 1 .. Len(L) /\ Head(t) = L[k] /\ LeftAt(Tail(t), L, k + 1)
         /\ Ahead(t) = {Head(t)} \cup Ahead(Tail(t))
         /\ Inside(t) <=> \/ Head(t) = "unlock"
                          \/ Head(t) # "lock" /\ Inside(Tail(t))
<1>1. Len(L) \in Nat /\ k \in 1 .. Len(L)
  BY LeftIs
<1>2. Head(t) = L[k] /\ Tail(t) = SubSeq(L, k + 1, Len(L))
  BY <1>1, HeadTailOfSubSeq DEF LeftAt
<1>3. LeftAt(Tail(t), L, k + 1)
  BY <1>1, <1>2 DEF LeftAt
<1>4. /\ \A x : x \in Ahead(t) <=> \E i \in k .. Len(L) : L[i] = x
      /\ Inside(t) <=> \E i \in k .. Len(L) :
                         L[i] = "unlock" /\ \A j \in k .. i : L[j] # "lock"
  BY AheadIs
<1>5. /\ \A x : x \in Ahead(Tail(t)) <=> \E i \in (k + 1) .. Len(L) : L[i] = x
      /\ Inside(Tail(t)) <=> \E i \in (k + 1) .. Len(L) :
                         L[i] = "unlock" /\ \A j \in (k + 1) .. i : L[j] # "lock"
  BY <1>3, AheadIs
<1>6. \A i : i \in k .. Len(L) <=> (i = k \/ i \in (k + 1) .. Len(L))
  BY <1>1
<1>7. \A x : x \in Ahead(t) <=> (x = L[k] \/ x \in Ahead(Tail(t)))
  BY <1>4, <1>5, <1>6
<1>8. ASSUME Inside(t), L[k] # "unlock"
      PROVE  L[k] # "lock" /\ Inside(Tail(t))
  <2>1. PICK i \in k .. Len(L) : L[i] = "unlock" /\ \A j \in k .. i : L[j] # "lock"
    BY <1>4, <1>8
  <2>2. i \in (k + 1) .. Len(L) /\ k \in k .. i /\ \A j \in (k + 1) .. i : j \in k .. i
    BY <1>1, <1>8, <2>1
  <2> QED BY <1>5, <2>1, <2>2
<1>9. ASSUME L[k] = "unlock"
      PROVE  Inside(t)
  <2>1. k \in k .. Len(L) /\ \A j \in k .. k : j = k
    BY <1>1
  <2> QED BY <1>4, <1>9, <2>1
<1>10. ASSUME L[k] # "lock", Inside(Tail(t))
       PROVE  Inside(t)
  <2>1. PICK i \in (k + 1) .. Len(L) :
          L[i] = "unlock" /\ \A j \in (k + 1) .. i : L[j] # "lock"
    BY <1>5, <1>10
  <2>2. i \in k .. Len(L) /\ \A j \in k .. i : j = k \/ j \in (k + 1) .. i
    BY <1>1
  <2> QED BY <1>4, <1>10, <2>1, <2>2
<1> QED BY <1>1, <1>2, <1>3, <1>7, <1>8, <1>9, <1>10

LEMMA TailsAre ==
  ASSUME NEW S, NEW L \in Seq(S)
  PROVE  /\ \A t : t \in Tails(L) <=> \E k \in 1 .. Len(L) + 1 : LeftAt(t, L, k)
         /\ LeftAt(L, L, 1) /\ LeftAt(<<>>, L, Len(L) + 1)
         /\ L \in Tails(L) /\ <<>> \in Tails(L)
<1>1. Len(L) \in Nat
  BY LenProperties
<1>2. SubSeq(L, 1, Len(L)) = L /\ SubSeq(L, Len(L) + 1, Len(L)) = <<>>
  BY <1>1, SubSeqFull, SubSeqEmpty
<1>3. \A t : t \in Tails(L) <=> \E k \in 1 .. Len(L) + 1 : LeftAt(t, L, k)
  BY DEF Tails, LeftAt
<1>4. LeftAt(L, L, 1) /\ LeftAt(<<>>, L, Len(L) + 1)
  BY <1>1, <1>2 DEF LeftAt
<1> QED BY <1>1, <1>3, <1>4

-----------------------------------------------------------------------------
(* The lists of the code. *)

LEMMA OneOf ==
  ASSUME NEW i \in 1 .. 27
  PROVE  i = 1 \/ i = 2 \/ i = 3 \/ i = 4 \/ i = 5 \/ i = 6 \/ i = 7 \/ i = 8
         \/ i = 9 \/ i = 10 \/ i = 11 \/ i = 12 \/ i = 13 \/ i = 14 \/ i = 15
         \/ i = 16 \/ i = 17 \/ i = 18 \/ i = 19 \/ i = 20 \/ i = 21 \/ i = 22
         \/ i = 23 \/ i = 24 \/ i = 25 \/ i = 26 \/ i = 27
OBVIOUS

(* The lists, written out.                                                  *)
LEMMA ModuleInitIs ==
  /\ ModuleInit \in Seq(Names) /\ Len(ModuleInit) = 4
  /\ ModuleInit[1] = "major" /\ ModuleInit[2] = "class"
  /\ ModuleInit[3] = "classfile" /\ ModuleInit[4] = "driver"
<1>1. ModuleInit \in Seq(Names) /\ Len(ModuleInit) = 4
  BY DEF ModuleInit, Names
<1>2. /\ ModuleInit[1] = "major" /\ ModuleInit[2] = "class"
      /\ ModuleInit[3] = "classfile" /\ ModuleInit[4] = "driver"
  BY DEF ModuleInit
<1> QED BY <1>1, <1>2

LEMMA ModuleExitIs ==
  /\ ModuleExit \in Seq(Names) /\ Len(ModuleExit) = 3
  /\ ModuleExit[1] = "classfile" /\ ModuleExit[2] = "class"
  /\ ModuleExit[3] = "major"
<1>1. ModuleExit \in Seq(Names) /\ Len(ModuleExit) = 3
  BY DEF ModuleExit, Names
<1>2. /\ ModuleExit[1] = "classfile" /\ ModuleExit[2] = "class"
      /\ ModuleExit[3] = "major"
  BY DEF ModuleExit
<1> QED BY <1>1, <1>2

LEMMA ProbingIs ==
  /\ Probing \in Seq(Names) /\ Len(Probing) = 21
  /\ Probing[1] = "alloc" /\ Probing[2] = "resource" /\ Probing[3] = "sys"
  /\ Probing[4] = "region" /\ Probing[5] = "locks" /\ Probing[6] = "lock"
  /\ Probing[7] = "ids" /\ Probing[8] = "pm" /\ Probing[9] = "mem"
  /\ Probing[10] = "queue" /\ Probing[11] = "dpm" /\ Probing[12] = "hw"
  /\ Probing[13] = "thread" /\ Probing[14] = "irq" /\ Probing[15] = "suspend"
  /\ Probing[16] = "unlock" /\ Probing[17] = "fops" /\ Probing[18] = "minor"
  /\ Probing[19] = "cdev" /\ Probing[20] = "node" /\ Probing[21] = "sysfs"
<1>1. Probing \in Seq(Names) /\ Len(Probing) = 21
  BY DEF Probing, DeviceInit, CreateCdev, Names
<1>2. /\ Probing[1] = "alloc" /\ Probing[2] = "resource" /\ Probing[3] = "sys"
      /\ Probing[4] = "region" /\ Probing[5] = "locks" /\ Probing[6] = "lock"
      /\ Probing[7] = "ids" /\ Probing[8] = "pm" /\ Probing[9] = "mem"
      /\ Probing[10] = "queue" /\ Probing[11] = "dpm" /\ Probing[12] = "hw"
      /\ Probing[13] = "thread" /\ Probing[14] = "irq"
      /\ Probing[15] = "suspend" /\ Probing[16] = "unlock"
      /\ Probing[17] = "fops" /\ Probing[18] = "minor" /\ Probing[19] = "cdev"
      /\ Probing[20] = "node" /\ Probing[21] = "sysfs"
  BY DEF Probing, DeviceInit, CreateCdev
<1> QED BY <1>1, <1>2

LEMMA RemovingSteps ==
  /\ Removing[1] = "stop" /\ Removing[2] = "join" /\ Removing[3] = "await"
  /\ Removing[4] = "thread" /\ Removing[5] = "lock" /\ Removing[6] = "resume"
  /\ Removing[7] = "hw" /\ Removing[8] = "irq" /\ Removing[9] = "queue"
  /\ Removing[10] = "unlock" /\ Removing[11] = "contexts" /\ Removing[12] = "lock"
  /\ Removing[13] = "mem" /\ Removing[14] = "pm" /\ Removing[15] = "dpm"
  /\ Removing[16] = "ids" /\ Removing[17] = "unlock" /\ Removing[18] = "lock"
  /\ Removing[19] = "sys" /\ Removing[20] = "region" /\ Removing[21] = "sysfs"
  /\ Removing[22] = "node" /\ Removing[23] = "cdev" /\ Removing[24] = "minor"
  /\ Removing[25] = "unlock" /\ Removing[26] = "locks" /\ Removing[27] = "alloc"
BY DEF Removing, DeviceDeinit, InferenceDeinit, DestroyCdev

LEMMA RemovingIs ==
  /\ Removing \in Seq(Names) /\ Len(Removing) = 27
  /\ Removing[1] = "stop" /\ Removing[2] = "join" /\ Removing[3] = "await"
  /\ Removing[4] = "thread" /\ Removing[5] = "lock" /\ Removing[6] = "resume"
  /\ Removing[7] = "hw" /\ Removing[8] = "irq" /\ Removing[9] = "queue"
  /\ Removing[10] = "unlock" /\ Removing[11] = "contexts" /\ Removing[12] = "lock"
  /\ Removing[13] = "mem" /\ Removing[14] = "pm" /\ Removing[15] = "dpm"
  /\ Removing[16] = "ids" /\ Removing[17] = "unlock" /\ Removing[18] = "lock"
  /\ Removing[19] = "sys" /\ Removing[20] = "region" /\ Removing[21] = "sysfs"
  /\ Removing[22] = "node" /\ Removing[23] = "cdev" /\ Removing[24] = "minor"
  /\ Removing[25] = "unlock" /\ Removing[26] = "locks" /\ Removing[27] = "alloc"
<1>1. Removing \in Seq(Names) /\ Len(Removing) = 27
  BY DEF Removing, DeviceDeinit, InferenceDeinit, DestroyCdev, Names
<1> QED BY <1>1, RemovingSteps

LEMMA UndoInitIs ==
  /\ UndoInit \in Seq(Names) /\ Len(UndoInit) = 7
  /\ UndoInit[1] = "queue" /\ UndoInit[2] = "mem" /\ UndoInit[3] = "pm"
  /\ UndoInit[4] = "ids" /\ UndoInit[5] = "unlock" /\ UndoInit[6] = "region"
  /\ UndoInit[7] = "alloc"
<1>1. UndoInit \in Seq(Names) /\ Len(UndoInit) = 7
  BY DEF UndoInit, Names
<1>2. /\ UndoInit[1] = "queue" /\ UndoInit[2] = "mem" /\ UndoInit[3] = "pm"
      /\ UndoInit[4] = "ids" /\ UndoInit[5] = "unlock"
      /\ UndoInit[6] = "region" /\ UndoInit[7] = "alloc"
  BY DEF UndoInit
<1> QED BY <1>1, <1>2

LEMMA UndoCdevSteps ==
  /\ UndoCdev[1] = "node" /\ UndoCdev[2] = "cdev" /\ UndoCdev[3] = "stop"
  /\ UndoCdev[4] = "join" /\ UndoCdev[5] = "await" /\ UndoCdev[6] = "thread"
  /\ UndoCdev[7] = "lock" /\ UndoCdev[8] = "resume" /\ UndoCdev[9] = "hw"
  /\ UndoCdev[10] = "irq" /\ UndoCdev[11] = "queue" /\ UndoCdev[12] = "unlock"
  /\ UndoCdev[13] = "contexts" /\ UndoCdev[14] = "lock" /\ UndoCdev[15] = "mem"
  /\ UndoCdev[16] = "pm" /\ UndoCdev[17] = "dpm" /\ UndoCdev[18] = "ids"
  /\ UndoCdev[19] = "unlock" /\ UndoCdev[20] = "region" /\ UndoCdev[21] = "alloc"
BY DEF UndoCdev, DeviceDeinit, InferenceDeinit

LEMMA UndoCdevIs ==
  /\ UndoCdev \in Seq(Names) /\ Len(UndoCdev) = 21
  /\ UndoCdev[1] = "node" /\ UndoCdev[2] = "cdev" /\ UndoCdev[3] = "stop"
  /\ UndoCdev[4] = "join" /\ UndoCdev[5] = "await" /\ UndoCdev[6] = "thread"
  /\ UndoCdev[7] = "lock" /\ UndoCdev[8] = "resume" /\ UndoCdev[9] = "hw"
  /\ UndoCdev[10] = "irq" /\ UndoCdev[11] = "queue" /\ UndoCdev[12] = "unlock"
  /\ UndoCdev[13] = "contexts" /\ UndoCdev[14] = "lock" /\ UndoCdev[15] = "mem"
  /\ UndoCdev[16] = "pm" /\ UndoCdev[17] = "dpm" /\ UndoCdev[18] = "ids"
  /\ UndoCdev[19] = "unlock" /\ UndoCdev[20] = "region" /\ UndoCdev[21] = "alloc"
<1>1. UndoCdev \in Seq(Names) /\ Len(UndoCdev) = 21
  BY DEF UndoCdev, DeviceDeinit, InferenceDeinit, Names
<1> QED BY <1>1, UndoCdevSteps

(* P gives the last place of each step of L.                                *)
Ranked(L, P) ==
  /\ \A x \in DOMAIN P : P[x] \in 1 .. Len(L) /\ L[P[x]] = x
  /\ \A i \in 1 .. Len(L) : L[i] \in DOMAIN P /\ i <= P[L[i]]

LEMMA RankIs ==
  ASSUME NEW S, NEW L \in Seq(S), NEW t, NEW k, LeftAt(t, L, k), NEW P, Ranked(L, P)
  PROVE  \A x : x \in Ahead(t) <=> x \in DOMAIN P /\ k <= P[x]
<1>1. /\ Len(L) \in Nat /\ k \in 1 .. Len(L) + 1
      /\ \A x : x \in Ahead(t) <=> \E i \in k .. Len(L) : L[i] = x
  BY LeftIs, AheadIs
<1>2. ASSUME NEW x, NEW i \in k .. Len(L), L[i] = x
      PROVE  x \in DOMAIN P /\ k <= P[x]
  <2>1. i \in 1 .. Len(L) /\ k <= i
    BY <1>1
  <2>2. x \in DOMAIN P /\ i <= P[x] /\ P[x] \in 1 .. Len(L)
    BY <1>2, <2>1 DEF Ranked
  <2> QED BY <1>1, <2>1, <2>2
<1>3. ASSUME NEW x \in DOMAIN P, k <= P[x]
      PROVE  P[x] \in k .. Len(L) /\ L[P[x]] = x
  BY <1>1, <1>3 DEF Ranked
<1> QED BY <1>1, <1>2, <1>3

(* t is what is left of L, of n steps, before its step k. *)
Placed(t, L, P, n, k) ==
  /\ k \in 1 .. n + 1 /\ LeftAt(t, L, k)
  /\ t = <<>> <=> k = n + 1
  /\ t # <<>> => k \in 1 .. n /\ Head(t) = L[k] /\ LeftAt(Tail(t), L, k + 1)
  /\ \A x : x \in Ahead(t) <=> x \in DOMAIN P /\ k <= P[x]
  /\ Inside(t) <=> \E i \in k .. n : L[i] = "unlock" /\ \A j \in k .. i : L[j] # "lock"

LEMMA LeftIsPlaced ==
  ASSUME NEW S, NEW L \in Seq(S), NEW n, Len(L) = n, NEW P, Ranked(L, P),
         NEW t, NEW k, LeftAt(t, L, k)
  PROVE  Placed(t, L, P, n, k)
<1>1. k \in 1 .. n + 1 /\ (t = <<>> <=> k = n + 1)
  BY LeftIs
<1>2. t # <<>> => k \in 1 .. n /\ Head(t) = L[k] /\ LeftAt(Tail(t), L, k + 1)
  BY OneDone
<1>3. \A x : x \in Ahead(t) <=> x \in DOMAIN P /\ k <= P[x]
  BY RankIs
<1>4. Inside(t) <=> \E i \in k .. n : L[i] = "unlock" /\ \A j \in k .. i : L[j] # "lock"
  BY AheadIs
<1> QED BY <1>1, <1>2, <1>3, <1>4 DEF Placed

(* Whatever is left of a list is left before one of its steps.              *)
LEMMA TailIsPlaced ==
  ASSUME NEW S, NEW L \in Seq(S), NEW n, Len(L) = n, NEW P, Ranked(L, P),
         NEW t \in Tails(L)
  PROVE  \E k : Placed(t, L, P, n, k)
BY TailsAre, LeftIsPlaced

LEMMA NextIsPlaced ==
  ASSUME NEW S, NEW L \in Seq(S), NEW n, Len(L) = n, NEW P, Ranked(L, P),
         NEW t, NEW k, Placed(t, L, P, n, k), t # <<>>
  PROVE  Placed(Tail(t), L, P, n, k + 1)
<1>1. LeftAt(Tail(t), L, k + 1)
  BY DEF Placed
<1> QED BY <1>1, LeftIsPlaced

(* The last places of the steps.                                            *)
ModuleInitAt ==
  [major |-> 1, class |-> 2, classfile |-> 3, driver |-> 4]
ModuleExitAt ==
  [classfile |-> 1, class |-> 2, major |-> 3]
ProbingAt ==
  [alloc |-> 1, resource |-> 2, sys |-> 3, region |-> 4,
  locks |-> 5, lock |-> 6, ids |-> 7, pm |-> 8, mem |-> 9, queue |-> 10,
  dpm |-> 11, hw |-> 12, thread |-> 13, irq |-> 14, suspend |-> 15,
  unlock |-> 16, fops |-> 17, minor |-> 18, cdev |-> 19, node |-> 20,
  sysfs |-> 21]
RemovingAt ==
  [stop |-> 1, join |-> 2, await |-> 3, thread |-> 4,
  lock |-> 18, resume |-> 6, hw |-> 7, irq |-> 8, queue |-> 9, unlock |-> 25,
  contexts |-> 11, mem |-> 13, pm |-> 14, dpm |-> 15, ids |-> 16, sys |-> 19,
  region |-> 20, sysfs |-> 21, node |-> 22, cdev |-> 23, minor |-> 24,
  locks |-> 26, alloc |-> 27]
UndoInitAt ==
  [queue |-> 1, mem |-> 2, pm |-> 3, ids |-> 4, unlock |-> 5,
  region |-> 6, alloc |-> 7]
UndoCdevAt ==
  [node |-> 1, cdev |-> 2, stop |-> 3, join |-> 4, await |-> 5,
  thread |-> 6, lock |-> 14, resume |-> 8, hw |-> 9, irq |-> 10, queue |-> 11,
  unlock |-> 19, contexts |-> 13, mem |-> 15, pm |-> 16, dpm |-> 17,
  ids |-> 18, region |-> 20, alloc |-> 21]

LEMMA ModuleInitRanks ==
  Ranked(ModuleInit, ModuleInitAt)
<1>1. /\ DOMAIN ModuleInitAt = {"major", "class", "classfile", "driver"}
      /\ ModuleInitAt["major"] = 1 /\ ModuleInitAt["class"] = 2
      /\ ModuleInitAt["classfile"] = 3 /\ ModuleInitAt["driver"] = 4
  BY DEF ModuleInitAt
<1>2. \A x \in DOMAIN ModuleInitAt : ModuleInitAt[x] \in 1 .. 4 /\ ModuleInit[ModuleInitAt[x]] = x
  BY <1>1, ModuleInitIs
<1>3. \A i \in 1 .. 4 : ModuleInit[i] \in DOMAIN ModuleInitAt /\ i <= ModuleInitAt[ModuleInit[i]]
  BY <1>1, ModuleInitIs, OneOf
<1> QED BY <1>2, <1>3, ModuleInitIs DEF Ranked

LEMMA ModuleExitRanks ==
  Ranked(ModuleExit, ModuleExitAt)
<1>1. /\ DOMAIN ModuleExitAt = {"classfile", "class", "major"}
      /\ ModuleExitAt["classfile"] = 1 /\ ModuleExitAt["class"] = 2
      /\ ModuleExitAt["major"] = 3
  BY DEF ModuleExitAt
<1>2. \A x \in DOMAIN ModuleExitAt : ModuleExitAt[x] \in 1 .. 3 /\ ModuleExit[ModuleExitAt[x]] = x
  BY <1>1, ModuleExitIs
<1>3. \A i \in 1 .. 3 : ModuleExit[i] \in DOMAIN ModuleExitAt /\ i <= ModuleExitAt[ModuleExit[i]]
  BY <1>1, ModuleExitIs, OneOf
<1> QED BY <1>2, <1>3, ModuleExitIs DEF Ranked

LEMMA ProbingRanks ==
  Ranked(Probing, ProbingAt)
<1>1. /\ DOMAIN ProbingAt = {"alloc", "resource", "sys", "region", "locks", "lock", "ids",
                             "pm", "mem", "queue", "dpm", "hw", "thread", "irq", "suspend",
                             "unlock", "fops", "minor", "cdev", "node", "sysfs"}
      /\ ProbingAt["alloc"] = 1 /\ ProbingAt["resource"] = 2 /\ ProbingAt["sys"] = 3
      /\ ProbingAt["region"] = 4 /\ ProbingAt["locks"] = 5 /\ ProbingAt["lock"] = 6
      /\ ProbingAt["ids"] = 7 /\ ProbingAt["pm"] = 8 /\ ProbingAt["mem"] = 9
      /\ ProbingAt["queue"] = 10 /\ ProbingAt["dpm"] = 11 /\ ProbingAt["hw"] = 12
      /\ ProbingAt["thread"] = 13 /\ ProbingAt["irq"] = 14 /\ ProbingAt["suspend"] = 15
      /\ ProbingAt["unlock"] = 16 /\ ProbingAt["fops"] = 17 /\ ProbingAt["minor"] = 18
      /\ ProbingAt["cdev"] = 19 /\ ProbingAt["node"] = 20 /\ ProbingAt["sysfs"] = 21
  BY DEF ProbingAt
<1>2. \A x \in DOMAIN ProbingAt : ProbingAt[x] \in 1 .. 21 /\ Probing[ProbingAt[x]] = x
  BY <1>1, ProbingIs
<1>3. \A i \in 1 .. 21 : Probing[i] \in DOMAIN ProbingAt /\ i <= ProbingAt[Probing[i]]
  BY <1>1, ProbingIs, OneOf, SMTT(30)
<1> QED BY <1>2, <1>3, ProbingIs DEF Ranked

LEMMA RemovingRanks ==
  Ranked(Removing, RemovingAt)
<1>1. /\ DOMAIN RemovingAt = {"stop", "join", "await", "thread", "lock", "resume", "hw",
                              "irq", "queue", "unlock", "contexts", "mem", "pm", "dpm",
                              "ids", "sys", "region", "sysfs", "node", "cdev", "minor",
                              "locks", "alloc"}
      /\ RemovingAt["stop"] = 1 /\ RemovingAt["join"] = 2 /\ RemovingAt["await"] = 3
      /\ RemovingAt["thread"] = 4 /\ RemovingAt["lock"] = 18 /\ RemovingAt["resume"] = 6
      /\ RemovingAt["hw"] = 7 /\ RemovingAt["irq"] = 8 /\ RemovingAt["queue"] = 9
      /\ RemovingAt["unlock"] = 25 /\ RemovingAt["contexts"] = 11 /\ RemovingAt["mem"] = 13
      /\ RemovingAt["pm"] = 14 /\ RemovingAt["dpm"] = 15 /\ RemovingAt["ids"] = 16
      /\ RemovingAt["sys"] = 19 /\ RemovingAt["region"] = 20 /\ RemovingAt["sysfs"] = 21
      /\ RemovingAt["node"] = 22 /\ RemovingAt["cdev"] = 23 /\ RemovingAt["minor"] = 24
      /\ RemovingAt["locks"] = 26 /\ RemovingAt["alloc"] = 27
  BY DEF RemovingAt
<1>2. ASSUME NEW x \in DOMAIN RemovingAt
      PROVE  RemovingAt[x] \in 1 .. 27 /\ Removing[RemovingAt[x]] = x
  <2>1. CASE x \in {"stop", "join", "await", "thread", "lock", "resume", "hw", "irq"}
    BY <1>1, <2>1, RemovingSteps
  <2>2. CASE x \in {"queue", "unlock", "contexts", "mem", "pm", "dpm", "ids", "sys"}
    BY <1>1, <2>2, RemovingSteps
  <2>3. CASE x \in {"region", "sysfs", "node", "cdev", "minor", "locks", "alloc"}
    BY <1>1, <2>3, RemovingSteps
  <2> QED BY <1>1, <2>1, <2>2, <2>3
<1>3. ASSUME NEW i \in 1 .. 27
      PROVE  Removing[i] \in DOMAIN RemovingAt /\ i <= RemovingAt[Removing[i]]
  <2>1. CASE i = 1 \/ i = 2 \/ i = 3 \/ i = 4 \/ i = 5 \/ i = 6 \/ i = 7 \/ i = 8 \/ i = 9
    BY <1>1, <2>1, RemovingSteps
  <2>2. CASE i = 10 \/ i = 11 \/ i = 12 \/ i = 13 \/ i = 14 \/ i = 15 \/ i = 16 \/ i = 17
           \/ i = 18
    BY <1>1, <2>2, RemovingSteps
  <2>3. CASE i = 19 \/ i = 20 \/ i = 21 \/ i = 22 \/ i = 23 \/ i = 24 \/ i = 25 \/ i = 26
           \/ i = 27
    BY <1>1, <2>3, RemovingSteps
  <2> QED BY OneOf, <2>1, <2>2, <2>3
<1> QED BY <1>2, <1>3, RemovingIs DEF Ranked

LEMMA UndoInitRanks ==
  Ranked(UndoInit, UndoInitAt)
<1>1. /\ DOMAIN UndoInitAt = {"queue", "mem", "pm", "ids", "unlock", "region", "alloc"}
      /\ UndoInitAt["queue"] = 1 /\ UndoInitAt["mem"] = 2 /\ UndoInitAt["pm"] = 3
      /\ UndoInitAt["ids"] = 4 /\ UndoInitAt["unlock"] = 5 /\ UndoInitAt["region"] = 6
      /\ UndoInitAt["alloc"] = 7
  BY DEF UndoInitAt
<1>2. \A x \in DOMAIN UndoInitAt : UndoInitAt[x] \in 1 .. 7 /\ UndoInit[UndoInitAt[x]] = x
  BY <1>1, UndoInitIs
<1>3. \A i \in 1 .. 7 : UndoInit[i] \in DOMAIN UndoInitAt /\ i <= UndoInitAt[UndoInit[i]]
  BY <1>1, UndoInitIs, OneOf
<1> QED BY <1>2, <1>3, UndoInitIs DEF Ranked

LEMMA UndoCdevRanks ==
  Ranked(UndoCdev, UndoCdevAt)
<1>1. /\ DOMAIN UndoCdevAt = {"node", "cdev", "stop", "join", "await", "thread", "lock",
                              "resume", "hw", "irq", "queue", "unlock", "contexts", "mem",
                              "pm", "dpm", "ids", "region", "alloc"}
      /\ UndoCdevAt["node"] = 1 /\ UndoCdevAt["cdev"] = 2 /\ UndoCdevAt["stop"] = 3
      /\ UndoCdevAt["join"] = 4 /\ UndoCdevAt["await"] = 5 /\ UndoCdevAt["thread"] = 6
      /\ UndoCdevAt["lock"] = 14 /\ UndoCdevAt["resume"] = 8 /\ UndoCdevAt["hw"] = 9
      /\ UndoCdevAt["irq"] = 10 /\ UndoCdevAt["queue"] = 11 /\ UndoCdevAt["unlock"] = 19
      /\ UndoCdevAt["contexts"] = 13 /\ UndoCdevAt["mem"] = 15 /\ UndoCdevAt["pm"] = 16
      /\ UndoCdevAt["dpm"] = 17 /\ UndoCdevAt["ids"] = 18 /\ UndoCdevAt["region"] = 20
      /\ UndoCdevAt["alloc"] = 21
  BY DEF UndoCdevAt
<1>2. ASSUME NEW x \in DOMAIN UndoCdevAt
      PROVE  UndoCdevAt[x] \in 1 .. 21 /\ UndoCdev[UndoCdevAt[x]] = x
  <2>1. CASE x \in {"node", "cdev", "stop", "join", "await", "thread", "lock", "resume",
                    "hw", "irq"}
    BY <1>1, <2>1, UndoCdevSteps
  <2>2. CASE x \in {"queue", "unlock", "contexts", "mem", "pm", "dpm", "ids", "region",
                    "alloc"}
    BY <1>1, <2>2, UndoCdevSteps
  <2> QED BY <1>1, <2>1, <2>2
<1>3. ASSUME NEW i \in 1 .. 21
      PROVE  UndoCdev[i] \in DOMAIN UndoCdevAt /\ i <= UndoCdevAt[UndoCdev[i]]
  <2>1. CASE i = 1 \/ i = 2 \/ i = 3 \/ i = 4 \/ i = 5 \/ i = 6 \/ i = 7 \/ i = 8 \/ i = 9
           \/ i = 10 \/ i = 11
    BY <1>1, <2>1, UndoCdevSteps
  <2>2. CASE i = 12 \/ i = 13 \/ i = 14 \/ i = 15 \/ i = 16 \/ i = 17 \/ i = 18 \/ i = 19
           \/ i = 20 \/ i = 21
    BY <1>1, <2>2, UndoCdevSteps
  <2> QED BY OneOf, <2>1, <2>2
<1> QED BY <1>2, <1>3, UndoCdevIs DEF Ranked

-----------------------------------------------------------------------------
(* Orders that the lists keep. *)

(* What a list that takes keeps to: a step comes after the steps whose      *)
(* resources it uses, and before those that would take what it needs away.  *)
TakeOrder(t) ==
  /\ t # <<>> =>
       /\ Head(t) \in ModuleSteps \cup DeviceSteps
       /\ Head(t) \notin Ahead(Tail(t))
       /\ Head(t) = "lock" => Inside(Tail(t)) /\ "thread" \in Ahead(t)
       /\ Head(t) = "unlock" => ~Inside(Tail(t))
       /\ Head(t) \in {"lock", "unlock"} => "locks" \notin Ahead(t)
       /\ Head(t) \in {"pm", "dpm"} => "suspend" \in Ahead(Tail(t))
       /\ Head(t) = "hw" => {"region", "pm"} \cap Ahead(t) = {} /\ "suspend" \in Ahead(t)
       /\ Head(t) = "thread" => "queue" \notin Ahead(t)
       /\ Head(t) = "suspend" => {"pm", "dpm", "hw", "thread"} \cap Ahead(t) = {}
  /\ "thread" \notin Ahead(t) =>
       {"locks", "queue", "dpm", "hw", "region", "pm"} \cap Ahead(t) = {}
  /\ "suspend" \in Ahead(t) /\ "thread" \notin Ahead(t) => Inside(t)
  /\ Ahead(t) \subseteq ModuleSteps \cup DeviceSteps

LEMMA ProbingIsPlaced ==
  ASSUME NEW t, NEW k, Placed(t, Probing, ProbingAt, 21, k)
  PROVE  /\ k \in 1 .. 22
         /\ "region" \in Ahead(t) <=> k <= 4
         /\ "locks" \in Ahead(t) <=> k <= 5
         /\ "pm" \in Ahead(t) <=> k <= 8
         /\ "queue" \in Ahead(t) <=> k <= 10
         /\ "dpm" \in Ahead(t) <=> k <= 11
         /\ "hw" \in Ahead(t) <=> k <= 12
         /\ "thread" \in Ahead(t) <=> k <= 13
         /\ "suspend" \in Ahead(t) <=> k <= 15
         /\ Inside(t) <=> k \in 7 .. 16
<1>1. \A i \in 1 .. 21 : /\ Probing[i] = "lock" <=> i = 6
                         /\ Probing[i] = "unlock" <=> i = 16
  BY ProbingIs, OneOf, SMTT(30)
<1>2. k \in 1 .. 22 /\ \A x : x \in Ahead(t) <=> x \in DOMAIN ProbingAt /\ k <= ProbingAt[x]
  BY DEF Placed
<1>3. ASSUME Inside(t)
      PROVE  k \in 7 .. 16
  <2>1. PICK i \in k .. 21 : Probing[i] = "unlock" /\ \A j \in k .. i : Probing[j] # "lock"
    BY <1>3 DEF Placed
  <2>2. i = 16 /\ (k <= 6 => Probing[6] # "lock")
    BY <1>1, <1>2, <2>1
  <2> QED BY <1>1, <1>2, <2>1, <2>2
<1>4. ASSUME k \in 7 .. 16
      PROVE  Inside(t)
  <2>1. 16 \in k .. 21 /\ Probing[16] = "unlock" /\ \A j \in k .. 16 : Probing[j] # "lock"
    BY <1>1, <1>4
  <2> QED BY <2>1 DEF Placed
<1> QED BY <1>2, <1>3, <1>4 DEF ProbingAt

LEMMA ProbingOrder ==
  ASSUME NEW t \in Tails(Probing)
  PROVE  TakeOrder(t)
<1>1. Probing \in Seq(Names) /\ Len(Probing) = 21
  BY ProbingIs
<1>2. PICK k : Placed(t, Probing, ProbingAt, 21, k)
  BY <1>1, ProbingRanks, TailIsPlaced
<1>3. ASSUME t # <<>>
      PROVE  Placed(Tail(t), Probing, ProbingAt, 21, k + 1)
  BY <1>1, <1>2, <1>3, ProbingRanks, NextIsPlaced
<1>4. ASSUME NEW x, x \in Ahead(t)
      PROVE  x \in DeviceSteps
  BY <1>1, <1>2, <1>4, ProbingRanks, SMTT(30) DEF Placed, Ranked, DeviceSteps
<1>5. ASSUME t # <<>>
      PROVE  /\ k \in 1 .. 21 /\ Head(t) = Probing[k] /\ Head(t) \in Ahead(t)
             /\ Head(t) \notin Ahead(Tail(t))
             /\ Head(t) = "lock" => k = 6
             /\ Head(t) = "unlock" => k = 16
             /\ Head(t) = "pm" => k = 8
             /\ Head(t) = "dpm" => k = 11
             /\ Head(t) = "hw" => k = 12
             /\ Head(t) = "thread" => k = 13
             /\ Head(t) = "suspend" => k = 15
  <2>1. k \in 1 .. 21 /\ Head(t) = Probing[k]
    BY <1>2, <1>5 DEF Placed
  <2>2. k \in 1 .. 21 /\ ProbingAt[Probing[k]] = k
    BY <2>1, ProbingIs, OneOf, SMTT(30) DEF ProbingAt
  <2>3. Head(t) \in DOMAIN ProbingAt /\ ProbingAt[Head(t)] = k
    BY <1>1, <2>1, <2>2, ProbingRanks DEF Ranked
  <2>4. Head(t) \in Ahead(t) /\ Head(t) \notin Ahead(Tail(t))
    BY <1>2, <1>3, <1>5, <2>1, <2>3 DEF Placed
  <2> QED BY <2>1, <2>3, <2>4 DEF ProbingAt
<1>6. ASSUME t # <<>>
      PROVE  /\ Head(t) = "lock" => Inside(Tail(t))
             /\ Head(t) = "unlock" => ~Inside(Tail(t))
             /\ Head(t) \in {"pm", "dpm"} => "suspend" \in Ahead(Tail(t))
  BY <1>3, <1>5, <1>6, ProbingIsPlaced
<1> QED BY <1>2, <1>4, <1>5, <1>6, ProbingIsPlaced, SMTT(30) DEF TakeOrder

(* What a list that gives back keeps to: a step comes before the steps that *)
(* free what it uses.                                                       *)
GiveOrder(t) ==
  /\ t # <<>> =>
       /\ Head(t) \in {"lock", "unlock"} \/ Head(t) \notin Ahead(Tail(t))
       /\ Head(t) = "lock" => Inside(Tail(t)) /\ "join" \notin Ahead(t)
       /\ Head(t) = "unlock" => ~Inside(Tail(t))
       /\ Head(t) = "locks" => {"lock", "unlock"} \cap Ahead(Tail(t)) = {}
       /\ Head(t) \in {"stop", "join", "await"} => "thread" \in Ahead(t)
       /\ Head(t) \in {"stop", "thread"} => "queue" \in Ahead(t)
       /\ Head(t) = "join" => "stop" \notin Ahead(t)
       /\ Head(t) = "thread" => "join" \notin Ahead(t)
       /\ Head(t) = "hw" => {"region", "pm"} \subseteq Ahead(t) /\ "resume" \notin Ahead(t)
       /\ Head(t) = "resume" => {"region", "pm", "hw"} \subseteq Ahead(t)
       /\ Head(t) = "pm" => {"resume", "join"} \cap Ahead(t) = {}
       /\ Head(t) = "dpm" => "pm" \notin Ahead(t)
  /\ "join" \in Ahead(t) =>
       {"resume", "pm", "queue", "dpm", "hw", "region", "lock"} \subseteq Ahead(t)
  /\ "stop" \in Ahead(t) => "join" \in Ahead(t)
  /\ {"map", "suspend"} \cap Ahead(t) = {}

LEMMA ModuleExitIsPlaced ==
  ASSUME NEW t, NEW k, Placed(t, ModuleExit, ModuleExitAt, 3, k)
  PROVE  /\ k \in 1 .. 4
         /\ {"stop", "join", "await", "thread", "lock", "resume", "hw",
            "queue", "unlock", "pm", "dpm", "region", "locks", "map",
            "suspend"} \cap Ahead(t) = {}
         /\ Inside(t) <=> FALSE
<1>1. \A i \in 1 .. 3 : /\ ModuleExit[i] = "lock" <=> FALSE
                        /\ ModuleExit[i] = "unlock" <=> FALSE
  BY ModuleExitIs, OneOf
<1>2. k \in 1 .. 4 /\ \A x : x \in Ahead(t) <=> x \in DOMAIN ModuleExitAt /\ k <= ModuleExitAt[x]
  BY DEF Placed
<1>3. ~Inside(t)
  BY <1>1, <1>2 DEF Placed
<1> QED BY <1>2, <1>3 DEF ModuleExitAt

LEMMA ModuleExitOrder ==
  ASSUME NEW t \in Tails(ModuleExit)
  PROVE  GiveOrder(t)
<1>1. ModuleExit \in Seq(Names) /\ Len(ModuleExit) = 3
  BY ModuleExitIs
<1>2. PICK k : Placed(t, ModuleExit, ModuleExitAt, 3, k)
  BY <1>1, ModuleExitRanks, TailIsPlaced
<1>3. ASSUME t # <<>>
      PROVE  Placed(Tail(t), ModuleExit, ModuleExitAt, 3, k + 1)
  BY <1>1, <1>2, <1>3, ModuleExitRanks, NextIsPlaced
<1>4. ASSUME t # <<>>
      PROVE  /\ k \in 1 .. 3 /\ Head(t) = ModuleExit[k]
             /\ Head(t) \in {"lock", "unlock"} \/ Head(t) \notin Ahead(Tail(t))
             /\ Head(t) \notin {"lock", "unlock", "locks", "stop", "join",
                 "await", "thread", "hw", "resume", "pm", "dpm"}
  <2>1. k \in 1 .. 3 /\ Head(t) = ModuleExit[k]
    BY <1>2, <1>4 DEF Placed
  <2>2. ModuleExitAt[ModuleExit[k]] = k
    BY <2>1, ModuleExitIs, OneOf DEF ModuleExitAt
  <2>3. Head(t) \in {"lock", "unlock"} \/ Head(t) \notin Ahead(Tail(t))
    BY <1>2, <1>3, <1>4, <2>1, <2>2 DEF Placed
  <2> QED BY <2>1, <2>3, ModuleExitIs, OneOf
<1>5. ASSUME t # <<>>
      PROVE  /\ Head(t) = "lock" => Inside(Tail(t))
             /\ Head(t) = "unlock" => ~Inside(Tail(t))
             /\ Head(t) = "locks" => {"lock", "unlock"} \cap Ahead(Tail(t)) = {}
  BY <1>3, <1>4, <1>5, ModuleExitIsPlaced
<1> QED BY <1>2, <1>4, <1>5, ModuleExitIsPlaced DEF GiveOrder

LEMMA RemovingIsPlaced ==
  ASSUME NEW t, NEW k, Placed(t, Removing, RemovingAt, 27, k)
  PROVE  /\ k \in 1 .. 28
         /\ "stop" \in Ahead(t) <=> k <= 1
         /\ "join" \in Ahead(t) <=> k <= 2
         /\ "await" \in Ahead(t) <=> k <= 3
         /\ "thread" \in Ahead(t) <=> k <= 4
         /\ "lock" \in Ahead(t) <=> k <= 18
         /\ "resume" \in Ahead(t) <=> k <= 6
         /\ "hw" \in Ahead(t) <=> k <= 7
         /\ "queue" \in Ahead(t) <=> k <= 9
         /\ "unlock" \in Ahead(t) <=> k <= 25
         /\ "pm" \in Ahead(t) <=> k <= 14
         /\ "dpm" \in Ahead(t) <=> k <= 15
         /\ "region" \in Ahead(t) <=> k <= 20
         /\ "locks" \in Ahead(t) <=> k <= 26
         /\ {"map", "suspend"} \cap Ahead(t) = {}
         /\ Inside(t) <=> k \in 6 .. 10 \/ k \in 13 .. 17 \/ k \in 19 .. 25
<1>1. \A i \in 1 .. 27 : /\ Removing[i] = "lock" <=> i = 5 \/ i = 12 \/ i = 18
                         /\ Removing[i] = "unlock" <=> i = 10 \/ i = 17 \/ i = 25
  BY RemovingSteps, OneOf
<1>2. k \in 1 .. 28 /\ \A x : x \in Ahead(t) <=> x \in DOMAIN RemovingAt /\ k <= RemovingAt[x]
  BY DEF Placed
<1>3. ASSUME Inside(t)
      PROVE  k \in 6 .. 10 \/ k \in 13 .. 17 \/ k \in 19 .. 25
  <2>1. PICK i \in k .. 27 : Removing[i] = "unlock" /\ \A j \in k .. i : Removing[j] # "lock"
    BY <1>3 DEF Placed
  <2>2. i = 10 \/ i = 17 \/ i = 25
    BY <1>1, <1>2, <2>1
  <2>3. \A j \in 1 .. 27 : k <= j /\ j <= i => ~(j = 5 \/ j = 12 \/ j = 18)
    BY <1>1, <1>2, <2>1
  <2> QED BY <1>2, <2>1, <2>2, <2>3
<1>4. ASSUME k \in 6 .. 10 \/ k \in 13 .. 17 \/ k \in 19 .. 25
      PROVE  Inside(t)
  <2>1. \E i \in {10, 17, 25} : k <= i /\ \A j \in k .. i : ~(j = 5 \/ j = 12 \/ j = 18)
    BY <1>2, <1>4
  <2>2. \E i \in k .. 27 : Removing[i] = "unlock" /\ \A j \in k .. i : Removing[j] # "lock"
    BY <1>1, <1>2, <2>1
  <2> QED BY <2>2 DEF Placed
<1> QED BY <1>2, <1>3, <1>4 DEF RemovingAt

LEMMA RemovingOrder ==
  ASSUME NEW t \in Tails(Removing)
  PROVE  GiveOrder(t)
<1>1. Removing \in Seq(Names) /\ Len(Removing) = 27
  BY RemovingIs
<1>2. PICK k : Placed(t, Removing, RemovingAt, 27, k)
  BY <1>1, RemovingRanks, TailIsPlaced
<1>3. ASSUME t # <<>>
      PROVE  Placed(Tail(t), Removing, RemovingAt, 27, k + 1)
  BY <1>1, <1>2, <1>3, RemovingRanks, NextIsPlaced
<1>4. ASSUME t # <<>>
      PROVE  /\ k \in 1 .. 27 /\ Head(t) = Removing[k]
             /\ Head(t) \in {"lock", "unlock"} \/ Head(t) \notin Ahead(Tail(t))
             /\ Head(t) = "lock" => k = 5 \/ k = 12 \/ k = 18
             /\ Head(t) = "unlock" => k = 10 \/ k = 17 \/ k = 25
             /\ Head(t) = "locks" => k = 26
             /\ Head(t) = "stop" => k = 1
             /\ Head(t) = "join" => k = 2
             /\ Head(t) = "await" => k = 3
             /\ Head(t) = "thread" => k = 4
             /\ Head(t) = "hw" => k = 7
             /\ Head(t) = "resume" => k = 6
             /\ Head(t) = "pm" => k = 14
             /\ Head(t) = "dpm" => k = 15
  <2>1. k \in 1 .. 27 /\ Head(t) = Removing[k]
    BY <1>2, <1>4 DEF Placed
  <2>2. Removing[k] \in {"lock", "unlock"} \/ RemovingAt[Removing[k]] = k
    BY <2>1, RemovingSteps, OneOf DEF RemovingAt
  <2>3. Head(t) \in {"lock", "unlock"} \/ Head(t) \notin Ahead(Tail(t))
    BY <1>2, <1>3, <1>4, <2>1, <2>2 DEF Placed
  <2>4. /\ Head(t) = "lock" => k = 5 \/ k = 12 \/ k = 18
        /\ Head(t) = "unlock" => k = 10 \/ k = 17 \/ k = 25
    BY <2>1, RemovingSteps, OneOf
  <2>5. Head(t) \in DOMAIN RemovingAt
    BY <1>1, <2>1, RemovingRanks DEF Ranked
  <2> QED BY <2>1, <2>2, <2>3, <2>4, <2>5 DEF RemovingAt
<1>5. ASSUME t # <<>>
      PROVE  /\ Head(t) = "lock" => Inside(Tail(t))
             /\ Head(t) = "unlock" => ~Inside(Tail(t))
             /\ Head(t) = "locks" => {"lock", "unlock"} \cap Ahead(Tail(t)) = {}
  <2>1. /\ Inside(Tail(t)) <=> k + 1 \in 6 .. 10 \/ k + 1 \in 13 .. 17 \/ k + 1 \in 19 .. 25
        /\ "lock" \in Ahead(Tail(t)) <=> k + 1 <= 18
        /\ "unlock" \in Ahead(Tail(t)) <=> k + 1 <= 25
    BY <1>3, <1>5, RemovingIsPlaced
  <2> QED BY <1>4, <1>5, <2>1, SMTT(30)
<1>6. /\ "join" \in Ahead(t) =>
           {"resume", "pm", "queue", "dpm", "hw", "region", "lock"} \subseteq Ahead(t)
      /\ "stop" \in Ahead(t) => "join" \in Ahead(t)
      /\ {"map", "suspend"} \cap Ahead(t) = {}
  BY <1>2, RemovingIsPlaced
<1>7. ASSUME t # <<>>
      PROVE  /\ Head(t) = "lock" => "join" \notin Ahead(t)
             /\ Head(t) \in {"stop", "join", "await"} => "thread" \in Ahead(t)
             /\ Head(t) \in {"stop", "thread"} => "queue" \in Ahead(t)
             /\ Head(t) = "join" => "stop" \notin Ahead(t)
             /\ Head(t) = "thread" => "join" \notin Ahead(t)
             /\ Head(t) = "hw" => {"region", "pm"} \subseteq Ahead(t) /\ "resume" \notin Ahead(t)
             /\ Head(t) = "resume" => {"region", "pm", "hw"} \subseteq Ahead(t)
             /\ Head(t) = "pm" => {"resume", "join"} \cap Ahead(t) = {}
             /\ Head(t) = "dpm" => "pm" \notin Ahead(t)
  BY <1>2, <1>4, <1>7, RemovingIsPlaced
<1> QED BY <1>4, <1>5, <1>6, <1>7 DEF GiveOrder

LEMMA UndoInitIsPlaced ==
  ASSUME NEW t, NEW k, Placed(t, UndoInit, UndoInitAt, 7, k)
  PROVE  /\ k \in 1 .. 8
         /\ "queue" \in Ahead(t) <=> k <= 1
         /\ "unlock" \in Ahead(t) <=> k <= 5
         /\ "pm" \in Ahead(t) <=> k <= 3
         /\ "region" \in Ahead(t) <=> k <= 6
         /\ {"stop", "join", "await", "thread", "lock", "resume", "hw", "dpm",
            "locks", "map", "suspend"} \cap Ahead(t) = {}
         /\ Inside(t) <=> k \in 1 .. 5
<1>1. \A i \in 1 .. 7 : /\ UndoInit[i] = "lock" <=> FALSE
                        /\ UndoInit[i] = "unlock" <=> i = 5
  BY UndoInitIs, OneOf
<1>2. k \in 1 .. 8 /\ \A x : x \in Ahead(t) <=> x \in DOMAIN UndoInitAt /\ k <= UndoInitAt[x]
  BY DEF Placed
<1>3. ASSUME Inside(t)
      PROVE  k \in 1 .. 5
  <2>1. PICK i \in k .. 7 : UndoInit[i] = "unlock" /\ \A j \in k .. i : UndoInit[j] # "lock"
    BY <1>3 DEF Placed
  <2>2. i = 5
    BY <1>1, <1>2, <2>1
  <2>3. \A j \in 1 .. 7 : k <= j /\ j <= i => ~(FALSE)
    BY <1>1, <1>2, <2>1
  <2> QED BY <1>2, <2>1, <2>2, <2>3
<1>4. ASSUME k \in 1 .. 5
      PROVE  Inside(t)
  <2>1. \E i \in {5} : k <= i /\ \A j \in k .. i : ~(FALSE)
    BY <1>2, <1>4
  <2>2. \E i \in k .. 7 : UndoInit[i] = "unlock" /\ \A j \in k .. i : UndoInit[j] # "lock"
    BY <1>1, <1>2, <2>1
  <2> QED BY <2>2 DEF Placed
<1> QED BY <1>2, <1>3, <1>4 DEF UndoInitAt

LEMMA UndoInitOrder ==
  ASSUME NEW t \in Tails(UndoInit)
  PROVE  GiveOrder(t)
<1>1. UndoInit \in Seq(Names) /\ Len(UndoInit) = 7
  BY UndoInitIs
<1>2. PICK k : Placed(t, UndoInit, UndoInitAt, 7, k)
  BY <1>1, UndoInitRanks, TailIsPlaced
<1>3. ASSUME t # <<>>
      PROVE  Placed(Tail(t), UndoInit, UndoInitAt, 7, k + 1)
  BY <1>1, <1>2, <1>3, UndoInitRanks, NextIsPlaced
<1>4. ASSUME t # <<>>
      PROVE  /\ k \in 1 .. 7 /\ Head(t) = UndoInit[k]
             /\ Head(t) \in {"lock", "unlock"} \/ Head(t) \notin Ahead(Tail(t))
             /\ Head(t) = "unlock" => k = 5
             /\ Head(t) = "pm" => k = 3
             /\ Head(t) \notin {"lock", "locks", "stop", "join", "await",
                 "thread", "hw", "resume", "dpm"}
  <2>1. k \in 1 .. 7 /\ Head(t) = UndoInit[k]
    BY <1>2, <1>4 DEF Placed
  <2>2. UndoInit[k] \in {"lock", "unlock"} \/ UndoInitAt[UndoInit[k]] = k
    BY <2>1, UndoInitIs, OneOf DEF UndoInitAt
  <2>3. Head(t) \in {"lock", "unlock"} \/ Head(t) \notin Ahead(Tail(t))
    BY <1>2, <1>3, <1>4, <2>1, <2>2 DEF Placed
  <2>4. /\ Head(t) = "lock" => FALSE
        /\ Head(t) = "unlock" => k = 5
    BY <2>1, UndoInitIs, OneOf
  <2>5. Head(t) \in DOMAIN UndoInitAt
    BY <1>1, <2>1, UndoInitRanks DEF Ranked
  <2> QED BY <2>1, <2>2, <2>3, <2>4, <2>5 DEF UndoInitAt
<1>5. ASSUME t # <<>>
      PROVE  /\ Head(t) = "lock" => Inside(Tail(t))
             /\ Head(t) = "unlock" => ~Inside(Tail(t))
             /\ Head(t) = "locks" => {"lock", "unlock"} \cap Ahead(Tail(t)) = {}
  BY <1>3, <1>4, <1>5, UndoInitIsPlaced
<1> QED BY <1>2, <1>4, <1>5, UndoInitIsPlaced DEF GiveOrder

LEMMA UndoCdevIsPlaced ==
  ASSUME NEW t, NEW k, Placed(t, UndoCdev, UndoCdevAt, 21, k)
  PROVE  /\ k \in 1 .. 22
         /\ "stop" \in Ahead(t) <=> k <= 3
         /\ "join" \in Ahead(t) <=> k <= 4
         /\ "await" \in Ahead(t) <=> k <= 5
         /\ "thread" \in Ahead(t) <=> k <= 6
         /\ "lock" \in Ahead(t) <=> k <= 14
         /\ "resume" \in Ahead(t) <=> k <= 8
         /\ "hw" \in Ahead(t) <=> k <= 9
         /\ "queue" \in Ahead(t) <=> k <= 11
         /\ "unlock" \in Ahead(t) <=> k <= 19
         /\ "pm" \in Ahead(t) <=> k <= 16
         /\ "dpm" \in Ahead(t) <=> k <= 17
         /\ "region" \in Ahead(t) <=> k <= 20
         /\ {"locks", "map", "suspend"} \cap Ahead(t) = {}
         /\ Inside(t) <=> k \in 8 .. 12 \/ k \in 15 .. 19
<1>1. \A i \in 1 .. 21 : /\ UndoCdev[i] = "lock" <=> i = 7 \/ i = 14
                         /\ UndoCdev[i] = "unlock" <=> i = 12 \/ i = 19
  BY UndoCdevSteps, OneOf
<1>2. k \in 1 .. 22 /\ \A x : x \in Ahead(t) <=> x \in DOMAIN UndoCdevAt /\ k <= UndoCdevAt[x]
  BY DEF Placed
<1>3. ASSUME Inside(t)
      PROVE  k \in 8 .. 12 \/ k \in 15 .. 19
  <2>1. PICK i \in k .. 21 : UndoCdev[i] = "unlock" /\ \A j \in k .. i : UndoCdev[j] # "lock"
    BY <1>3 DEF Placed
  <2>2. i = 12 \/ i = 19
    BY <1>1, <1>2, <2>1
  <2>3. \A j \in 1 .. 21 : k <= j /\ j <= i => ~(j = 7 \/ j = 14)
    BY <1>1, <1>2, <2>1
  <2> QED BY <1>2, <2>1, <2>2, <2>3
<1>4. ASSUME k \in 8 .. 12 \/ k \in 15 .. 19
      PROVE  Inside(t)
  <2>1. \E i \in {12, 19} : k <= i /\ \A j \in k .. i : ~(j = 7 \/ j = 14)
    BY <1>2, <1>4
  <2>2. \E i \in k .. 21 : UndoCdev[i] = "unlock" /\ \A j \in k .. i : UndoCdev[j] # "lock"
    BY <1>1, <1>2, <2>1
  <2> QED BY <2>2 DEF Placed
<1> QED BY <1>2, <1>3, <1>4 DEF UndoCdevAt

LEMMA UndoCdevOrder ==
  ASSUME NEW t \in Tails(UndoCdev)
  PROVE  GiveOrder(t)
<1>1. UndoCdev \in Seq(Names) /\ Len(UndoCdev) = 21
  BY UndoCdevIs
<1>2. PICK k : Placed(t, UndoCdev, UndoCdevAt, 21, k)
  BY <1>1, UndoCdevRanks, TailIsPlaced
<1>3. ASSUME t # <<>>
      PROVE  Placed(Tail(t), UndoCdev, UndoCdevAt, 21, k + 1)
  BY <1>1, <1>2, <1>3, UndoCdevRanks, NextIsPlaced
<1>4. ASSUME t # <<>>
      PROVE  /\ k \in 1 .. 21 /\ Head(t) = UndoCdev[k]
             /\ Head(t) \in {"lock", "unlock"} \/ Head(t) \notin Ahead(Tail(t))
             /\ Head(t) = "lock" => k = 7 \/ k = 14
             /\ Head(t) = "unlock" => k = 12 \/ k = 19
             /\ Head(t) = "stop" => k = 3
             /\ Head(t) = "join" => k = 4
             /\ Head(t) = "await" => k = 5
             /\ Head(t) = "thread" => k = 6
             /\ Head(t) = "hw" => k = 9
             /\ Head(t) = "resume" => k = 8
             /\ Head(t) = "pm" => k = 16
             /\ Head(t) = "dpm" => k = 17
             /\ Head(t) \notin {"locks"}
  <2>1. k \in 1 .. 21 /\ Head(t) = UndoCdev[k]
    BY <1>2, <1>4 DEF Placed
  <2>2. UndoCdev[k] \in {"lock", "unlock"} \/ UndoCdevAt[UndoCdev[k]] = k
    BY <2>1, UndoCdevSteps, OneOf DEF UndoCdevAt
  <2>3. Head(t) \in {"lock", "unlock"} \/ Head(t) \notin Ahead(Tail(t))
    BY <1>2, <1>3, <1>4, <2>1, <2>2 DEF Placed
  <2>4. /\ Head(t) = "lock" => k = 7 \/ k = 14
        /\ Head(t) = "unlock" => k = 12 \/ k = 19
    BY <2>1, UndoCdevSteps, OneOf
  <2>5. Head(t) \in DOMAIN UndoCdevAt
    BY <1>1, <2>1, UndoCdevRanks DEF Ranked
  <2> QED BY <2>1, <2>2, <2>3, <2>4, <2>5 DEF UndoCdevAt
<1>5. ASSUME t # <<>>
      PROVE  /\ Head(t) = "lock" => Inside(Tail(t))
             /\ Head(t) = "unlock" => ~Inside(Tail(t))
             /\ Head(t) = "locks" => {"lock", "unlock"} \cap Ahead(Tail(t)) = {}
  <2>1. /\ Inside(Tail(t)) <=> k + 1 \in 8 .. 12 \/ k + 1 \in 15 .. 19
        /\ "lock" \in Ahead(Tail(t)) <=> k + 1 <= 14
        /\ "unlock" \in Ahead(Tail(t)) <=> k + 1 <= 19
    BY <1>3, <1>5, UndoCdevIsPlaced
  <2> QED BY <1>4, <1>5, <2>1
<1>6. /\ "join" \in Ahead(t) =>
           {"resume", "pm", "queue", "dpm", "hw", "region", "lock"} \subseteq Ahead(t)
      /\ "stop" \in Ahead(t) => "join" \in Ahead(t)
      /\ {"map", "suspend"} \cap Ahead(t) = {}
  BY <1>2, UndoCdevIsPlaced
<1>7. ASSUME t # <<>>
      PROVE  /\ Head(t) = "lock" => "join" \notin Ahead(t)
             /\ Head(t) \in {"stop", "join", "await"} => "thread" \in Ahead(t)
             /\ Head(t) \in {"stop", "thread"} => "queue" \in Ahead(t)
             /\ Head(t) = "join" => "stop" \notin Ahead(t)
             /\ Head(t) = "thread" => "join" \notin Ahead(t)
             /\ Head(t) = "hw" => {"region", "pm"} \subseteq Ahead(t) /\ "resume" \notin Ahead(t)
             /\ Head(t) = "resume" => {"region", "pm", "hw"} \subseteq Ahead(t)
             /\ Head(t) = "pm" => {"resume", "join"} \cap Ahead(t) = {}
             /\ Head(t) = "dpm" => "pm" \notin Ahead(t)
  BY <1>2, <1>4, <1>7, UndoCdevIsPlaced
<1> QED BY <1>4, <1>5, <1>6, <1>7 DEF GiveOrder

LEMMA ModuleInitOrder ==
  ASSUME NEW t \in Tails(ModuleInit)
  PROVE  TakeOrder(t) /\ Ahead(t) \subseteq ModuleSteps
<1>1. ModuleInit \in Seq(Names) /\ Len(ModuleInit) = 4
  BY ModuleInitIs
<1>2. PICK k : Placed(t, ModuleInit, ModuleInitAt, 4, k)
  BY <1>1, ModuleInitRanks, TailIsPlaced
<1>3. Ahead(t) \subseteq ModuleSteps
  BY <1>2 DEF Placed, ModuleInitAt, ModuleSteps
<1>4. ASSUME t # <<>>
      PROVE  Head(t) \in ModuleSteps /\ Head(t) \notin Ahead(Tail(t))
  <2>1. Placed(Tail(t), ModuleInit, ModuleInitAt, 4, k + 1)
    BY <1>1, <1>2, <1>4, ModuleInitRanks, NextIsPlaced
  <2>2. k \in 1 .. 4 /\ Head(t) = ModuleInit[k]
    BY <1>2, <1>4 DEF Placed
  <2>3. ModuleInit[k] \in ModuleSteps /\ ModuleInitAt[ModuleInit[k]] = k
    BY <2>2, ModuleInitIs, OneOf DEF ModuleSteps, ModuleInitAt
  <2> QED BY <2>1, <2>2, <2>3 DEF Placed
<1>5. \A x \in ModuleSteps : x \notin {"lock", "unlock", "pm", "dpm", "hw", "thread",
        "suspend", "locks", "queue", "region"}
  BY DEF ModuleSteps
<1> QED BY <1>3, <1>4, <1>5 DEF TakeOrder

(* No label gives the minor back.                                           *)
LEMMA UndoLeavesMinor ==
  ASSUME NEW t \in Tails(UndoInit) \cup Tails(UndoCdev)
  PROVE  "minor" \notin Ahead(t)
<1>1. UndoInit \in Seq(Names) /\ UndoCdev \in Seq(Names)
  BY UndoInitIs, UndoCdevIs
<1>2. CASE t \in Tails(UndoInit)
  <2>1. \E k : Placed(t, UndoInit, UndoInitAt, Len(UndoInit), k)
    BY <1>1, <1>2, UndoInitRanks, TailIsPlaced
  <2> QED BY <2>1 DEF Placed, UndoInitAt
<1>3. CASE t \in Tails(UndoCdev)
  <2>1. PICK k : Placed(t, UndoCdev, UndoCdevAt, Len(UndoCdev), k)
    BY <1>1, <1>3, UndoCdevRanks, TailIsPlaced
  <2>2. "minor" \in Ahead(t) => "minor" \in DOMAIN UndoCdevAt
    BY <2>1 DEF Placed
  <2> QED BY <2>2 DEF UndoCdevAt
<1> QED BY <1>2, <1>3

LEMMA ResourcesAre ==
  Resources = {"major", "class", "classfile", "map", "alloc", "sys", "region", "locks",
    "ids", "pm", "mem", "queue", "dpm", "hw", "thread", "irq", "minor", "cdev", "node",
    "sysfs"}
<1>1. DeviceSteps = DOMAIN ProbingAt
  <2>1. DOMAIN Probing = 1 .. 21
    BY ProbingIs, LenProperties
  <2>2. /\ \A i \in 1 .. 21 : Probing[i] \in DOMAIN ProbingAt
        /\ \A x \in DOMAIN ProbingAt : ProbingAt[x] \in 1 .. 21 /\ Probing[ProbingAt[x]] = x
    BY ProbingIs, ProbingRanks DEF Ranked
  <2> QED BY <2>1, <2>2 DEF DeviceSteps
<1> QED BY <1>1 DEF Resources, ModuleSteps, Silent, ProbingAt

(* At the ends of the lists. *)
LEMMA Nothing ==
  Ahead(<<>>) = {} /\ Due(<<>>) = {} /\ ~Inside(<<>>)
<1>1. ModuleInit \in Seq(Names) /\ Len(ModuleInit) = 4 /\ LeftAt(<<>>, ModuleInit, 4 + 1)
  BY ModuleInitIs, TailsAre
<1>2. Placed(<<>>, ModuleInit, ModuleInitAt, 4, 4 + 1)
  BY <1>1, ModuleInitRanks, LeftIsPlaced
<1>3. \A x : x \notin Ahead(<<>>)
  BY <1>2 DEF Placed, ModuleInitAt
<1>4. ~Inside(<<>>)
  BY <1>2 DEF Placed
<1> QED BY <1>3, <1>4 DEF Due

(* A whole list is left before its first step.                              *)
LEMMA Whole ==
  /\ Placed(ModuleInit, ModuleInit, ModuleInitAt, 4, 1)
  /\ Placed(ModuleExit, ModuleExit, ModuleExitAt, 3, 1)
  /\ Placed(Probing, Probing, ProbingAt, 21, 1)
  /\ Placed(Removing, Removing, RemovingAt, 27, 1)
<1>1. /\ ModuleInit \in Seq(Names) /\ Len(ModuleInit) = 4
      /\ ModuleExit \in Seq(Names) /\ Len(ModuleExit) = 3
      /\ Probing \in Seq(Names) /\ Len(Probing) = 21
      /\ Removing \in Seq(Names) /\ Len(Removing) = 27
  BY ModuleInitIs, ModuleExitIs, ProbingIs, RemovingIs
<1>2. /\ LeftAt(ModuleInit, ModuleInit, 1) /\ LeftAt(ModuleExit, ModuleExit, 1)
      /\ LeftAt(Probing, Probing, 1) /\ LeftAt(Removing, Removing, 1)
  BY <1>1, TailsAre
<1> QED BY <1>1, <1>2, ModuleInitRanks, ModuleExitRanks, ProbingRanks, RemovingRanks,
           LeftIsPlaced

(* What the lists take and give. *)
LEMMA Takes ==
  /\ Ahead(ModuleInit) = {"major", "class", "classfile", "driver"}
  /\ Ahead(ModuleExit) = {"major", "class", "classfile"}
  /\ Ahead(Probing) = {"alloc", "resource", "sys", "region", "locks", "lock", "ids", "pm",
       "mem", "queue", "dpm", "hw", "thread", "irq", "suspend", "unlock", "fops", "minor",
       "cdev", "node", "sysfs"}
  /\ Ahead(Removing) = {"stop", "join", "await", "thread", "lock", "resume", "hw", "irq",
       "queue", "unlock", "contexts", "mem", "pm", "dpm", "ids", "sys", "region", "sysfs",
       "node", "cdev", "minor", "locks", "alloc"}
  /\ ~Inside(ModuleInit) /\ ~Inside(ModuleExit) /\ ~Inside(Probing) /\ ~Inside(Removing)
<1>1. Ahead(ModuleInit) = {"major", "class", "classfile", "driver"}
  BY Whole, SMTT(30) DEF Placed, ModuleInitAt
<1>2. Ahead(ModuleExit) = {"major", "class", "classfile"}
  BY Whole, SMTT(30) DEF Placed, ModuleExitAt
<1>3. Ahead(Probing) = {"alloc", "resource", "sys", "region", "locks", "lock", "ids", "pm",
       "mem", "queue", "dpm", "hw", "thread", "irq", "suspend", "unlock", "fops", "minor",
       "cdev", "node", "sysfs"}
  <2>1. \A x : x \in Ahead(Probing) <=> x \in DOMAIN ProbingAt /\ 1 <= ProbingAt[x]
    BY Whole DEF Placed
  <2>2. \A x \in DOMAIN ProbingAt : 1 <= ProbingAt[x]
    <3>1. \A x \in DOMAIN ProbingAt : ProbingAt[x] \in 1 .. Len(Probing)
      BY ProbingRanks DEF Ranked
    <3>2. Len(Probing) \in Nat
      BY ProbingIs, LenProperties
    <3> QED BY <3>1, <3>2
  <2>3. \A x : x \in Ahead(Probing) <=> x \in DOMAIN ProbingAt
    BY <2>1, <2>2
  <2> QED BY <2>3 DEF ProbingAt
<1>4. Ahead(Removing) = {"stop", "join", "await", "thread", "lock", "resume", "hw", "irq",
       "queue", "unlock", "contexts", "mem", "pm", "dpm", "ids", "sys", "region", "sysfs",
       "node", "cdev", "minor", "locks", "alloc"}
  <2>1. \A x : x \in Ahead(Removing) <=> x \in DOMAIN RemovingAt /\ 1 <= RemovingAt[x]
    BY Whole DEF Placed
  <2>2. \A x \in DOMAIN RemovingAt : 1 <= RemovingAt[x]
    <3>1. \A x \in DOMAIN RemovingAt : RemovingAt[x] \in 1 .. Len(Removing)
      BY RemovingRanks DEF Ranked
    <3>2. Len(Removing) \in Nat
      BY RemovingIs, LenProperties
    <3> QED BY <3>1, <3>2
  <2>3. \A x : x \in Ahead(Removing) <=> x \in DOMAIN RemovingAt
    BY <2>1, <2>2
  <2> QED BY <2>3 DEF RemovingAt
<1>5. ~Inside(ModuleInit) /\ ~Inside(ModuleExit)
  <2>1. ASSUME NEW t, Inside(t)
        PROVE  "unlock" \in Ahead(t)
    BY <2>1 DEF Inside, Ahead
  <2> QED BY <1>1, <1>2, <2>1
<1>6. ~Inside(Probing) /\ ~Inside(Removing)
  BY Whole, ProbingIsPlaced, RemovingIsPlaced
<1> QED BY <1>1, <1>2, <1>3, <1>4, <1>5, <1>6

-----------------------------------------------------------------------------
(* What the labels give back. *)

(* Lengths, suffixes and concatenations.  The predicates keep equations of  *)
(* lengths and of sequences away from where they are not needed.            *)
Word(s, n) == s \in Seq(Names) /\ n \in Nat /\ Len(s) = n
Joined(c, X, Y) == c = X \o Y

LEMMA SuffixIs ==
  ASSUME NEW n \in Nat, NEW L, Word(L, n), NEW t, NEW i \in Nat, LeftAt(t, L, i)
  PROVE  /\ i \in 1 .. n + 1 /\ Word(t, n + 1 - i)
         /\ \A j \in Nat : 1 <= j /\ j <= n + 1 - i => t[j] = L[i + j - 1]
<1>1. L \in Seq(Names)
  BY DEF Word
<1>2. ASSUME NEW k, LeftAt(t, L, k)
      PROVE  /\ t \in Seq(Names) /\ Len(t) = Len(L) + 1 - k /\ k \in 1 .. Len(L) + 1
             /\ \A j \in 1 .. Len(t) : t[j] = L[k + j - 1]
  BY <1>1, <1>2, LeftIs
<1>3. Len(L) = n
  BY DEF Word
<1>4. i \in 1 .. n + 1 /\ Len(t) = n + 1 - i
  BY <1>2, <1>3
<1>5. t \in Seq(Names) /\ \A j \in 1 .. Len(t) : t[j] = L[i + j - 1]
  BY <1>2
<1> QED BY <1>4, <1>5 DEF Word

LEMMA JoinedIs ==
  ASSUME NEW n \in Nat, NEW X, Word(X, n), NEW m \in Nat, NEW Y, Word(Y, m),
         NEW c, Joined(c, X, Y)
  PROVE  /\ Word(c, n + m)
         /\ \A j \in Nat : 1 <= j /\ j <= n + m =>
              c[j] = IF j <= n THEN X[j] ELSE Y[j - n]
<1> DEFINE d == X \o Y
<1>1. X \in Seq(Names) /\ Y \in Seq(Names)
  BY DEF Word
<1>2. /\ d \in Seq(Names) /\ Len(d) = Len(X) + Len(Y)
      /\ \A j \in 1 .. Len(X) + Len(Y) : d[j] = IF j <= Len(X) THEN X[j] ELSE Y[j - Len(X)]
  BY <1>1, ConcatProperties
<1>3. c = d
  BY Zenon DEF Joined
<1> HIDE DEF d
<1>4. Len(X) = n /\ Len(Y) = m
  BY DEF Word
<1>5. /\ Len(d) = n + m
      /\ \A j \in Nat : 1 <= j /\ j <= n + m => d[j] = IF j <= n THEN X[j] ELSE Y[j - n]
  BY <1>2, <1>4
<1> QED BY <1>2, <1>3, <1>5 DEF Word

LEMMA WordsEqual ==
  ASSUME NEW n \in Nat, NEW s, Word(s, n), NEW t, Word(t, n),
         \A i \in Nat : 1 <= i /\ i <= n => s[i] = t[i]
  PROVE  s = t
<1>1. s \in Seq(Names) /\ t \in Seq(Names) /\ Len(s) = n /\ Len(t) = n
  BY DEF Word
<1> QED BY <1>1, SeqEqual

LEMMA TailThen ==
  ASSUME NEW n \in Nat, NEW X, Word(X, n), NEW m \in Nat, NEW Y, Word(Y, m),
         NEW i \in Nat, NEW a, LeftAt(a, X, i), NEW c, Joined(c, X, Y), NEW d, Joined(d, a, Y)
  PROVE  LeftAt(d, c, i)
<1> DEFINE l == n + m
           p == n + 1 - i
           q == l + 1 - i
           b == SubSeq(c, i, Len(c))
<1>1. /\ i \in 1 .. n + 1 /\ Word(a, p)
      /\ \A j \in Nat : 1 <= j /\ j <= p => a[j] = X[i + j - 1]
  BY SuffixIs
<1>2. p \in Nat /\ q \in Nat /\ q = p + m /\ p = n + 1 - i /\ q = l + 1 - i /\ l \in Nat
      /\ l = n + m
  BY <1>1
<1>3. /\ Word(c, l)
      /\ \A j \in Nat : 1 <= j /\ j <= l => c[j] = IF j <= n THEN X[j] ELSE Y[j - n]
  BY JoinedIs
<1>4. LeftAt(b, c, i)
  <2>1. Len(c) = l
    BY <1>3 DEF Word
  <2> QED BY <1>1, <1>2, <2>1 DEF LeftAt
<1> HIDE DEF b
<1>5. /\ Word(b, q)
      /\ \A j \in Nat : 1 <= j /\ j <= q => b[j] = c[i + j - 1]
  BY <1>2, <1>3, <1>4, SuffixIs
<1> HIDE DEF l, p, q
<1>6. /\ Word(d, q)
      /\ \A j \in Nat : 1 <= j /\ j <= q => d[j] = IF j <= p THEN a[j] ELSE Y[j - p]
  BY <1>1, <1>2, JoinedIs
<1>7. ASSUME NEW j \in Nat, 1 <= j, j <= q
      PROVE  d[j] = b[j]
  <2>1. CASE j <= p
    <3>1. d[j] = X[i + j - 1]
      BY <1>1, <1>6, <1>7, <2>1
    <3>2. i + j - 1 \in Nat /\ 1 <= i + j - 1 /\ i + j - 1 <= l /\ i + j - 1 <= n
      BY <1>1, <1>2, <1>7, <2>1
    <3>3. c[i + j - 1] = X[i + j - 1]
      BY <1>3, <3>2
    <3> QED BY <1>5, <1>7, <3>1, <3>3
  <2>2. CASE ~(j <= p)
    <3>1. d[j] = Y[j - p]
      BY <1>6, <1>7, <2>2
    <3> DEFINE h == i + j - 1
    <3>2. h \in Nat /\ 1 <= h /\ h <= l /\ ~(h <= n) /\ h - n = j - p
      BY <1>1, <1>2, <1>7, <2>2
    <3>3. b[j] = c[h]
      BY <1>5, <1>7
    <3> HIDE DEF h
    <3>4. c[h] = Y[h - n]
      BY <1>3, <3>2
    <3> QED BY <3>1, <3>2, <3>3, <3>4
  <2> QED BY <2>1, <2>2
<1>8. d = b
  BY <1>2, <1>5, <1>6, <1>7, WordsEqual
<1> QED BY <1>4, <1>8

LEMMA UndoInitFrom ==
  ASSUME NEW j \in 1 .. 5
  PROVE  LeftAt(SubSeq(DeviceInitUndo, 6 + j, 11) \o <<"region", "alloc">>, UndoInit, j)
<1> DEFINE D == DeviceInitUndo
           Y == <<"region", "alloc">>
           F == D \o Y
           a == SubSeq(D, 6 + j, 11)
           d == a \o Y
           u == SubSeq(F, 7, 13)
<1>1. /\ D \in Seq(Names) /\ Len(D) = 11 /\ Y \in Seq(Names) /\ Len(Y) = 2
      /\ F \in Seq(Names) /\ Len(F) = 13
  BY DEF DeviceInitUndo, InferenceDeinit, Names
<1>2. /\ F[7] = "queue" /\ F[8] = "mem" /\ F[9] = "pm" /\ F[10] = "ids"
      /\ F[11] = "unlock" /\ F[12] = "region" /\ F[13] = "alloc"
  BY DEF DeviceInitUndo, InferenceDeinit
<1>3. Joined(F, D, Y) /\ Joined(d, a, Y)
  BY Zenon DEF Joined
<1>4. a = SubSeq(D, 6 + j, 11) /\ u = SubSeq(F, 7, 13)
  OBVIOUS
<1> HIDE DEF D, Y, F, a, d, u
<1>5. Word(D, 11) /\ Word(Y, 2) /\ Word(F, 13) /\ Word(UndoInit, 7)
  BY <1>1, UndoInitIs DEF Word
<1>6. 6 + j \in Nat /\ 6 + j \in 1 .. 12 /\ 7 \in 1 .. 14
  OBVIOUS
<1>7. LeftAt(a, D, 6 + j) /\ LeftAt(u, F, 7)
  BY <1>1, <1>4, <1>6 DEF LeftAt
<1>8. LeftAt(d, F, 6 + j)
  BY <1>3, <1>5, <1>6, <1>7, TailThen
<1>9. u = UndoInit
  <2>1. /\ Word(u, 13 + 1 - 7)
        /\ \A i \in Nat : 1 <= i /\ i <= 13 + 1 - 7 => u[i] = F[7 + i - 1]
    BY <1>5, <1>7, SuffixIs
  <2>2. ASSUME NEW i \in Nat, 1 <= i, i <= 7
        PROVE  u[i] = UndoInit[i]
    <3>1. i = 1 \/ i = 2 \/ i = 3 \/ i = 4 \/ i = 5 \/ i = 6 \/ i = 7
      BY <2>2
    <3>2. u[i] = F[7 + i - 1]
      BY <2>1, <2>2
    <3> QED BY <1>2, <3>1, <3>2, UndoInitIs
  <2>3. Word(u, 7)
    BY <2>1
  <2> QED BY <1>5, <2>2, <2>3, WordsEqual
<1>10. SubSeq(u, j, 7) = SubSeq(F, 6 + j, 13)
  <2>1. /\ 7 \in 1 .. Len(F) /\ 13 \in 1 .. Len(F)
        /\ j \in 1 .. 13 - 7 + 1 /\ 7 \in 1 .. 13 - 7 + 1
    BY <1>1
  <2>2. SubSeq(SubSeq(F, 7, 13), j, 7) = SubSeq(F, 7 + j - 1, 7 + 7 - 1)
    BY <1>1, <2>1, SubSeqOfSubSeq
  <2>3. 7 + j - 1 = 6 + j /\ 7 + 7 - 1 = 13
    OBVIOUS
  <2> QED BY <1>4, <2>2, <2>3
<1>11. d = SubSeq(F, 6 + j, 13)
  <2>1. d = SubSeq(F, 6 + j, Len(F)) /\ Len(F) = 13
    BY <1>1, <1>8 DEF LeftAt
  <2> QED BY <2>1
<1>12. LeftAt(d, UndoInit, j)
  <2>1. d = SubSeq(UndoInit, j, 7)
    BY <1>9, <1>10, <1>11
  <2> QED BY <2>1, UndoInitIs DEF LeftAt
<1> QED BY <1>12, Zenon DEF a, d, D, Y

LEMMA UndoCdevFrom ==
  ASSUME NEW j \in 1 .. 3
  PROVE  LeftAt(SubSeq(<<"node", "cdev">>, j, 2) \o DeviceDeinit \o <<"region", "alloc">>,
                UndoCdev, j)
<1> DEFINE X == <<"node", "cdev">>
           D == DeviceDeinit
           Y == <<"region", "alloc">>
           Z == X \o D
           a == SubSeq(X, j, 2)
           b == a \o D
           d == b \o Y
<1>1. /\ X \in Seq(Names) /\ Len(X) = 2 /\ Y \in Seq(Names) /\ Len(Y) = 2
      /\ D \in Seq(Names) /\ Len(D) = 17 /\ Z \in Seq(Names) /\ Len(Z) = 19
  BY DEF DeviceDeinit, InferenceDeinit, Names
<1>2. Joined(UndoCdev, Z, Y) /\ Joined(Z, X, D) /\ Joined(b, a, D) /\ Joined(d, b, Y)
  BY Zenon DEF Joined, UndoCdev
<1>3. a = SubSeq(X, j, 2)
  OBVIOUS
<1> HIDE DEF X, D, Y, Z, a, b, d
<1>4. Word(X, 2) /\ Word(D, 17) /\ Word(Y, 2) /\ Word(Z, 19)
  BY <1>1 DEF Word
<1>5. LeftAt(a, X, j) /\ j \in Nat
  BY <1>1, <1>3 DEF LeftAt
<1>6. LeftAt(b, Z, j)
  BY <1>2, <1>4, <1>5, TailThen
<1>7. LeftAt(d, UndoCdev, j)
  BY <1>2, <1>4, <1>5, <1>6, TailThen
<1> QED BY <1>7, Zenon DEF a, b, d, X, D, Y

(* The labels of adlak_device_init.                                         *)
LEMMA LabelsAre ==
  /\ From("unlock", DeviceInitUndo) = SubSeq(DeviceInitUndo, 6 + 5, 11)
  /\ From("ids", DeviceInitUndo) = SubSeq(DeviceInitUndo, 6 + 4, 11)
  /\ From("pm", DeviceInitUndo) = SubSeq(DeviceInitUndo, 6 + 3, 11)
  /\ From("mem", DeviceInitUndo) = SubSeq(DeviceInitUndo, 6 + 2, 11)
  /\ From("queue", DeviceInitUndo) = SubSeq(DeviceInitUndo, 6 + 1, 11)
<1>1. /\ DeviceInitUndo \in Seq(Names) /\ Len(DeviceInitUndo) = 11
      /\ DeviceInitUndo[1] = "stop" /\ DeviceInitUndo[2] = "join"
      /\ DeviceInitUndo[3] = "await" /\ DeviceInitUndo[4] = "thread"
      /\ DeviceInitUndo[5] = "hw" /\ DeviceInitUndo[6] = "dpm"
      /\ DeviceInitUndo[7] = "queue" /\ DeviceInitUndo[8] = "mem"
      /\ DeviceInitUndo[9] = "pm" /\ DeviceInitUndo[10] = "ids"
      /\ DeviceInitUndo[11] = "unlock"
  BY DEF DeviceInitUndo, InferenceDeinit, Names
<1>2. \A i \in 1 .. 11 : i = 1 \/ i = 2 \/ i = 3 \/ i = 4 \/ i = 5 \/ i = 6 \/ i = 7 \/ i = 8
        \/ i = 9 \/ i = 10 \/ i = 11
  OBVIOUS
<1>3. ASSUME NEW x \in 1 .. 11, NEW y \in 1 .. 11, DeviceInitUndo[x] = DeviceInitUndo[y]
      PROVE  x = y
  BY <1>1, <1>2, <1>3
<1>4. DOMAIN DeviceInitUndo = 1 .. 11
  BY <1>1, LenProperties
<1> HIDE DEF DeviceInitUndo
<1>5. ASSUME NEW i \in 1 .. 11
      PROVE  From(DeviceInitUndo[i], DeviceInitUndo) = SubSeq(DeviceInitUndo, i, 11)
  <2>1. (CHOOSE j \in DOMAIN DeviceInitUndo : DeviceInitUndo[j] = DeviceInitUndo[i]) = i
    BY <1>3, <1>4
  <2>2. From(DeviceInitUndo[i], DeviceInitUndo)
          = SubSeq(DeviceInitUndo, i, Len(DeviceInitUndo))
    BY <2>1 DEF From
  <2> QED BY <1>1, <2>2
<1> QED BY <1>1, <1>5

LEMMA InitLabelsAre ==
  /\ \A s \in {"ids", "pm", "mem", "queue", "dpm"} :
       UndoOf(s) = From(InitLabel[s], DeviceInitUndo) \o <<"region", "alloc">>
  /\ InitLabel["ids"] = "unlock" /\ InitLabel["pm"] = "ids" /\ InitLabel["mem"] = "pm"
  /\ InitLabel["queue"] = "mem" /\ InitLabel["dpm"] = "queue"
<1>1. DOMAIN InitLabel = {"ids", "pm", "mem", "queue", "dpm", "hw", "irq"}
  BY DEF InitLabel
<1>2. ASSUME NEW s \in {"ids", "pm", "mem", "queue", "dpm"}
      PROVE  UndoOf(s) = From(InitLabel[s], DeviceInitUndo) \o <<"region", "alloc">>
  <2>1. /\ s \notin {"alloc", "major", "driver"} /\ s \notin {"class", "classfile"}
        /\ s \notin {"resource", "region"} /\ s \in DOMAIN InitLabel
        /\ s \notin DOMAIN CdevLabel
    BY <1>1 DEF CdevLabel
  <2> QED BY <2>1, Zenon DEF UndoOf
<1>3. /\ InitLabel["ids"] = "unlock" /\ InitLabel["pm"] = "ids" /\ InitLabel["mem"] = "pm"
      /\ InitLabel["queue"] = "mem" /\ InitLabel["dpm"] = "queue"
  BY DEF InitLabel
<1> QED BY <1>2, <1>3

LEMMA CdevLabelsAre ==
  /\ \A s \in {"minor", "cdev", "node", "sysfs"} :
       UndoOf(s) = CdevLabel[s] \o DeviceDeinit \o <<"region", "alloc">>
  /\ CdevLabel["minor"] = SubSeq(<<"node", "cdev">>, 3, 2)
  /\ CdevLabel["cdev"] = SubSeq(<<"node", "cdev">>, 3, 2)
  /\ CdevLabel["node"] = SubSeq(<<"node", "cdev">>, 2, 2)
  /\ CdevLabel["sysfs"] = SubSeq(<<"node", "cdev">>, 1, 2)
<1>1. /\ DOMAIN CdevLabel = {"minor", "cdev", "node", "sysfs"}
      /\ DOMAIN InitLabel = {"ids", "pm", "mem", "queue", "dpm", "hw", "irq"}
  BY DEF CdevLabel, InitLabel
<1>2. ASSUME NEW s \in {"minor", "cdev", "node", "sysfs"}
      PROVE  UndoOf(s) = CdevLabel[s] \o DeviceDeinit \o <<"region", "alloc">>
  <2>1. /\ s \notin {"alloc", "major", "driver"} /\ s \notin {"class", "classfile"}
        /\ s \notin {"resource", "region"} /\ s \notin DOMAIN InitLabel
        /\ s \in DOMAIN CdevLabel
    BY <1>1
  <2> QED BY <2>1, Zenon DEF UndoOf
<1>3. /\ CdevLabel["minor"] = <<>> /\ CdevLabel["cdev"] = <<>>
      /\ CdevLabel["node"] = <<"cdev">> /\ CdevLabel["sysfs"] = <<"node", "cdev">>
  BY DEF CdevLabel
<1> DEFINE X == <<"node", "cdev">>
           y == <<"cdev">>
<1>4. /\ X \in Seq(Names) /\ Len(X) = 2 /\ X[1] = "node" /\ X[2] = "cdev"
      /\ y \in Seq(Names) /\ Len(y) = 1 /\ y[1] = "cdev"
  BY DEF Names
<1> HIDE DEF X, y
<1>5. SubSeq(X, 1, 2) = X
  <2>1. SubSeq(X, 1, Len(X)) = X
    BY <1>4, SubSeqFull
  <2> QED BY <1>4, <2>1
<1>6. SubSeq(X, 3, 2) = <<>>
  BY <1>4, SubSeqEmpty
<1>7. SubSeq(X, 2, 2) = y
  <2> DEFINE z == SubSeq(X, 2, 2)
  <2>1. /\ z \in Seq(Names) /\ Len(z) = (IF 2 <= 2 THEN 2 - 2 + 1 ELSE 0)
        /\ \A i \in 1 .. 2 - 2 + 1 : z[i] = X[2 + i - 1]
    <3>1. 2 \in 1 .. Len(X) + 1 /\ 2 \in 2 - 1 .. Len(X)
      BY <1>4
    <3>2. \A i \in 2 .. 2 : X[i] \in Names
      BY <1>4 DEF Names
    <3> QED BY <3>2, SubSeqProperties
  <2> HIDE DEF z
  <2>2. Word(z, 1) /\ Word(y, 1)
    BY <1>4, <2>1 DEF Word
  <2>3. \A i \in Nat : 1 <= i /\ i <= 1 => z[i] = y[i]
    BY <1>4, <2>1
  <2>4. z = y
    BY <2>2, <2>3, WordsEqual
  <2> QED BY <2>4 DEF z
<1> QED BY <1>2, <1>3, <1>5, <1>6, <1>7 DEF X, y

(* Each goto leads to what is left of one of two lists.                     *)
LEMMA UndoOfIs ==
  /\ UndoOf("major") = <<>> /\ UndoOf("class") = <<"major">>
  /\ LeftAt(UndoOf("alloc"), UndoInit, 8)
  /\ LeftAt(UndoOf("resource"), UndoInit, 7) /\ LeftAt(UndoOf("region"), UndoInit, 7)
  /\ LeftAt(UndoOf("ids"), UndoInit, 5) /\ LeftAt(UndoOf("pm"), UndoInit, 4)
  /\ LeftAt(UndoOf("mem"), UndoInit, 3) /\ LeftAt(UndoOf("queue"), UndoInit, 2)
  /\ LeftAt(UndoOf("dpm"), UndoInit, 1)
  /\ LeftAt(UndoOf("minor"), UndoCdev, 3) /\ LeftAt(UndoOf("cdev"), UndoCdev, 3)
  /\ LeftAt(UndoOf("node"), UndoCdev, 2) /\ LeftAt(UndoOf("sysfs"), UndoCdev, 1)
<1>1. /\ UndoOf("major") = <<>> /\ UndoOf("class") = <<"major">> /\ UndoOf("alloc") = <<>>
      /\ UndoOf("resource") = <<"alloc">> /\ UndoOf("region") = <<"alloc">>
  <2>1. ASSUME NEW s \in {"major", "alloc", "class", "resource", "region"}
        PROVE  /\ s \in {"alloc", "major", "driver"} <=> s \in {"major", "alloc"}
               /\ s \in {"class", "classfile"} <=> s = "class"
               /\ s \notin DOMAIN InitLabel /\ s \notin DOMAIN CdevLabel
    BY DEF InitLabel, CdevLabel
  <2>2. ASSUME NEW s \in {"major", "alloc"}
        PROVE  UndoOf(s) = <<>>
    <3>1. /\ s \in {"alloc", "major", "driver"} /\ s \notin {"class", "classfile"}
          /\ s \notin {"resource", "region"}
          /\ s \notin DOMAIN InitLabel /\ s \notin DOMAIN CdevLabel
      BY <2>1
    <3> QED BY <3>1, Zenon DEF UndoOf
  <2>3. ASSUME NEW s, s = "class"
        PROVE  UndoOf(s) = <<"major">>
    <3>1. /\ s \notin {"alloc", "major", "driver"} /\ s \in {"class", "classfile"}
          /\ s \notin {"resource", "region"}
          /\ s \notin DOMAIN InitLabel /\ s \notin DOMAIN CdevLabel
      BY <2>1, <2>3
    <3> QED BY <3>1, Zenon DEF UndoOf
  <2>4. ASSUME NEW s \in {"resource", "region"}
        PROVE  UndoOf(s) = <<"alloc">>
    <3>1. /\ s \notin {"alloc", "major", "driver"} /\ s \notin {"class", "classfile"}
          /\ s \in {"resource", "region"}
          /\ s \notin DOMAIN InitLabel /\ s \notin DOMAIN CdevLabel
      BY <2>1
    <3> QED BY <3>1, Zenon DEF UndoOf
  <2> QED BY <2>2, <2>3, <2>4
<1>2. LeftAt(UndoOf("alloc"), UndoInit, 8)
  <2>1. LeftAt(<<>>, UndoInit, 7 + 1)
    BY UndoInitIs, TailsAre
  <2> QED BY <1>1, <2>1
<1>3. LeftAt(<<"alloc">>, UndoInit, 7)
  <2> DEFINE z == SubSeq(UndoInit, 7, 7)
             y == <<"alloc">>
  <2>1. LeftAt(z, UndoInit, 7) /\ 7 \in Nat
    BY UndoInitIs DEF LeftAt
  <2>2. y \in Seq(Names) /\ Len(y) = 1 /\ y[1] = "alloc"
    BY DEF Names
  <2> HIDE DEF z, y
  <2>3. Word(UndoInit, 7) /\ Word(y, 1)
    BY <2>2, UndoInitIs DEF Word
  <2>4. Word(z, 1) /\ \A j \in Nat : 1 <= j /\ j <= 1 => z[j] = UndoInit[7 + j - 1]
    <3>1. /\ Word(z, 7 + 1 - 7)
          /\ \A j \in Nat : 1 <= j /\ j <= 7 + 1 - 7 => z[j] = UndoInit[7 + j - 1]
      BY <2>1, <2>3, SuffixIs
    <3> QED BY <3>1
  <2>5. \A i \in Nat : 1 <= i /\ i <= 1 => z[i] = y[i]
    BY <2>2, <2>4, UndoInitIs
  <2>6. z = y
    BY <2>3, <2>4, <2>5, WordsEqual
  <2> QED BY <2>1, <2>6 DEF y
<1>4. /\ LeftAt(UndoOf("ids"), UndoInit, 5) /\ LeftAt(UndoOf("pm"), UndoInit, 4)
      /\ LeftAt(UndoOf("mem"), UndoInit, 3) /\ LeftAt(UndoOf("queue"), UndoInit, 2)
      /\ LeftAt(UndoOf("dpm"), UndoInit, 1)
  <2> DEFINE Y == <<"region", "alloc">>
  <2>1. ASSUME NEW s \in {"ids", "pm", "mem", "queue", "dpm"}, NEW j \in 1 .. 5,
               From(InitLabel[s], DeviceInitUndo) = SubSeq(DeviceInitUndo, 6 + j, 11)
        PROVE  LeftAt(UndoOf(s), UndoInit, j)
    <3>1. UndoOf(s) = SubSeq(DeviceInitUndo, 6 + j, 11) \o Y
      BY <2>1, InitLabelsAre
    <3>2. LeftAt(SubSeq(DeviceInitUndo, 6 + j, 11) \o Y, UndoInit, j)
      BY UndoInitFrom
    <3> HIDE DEF Y
    <3> QED BY <3>1, <3>2
  <2> HIDE DEF Y
  <2>2. 1 \in 1 .. 5 /\ 2 \in 1 .. 5 /\ 3 \in 1 .. 5 /\ 4 \in 1 .. 5 /\ 5 \in 1 .. 5
    OBVIOUS
  <2> QED BY <2>1, <2>2, InitLabelsAre, LabelsAre, Zenon
<1>5. /\ LeftAt(UndoOf("minor"), UndoCdev, 3) /\ LeftAt(UndoOf("cdev"), UndoCdev, 3)
      /\ LeftAt(UndoOf("node"), UndoCdev, 2) /\ LeftAt(UndoOf("sysfs"), UndoCdev, 1)
  <2> DEFINE X == <<"node", "cdev">>
  <2>1. ASSUME NEW s \in {"minor", "cdev", "node", "sysfs"}, NEW j \in 1 .. 3,
               CdevLabel[s] = SubSeq(X, j, 2)
        PROVE  LeftAt(UndoOf(s), UndoCdev, j)
    <3>1. UndoOf(s) = SubSeq(X, j, 2) \o DeviceDeinit \o <<"region", "alloc">>
      BY <2>1, CdevLabelsAre, Zenon
    <3>2. LeftAt(SubSeq(X, j, 2) \o DeviceDeinit \o <<"region", "alloc">>, UndoCdev, j)
      BY UndoCdevFrom
    <3> QED BY <3>1, <3>2, Zenon
  <2>2. 1 \in 1 .. 3 /\ 2 \in 1 .. 3 /\ 3 \in 1 .. 3
    OBVIOUS
  <2>3. /\ CdevLabel["minor"] = SubSeq(X, 3, 2) /\ CdevLabel["cdev"] = SubSeq(X, 3, 2)
        /\ CdevLabel["node"] = SubSeq(X, 2, 2) /\ CdevLabel["sysfs"] = SubSeq(X, 1, 2)
    BY CdevLabelsAre, Zenon
  <2> HIDE DEF X
  <2> QED BY <2>1, <2>2, <2>3, Zenon
<1> QED BY <1>1, <1>2, <1>3, <1>4, <1>5

(* A step of the probe has failed with t left to do, and u is what the code *)
(* jumps to.                                                                *)
FailOrder(t, u) ==
  /\ u \in Tails(UndoInit) \cup Tails(UndoCdev)
  /\ Inside(u) <=> Inside(t)
  /\ \A r \in Resources \ {"sys", "locks", "minor"} :
       (r \in ModuleSteps \ Silent \/ r \in Due(u)) <=> r \notin Due(t)
  /\ {"lock", "unlock"} \cap Ahead(u) # {} => "locks" \notin Ahead(t)
  /\ "thread" \notin Ahead(t) => {"stop", "join"} \subseteq Ahead(u)
  /\ "pm" \notin Ahead(t) /\ "resume" \notin Ahead(u) => "suspend" \in Ahead(t)
  /\ "resume" \in Ahead(u) => "suspend" \notin Ahead(t)

(* A failure inside DeviceInit, and one after it.                           *)
LEMMA InitFails ==
  ASSUME NEW t, NEW u, NEW k, NEW j,
         Placed(t, Probing, ProbingAt, 21, k), Placed(u, UndoInit, UndoInitAt, 7, j),
         \/ k = 1 /\ j = 8
         \/ k \in {2, 4} /\ j = 7
         \/ k \in 7 .. 11 /\ j = 12 - k
  PROVE  FailOrder(t, u)
<1>1. /\ "major" \notin Ahead(t)
      /\ "class" \notin Ahead(t)
      /\ "classfile" \notin Ahead(t)
      /\ "map" \notin Ahead(t)
      /\ "alloc" \in Ahead(t) <=> k <= 1
      /\ "region" \in Ahead(t) <=> k <= 4
      /\ "ids" \in Ahead(t) <=> k <= 7
      /\ "pm" \in Ahead(t) <=> k <= 8
      /\ "mem" \in Ahead(t) <=> k <= 9
      /\ "queue" \in Ahead(t) <=> k <= 10
      /\ "dpm" \in Ahead(t) <=> k <= 11
      /\ "hw" \in Ahead(t) <=> k <= 12
      /\ "thread" \in Ahead(t) <=> k <= 13
      /\ "irq" \in Ahead(t) <=> k <= 14
      /\ "cdev" \in Ahead(t) <=> k <= 19
      /\ "node" \in Ahead(t) <=> k <= 20
      /\ "sysfs" \in Ahead(t) <=> k <= 21
      /\ "lock" \in Ahead(t) <=> k <= 6
      /\ "unlock" \in Ahead(t) <=> k <= 16
      /\ "locks" \in Ahead(t) <=> k <= 5
      /\ "stop" \notin Ahead(t)
      /\ "join" \notin Ahead(t)
      /\ "resume" \notin Ahead(t)
      /\ "suspend" \in Ahead(t) <=> k <= 15
  <2>1. \A x : x \in Ahead(t) <=> x \in DOMAIN ProbingAt /\ k <= ProbingAt[x]
    BY DEF Placed
  <2>2. /\ "major" \notin Ahead(t)
        /\ "class" \notin Ahead(t)
        /\ "classfile" \notin Ahead(t)
        /\ "map" \notin Ahead(t)
        /\ "alloc" \in Ahead(t) <=> k <= 1
        /\ "region" \in Ahead(t) <=> k <= 4
    BY <2>1 DEF ProbingAt
  <2>3. /\ "ids" \in Ahead(t) <=> k <= 7
        /\ "pm" \in Ahead(t) <=> k <= 8
        /\ "mem" \in Ahead(t) <=> k <= 9
        /\ "queue" \in Ahead(t) <=> k <= 10
        /\ "dpm" \in Ahead(t) <=> k <= 11
        /\ "hw" \in Ahead(t) <=> k <= 12
    BY <2>1 DEF ProbingAt
  <2>4. /\ "thread" \in Ahead(t) <=> k <= 13
        /\ "irq" \in Ahead(t) <=> k <= 14
        /\ "cdev" \in Ahead(t) <=> k <= 19
        /\ "node" \in Ahead(t) <=> k <= 20
        /\ "sysfs" \in Ahead(t) <=> k <= 21
        /\ "lock" \in Ahead(t) <=> k <= 6
    BY <2>1 DEF ProbingAt
  <2>5. /\ "unlock" \in Ahead(t) <=> k <= 16
        /\ "locks" \in Ahead(t) <=> k <= 5
        /\ "stop" \notin Ahead(t)
        /\ "join" \notin Ahead(t)
        /\ "resume" \notin Ahead(t)
        /\ "suspend" \in Ahead(t) <=> k <= 15
    BY <2>1 DEF ProbingAt
  <2> QED BY <2>2, <2>3, <2>4, <2>5
<1>2. /\ "major" \notin Ahead(u)
      /\ "class" \notin Ahead(u)
      /\ "classfile" \notin Ahead(u)
      /\ "map" \notin Ahead(u)
      /\ "alloc" \in Ahead(u) <=> j <= 7
      /\ "region" \in Ahead(u) <=> j <= 6
      /\ "ids" \in Ahead(u) <=> j <= 4
      /\ "pm" \in Ahead(u) <=> j <= 3
      /\ "mem" \in Ahead(u) <=> j <= 2
      /\ "queue" \in Ahead(u) <=> j <= 1
      /\ "dpm" \notin Ahead(u)
      /\ "hw" \notin Ahead(u)
      /\ "thread" \notin Ahead(u)
      /\ "irq" \notin Ahead(u)
      /\ "cdev" \notin Ahead(u)
      /\ "node" \notin Ahead(u)
      /\ "sysfs" \notin Ahead(u)
      /\ "lock" \notin Ahead(u)
      /\ "unlock" \in Ahead(u) <=> j <= 5
      /\ "locks" \notin Ahead(u)
      /\ "stop" \notin Ahead(u)
      /\ "join" \notin Ahead(u)
      /\ "resume" \notin Ahead(u)
      /\ "suspend" \notin Ahead(u)
  <2>1. \A x : x \in Ahead(u) <=> x \in DOMAIN UndoInitAt /\ j <= UndoInitAt[x]
    BY DEF Placed
  <2>2. /\ "major" \notin Ahead(u)
        /\ "class" \notin Ahead(u)
        /\ "classfile" \notin Ahead(u)
        /\ "map" \notin Ahead(u)
        /\ "alloc" \in Ahead(u) <=> j <= 7
        /\ "region" \in Ahead(u) <=> j <= 6
    BY <2>1 DEF UndoInitAt
  <2>3. /\ "ids" \in Ahead(u) <=> j <= 4
        /\ "pm" \in Ahead(u) <=> j <= 3
        /\ "mem" \in Ahead(u) <=> j <= 2
        /\ "queue" \in Ahead(u) <=> j <= 1
        /\ "dpm" \notin Ahead(u)
        /\ "hw" \notin Ahead(u)
    BY <2>1 DEF UndoInitAt
  <2>4. /\ "thread" \notin Ahead(u)
        /\ "irq" \notin Ahead(u)
        /\ "cdev" \notin Ahead(u)
        /\ "node" \notin Ahead(u)
        /\ "sysfs" \notin Ahead(u)
        /\ "lock" \notin Ahead(u)
    BY <2>1 DEF UndoInitAt
  <2>5. /\ "unlock" \in Ahead(u) <=> j <= 5
        /\ "locks" \notin Ahead(u)
        /\ "stop" \notin Ahead(u)
        /\ "join" \notin Ahead(u)
        /\ "resume" \notin Ahead(u)
        /\ "suspend" \notin Ahead(u)
    BY <2>1 DEF UndoInitAt
  <2> QED BY <2>2, <2>3, <2>4, <2>5
<1>3. k \in 1 .. 22 /\ j \in 1 .. 8
  BY DEF Placed
<1>4. Inside(u) <=> Inside(t)
  BY <1>3, ProbingIsPlaced, UndoInitIsPlaced
<1>5. ASSUME NEW r \in Resources \ {"sys", "locks", "minor"}
      PROVE  (r \in ModuleSteps \ Silent \/ r \in Due(u)) <=> r \notin Due(t)
  <2>1. r \in {"major", "class", "classfile", "map", "alloc", "region", "ids", "pm", "mem",
         "queue", "dpm", "hw", "thread", "irq", "cdev", "node", "sysfs"}
    BY ResourcesAre
  <2>2. r \in ModuleSteps \ Silent <=> r \in {"major", "class", "classfile"}
    BY <2>1 DEF ModuleSteps, Silent
  <2> QED BY <1>1, <1>2, <1>3, <2>1, <2>2 DEF Due
<1>6. u \in Tails(UndoInit)
  BY UndoInitIs, TailsAre DEF Placed
<1> QED BY <1>1, <1>2, <1>3, <1>4, <1>5, <1>6 DEF FailOrder

LEMMA CdevFails ==
  ASSUME NEW t, NEW u, NEW k, NEW j,
         Placed(t, Probing, ProbingAt, 21, k), Placed(u, UndoCdev, UndoCdevAt, 21, j),
         \/ k \in {18, 19} /\ j = 3
         \/ k = 20 /\ j = 2
         \/ k = 21 /\ j = 1
  PROVE  FailOrder(t, u)
<1>1. /\ "major" \notin Ahead(t)
      /\ "class" \notin Ahead(t)
      /\ "classfile" \notin Ahead(t)
      /\ "map" \notin Ahead(t)
      /\ "alloc" \in Ahead(t) <=> k <= 1
      /\ "region" \in Ahead(t) <=> k <= 4
      /\ "ids" \in Ahead(t) <=> k <= 7
      /\ "pm" \in Ahead(t) <=> k <= 8
      /\ "mem" \in Ahead(t) <=> k <= 9
      /\ "queue" \in Ahead(t) <=> k <= 10
      /\ "dpm" \in Ahead(t) <=> k <= 11
      /\ "hw" \in Ahead(t) <=> k <= 12
      /\ "thread" \in Ahead(t) <=> k <= 13
      /\ "irq" \in Ahead(t) <=> k <= 14
      /\ "cdev" \in Ahead(t) <=> k <= 19
      /\ "node" \in Ahead(t) <=> k <= 20
      /\ "sysfs" \in Ahead(t) <=> k <= 21
      /\ "lock" \in Ahead(t) <=> k <= 6
      /\ "unlock" \in Ahead(t) <=> k <= 16
      /\ "locks" \in Ahead(t) <=> k <= 5
      /\ "stop" \notin Ahead(t)
      /\ "join" \notin Ahead(t)
      /\ "resume" \notin Ahead(t)
      /\ "suspend" \in Ahead(t) <=> k <= 15
  <2>1. \A x : x \in Ahead(t) <=> x \in DOMAIN ProbingAt /\ k <= ProbingAt[x]
    BY DEF Placed
  <2>2. /\ "major" \notin Ahead(t)
        /\ "class" \notin Ahead(t)
        /\ "classfile" \notin Ahead(t)
        /\ "map" \notin Ahead(t)
        /\ "alloc" \in Ahead(t) <=> k <= 1
        /\ "region" \in Ahead(t) <=> k <= 4
    BY <2>1 DEF ProbingAt
  <2>3. /\ "ids" \in Ahead(t) <=> k <= 7
        /\ "pm" \in Ahead(t) <=> k <= 8
        /\ "mem" \in Ahead(t) <=> k <= 9
        /\ "queue" \in Ahead(t) <=> k <= 10
        /\ "dpm" \in Ahead(t) <=> k <= 11
        /\ "hw" \in Ahead(t) <=> k <= 12
    BY <2>1 DEF ProbingAt
  <2>4. /\ "thread" \in Ahead(t) <=> k <= 13
        /\ "irq" \in Ahead(t) <=> k <= 14
        /\ "cdev" \in Ahead(t) <=> k <= 19
        /\ "node" \in Ahead(t) <=> k <= 20
        /\ "sysfs" \in Ahead(t) <=> k <= 21
        /\ "lock" \in Ahead(t) <=> k <= 6
    BY <2>1 DEF ProbingAt
  <2>5. /\ "unlock" \in Ahead(t) <=> k <= 16
        /\ "locks" \in Ahead(t) <=> k <= 5
        /\ "stop" \notin Ahead(t)
        /\ "join" \notin Ahead(t)
        /\ "resume" \notin Ahead(t)
        /\ "suspend" \in Ahead(t) <=> k <= 15
    BY <2>1 DEF ProbingAt
  <2> QED BY <2>2, <2>3, <2>4, <2>5
<1>2. /\ "major" \notin Ahead(u)
      /\ "class" \notin Ahead(u)
      /\ "classfile" \notin Ahead(u)
      /\ "map" \notin Ahead(u)
      /\ "alloc" \in Ahead(u) <=> j <= 21
      /\ "region" \in Ahead(u) <=> j <= 20
      /\ "ids" \in Ahead(u) <=> j <= 18
      /\ "pm" \in Ahead(u) <=> j <= 16
      /\ "mem" \in Ahead(u) <=> j <= 15
      /\ "queue" \in Ahead(u) <=> j <= 11
      /\ "dpm" \in Ahead(u) <=> j <= 17
      /\ "hw" \in Ahead(u) <=> j <= 9
      /\ "thread" \in Ahead(u) <=> j <= 6
      /\ "irq" \in Ahead(u) <=> j <= 10
      /\ "cdev" \in Ahead(u) <=> j <= 2
      /\ "node" \in Ahead(u) <=> j <= 1
      /\ "sysfs" \notin Ahead(u)
      /\ "lock" \in Ahead(u) <=> j <= 14
      /\ "unlock" \in Ahead(u) <=> j <= 19
      /\ "locks" \notin Ahead(u)
      /\ "stop" \in Ahead(u) <=> j <= 3
      /\ "join" \in Ahead(u) <=> j <= 4
      /\ "resume" \in Ahead(u) <=> j <= 8
      /\ "suspend" \notin Ahead(u)
  <2>1. \A x : x \in Ahead(u) <=> x \in DOMAIN UndoCdevAt /\ j <= UndoCdevAt[x]
    BY DEF Placed
  <2>2. /\ "major" \notin Ahead(u)
        /\ "class" \notin Ahead(u)
        /\ "classfile" \notin Ahead(u)
        /\ "map" \notin Ahead(u)
        /\ "alloc" \in Ahead(u) <=> j <= 21
        /\ "region" \in Ahead(u) <=> j <= 20
    BY <2>1 DEF UndoCdevAt
  <2>3. /\ "ids" \in Ahead(u) <=> j <= 18
        /\ "pm" \in Ahead(u) <=> j <= 16
        /\ "mem" \in Ahead(u) <=> j <= 15
        /\ "queue" \in Ahead(u) <=> j <= 11
        /\ "dpm" \in Ahead(u) <=> j <= 17
        /\ "hw" \in Ahead(u) <=> j <= 9
    BY <2>1 DEF UndoCdevAt
  <2>4. /\ "thread" \in Ahead(u) <=> j <= 6
        /\ "irq" \in Ahead(u) <=> j <= 10
        /\ "cdev" \in Ahead(u) <=> j <= 2
        /\ "node" \in Ahead(u) <=> j <= 1
        /\ "sysfs" \notin Ahead(u)
        /\ "lock" \in Ahead(u) <=> j <= 14
    BY <2>1 DEF UndoCdevAt
  <2>5. /\ "unlock" \in Ahead(u) <=> j <= 19
        /\ "locks" \notin Ahead(u)
        /\ "stop" \in Ahead(u) <=> j <= 3
        /\ "join" \in Ahead(u) <=> j <= 4
        /\ "resume" \in Ahead(u) <=> j <= 8
        /\ "suspend" \notin Ahead(u)
    BY <2>1 DEF UndoCdevAt
  <2> QED BY <2>2, <2>3, <2>4, <2>5
<1>3. k \in 1 .. 22 /\ j \in 1 .. 22
  BY DEF Placed
<1>4. Inside(u) <=> Inside(t)
  BY <1>3, ProbingIsPlaced, UndoCdevIsPlaced
<1>5. ASSUME NEW r \in Resources \ {"sys", "locks", "minor"}
      PROVE  (r \in ModuleSteps \ Silent \/ r \in Due(u)) <=> r \notin Due(t)
  <2>1. r \in {"major", "class", "classfile", "map", "alloc", "region", "ids", "pm", "mem",
         "queue", "dpm", "hw", "thread", "irq", "cdev", "node", "sysfs"}
    BY ResourcesAre
  <2>2. r \in ModuleSteps \ Silent <=> r \in {"major", "class", "classfile"}
    BY <2>1 DEF ModuleSteps, Silent
  <2> QED BY <1>1, <1>2, <1>3, <2>1, <2>2 DEF Due
<1>6. u \in Tails(UndoCdev)
  BY UndoCdevIs, TailsAre DEF Placed
<1> QED BY <1>1, <1>2, <1>3, <1>4, <1>5, <1>6 DEF FailOrder

(* Whatever step of a probe fails, what it jumps to undoes what was done.   *)
LEMMA ProbeFails ==
  ASSUME NEW t \in Tails(Probing), t # <<>>, Head(t) \in Survivable
  PROVE  FailOrder(t, UndoOf(Head(t)))
<1>1. Probing \in Seq(Names) /\ Len(Probing) = 21
  BY ProbingIs
<1>2. PICK k : Placed(t, Probing, ProbingAt, 21, k)
  BY <1>1, ProbingRanks, TailIsPlaced
<1>3. k \in 1 .. 21 /\ Head(t) = Probing[k]
  BY <1>2 DEF Placed
<1>4. ProbingAt[Head(t)] = k /\ Head(t) \in DOMAIN ProbingAt
  <2>1. ProbingAt[Probing[k]] = k
    BY <1>3, ProbingIs, OneOf, SMTT(30) DEF ProbingAt
  <2> QED BY <1>1, <1>3, <2>1, ProbingRanks DEF Ranked
<1>5. UndoInit \in Seq(Names) /\ Len(UndoInit) = 7 /\ UndoCdev \in Seq(Names) /\ Len(UndoCdev) = 21
  BY UndoInitIs, UndoCdevIs
<1>6. ASSUME NEW u, NEW j, LeftAt(u, UndoInit, j)
      PROVE  Placed(u, UndoInit, UndoInitAt, 7, j)
  BY <1>5, <1>6, UndoInitRanks, LeftIsPlaced
<1>7. ASSUME NEW u, NEW j, LeftAt(u, UndoCdev, j)
      PROVE  Placed(u, UndoCdev, UndoCdevAt, 21, j)
  BY <1>5, <1>7, UndoCdevRanks, LeftIsPlaced
<1>8. CASE Head(t) \in {"alloc", "resource", "region", "ids", "pm", "mem", "queue", "dpm"}
  <2>1. \E j : /\ LeftAt(UndoOf(Head(t)), UndoInit, j)
               /\ \/ k = 1 /\ j = 8
                  \/ k \in {2, 4} /\ j = 7
                  \/ k \in 7 .. 11 /\ j = 12 - k
    BY <1>4, <1>8, UndoOfIs, SMTT(30) DEF ProbingAt
  <2> QED BY <1>2, <1>6, <2>1, InitFails
<1>9. CASE Head(t) \in {"minor", "cdev", "node", "sysfs"}
  <2>1. \E j : /\ LeftAt(UndoOf(Head(t)), UndoCdev, j)
               /\ \/ k \in {18, 19} /\ j = 3
                  \/ k = 20 /\ j = 2
                  \/ k = 21 /\ j = 1
    BY <1>4, <1>9, UndoOfIs, SMTT(30) DEF ProbingAt
  <2> QED BY <1>2, <1>7, <2>1, CdevFails
<1>10. Head(t) \notin {"major", "class"}
  BY <1>4 DEF ProbingAt
<1> QED BY <1>8, <1>9, <1>10 DEF Survivable

(* The same for the steps of the module. *)
LEMMA LoadFails ==
  ASSUME NEW t \in Tails(ModuleInit), t # <<>>, Head(t) \in Survivable
  PROVE  /\ UndoOf(Head(t)) \in Tails(ModuleExit)
         /\ \A r \in Resources : r \in Due(UndoOf(Head(t))) <=>
                r \in ModuleSteps \ Silent /\ r \notin Due(t)
         /\ ~Inside(t) /\ ~Inside(UndoOf(Head(t)))
<1>1. /\ ModuleInit \in Seq(Names) /\ Len(ModuleInit) = 4
      /\ ModuleExit \in Seq(Names) /\ Len(ModuleExit) = 3
  BY ModuleInitIs, ModuleExitIs
<1>2. PICK k : Placed(t, ModuleInit, ModuleInitAt, 4, k)
  BY <1>1, ModuleInitRanks, TailIsPlaced
<1>3. k \in 1 .. 4 /\ Head(t) = ModuleInit[k]
  BY <1>2 DEF Placed
<1>4. \/ k = 1 /\ Head(t) = "major"
      \/ k = 2 /\ Head(t) = "class"
  <2>1. k = 1 \/ k = 2 \/ k = 3 \/ k = 4
    BY <1>3
  <2>2. Head(t) \notin {"classfile", "driver"}
    BY DEF Survivable
  <2> QED BY <1>3, <2>1, <2>2, ModuleInitIs
<1>5. LeftAt(<<>>, ModuleExit, 4) /\ LeftAt(<<"major">>, ModuleExit, 3)
  <2>1. LeftAt(<<>>, ModuleExit, 3 + 1)
    BY <1>1, TailsAre
  <2> DEFINE z == SubSeq(ModuleExit, 3, 3)
             y == <<"major">>
  <2>2. LeftAt(z, ModuleExit, 3) /\ 3 \in Nat
    BY <1>1 DEF LeftAt
  <2>3. y \in Seq(Names) /\ Len(y) = 1 /\ y[1] = "major"
    BY DEF Names
  <2> HIDE DEF z, y
  <2>4. Word(ModuleExit, 3) /\ Word(y, 1)
    BY <1>1, <2>3 DEF Word
  <2>5. Word(z, 1) /\ \A j \in Nat : 1 <= j /\ j <= 1 => z[j] = ModuleExit[3 + j - 1]
    <3>1. /\ Word(z, 3 + 1 - 3)
          /\ \A j \in Nat : 1 <= j /\ j <= 3 + 1 - 3 => z[j] = ModuleExit[3 + j - 1]
      BY <2>2, <2>4, SuffixIs
    <3> QED BY <3>1
  <2>6. \A i \in Nat : 1 <= i /\ i <= 1 => z[i] = y[i]
    BY <2>3, <2>5, ModuleExitIs
  <2>7. z = y
    BY <2>4, <2>5, <2>6, WordsEqual
  <2> QED BY <2>1, <2>2, <2>7 DEF y
<1>6. \E j : LeftAt(UndoOf(Head(t)), ModuleExit, j) /\ ((k = 1 /\ j = 4) \/ (k = 2 /\ j = 3))
  <2>1. CASE k = 1 /\ Head(t) = "major"
    <3>1. LeftAt(UndoOf("major"), ModuleExit, 4)
      BY <1>5, UndoOfIs
    <3>2. LeftAt(UndoOf(Head(t)), ModuleExit, 4)
      BY <2>1, <3>1, Zenon
    <3> QED BY <2>1, <3>2, Zenon
  <2>2. CASE k = 2 /\ Head(t) = "class"
    <3>1. UndoOf(Head(t)) = <<"major">>
      BY <2>2, UndoOfIs, Zenon
    <3> QED BY <1>5, <2>2, <3>1, Zenon
  <2> QED BY <1>4, <2>1, <2>2, Zenon
<1> DEFINE u == UndoOf(Head(t))
<1>7. PICK j : LeftAt(u, ModuleExit, j) /\ ((k = 1 /\ j = 4) \/ (k = 2 /\ j = 3))
  BY <1>6, Zenon
<1> HIDE DEF u
<1>8. LeftAt(u, ModuleExit, j)
  BY <1>7
<1>9. Placed(u, ModuleExit, ModuleExitAt, 3, j)
  BY <1>1, <1>8, ModuleExitRanks, LeftIsPlaced
<1>10. u \in Tails(ModuleExit)
  BY <1>1, <1>9, TailsAre DEF Placed
<1>11. ASSUME NEW r \in Resources
       PROVE  r \in Due(u) <=> r \in ModuleSteps \ Silent /\ r \notin Due(t)
  <2>1. /\ r \in Due(u) <=> r \in DOMAIN ModuleExitAt /\ j <= ModuleExitAt[r]
        /\ r \in Due(t) <=> r \in DOMAIN ModuleInitAt /\ k <= ModuleInitAt[r]
    BY <1>2, <1>9 DEF Placed, Due, ModuleExitAt, ModuleInitAt
  <2>2. r \in ModuleSteps \ Silent <=> r \in {"major", "class", "classfile"}
    BY DEF ModuleSteps, Silent
  <2>3. DOMAIN ModuleExitAt = {"classfile", "class", "major"}
    BY DEF ModuleExitAt
  <2> QED BY <1>7, <2>1, <2>2, <2>3 DEF ModuleExitAt, ModuleInitAt
<1>12. ~Inside(t)
  BY <1>2, ModuleInitIs, OneOf DEF Placed
<1>13. ~Inside(u)
  BY <1>9, ModuleExitIsPlaced
<1> QED BY <1>10, <1>11, <1>12, <1>13 DEF u

LEMMA DeviceStepsAre ==
  DeviceSteps = {"alloc", "resource", "sys", "region", "locks", "lock", "ids", "pm", "mem",
    "queue", "dpm", "hw", "thread", "irq", "suspend", "unlock", "fops", "minor", "cdev",
    "node", "sysfs"}
<1>1. DeviceSteps = DOMAIN ProbingAt
  <2>1. DOMAIN Probing = 1 .. 21
    BY ProbingIs, LenProperties
  <2>2. /\ \A i \in 1 .. 21 : Probing[i] \in DOMAIN ProbingAt
        /\ \A x \in DOMAIN ProbingAt : ProbingAt[x] \in 1 .. 21 /\ Probing[ProbingAt[x]] = x
    BY ProbingIs, ProbingRanks DEF Ranked
  <2> QED BY <2>1, <2>2 DEF DeviceSteps
<1> QED BY <1>1 DEF ProbingAt

(* Only the module's own lists name the module's steps. *)
LEMMA GivesNoModule ==
  ASSUME NEW t \in Tails(Removing) \cup Tails(UndoInit) \cup Tails(UndoCdev)
  PROVE  Ahead(t) \cap ModuleSteps = {}
<1>1. /\ Removing \in Seq(Names) /\ Len(Removing) = 27
      /\ UndoInit \in Seq(Names) /\ Len(UndoInit) = 7
      /\ UndoCdev \in Seq(Names) /\ Len(UndoCdev) = 21
  BY RemovingIs, UndoInitIs, UndoCdevIs
<1>2. CASE t \in Tails(Removing)
  <2>1. \E k : Placed(t, Removing, RemovingAt, 27, k)
    BY <1>1, <1>2, RemovingRanks, TailIsPlaced
  <2>2. \A x : x \in Ahead(t) => x \in DOMAIN RemovingAt
    BY <2>1 DEF Placed
  <2> QED BY <2>2 DEF RemovingAt, ModuleSteps
<1>3. CASE t \in Tails(UndoInit)
  <2>1. \E k : Placed(t, UndoInit, UndoInitAt, 7, k)
    BY <1>1, <1>3, UndoInitRanks, TailIsPlaced
  <2>2. \A x : x \in Ahead(t) => x \in DOMAIN UndoInitAt
    BY <2>1 DEF Placed
  <2> QED BY <2>2 DEF UndoInitAt, ModuleSteps
<1>4. CASE t \in Tails(UndoCdev)
  <2>1. \E k : Placed(t, UndoCdev, UndoCdevAt, 21, k)
    BY <1>1, <1>4, UndoCdevRanks, TailIsPlaced
  <2>2. \A x : x \in Ahead(t) => x \in DOMAIN UndoCdevAt
    BY <2>1 DEF Placed
  <2> QED BY <2>2 DEF UndoCdevAt, ModuleSteps
<1> QED BY <1>2, <1>3, <1>4

LEMMA Placements ==
  ASSUME TodoInv
  PROVE  \/ doing = "take" /\ at = "in" /\ todo \in Tails(ModuleInit)
         \/ doing = "take" /\ at = "up" /\ todo \in Tails(Probing)
         \/ doing = "give" /\ at = "out" /\ todo \in Tails(ModuleExit)
         \/ doing = "give" /\ at = "in" /\ todo \in Tails(Removing)
         \/ doing = "give" /\ at = "failed" /\ todo \in Tails(UndoInit) \cup Tails(UndoCdev)
BY DEF TodoInv, Lists

(* The list that the kernel's thread works on, whatever it is. *)
LEMMA TodoOrder ==
  ASSUME TodoInv
  PROVE  /\ doing \in {"take", "give"}
         /\ doing = "take" => at \in {"in", "up"} /\ TakeOrder(todo)
         /\ doing = "give" => at \in {"out", "in", "failed"} /\ GiveOrder(todo)
         /\ doing = "take" /\ at = "in" => Ahead(todo) \subseteq ModuleSteps
         /\ doing = "give" /\ at # "out" => Ahead(todo) \cap ModuleSteps = {}
         /\ at = "failed" => "minor" \notin Ahead(todo)
<1>1. CASE doing = "take" /\ at = "in" /\ todo \in Tails(ModuleInit)
  BY <1>1, ModuleInitOrder
<1>2. CASE doing = "take" /\ at = "up" /\ todo \in Tails(Probing)
  BY <1>2, ProbingOrder
<1>3. CASE doing = "give" /\ at = "out" /\ todo \in Tails(ModuleExit)
  BY <1>3, ModuleExitOrder
<1>4. CASE doing = "give" /\ at = "in" /\ todo \in Tails(Removing)
  BY <1>4, RemovingOrder, GivesNoModule
<1>5. CASE doing = "give" /\ at = "failed" /\ todo \in Tails(UndoInit) \cup Tails(UndoCdev)
  BY <1>5, UndoInitOrder, UndoCdevOrder, GivesNoModule, UndoLeavesMinor
<1> QED BY <1>1, <1>2, <1>3, <1>4, <1>5, Placements

LEMMA ListsAreWords ==
  ASSUME NEW place, NEW how, NEW L \in Lists(place, how)
  PROVE  L \in Seq(Names)
<1>1. L \in {ModuleInit, ModuleExit, Probing, Removing, UndoInit, UndoCdev}
  BY DEF Lists
<1>2. /\ ModuleInit \in Seq(Names) /\ ModuleExit \in Seq(Names) /\ Probing \in Seq(Names)
      /\ Removing \in Seq(Names) /\ UndoInit \in Seq(Names) /\ UndoCdev \in Seq(Names)
  BY ModuleInitIs, ModuleExitIs, ProbingIs, RemovingIs, UndoInitIs, UndoCdevIs
<1> QED BY ONLY <1>1, <1>2

(* One step of todo is done. *)
LEMMA StepDone ==
  ASSUME TodoInv, todo # <<>>, Done
  PROVE  /\ TodoInv'
         /\ \A x : x \in Ahead(todo) <=> x = Head(todo) \/ x \in Ahead(todo')
         /\ Head(todo) \in {"lock", "unlock"} \/ Head(todo) \notin Ahead(todo')
         /\ Inside(todo) <=> \/ Head(todo) = "unlock"
                             \/ Head(todo) # "lock" /\ Inside(todo')
         /\ Head(todo) = "lock" => Inside(todo')
         /\ Head(todo) = "unlock" => ~Inside(todo')
<1>1. PICK L \in Lists(at, doing) : todo \in Tails(L)
  BY DEF TodoInv
<1>2. L \in Seq(Names)
  BY ListsAreWords
<1>3. PICK k : LeftAt(todo, L, k)
  BY <1>1, <1>2, TailsAre
<1>4. /\ k \in 1 .. Len(L) /\ LeftAt(Tail(todo), L, k + 1)
      /\ Ahead(todo) = {Head(todo)} \cup Ahead(Tail(todo))
      /\ Inside(todo) <=> \/ Head(todo) = "unlock"
                          \/ Head(todo) # "lock" /\ Inside(Tail(todo))
  BY <1>2, <1>3, OneDone
<1>5. at' = at /\ doing' = doing /\ todo' = Tail(todo)
  BY DEF Done
<1>6. Tail(todo) \in Tails(L)
  <2>1. Len(L) \in Nat /\ k + 1 \in 1 .. Len(L) + 1
    BY <1>2, <1>4, LenProperties
  <2> QED BY <1>2, <1>4, <2>1, TailsAre
<1>7. TodoInv'
  BY <1>1, <1>5, <1>6 DEF TodoInv
<1>8. /\ Head(todo) \in {"lock", "unlock"} \/ Head(todo) \notin Ahead(Tail(todo))
      /\ Head(todo) = "lock" => Inside(Tail(todo))
      /\ Head(todo) = "unlock" => ~Inside(Tail(todo))
  <2>1. CASE doing = "take"
    BY <2>1, TodoOrder DEF TakeOrder
  <2>2. CASE doing = "give"
    BY <2>2, TodoOrder DEF GiveOrder
  <2> QED BY <2>1, <2>2, TodoOrder
<1> QED BY <1>4, <1>5, <1>7, <1>8

-----------------------------------------------------------------------------
(* What the functions of the power make of p. *)

PowerSet == [usage : Int, clk : BOOLEAN, susp : BOOLEAN, dpm : {"none", "live", "freed"},
             cur : {"off", "on"}]

(* What switching the power does to the record of the power.                *)
LEMMA SwitchedOn ==
  ASSUME NEW p \in PowerSet, NEW q, q \in {PowerUp(p), PlatformPmInit(p)}
  PROVE  /\ q \in PowerSet /\ q.usage = p.usage + 1 /\ q.clk /\ ~q.susp
         /\ q.dpm = p.dpm /\ q.cur = IF p.dpm = "live" THEN "on" ELSE p.cur
<1> DEFINE a == SetPower(p, TRUE)
           b == [a EXCEPT !.clk = TRUE]
           c == ClkUpdate(b, "on")
<1>1. a \in PowerSet /\ a.usage = p.usage + 1 /\ a.dpm = p.dpm /\ a.cur = p.cur
  BY DEF SetPower, PowerSet
<1>2. q = [c EXCEPT !.susp = FALSE]
  BY Zenon DEF PowerUp, PlatformPmInit, SetClock
<1> HIDE DEF a
<1>3. /\ b \in PowerSet /\ b.usage = a.usage /\ b.clk /\ b.dpm = a.dpm
      /\ b.cur = a.cur
  BY <1>1 DEF PowerSet
<1> HIDE DEF b
<1>4. /\ c \in PowerSet /\ c.usage = b.usage /\ c.clk /\ c.dpm = b.dpm
      /\ c.cur = IF b.dpm = "live" THEN "on" ELSE b.cur
  BY <1>3 DEF ClkUpdate, PowerSet
<1> HIDE DEF c
<1>5. /\ q \in PowerSet /\ q.usage = c.usage /\ q.clk = c.clk /\ ~q.susp
      /\ q.dpm = c.dpm /\ q.cur = c.cur
  BY <1>2, <1>4 DEF PowerSet
<1> QED BY <1>1, <1>3, <1>4, <1>5

LEMMA SwitchedOff ==
  ASSUME NEW p \in PowerSet, NEW q,
         q = PlatformPmDeinit(p) \/ (~p.susp /\ q = PlatformSuspend(p))
  PROVE  /\ q \in PowerSet /\ q.usage = p.usage - 1 /\ ~q.clk /\ q.susp
         /\ q.dpm = p.dpm /\ q.cur = IF p.dpm = "live" THEN "off" ELSE p.cur
<1>1. ASSUME q = PlatformPmDeinit(p)
      PROVE  /\ q \in PowerSet /\ q.usage = p.usage - 1 /\ ~q.clk /\ q.susp
             /\ q.dpm = p.dpm /\ q.cur = IF p.dpm = "live" THEN "off" ELSE p.cur
  <2> DEFINE a == [p EXCEPT !.clk = FALSE]
             b == ClkUpdate(a, "off")
             c == SetPower(b, FALSE)
  <2>1. a \in PowerSet /\ a.usage = p.usage /\ ~a.clk /\ a.dpm = p.dpm /\ a.cur = p.cur
    BY DEF PowerSet
  <2>2. q = [c EXCEPT !.susp = TRUE]
    BY <1>1, Zenon DEF PlatformPmDeinit, SetClock
  <2> HIDE DEF a
  <2>3. /\ b \in PowerSet /\ b.usage = a.usage /\ ~b.clk /\ b.dpm = a.dpm
        /\ b.cur = IF a.dpm = "live" THEN "off" ELSE a.cur
    BY <2>1 DEF ClkUpdate, PowerSet
  <2> HIDE DEF b
  <2>4. /\ c \in PowerSet /\ c.usage = b.usage - 1 /\ ~c.clk /\ c.dpm = b.dpm
        /\ c.cur = b.cur
    BY <2>3 DEF SetPower, PowerSet
  <2> HIDE DEF c
  <2>5. /\ q \in PowerSet /\ q.usage = c.usage /\ q.clk = c.clk /\ q.susp
        /\ q.dpm = c.dpm /\ q.cur = c.cur
    BY <2>2, <2>4 DEF PowerSet
  <2> QED BY <2>1, <2>3, <2>4, <2>5
<1>2. ASSUME ~p.susp, q = PlatformSuspend(p)
      PROVE  /\ q \in PowerSet /\ q.usage = p.usage - 1 /\ ~q.clk /\ q.susp
             /\ q.dpm = p.dpm /\ q.cur = IF p.dpm = "live" THEN "off" ELSE p.cur
  <2> DEFINE a == [p EXCEPT !.susp = TRUE]
             b == [a EXCEPT !.clk = FALSE]
             c == ClkUpdate(b, "off")
  <2>1. a \in PowerSet /\ a.usage = p.usage /\ a.susp /\ a.dpm = p.dpm /\ a.cur = p.cur
    BY DEF PowerSet
  <2>2. q = SetPower(c, FALSE)
    BY <1>2, Zenon DEF PlatformSuspend, SetClock
  <2> HIDE DEF a
  <2>3. /\ b \in PowerSet /\ b.usage = a.usage /\ ~b.clk /\ b.susp
        /\ b.dpm = a.dpm /\ b.cur = a.cur
    BY <2>1 DEF PowerSet
  <2> HIDE DEF b
  <2>4. /\ c \in PowerSet /\ c.usage = b.usage /\ ~c.clk /\ c.susp
        /\ c.dpm = b.dpm /\ c.cur = IF b.dpm = "live" THEN "off" ELSE b.cur
    BY <2>3 DEF ClkUpdate, PowerSet
  <2> HIDE DEF c
  <2>5. /\ q \in PowerSet /\ q.usage = c.usage - 1 /\ ~q.clk /\ q.susp
        /\ q.dpm = c.dpm /\ q.cur = c.cur
    BY <2>2, <2>4 DEF SetPower, PowerSet
  <2> QED BY <2>1, <2>3, <2>4, <2>5
<1> QED BY <1>1, <1>2

LEMMA ClockOn ==
  ASSUME NEW p \in PowerSet, p.dpm = "live", NEW q, q = SetClock(p, TRUE)
  PROVE  /\ q \in PowerSet /\ q.usage = p.usage /\ q.clk /\ q.susp = p.susp
         /\ q.dpm = p.dpm /\ q.cur = "on"
<1> DEFINE a == [p EXCEPT !.clk = TRUE]
<1>1. /\ a \in PowerSet /\ a.usage = p.usage /\ a.clk /\ a.susp = p.susp
      /\ a.dpm = p.dpm
  BY DEF PowerSet
<1>2. q = ClkUpdate(a, "on")
  BY Zenon DEF SetClock
<1> HIDE DEF a
<1> QED BY <1>1, <1>2 DEF ClkUpdate, PowerSet

LEMMA DpmMade ==
  ASSUME NEW p \in PowerSet, NEW q, q = DpmInit(p)
  PROVE  /\ q \in PowerSet /\ q.usage = p.usage /\ q.clk = p.clk /\ q.susp = p.susp
         /\ q.dpm = "live" /\ q.cur = "off"
<1> DEFINE a == [p EXCEPT !.dpm = "live"]
<1>1. /\ a \in PowerSet /\ a.usage = p.usage /\ a.clk = p.clk /\ a.susp = p.susp
      /\ a.dpm = "live"
  BY DEF PowerSet
<1>2. q = [a EXCEPT !.cur = "off"]
  BY DEF DpmInit
<1> HIDE DEF a
<1> QED BY <1>1, <1>2 DEF PowerSet

LEMMA DpmFreed ==
  ASSUME NEW p \in PowerSet, NEW q, q = DpmDeinit(p)
  PROVE  /\ q \in PowerSet /\ q.usage = p.usage /\ q.clk = p.clk /\ q.susp = p.susp
         /\ q.dpm = (IF p.dpm = "none" THEN "none" ELSE "freed") /\ q.cur = p.cur
<1>1. CASE p.dpm = "none"
  BY <1>1 DEF DpmDeinit, PowerSet
<1>2. CASE p.dpm # "none"
  BY <1>2 DEF DpmDeinit, PowerSet
<1> QED BY <1>1, <1>2

(* The strategies of the dpm switch the device on or off, whatever it was. *)
LEMMA Adjusted ==
  ASSUME NEW p \in PowerSet, NEW strategy \in {"MIN", "MAX"}, NEW q,
         q = StageAdjust(p, strategy), p.dpm = "live", p.usage = (IF p.susp THEN 0 ELSE 1),
         p.clk = ~p.susp, p.cur = IF p.susp THEN "off" ELSE "on"
  PROVE  /\ q \in PowerSet /\ q.dpm = "live" /\ q.susp = (strategy = "MIN")
         /\ q.usage = (IF q.susp THEN 0 ELSE 1) /\ q.clk = ~q.susp
         /\ q.cur = IF q.susp THEN "off" ELSE "on"
<1>1. p.susp \in BOOLEAN /\ p.usage \in Int
  BY DEF PowerSet
<1>2. CASE q = p /\ p.susp = (strategy = "MIN")
  BY <1>2
<1>3. CASE strategy = "MAX" /\ p.susp
  <2> DEFINE a == PowerUp(p)
  <2>1. a \in PowerSet /\ a.usage = 1 /\ a.clk /\ ~a.susp /\ a.dpm = "live"
    <3>1. a \in {PowerUp(p), PlatformPmInit(p)}
      OBVIOUS
    <3>2. p.usage = 0
      BY <1>3
    <3> HIDE DEF a
    <3> QED BY <3>1, <3>2, SwitchedOn
  <2>2. q = [a EXCEPT !.cur = "on"]
    BY <1>3 DEF StageAdjust, DpmAdjust, PlatformResume
  <2> HIDE DEF a
  <2> QED BY <1>3, <2>1, <2>2 DEF PowerSet
<1>4. CASE strategy = "MIN" /\ ~p.susp
  <2> DEFINE a == PlatformSuspend(p)
  <2>1. a \in PowerSet /\ a.usage = 0 /\ ~a.clk /\ a.susp /\ a.dpm = "live"
    <3>1. a = PlatformSuspend(p)
      OBVIOUS
    <3>2. p.usage = 1 /\ ~p.susp
      BY <1>4
    <3> HIDE DEF a
    <3> QED BY <3>1, <3>2, SwitchedOff
  <2>2. q = [a EXCEPT !.cur = "off"]
    BY <1>4 DEF StageAdjust, DpmAdjust
  <2> HIDE DEF a
  <2> QED BY <1>4, <2>1, <2>2 DEF PowerSet
<1>5. CASE strategy = "MAX" /\ ~p.susp
  <2>1. q = p
    BY <1>5 DEF StageAdjust
  <2>2. p.susp = (strategy = "MIN")
    BY <1>1, <1>5
  <2> QED BY <1>2, <2>1, <2>2
<1>6. CASE strategy = "MIN" /\ p.susp
  BY <1>2, <1>6 DEF StageAdjust
<1> QED BY <1>1, <1>3, <1>4, <1>5, <1>6

-----------------------------------------------------------------------------
(* What a step of todo leaves as it was. *)

LEMMA MapIsNoStep ==
  ASSUME TodoInv
  PROVE  "map" \notin Ahead(todo)
<1>1. "map" \notin ModuleSteps \cup DeviceSteps
  BY DeviceStepsAre DEF ModuleSteps
<1> QED BY <1>1, TodoOrder DEF TakeOrder, GiveOrder

LEMMA DueDone ==
  ASSUME TodoInv, todo # <<>>, Done
  PROVE  /\ \A r : r \in Due(todo) <=> \/ r = Head(todo) \/ (Head(todo) = "region" /\ r = "map")
                                       \/ r \in Due(todo')
         /\ Head(todo) \in {"lock", "unlock"} \/ Head(todo) \notin Due(todo')
         /\ Head(todo) = "region" => "map" \notin Due(todo')
<1>1. /\ TodoInv'
      /\ \A x : x \in Ahead(todo) <=> x = Head(todo) \/ x \in Ahead(todo')
      /\ Head(todo) \in {"lock", "unlock"} \/ Head(todo) \notin Ahead(todo')
  BY StepDone
<1>2. "map" \notin Ahead(todo)
  BY MapIsNoStep
<1>3. /\ \A r : r \in Due(todo) <=>
                 r \in Ahead(todo) \/ ("region" \in Ahead(todo) /\ r = "map")
      /\ \A r : r \in Due(todo') <=>
                 r \in Ahead(todo') \/ ("region" \in Ahead(todo') /\ r = "map")
  BY DEF Due
<1>4. "map" # "region" /\ "map" # "lock" /\ "map" # "unlock"
  OBVIOUS
<1>5. ASSUME NEW r
      PROVE  r \in Due(todo) <=> \/ r = Head(todo) \/ (Head(todo) = "region" /\ r = "map")
                                 \/ r \in Due(todo')
  BY <1>1, <1>3
<1>6. Head(todo) \in {"lock", "unlock"} \/ Head(todo) \notin Due(todo')
  BY <1>1, <1>2, <1>3
<1>7. Head(todo) = "region" => "map" \notin Due(todo')
  BY <1>1, <1>2, <1>3
<1> QED BY <1>5, <1>6, <1>7

LEMMA SilentAre ==
  /\ {"lock", "unlock"} \cap Resources = {}
  /\ Resources \cap ModuleSteps = ModuleSteps \ Silent
  /\ {"map", "region"} \cap ModuleSteps = {} /\ "sys" \notin ModuleSteps
BY DEF Resources, Silent, ModuleSteps

LEMMA TookHeld ==
  ASSUME LifeInv, doing = "take", todo # <<>>, Done, held' \subseteq Resources,
         "sys" \in held' => "sys" \in held \/ Head(todo) = "sys",
         \A r \in Resources \ {"sys"} : r \in held' <=>
           r \in held \/ r = Head(todo) \/ (Head(todo) = "region" /\ r = "map")
  PROVE  HeldInv'
<1>1. TodoInv /\ HeldInv
  BY DEF LifeInv
<1>2. /\ at' = at /\ doing' = doing /\ at \in {"in", "up"}
      /\ Head(todo) \in Ahead(todo)
      /\ at = "in" => Ahead(todo) \subseteq ModuleSteps
  BY <1>1, StepDone, TodoOrder DEF Done
<1>3. ASSUME NEW r \in Resources \ {"sys"}
      PROVE  r \in held' <=> r \in Wanted /\ r \notin Due(todo')
  <2>1. r \in held <=> r \in Wanted /\ r \notin Due(todo)
    BY <1>1, <1>2 DEF HeldInv, Loose
  <2>2. r = Head(todo) \/ (Head(todo) = "region" /\ r = "map") => r \in Wanted
    BY <1>2, SilentAre DEF Wanted
  <2>3. r \notin {"lock", "unlock"}
    BY SilentAre
  <2> QED BY <1>1, <2>1, <2>2, <2>3, DueDone
<1>4. "sys" \in held' => at = "up"
  BY <1>1, <1>2, SilentAre DEF HeldInv
<1>5. Wanted' = Wanted /\ Loose' = {"sys"}
  BY <1>2 DEF Wanted, Loose
<1> QED BY <1>2, <1>3, <1>4, <1>5 DEF HeldInv

LEMMA GaveHeld ==
  ASSUME LifeInv, doing = "give", todo # <<>>, Done, held' \subseteq Resources,
         \A r \in Resources : r \in held' <=>
           r \in held /\ r # Head(todo) /\ ~(Head(todo) = "region" /\ r = "map")
  PROVE  HeldInv'
<1>1. TodoInv /\ HeldInv
  BY DEF LifeInv
<1>2. /\ at' = at /\ doing' = doing
      /\ \A x : x \in Ahead(todo) <=> x = Head(todo) \/ x \in Ahead(todo')
      /\ at # "out" => Ahead(todo) \cap ModuleSteps = {}
      /\ Head(todo) = "locks" => {"lock", "unlock"} \cap Ahead(todo') = {}
  BY <1>1, StepDone, TodoOrder DEF Done, GiveOrder
<1>3. Left' = Left /\ Loose' = Loose
  BY <1>2 DEF Left, Loose
<1>4. ASSUME NEW r \in Resources \ Loose
      PROVE  r \in held' <=> r \in Left \/ r \in Due(todo')
  <2>1. r \in held <=> r \in Left \/ r \in Due(todo)
    BY <1>1 DEF HeldInv
  <2>2. r = Head(todo) \/ (Head(todo) = "region" /\ r = "map") => r \notin Left
    BY <1>2, SilentAre DEF Left
  <2>3. r \notin {"lock", "unlock"}
    BY SilentAre
  <2> QED BY <1>1, <2>1, <2>2, <2>3, DueDone
<1>5. "sys" \in held' => at \in {"up", "failed"} \/ "sys" \in Ahead(todo')
  <2>1. "sys" \in Resources
    BY ResourcesAre
  <2> QED BY <1>1, <1>2, <2>1 DEF HeldInv
<1>6. {"lock", "unlock"} \cap Ahead(todo') # {} => "locks" \in held'
  <2>1. "locks" \in Resources
    BY ResourcesAre
  <2> QED BY <1>1, <1>2, <2>1 DEF HeldInv
<1> QED BY <1>2, <1>3, <1>4, <1>5, <1>6 DEF HeldInv

(* No client is there while the kernel's thread works. *)
LEMMA ClientFrame ==
  ASSUME LifeInv, PlainLife, todo # <<>>, Quiet
  PROVE  /\ ctxs = 0 /\ dbg = "none"
         /\ dbg' = dbg /\ (ctxs' = ctxs \/ ctxs' = 0) => ClientInv'
<1>1. ctxs \in 0 .. MaxContexts /\ ~Up
  BY DEF LifeInv, LifeTypeOK, Up
<1> QED BY <1>1 DEF LifeInv, ClientInv, Quiet, PlainLife

LEMMA ThreadFrame ==
  ASSUME LifeInv, todo # <<>>, Done, thr' = thr,
         "thread" \in held' <=> "thread" \in held,
         Head(todo) \notin {"stop", "join"}, thr.pc = "work" => ~lock'
  PROVE  ThreadInv'
<1>1. doing' = doing /\ \A x : x \in Ahead(todo) <=> x = Head(todo) \/ x \in Ahead(todo')
  BY StepDone DEF Done, LifeInv
<1> QED BY <1>1 DEF LifeInv, ThreadInv

LEMMA PowerFrame ==
  ASSUME LifeInv, todo # <<>>, Done, pw' = pw,
         thr'.pc # "gone" /\ thr'.strategy = "MAX" => ~pw.susp,
         "pm" \in held' <=> "pm" \in held, "dpm" \in held' <=> "dpm" \in held,
         Head(todo) \notin {"suspend", "resume"}
  PROVE  PowerInv'
<1>1. /\ doing' = doing /\ at' = at
      /\ \A x : x \in Ahead(todo) <=> x = Head(todo) \/ x \in Ahead(todo')
  BY StepDone DEF Done, LifeInv
<1> QED BY <1>1 DEF LifeInv, PowerInv

LEMMA ModFrame ==
  ASSUME LifeInv, Done, mod' = mod,
         "mem" \in held' => "mem" \in held, "minor" \in held' => "minor" \in held
  PROVE  ModInv'
BY DEF LifeInv, ModInv, Done

LEMMA LockFrame ==
  ASSUME LifeInv, todo # <<>>, Done, lock' = lock, Head(todo) \notin {"lock", "unlock"}
  PROVE  lock' <=> Inside(todo')
BY StepDone DEF LifeInv

-----------------------------------------------------------------------------
(* What is held when a list is left at some step. *)

(* What is held, told by the steps ahead: while steps take, the resources   *)
(* of the steps already done.                                               *)
LEMMA HeldTaking ==
  ASSUME LifeInv, doing = "take"
  PROVE  /\ TakeOrder(todo) /\ at \in {"in", "up"}
         /\ at = "in" => Ahead(todo) \subseteq ModuleSteps
         /\ at = "up" => \A r \in Resources \ {"sys", "map"} : r \in held <=> r \notin Ahead(todo)
         /\ at = "up" => ("map" \in held <=> "region" \notin Ahead(todo))
         /\ at = "in" => \A r \in Resources \ ModuleSteps : r \notin held
<1>1. TodoInv /\ HeldInv
  BY DEF LifeInv
<1>2. /\ TakeOrder(todo) /\ at \in {"in", "up"}
      /\ at = "in" => Ahead(todo) \subseteq ModuleSteps
  BY <1>1, TodoOrder
<1>3. \A r \in Resources \ {"sys"} : r \in held <=> r \in Wanted /\ r \notin Due(todo)
  BY <1>1, <1>2 DEF HeldInv, Loose
<1>4. at = "up" => \A r \in Resources \ {"sys", "map"} : r \in held <=> r \notin Ahead(todo)
  BY <1>3 DEF Wanted, Due
<1>5. at = "up" => ("map" \in held <=> "region" \notin Ahead(todo))
  <2>1. "map" \in Resources /\ "map" \notin Ahead(todo)
    BY <1>1, MapIsNoStep, ResourcesAre
  <2> QED BY <1>3, <2>1 DEF Wanted, Due
<1>6. ASSUME at = "in", NEW r \in Resources \ ModuleSteps
      PROVE  r \notin held
  <2>1. CASE r = "sys"
    BY <1>1, <1>2, <1>6, <2>1, SilentAre DEF HeldInv
  <2>2. CASE r # "sys"
    BY <1>3, <1>6, <2>2 DEF Wanted
  <2> QED BY <2>1, <2>2
<1> QED BY <1>2, <1>4, <1>5, <1>6

(* While steps give back, the resources of the steps still ahead.           *)
LEMMA HeldGiving ==
  ASSUME LifeInv, doing = "give"
  PROVE  /\ GiveOrder(todo) /\ at \in {"out", "in", "failed"}
         /\ \A r \in Resources \ (ModuleSteps \cup {"sys", "locks", "minor", "map"}) :
              r \in held <=> r \in Ahead(todo)
         /\ "map" \in held <=> "region" \in Ahead(todo)
         /\ "minor" \in Ahead(todo) => "minor" \in held
         /\ {"lock", "unlock"} \cap Ahead(todo) # {} => "locks" \in held
<1>1. TodoInv /\ HeldInv
  BY DEF LifeInv
<1>2. /\ GiveOrder(todo) /\ at \in {"out", "in", "failed"}
      /\ at = "failed" => "minor" \notin Ahead(todo)
  BY <1>1, TodoOrder
<1>3. \A r \in Resources \ Loose : r \in held <=> r \in Left \/ r \in Due(todo)
  BY <1>1 DEF HeldInv
<1>4. ASSUME NEW r \in Resources \ (ModuleSteps \cup {"sys", "locks", "minor"})
      PROVE  r \in held <=> r \in Due(todo)
  BY <1>3, <1>4 DEF Loose, Left
<1>5. "map" \in held <=> "region" \in Ahead(todo)
  <2>1. "map" \in Resources /\ "map" \notin Ahead(todo)
    BY <1>1, MapIsNoStep, ResourcesAre
  <2> QED BY <1>4, <2>1, SilentAre DEF Due
<1>6. \A r \in Resources \ (ModuleSteps \cup {"sys", "locks", "minor", "map"}) :
              r \in held <=> r \in Ahead(todo)
  BY <1>4 DEF Due
<1>7. "minor" \in Ahead(todo) => "minor" \in held
  <2>1. "minor" \in Resources
    BY ResourcesAre
  <2> QED BY <1>2, <1>3, <2>1 DEF Loose, Due
<1>8. {"lock", "unlock"} \cap Ahead(todo) # {} => "locks" \in held
  BY <1>1 DEF HeldInv
<1> QED BY <1>2, <1>5, <1>6, <1>7, <1>8

(* A step that only takes or gives. *)
LEMMA PlainStep ==
  ASSUME LifeInv, PlainLife, todo # <<>>, Quiet, Done, HeldInv',
         UNCHANGED <<lock, thr, pw, dbg, ctxs, mod>>,
         Head(todo) \notin {"lock", "unlock", "stop", "join", "suspend", "resume"},
         \A r \in {"thread", "pm", "dpm", "mem", "minor"} : r \in held' <=> r \in held
  PROVE  LifeInv'
<1>1. LifeTypeOK'
  BY DEF LifeInv, LifeTypeOK, Done, HeldInv
<1>2. TodoInv'
  BY StepDone DEF LifeInv
<1>3. lock' <=> Inside(todo')
  BY LockFrame
<1>4. ThreadInv'
  BY ThreadFrame DEF LifeInv, ThreadInv
<1>5. PowerInv'
  BY PowerFrame DEF LifeInv, PowerInv
<1>6. ModInv'
  BY ModFrame
<1>7. ClientInv'
  BY ClientFrame
<1> QED BY <1>1, <1>2, <1>3, <1>4, <1>5, <1>6, <1>7 DEF LifeInv

LEMMA TakePlainInv ==
  ASSUME LifeInv, PlainLife, NEW s, TakePlain(s)
  PROVE  LifeInv'
<1>1. /\ todo # <<>> /\ doing = "take" /\ Quiet /\ Done /\ s = Head(todo)
      /\ held' = held \cup {s} /\ s \in Plain /\ UNCHANGED <<lock, thr, pw, dbg, ctxs, mod>>
  BY DEF TakePlain, Now, Took
<1>2. Plain \subseteq Resources
  BY ResourcesAre DEF Plain
<1>3. s \notin {"region", "lock", "unlock", "stop", "join", "suspend", "resume", "sys",
                "thread", "pm", "dpm", "mem", "minor"}
  BY <1>1 DEF Plain
<1>4. HeldInv'
  <2>1. held' \subseteq Resources
    BY <1>1, <1>2 DEF LifeInv, LifeTypeOK
  <2> QED BY <1>1, <1>3, <2>1, TookHeld
<1> QED BY <1>1, <1>3, <1>4, PlainStep

LEMMA TakeNothingInv ==
  ASSUME LifeInv, PlainLife, NEW s, TakeNothing(s)
  PROVE  LifeInv'
<1>1. /\ todo # <<>> /\ doing = "take" /\ Quiet /\ Done /\ s = Head(todo)
      /\ s \in {"driver", "resource", "fops"} /\ UNCHANGED <<held, lock, thr, pw, dbg, ctxs, mod>>
  BY DEF TakeNothing, Now
<1>2. s \notin Resources
  BY <1>1, ResourcesAre
<1>3. HeldInv'
  <2>1. held' \subseteq Resources
    BY <1>1 DEF LifeInv, LifeTypeOK
  <2> QED BY <1>1, <1>2, <2>1, TookHeld
<1> QED BY <1>1, <1>3, PlainStep

LEMMA VoltageInitInv ==
  ASSUME LifeInv, PlainLife, VoltageInit
  PROVE  LifeInv'
<1>1. /\ todo # <<>> /\ doing = "take" /\ Quiet /\ Done /\ Head(todo) = "sys"
      /\ held' \in {held \cup {"sys"}, held} /\ UNCHANGED <<lock, thr, pw, dbg, ctxs, mod>>
  BY DEF VoltageInit, Now, Took
<1>2. HeldInv'
  <2>1. "sys" \in Resources
    BY ResourcesAre
  <2>2. held' \subseteq Resources
    BY <1>1, <2>1 DEF LifeInv, LifeTypeOK
  <2> QED BY <1>1, <2>2, TookHeld
<1> QED BY <1>1, <1>2, PlainStep

LEMMA CreateIoregionInv ==
  ASSUME LifeInv, PlainLife, CreateIoregion
  PROVE  LifeInv'
<1>1. /\ todo # <<>> /\ doing = "take" /\ Quiet /\ Done /\ Head(todo) = "region"
      /\ held' = held \cup {"region", "map"} /\ UNCHANGED <<lock, thr, pw, dbg, ctxs, mod>>
  BY DEF CreateIoregion, Now, PlainLife
<1>2. HeldInv'
  <2>1. {"region", "map"} \subseteq Resources
    BY ResourcesAre
  <2>2. held' \subseteq Resources
    BY <1>1, <2>1 DEF LifeInv, LifeTypeOK
  <2> QED BY <1>1, <2>2, TookHeld
<1> QED BY <1>1, <1>2, PlainStep

LEMMA GivePlainInv ==
  ASSUME LifeInv, PlainLife, NEW s, GivePlain(s)
  PROVE  LifeInv'
<1>1. /\ todo # <<>> /\ doing = "give" /\ Quiet /\ Done /\ s = Head(todo)
      /\ held' = held \ {s} /\ s \in Plain \cup {"sys"}
      /\ UNCHANGED <<lock, thr, pw, dbg, ctxs, mod>>
  BY DEF GivePlain, Now, Gave
<1>2. s \notin {"region", "lock", "unlock", "stop", "join", "suspend", "resume",
                "thread", "pm", "dpm", "mem", "minor"}
  BY <1>1 DEF Plain
<1>3. HeldInv'
  <2>1. held' \subseteq Resources
    BY <1>1 DEF LifeInv, LifeTypeOK
  <2> QED BY <1>1, <1>2, <2>1, GaveHeld
<1> QED BY <1>1, <1>2, <1>3, PlainStep

LEMMA DestroyIoregionInv ==
  ASSUME LifeInv, PlainLife, DestroyIoregion
  PROVE  LifeInv'
<1>1. /\ todo # <<>> /\ doing = "give" /\ Quiet /\ Done /\ Head(todo) = "region"
      /\ held' = (IF "map" \in held THEN held \ {"region", "map"} ELSE held)
      /\ UNCHANGED <<lock, thr, pw, dbg, ctxs, mod>>
  BY DEF DestroyIoregion, Now
<1>2. "map" \in held
  <2>1. "region" \in Ahead(todo)
    BY <1>1, StepDone DEF LifeInv
  <2> QED BY <1>1, <2>1, HeldGiving
<1>3. HeldInv'
  <2>1. held' \subseteq Resources
    BY <1>1 DEF LifeInv, LifeTypeOK
  <2> QED BY <1>1, <1>2, <2>1, GaveHeld
<1> QED BY <1>1, <1>2, <1>3, PlainStep

-----------------------------------------------------------------------------
(* The steps that change more. *)

LEMMA LockInv ==
  ASSUME LifeInv, PlainLife, NEW how \in {"take", "give"}, Lock(how)
  PROVE  LifeInv'
<1>1. /\ todo # <<>> /\ doing = how /\ Quiet /\ Done /\ Head(todo) = "lock"
      /\ lock' = TRUE /\ UNCHANGED <<held, thr, pw, dbg, ctxs, mod>>
  BY DEF Lock, Now
<1>2. /\ TodoInv' /\ Inside(todo') /\ "lock" \in Ahead(todo)
  BY <1>1, StepDone DEF LifeInv
<1>3. HeldInv'
  <2>1. "lock" \notin Resources /\ held' \subseteq Resources
    BY <1>1, SilentAre DEF LifeInv, LifeTypeOK
  <2> QED BY <1>1, <2>1, TookHeld, GaveHeld
<1>4. thr.pc # "work"
  <2>1. "thread" \in Resources \ (ModuleSteps \cup {"sys", "locks", "minor", "map"})
    BY ResourcesAre DEF ModuleSteps
  <2>2. CASE how = "take"
    <3>1. "thread" \notin held
      BY <1>1, <2>1, <2>2, HeldTaking DEF TakeOrder
    <3> QED BY <3>1 DEF LifeInv, ThreadInv, NoThread
  <2>3. CASE how = "give"
    <3>1. "join" \notin Ahead(todo)
      BY <1>1, <2>3, HeldGiving DEF GiveOrder
    <3>2. thr = NoThread \/ thr.pc = "gone"
      BY <1>1, <2>3, <3>1 DEF LifeInv, ThreadInv
    <3> QED BY <3>2 DEF NoThread
  <2> QED BY <2>2, <2>3
<1>5. LifeTypeOK'
  BY <1>1 DEF LifeInv, LifeTypeOK, Done
<1>6. ThreadInv' /\ PowerInv'
  BY <1>1, <1>4, ThreadFrame, PowerFrame DEF LifeInv, PowerInv
<1>7. ModInv' /\ ClientInv'
  BY <1>1, ModFrame, ClientFrame
<1> QED BY <1>1, <1>2, <1>3, <1>5, <1>6, <1>7 DEF LifeInv

LEMMA UnlockInv ==
  ASSUME LifeInv, PlainLife, NEW how \in {"take", "give"}, Unlock(how)
  PROVE  LifeInv'
<1>1. /\ todo # <<>> /\ doing = how /\ Quiet /\ Done /\ Head(todo) = "unlock"
      /\ lock' = FALSE /\ UNCHANGED <<held, thr, pw, dbg, ctxs, mod>>
  BY DEF Unlock, Now
<1>2. /\ TodoInv' /\ ~Inside(todo')
  BY <1>1, StepDone DEF LifeInv
<1>3. HeldInv'
  <2>1. "unlock" \notin Resources /\ held' \subseteq Resources
    BY <1>1, SilentAre DEF LifeInv, LifeTypeOK
  <2> QED BY <1>1, <2>1, TookHeld, GaveHeld
<1>5. LifeTypeOK'
  <2>1. LifeTypeOK /\ lock' \in BOOLEAN
    BY <1>1 DEF LifeInv
  <2> QED BY <1>1, <2>1 DEF LifeTypeOK, Done
<1>6. ThreadInv' /\ PowerInv'
  BY <1>1, ThreadFrame, PowerFrame DEF LifeInv, PowerInv
<1>7. ModInv' /\ ClientInv'
  BY <1>1, ModFrame, ClientFrame
<1> QED BY <1>1, <1>2, <1>3, <1>5, <1>6, <1>7 DEF LifeInv

LEMMA PowerTyped ==
  ASSUME LifeInv
  PROVE  pw \in PowerSet /\ pw.usage \in 0 .. 1
BY DEF LifeInv, LifeTypeOK, PowerSet

LEMMA TypedPower ==
  ASSUME NEW p \in PowerSet, p.usage \in 0 .. 1
  PROVE  p \in [usage : 0 .. 1, clk : BOOLEAN, susp : BOOLEAN,
                dpm : {"none", "live", "freed"}, cur : {"off", "on"}]
BY DEF PowerSet

LEMMA PmInitInv ==
  ASSUME LifeInv, PlainLife, PmInit
  PROVE  LifeInv'
<1>1. /\ todo # <<>> /\ doing = "take" /\ Quiet /\ Done /\ Head(todo) = "pm"
      /\ held' = held \cup {"pm"} /\ pw' = PlatformPmInit(pw)
      /\ UNCHANGED <<lock, thr, dbg, ctxs, mod>>
  BY DEF PmInit, Now, Took
<1>2. /\ TodoInv' /\ "pm" \in Ahead(todo) /\ "suspend" \in Ahead(todo')
      /\ at = "up" /\ "pm" \notin held
  <2>1. "pm" \in Resources \ {"sys", "map"} /\ "pm" \notin ModuleSteps
    BY ResourcesAre DEF ModuleSteps
  <2>2. TodoInv' /\ "pm" \in Ahead(todo)
    BY <1>1, StepDone DEF LifeInv
  <2>3. "suspend" \in Ahead(todo')
    BY <1>1, HeldTaking DEF TakeOrder, Done
  <2> QED BY <1>1, <2>1, <2>2, <2>3, HeldTaking
<1>3. held' \subseteq Resources
  BY <1>1, ResourcesAre DEF LifeInv, LifeTypeOK
<1>4. HeldInv'
  BY <1>1, <1>3, TookHeld
<1>5. /\ pw' \in PowerSet /\ pw'.usage = pw.usage + 1 /\ pw'.clk /\ ~pw'.susp
      /\ pw'.dpm = pw.dpm
  <2>1. pw' \in {PowerUp(pw), PlatformPmInit(pw)}
    BY <1>1
  <2> QED BY <2>1, PowerTyped, SwitchedOn
<1>6. pw.usage = 0 /\ (pw.dpm = "live" <=> "dpm" \in held) /\ pw.dpm # "freed"
  BY <1>2 DEF LifeInv, PowerInv
<1>7. LifeTypeOK'
  BY <1>1, <1>3, <1>5, <1>6, TypedPower DEF LifeInv, LifeTypeOK, Done
<1>8. PowerInv'
  BY <1>1, <1>2, <1>5, <1>6 DEF PowerInv, Done
<1>9. ThreadInv' /\ ModInv' /\ ClientInv' /\ (lock' <=> Inside(todo'))
  BY <1>1, ThreadFrame, ModFrame, ClientFrame, LockFrame DEF LifeInv, ThreadInv
<1> QED BY <1>2, <1>4, <1>7, <1>8, <1>9 DEF LifeInv

LEMMA MemInitInv ==
  ASSUME LifeInv, PlainLife, MemInit
  PROVE  LifeInv'
<1>1. /\ todo # <<>> /\ doing = "take" /\ Quiet /\ Done /\ Head(todo) = "mem"
      /\ held' = held \cup {"mem"}
      /\ mod' = [mod EXCEPT !.uid = IF mod.uid = "none" THEN "live" ELSE mod.uid]
      /\ UNCHANGED <<lock, thr, pw, dbg, ctxs>>
  BY DEF MemInit, Now, Took
<1>2. TodoInv' /\ at = "up"
  <2>1. TodoInv' /\ "mem" \in Ahead(todo) /\ "mem" \notin ModuleSteps
    BY <1>1, StepDone DEF LifeInv, ModuleSteps
  <2> QED BY <1>1, <2>1, HeldTaking
<1>3. held' \subseteq Resources
  BY <1>1, ResourcesAre DEF LifeInv, LifeTypeOK
<1>4. HeldInv'
  BY <1>1, <1>3, TookHeld
<1>5. mod'.uid = "live" /\ mod'.minors = mod.minors
  BY <1>1, <1>2 DEF LifeInv, LifeTypeOK, ModInv
<1>6. LifeTypeOK'
  BY <1>1, <1>3 DEF LifeInv, LifeTypeOK, Done
<1>7. ModInv'
  BY <1>1, <1>5 DEF LifeInv, ModInv, Done
<1>8. ThreadInv' /\ PowerInv' /\ ClientInv' /\ (lock' <=> Inside(todo'))
  BY <1>1, ThreadFrame, PowerFrame, ClientFrame, LockFrame DEF LifeInv, ThreadInv, PowerInv
<1> QED BY <1>2, <1>4, <1>6, <1>7, <1>8 DEF LifeInv

LEMMA TakeDpmInv ==
  ASSUME LifeInv, PlainLife, TakeDpm
  PROVE  LifeInv'
<1>1. /\ todo # <<>> /\ doing = "take" /\ Quiet /\ Done /\ Head(todo) = "dpm"
      /\ held' = held \cup {"dpm"} /\ pw' = DpmInit(pw)
      /\ UNCHANGED <<lock, thr, dbg, ctxs, mod>>
  BY DEF TakeDpm, Now, Took
<1>2. TodoInv' /\ "suspend" \in Ahead(todo')
  BY <1>1, StepDone, HeldTaking DEF LifeInv, TakeOrder, Done
<1>3. held' \subseteq Resources
  BY <1>1, ResourcesAre DEF LifeInv, LifeTypeOK
<1>4. HeldInv'
  BY <1>1, <1>3, TookHeld
<1>5. /\ pw' \in PowerSet /\ pw'.usage = pw.usage /\ pw'.clk = pw.clk /\ pw'.susp = pw.susp
      /\ pw'.dpm = "live"
  BY <1>1, PowerTyped, DpmMade
<1>6. LifeTypeOK'
  BY <1>1, <1>3, <1>5, PowerTyped, TypedPower DEF LifeInv, LifeTypeOK, Done
<1>7. "suspend" \in Ahead(todo)
  BY <1>1, <1>2, StepDone DEF LifeInv
<1>8. PowerInv'
  BY <1>1, <1>2, <1>5, <1>7 DEF LifeInv, PowerInv, Done
<1>9. ThreadInv' /\ ModInv' /\ ClientInv' /\ (lock' <=> Inside(todo'))
  BY <1>1, ThreadFrame, ModFrame, ClientFrame, LockFrame DEF LifeInv, ThreadInv
<1> QED BY <1>2, <1>4, <1>6, <1>8, <1>9 DEF LifeInv

LEMMA ThreadCreateInv ==
  ASSUME LifeInv, PlainLife, ThreadCreate
  PROVE  LifeInv'
<1>1. /\ todo # <<>> /\ doing = "take" /\ Quiet /\ Done /\ Head(todo) = "thread"
      /\ held' = held \cup {"thread"} /\ thr' = [NoThread EXCEPT !.pc = "created"]
      /\ UNCHANGED <<lock, pw, dbg, ctxs, mod>>
  BY DEF ThreadCreate, Now, Took, PlainLife
<1>2. thr' = [pc |-> "created", stop |-> FALSE, strategy |-> "MIN"]
  BY <1>1 DEF NoThread
<1>3. held' \subseteq Resources
  BY <1>1, ResourcesAre DEF LifeInv, LifeTypeOK
<1>4. HeldInv'
  BY <1>1, <1>3, TookHeld
<1>5. TodoInv'
  BY <1>1, StepDone DEF LifeInv
<1>6. LifeTypeOK'
  <2>1. /\ LifeTypeOK
        /\ thr' \in [pc : {"none", "created", "head", "lock", "work", "gone"}, stop : BOOLEAN,
                     strategy : {"MIN", "MAX"}]
    BY <1>2 DEF LifeInv
  <2> QED BY <1>1, <1>3, <2>1 DEF LifeTypeOK, Done
<1>7. ThreadInv'
  BY <1>1, <1>2 DEF ThreadInv, Alive, Done
<1>8. PowerInv'
  BY <1>1, <1>2, PowerFrame
<1>9. ModInv' /\ ClientInv' /\ (lock' <=> Inside(todo'))
  BY <1>1, ModFrame, ClientFrame, LockFrame
<1> QED BY <1>4, <1>5, <1>6, <1>7, <1>8, <1>9 DEF LifeInv

LEMMA SuspendFirstInv ==
  ASSUME LifeInv, PlainLife, SuspendFirst
  PROVE  LifeInv'
<1>1. /\ todo # <<>> /\ doing = "take" /\ Quiet /\ Done /\ Head(todo) = "suspend"
      /\ pw' = PlatformSuspend(pw) /\ UNCHANGED <<held, lock, thr, dbg, ctxs, mod>>
  BY DEF SuspendFirst, Now
<1>2. /\ TodoInv' /\ "suspend" \in Ahead(todo) /\ "suspend" \notin Ahead(todo')
  BY <1>1, StepDone DEF LifeInv
<1>3. "pm" \in held
  <2>1. "pm" \in Resources \ {"sys", "map"} /\ "suspend" \notin ModuleSteps
    BY ResourcesAre DEF ModuleSteps
  <2> QED BY <1>1, <1>2, <2>1, HeldTaking DEF TakeOrder
<1>4. HeldInv'
  <2>1. "suspend" \notin Resources /\ held' \subseteq Resources
    BY <1>1 DEF LifeInv, LifeTypeOK, Resources, Silent
  <2> QED BY <1>1, <2>1, TookHeld
<1>5. /\ ~pw.susp /\ pw.usage = 1 /\ (pw.dpm = "live" <=> "dpm" \in held)
      /\ pw.dpm = "freed" => at # "up" /\ "pm" \notin held
      /\ thr.strategy = "MIN"
  BY <1>1, <1>2, <1>3 DEF LifeInv, PowerInv, ThreadInv
<1>6. /\ pw' \in PowerSet /\ pw'.usage = pw.usage - 1 /\ ~pw'.clk /\ pw'.susp
      /\ pw'.dpm = pw.dpm /\ pw'.cur = IF pw.dpm = "live" THEN "off" ELSE pw.cur
  BY <1>1, <1>5, PowerTyped, SwitchedOff
<1>7. LifeTypeOK'
  BY <1>1, <1>5, <1>6, TypedPower DEF LifeInv, LifeTypeOK, Done
<1>8. PowerInv'
  BY <1>1, <1>2, <1>3, <1>5, <1>6 DEF PowerInv, Done
<1>9. ThreadInv' /\ ModInv' /\ ClientInv' /\ (lock' <=> Inside(todo'))
  BY <1>1, ThreadFrame, ModFrame, ClientFrame, LockFrame DEF LifeInv, ThreadInv
<1> QED BY <1>2, <1>4, <1>7, <1>8, <1>9 DEF LifeInv

LEMMA MinorGetInv ==
  ASSUME LifeInv, PlainLife, MinorGet
  PROVE  LifeInv'
<1>1. /\ todo # <<>> /\ doing = "take" /\ Quiet /\ Done /\ Head(todo) = "minor"
      /\ held' = held \cup {"minor"} /\ mod.minors < MaxMinors
      /\ mod' = [mod EXCEPT !.minors = mod.minors + 1] /\ UNCHANGED <<lock, thr, pw, dbg, ctxs>>
  BY DEF MinorGet, Now, Took
<1>2. TodoInv'
  BY <1>1, StepDone DEF LifeInv
<1>3. held' \subseteq Resources
  BY <1>1, ResourcesAre DEF LifeInv, LifeTypeOK
<1>4. HeldInv'
  BY <1>1, <1>3, TookHeld
<1>5. /\ mod'.uid = mod.uid /\ mod'.minors = mod.minors + 1
      /\ mod.minors \in 0 .. MaxMinors /\ MaxMinors \in Nat
  BY <1>1, LifeAssumption DEF LifeInv, LifeTypeOK
<1>6. LifeTypeOK'
  BY <1>1, <1>3, <1>5 DEF LifeInv, LifeTypeOK, Done
<1>7. ModInv'
  BY <1>1, <1>5 DEF LifeInv, ModInv, Done
<1>8. ThreadInv' /\ PowerInv' /\ ClientInv' /\ (lock' <=> Inside(todo'))
  BY <1>1, ThreadFrame, PowerFrame, ClientFrame, LockFrame DEF LifeInv, ThreadInv, PowerInv
<1> QED BY <1>2, <1>4, <1>6, <1>7, <1>8 DEF LifeInv

LEMMA ThreadIsDevices ==
  /\ "thread" \in Resources \ (ModuleSteps \cup {"sys", "locks", "minor", "map"})
  /\ {"pm", "dpm", "mem"} \subseteq Resources \ (ModuleSteps \cup {"sys", "locks", "minor", "map"})
BY ResourcesAre DEF ModuleSteps

LEMMA ThreadStopInv ==
  ASSUME LifeInv, PlainLife, ThreadStop
  PROVE  LifeInv'
<1>1. /\ todo # <<>> /\ doing = "give" /\ Quiet /\ Done /\ Head(todo) = "stop"
      /\ thr' = [thr EXCEPT !.stop = (thr.pc # "none")] /\ thr.pc # "created"
      /\ UNCHANGED <<held, lock, pw, dbg, ctxs, mod>>
  BY DEF ThreadStop, Now, PlainLife
<1>2. /\ TodoInv' /\ "stop" \in Ahead(todo) /\ "stop" \notin Ahead(todo')
      /\ "thread" \in Ahead(todo) /\ "join" \in Ahead(todo')
  <2>1. /\ TodoInv' /\ "stop" \in Ahead(todo) /\ "stop" \notin Ahead(todo')
        /\ \A x : x \in Ahead(todo) <=> x = "stop" \/ x \in Ahead(todo')
    BY <1>1, StepDone DEF LifeInv
  <2> QED BY <1>1, <2>1, HeldGiving DEF GiveOrder
<1>3. "thread" \in held
  BY <1>1, <1>2, ThreadIsDevices, HeldGiving
<1>4. HeldInv'
  <2>1. "stop" \notin Resources /\ held' \subseteq Resources
    BY <1>1, ResourcesAre DEF LifeInv, LifeTypeOK
  <2> QED BY <1>1, <2>1, GaveHeld
<1>5. thr.pc \in {"head", "lock", "work"}
  BY <1>1, <1>2, <1>3 DEF LifeInv, ThreadInv, Alive
<1>6. /\ thr' \in [pc : {"none", "created", "head", "lock", "work", "gone"}, stop : BOOLEAN,
                   strategy : {"MIN", "MAX"}]
      /\ thr'.pc = thr.pc /\ thr'.strategy = thr.strategy /\ thr'.stop
  BY <1>1, <1>5 DEF LifeInv, LifeTypeOK
<1>7. LifeTypeOK'
  <2>1. LifeTypeOK
    BY DEF LifeInv
  <2> QED BY <1>1, <1>6, <2>1 DEF LifeTypeOK, Done
<1>8. ThreadInv'
  BY <1>1, <1>2, <1>3, <1>5, <1>6 DEF LifeInv, ThreadInv, Done
<1>9. PowerInv' /\ ModInv' /\ ClientInv' /\ (lock' <=> Inside(todo'))
  BY <1>1, <1>6, PowerFrame, ModFrame, ClientFrame, LockFrame DEF LifeInv, PowerInv
<1> QED BY <1>2, <1>4, <1>7, <1>8, <1>9 DEF LifeInv

LEMMA ThreadJoinInv ==
  ASSUME LifeInv, PlainLife, ThreadJoin
  PROVE  LifeInv'
<1>1. /\ todo # <<>> /\ doing = "give" /\ Quiet /\ Done /\ Head(todo) = "join"
      /\ thr.pc \in {"none", "created", "gone"}
      /\ thr' = (IF thr.pc = "created" THEN [thr EXCEPT !.pc = "gone"] ELSE thr)
      /\ UNCHANGED <<held, lock, pw, dbg, ctxs, mod>>
  BY DEF ThreadJoin, Now
<1>2. /\ TodoInv' /\ "stop" \notin Ahead(todo) /\ "stop" \notin Ahead(todo')
      /\ "thread" \in Ahead(todo)
  <2>1. TodoInv' /\ \A x : x \in Ahead(todo) <=> x = "join" \/ x \in Ahead(todo')
    BY <1>1, StepDone DEF LifeInv
  <2> QED BY <1>1, <2>1, HeldGiving DEF GiveOrder
<1>3. "thread" \in held
  BY <1>1, <1>2, ThreadIsDevices, HeldGiving
<1>4. HeldInv'
  <2>1. "join" \notin Resources /\ held' \subseteq Resources
    BY <1>1, ResourcesAre DEF LifeInv, LifeTypeOK
  <2> QED BY <1>1, <2>1, GaveHeld
<1>5. thr.pc = "gone" /\ ~thr.stop /\ thr' = thr
  BY <1>1, <1>2, <1>3 DEF LifeInv, ThreadInv
<1>7. LifeTypeOK'
  <2>1. LifeTypeOK
    BY DEF LifeInv
  <2> QED BY <1>1, <1>5, <2>1 DEF LifeTypeOK, Done
<1>8. ThreadInv'
  BY <1>1, <1>2, <1>3, <1>5 DEF LifeInv, ThreadInv, Done
<1>9. PowerInv' /\ ModInv' /\ ClientInv' /\ (lock' <=> Inside(todo'))
  BY <1>1, <1>5, PowerFrame, ModFrame, ClientFrame, LockFrame DEF LifeInv, PowerInv
<1> QED BY <1>2, <1>4, <1>7, <1>8, <1>9 DEF LifeInv

LEMMA ThreadAwaitInv ==
  ASSUME LifeInv, PlainLife, ThreadAwait
  PROVE  LifeInv'
<1>1. /\ todo # <<>> /\ doing = "give" /\ Quiet /\ Done /\ Head(todo) = "await"
      /\ UNCHANGED <<held, lock, thr, pw, dbg, ctxs, mod>>
  BY DEF ThreadAwait, Now
<1>2. HeldInv'
  <2>1. "await" \notin Resources /\ held' \subseteq Resources
    BY <1>1, ResourcesAre DEF LifeInv, LifeTypeOK
  <2> QED BY <1>1, <2>1, GaveHeld
<1> QED BY <1>1, <1>2, PlainStep

LEMMA ThreadFreeInv ==
  ASSUME LifeInv, PlainLife, ThreadFree
  PROVE  LifeInv'
<1>1. /\ todo # <<>> /\ doing = "give" /\ Quiet /\ Done /\ Head(todo) = "thread"
      /\ held' = held \ {"thread"} /\ thr' = NoThread
      /\ UNCHANGED <<lock, pw, dbg, ctxs, mod>>
  BY DEF ThreadFree, Now, Gave
<1>2. TodoInv'
  BY <1>1, StepDone DEF LifeInv
<1>3. held' \subseteq Resources
  BY <1>1 DEF LifeInv, LifeTypeOK
<1>4. HeldInv'
  BY <1>1, <1>3, GaveHeld
<1>6. /\ thr' \in [pc : {"none", "created", "head", "lock", "work", "gone"}, stop : BOOLEAN,
                   strategy : {"MIN", "MAX"}]
      /\ thr'.pc = "none" /\ thr'.strategy = "MIN"
  BY <1>1 DEF NoThread
<1>7. LifeTypeOK'
  <2>1. LifeTypeOK
    BY DEF LifeInv
  <2> QED BY <1>1, <1>3, <1>6, <2>1 DEF LifeTypeOK, Done
<1>8. ThreadInv'
  BY <1>1, <1>6 DEF LifeInv, ThreadInv, Done
<1>9. PowerInv' /\ ModInv' /\ ClientInv' /\ (lock' <=> Inside(todo'))
  BY <1>1, <1>6, PowerFrame, ModFrame, ClientFrame, LockFrame DEF LifeInv, PowerInv
<1> QED BY <1>2, <1>4, <1>7, <1>8, <1>9 DEF LifeInv

LEMMA ResumeLastInv ==
  ASSUME LifeInv, PlainLife, ResumeLast
  PROVE  LifeInv'
<1>1. /\ todo # <<>> /\ doing = "give" /\ Quiet /\ Done /\ Head(todo) = "resume"
      /\ pw' = PlatformResume(pw) /\ UNCHANGED <<held, lock, thr, dbg, ctxs, mod>>
  BY DEF ResumeLast, Now
<1>2. /\ TodoInv' /\ "resume" \notin Ahead(todo') /\ "pm" \in Ahead(todo)
  BY <1>1, StepDone, HeldGiving DEF LifeInv, GiveOrder
<1>3. "pm" \in held
  BY <1>1, <1>2, ThreadIsDevices, HeldGiving
<1>4. HeldInv'
  <2>1. "resume" \notin Resources /\ held' \subseteq Resources
    BY <1>1, ResourcesAre DEF LifeInv, LifeTypeOK
  <2> QED BY <1>1, <2>1, GaveHeld
<1>5. /\ pw.usage = (IF pw.susp THEN 0 ELSE 1) /\ (pw.clk <=> ~pw.susp)
      /\ pw.dpm = "live" <=> "dpm" \in held
      /\ pw.dpm = "freed" => at # "up" /\ "pm" \notin held
  BY <1>1, <1>3 DEF LifeInv, PowerInv
<1>6. pw' \in PowerSet /\ pw'.usage = 1 /\ pw'.clk /\ ~pw'.susp /\ pw'.dpm = pw.dpm
  <2>1. CASE pw.susp
    <3>1. pw' \in {PowerUp(pw), PlatformPmInit(pw)} /\ pw.usage = 0
      BY <1>1, <1>5, <2>1 DEF PlatformResume
    <3>2. /\ pw' \in PowerSet /\ pw'.usage = pw.usage + 1 /\ pw'.clk /\ ~pw'.susp
          /\ pw'.dpm = pw.dpm
      BY <3>1, PowerTyped, SwitchedOn
    <3> QED BY <3>1, <3>2
  <2>2. CASE ~pw.susp
    BY <1>1, <1>5, <2>2, PowerTyped DEF PlatformResume
  <2> QED BY <2>1, <2>2
<1>7. LifeTypeOK'
  <2>1. LifeTypeOK
    BY DEF LifeInv
  <2> QED BY <1>1, <1>6, <2>1, TypedPower DEF LifeTypeOK, Done
<1>8. PowerInv'
  BY <1>1, <1>2, <1>3, <1>5, <1>6 DEF PowerInv, Done
<1>9. ThreadInv' /\ ModInv' /\ ClientInv' /\ (lock' <=> Inside(todo'))
  BY <1>1, ThreadFrame, ModFrame, ClientFrame, LockFrame DEF LifeInv, ThreadInv
<1> QED BY <1>2, <1>4, <1>7, <1>8, <1>9 DEF LifeInv

LEMMA DestroyAllContextInv ==
  ASSUME LifeInv, PlainLife, DestroyAllContext
  PROVE  LifeInv'
<1>1. /\ todo # <<>> /\ doing = "give" /\ Quiet /\ Done /\ Head(todo) = "contexts"
      /\ ctxs' = 0 /\ UNCHANGED <<held, lock, thr, pw, dbg, mod>>
  BY DEF DestroyAllContext, Now
<1>2. TodoInv'
  BY <1>1, StepDone DEF LifeInv
<1>4. HeldInv'
  <2>1. "contexts" \notin Resources /\ held' \subseteq Resources
    BY <1>1, ResourcesAre DEF LifeInv, LifeTypeOK
  <2> QED BY <1>1, <2>1, GaveHeld
<1>7. LifeTypeOK'
  <2>1. LifeTypeOK /\ ctxs' \in 0 .. MaxContexts
    BY <1>1, LifeAssumption DEF LifeInv
  <2> QED BY <1>1, <2>1 DEF LifeTypeOK, Done
<1>8. ThreadInv' /\ PowerInv' /\ ModInv' /\ (lock' <=> Inside(todo'))
  BY <1>1, ThreadFrame, PowerFrame, ModFrame, LockFrame DEF LifeInv, ThreadInv, PowerInv
<1>9. ClientInv'
  BY <1>1, ClientFrame
<1> QED BY <1>2, <1>4, <1>7, <1>8, <1>9 DEF LifeInv

LEMMA MemDeinitInv ==
  ASSUME LifeInv, PlainLife, MemDeinit
  PROVE  LifeInv'
<1>1. /\ todo # <<>> /\ doing = "give" /\ Quiet /\ Done /\ Head(todo) = "mem"
      /\ held' = held \ {"mem"} /\ mod' = [mod EXCEPT !.uid = "hollow"]
      /\ UNCHANGED <<lock, thr, pw, dbg, ctxs>>
  BY DEF MemDeinit, Now, Gave
<1>2. TodoInv'
  BY <1>1, StepDone DEF LifeInv
<1>3. held' \subseteq Resources
  BY <1>1 DEF LifeInv, LifeTypeOK
<1>4. HeldInv'
  BY <1>1, <1>3, GaveHeld
<1>5. /\ mod' \in [uid : {"none", "live", "hollow"}, minors : 0 .. MaxMinors]
      /\ mod'.minors = mod.minors
  BY <1>1 DEF LifeInv, LifeTypeOK
<1>6. LifeTypeOK'
  <2>1. LifeTypeOK
    BY DEF LifeInv
  <2> QED BY <1>1, <1>3, <1>5, <2>1 DEF LifeTypeOK, Done
<1>7. ModInv'
  BY <1>1, <1>5 DEF LifeInv, ModInv, Done
<1>8. ThreadInv' /\ PowerInv' /\ ClientInv' /\ (lock' <=> Inside(todo'))
  BY <1>1, ThreadFrame, PowerFrame, ClientFrame, LockFrame DEF LifeInv, ThreadInv, PowerInv
<1> QED BY <1>2, <1>4, <1>6, <1>7, <1>8 DEF LifeInv

LEMMA PmDeinitInv ==
  ASSUME LifeInv, PlainLife, PmDeinit
  PROVE  LifeInv'
<1>1. /\ todo # <<>> /\ doing = "give" /\ Quiet /\ Done /\ Head(todo) = "pm"
      /\ held' = held \ {"pm"} /\ pw' = PlatformPmDeinit(pw)
      /\ UNCHANGED <<lock, thr, dbg, ctxs, mod>>
  BY DEF PmDeinit, Now, Gave
<1>2. TodoInv' /\ "pm" \in Ahead(todo) /\ "resume" \notin Ahead(todo) /\ "join" \notin Ahead(todo)
  BY <1>1, StepDone, HeldGiving DEF LifeInv, GiveOrder
<1>3. "pm" \in held /\ held' \subseteq Resources
  BY <1>1, <1>2, ThreadIsDevices, HeldGiving DEF LifeInv, LifeTypeOK
<1>4. HeldInv'
  BY <1>1, <1>3, GaveHeld
<1>5. /\ pw.usage = 1 /\ (pw.dpm = "live" <=> "dpm" \in held)
      /\ at # "up" /\ (thr.pc = "gone" \/ thr.strategy = "MIN")
  <2>1. ~pw.susp
    BY <1>1, <1>2, <1>3 DEF LifeInv, PowerInv
  <2>2. pw.usage = 1 /\ (pw.dpm = "live" <=> "dpm" \in held)
    BY <1>3, <2>1 DEF LifeInv, PowerInv
  <2>3. thr.pc = "gone" \/ thr = NoThread
    BY <1>1, <1>2 DEF LifeInv, ThreadInv
  <2> QED BY <1>1, <2>2, <2>3, HeldGiving DEF NoThread
<1>6. pw' \in PowerSet /\ pw'.usage = pw.usage - 1 /\ ~pw'.clk /\ pw'.susp /\ pw'.dpm = pw.dpm
  BY <1>1, PowerTyped, SwitchedOff
<1>7. LifeTypeOK'
  <2>1. LifeTypeOK
    BY DEF LifeInv
  <2> QED BY <1>1, <1>3, <1>5, <1>6, <2>1, TypedPower DEF LifeTypeOK, Done
<1>8. PowerInv'
  BY <1>1, <1>2, <1>3, <1>5, <1>6 DEF PowerInv, Done
<1>9. ThreadInv' /\ ModInv' /\ ClientInv' /\ (lock' <=> Inside(todo'))
  BY <1>1, ThreadFrame, ModFrame, ClientFrame, LockFrame DEF LifeInv, ThreadInv
<1> QED BY <1>2, <1>4, <1>7, <1>8, <1>9 DEF LifeInv

LEMMA GiveDpmInv ==
  ASSUME LifeInv, PlainLife, GiveDpm
  PROVE  LifeInv'
<1>1. /\ todo # <<>> /\ doing = "give" /\ Quiet /\ Done /\ Head(todo) = "dpm"
      /\ held' = held \ {"dpm"} /\ pw' = DpmDeinit(pw)
      /\ UNCHANGED <<lock, thr, dbg, ctxs, mod>>
  BY DEF GiveDpm, Now, Gave
<1>2. TodoInv' /\ "dpm" \in Ahead(todo) /\ "pm" \notin Ahead(todo)
  BY <1>1, StepDone, HeldGiving DEF LifeInv, GiveOrder
<1>3. "pm" \notin held /\ "dpm" \in held /\ held' \subseteq Resources /\ at # "up"
  BY <1>1, <1>2, ThreadIsDevices, HeldGiving DEF LifeInv, LifeTypeOK
<1>4. HeldInv'
  BY <1>1, <1>3, GaveHeld
<1>5. /\ pw.usage = 0 /\ ~pw.clk /\ pw.dpm = "live"
      /\ thr.pc # "gone" /\ thr.strategy = "MAX" => ~pw.susp
  BY <1>1, <1>3 DEF LifeInv, PowerInv
<1>6. /\ pw' \in PowerSet /\ pw'.usage = pw.usage /\ pw'.clk = pw.clk /\ pw'.susp = pw.susp
      /\ pw'.dpm = "freed"
  BY <1>1, <1>5, PowerTyped, DpmFreed
<1>7. LifeTypeOK'
  <2>1. LifeTypeOK
    BY DEF LifeInv
  <2> QED BY <1>1, <1>3, <1>5, <1>6, <2>1, TypedPower DEF LifeTypeOK, Done
<1>8. PowerInv'
  BY <1>1, <1>2, <1>3, <1>5, <1>6 DEF PowerInv, Done
<1>9. ThreadInv' /\ ModInv' /\ ClientInv' /\ (lock' <=> Inside(todo'))
  BY <1>1, ThreadFrame, ModFrame, ClientFrame, LockFrame DEF LifeInv, ThreadInv
<1> QED BY <1>2, <1>4, <1>7, <1>8, <1>9 DEF LifeInv

LEMMA MinorRemoveInv ==
  ASSUME LifeInv, PlainLife, MinorRemove
  PROVE  LifeInv'
<1>1. /\ todo # <<>> /\ doing = "give" /\ Quiet /\ Done /\ Head(todo) = "minor"
      /\ held' = held \ {"minor"} /\ mod' = [mod EXCEPT !.minors = mod.minors - 1]
      /\ UNCHANGED <<lock, thr, pw, dbg, ctxs>>
  BY DEF MinorRemove, Now, Gave
<1>2. TodoInv' /\ "minor" \in Ahead(todo)
  BY <1>1, StepDone DEF LifeInv
<1>3. "minor" \in held /\ held' \subseteq Resources
  BY <1>1, <1>2, HeldGiving DEF LifeInv, LifeTypeOK
<1>4. HeldInv'
  BY <1>1, <1>3, GaveHeld
<1>5. /\ mod' \in [uid : {"none", "live", "hollow"}, minors : 0 .. MaxMinors]
      /\ mod'.uid = mod.uid
  <2>1. mod.minors \in 0 .. MaxMinors /\ mod.minors > 0 /\ MaxMinors \in Nat
    BY <1>3, LifeAssumption DEF LifeInv, LifeTypeOK, ModInv
  <2> QED BY <1>1, <2>1 DEF LifeInv, LifeTypeOK
<1>6. LifeTypeOK'
  <2>1. LifeTypeOK
    BY DEF LifeInv
  <2> QED BY <1>1, <1>3, <1>5, <2>1 DEF LifeTypeOK, Done
<1>7. ModInv'
  BY <1>1, <1>5 DEF LifeInv, ModInv, Done
<1>8. ThreadInv' /\ PowerInv' /\ ClientInv' /\ (lock' <=> Inside(todo'))
  BY <1>1, ThreadFrame, PowerFrame, ClientFrame, LockFrame DEF LifeInv, ThreadInv, PowerInv
<1> QED BY <1>2, <1>4, <1>6, <1>7, <1>8 DEF LifeInv

-----------------------------------------------------------------------------
(* The inference thread. *)

(* What the thread works with is there, and nobody is inside dev_mutex. *)
LEMMA WorkHolds ==
  ASSUME LifeInv, thr.pc = "work"
  PROVE  /\ {"locks", "queue", "dpm", "hw", "map", "pm", "thread"} \subseteq held
         /\ "suspend" \notin Ahead(todo)
         /\ doing = "give" => "resume" \in Ahead(todo)
<1>1. "thread" \in held
  BY DEF LifeInv, ThreadInv, NoThread
<1>2. {"queue", "dpm", "hw", "pm", "thread", "region"} \subseteq
        Resources \ (ModuleSteps \cup {"sys", "locks", "minor", "map"})
  BY ResourcesAre DEF ModuleSteps
<1>3. ~Inside(todo)
  BY DEF LifeInv, ThreadInv
<1>4. CASE doing = "take"
  <2>1. at = "up"
    BY <1>1, <1>2, <1>4, HeldTaking
  <2>2. "thread" \notin Ahead(todo)
    BY <1>1, <1>2, <1>4, <2>1, HeldTaking
  <2>3. /\ {"locks", "queue", "dpm", "hw", "region", "pm"} \cap Ahead(todo) = {}
        /\ "suspend" \notin Ahead(todo)
    BY <1>3, <1>4, <2>2, HeldTaking DEF TakeOrder
  <2>4. "locks" \in Resources \ {"sys", "map"}
    BY ResourcesAre
  <2> QED BY <1>1, <1>2, <1>4, <2>1, <2>3, <2>4, HeldTaking
<1>5. CASE doing = "give"
  <2>1. "join" \in Ahead(todo)
    BY <1>1, <1>5 DEF LifeInv, ThreadInv
  <2>2. /\ {"resume", "pm", "queue", "dpm", "hw", "region", "lock"} \subseteq Ahead(todo)
        /\ "suspend" \notin Ahead(todo)
    BY <1>5, <2>1, HeldGiving DEF GiveOrder
  <2> QED BY <1>1, <1>2, <1>5, <2>2, HeldGiving
<1> QED BY <1>4, <1>5 DEF LifeInv, LifeTypeOK

LEMMA Untouched ==
  ASSUME LifeInv, UNCHANGED <<at, doing, todo, held, lock>>
  PROVE  TodoInv' /\ HeldInv' /\ (lock' <=> Inside(todo'))
BY DEF LifeInv, TodoInv, HeldInv, Loose, Wanted, Left

LEMMA ThreadStartInv ==
  ASSUME LifeInv, ThreadStart
  PROVE  LifeInv'
<1>1. /\ thr.pc = "created" /\ thr' = [thr EXCEPT !.pc = "head"]
      /\ UNCHANGED <<at, doing, todo, held, lock, pw, dbg, ctxs, mod>>
  BY DEF ThreadStart, Runs
<1>2. /\ thr' \in [pc : {"none", "created", "head", "lock", "work", "gone"}, stop : BOOLEAN,
                   strategy : {"MIN", "MAX"}]
      /\ thr'.pc = "head" /\ thr'.strategy = thr.strategy /\ (thr'.stop <=> thr.stop)
  BY <1>1 DEF LifeInv, LifeTypeOK
<1>3. LifeTypeOK'
  <2>1. LifeTypeOK
    BY DEF LifeInv
  <2> QED BY <1>1, <1>2, <2>1 DEF LifeTypeOK
<1>4. ThreadInv'
  BY <1>1, <1>2 DEF LifeInv, ThreadInv, Alive, NoThread
<1>5. PowerInv'
  BY <1>1, <1>2 DEF LifeInv, PowerInv
<1>6. ModInv' /\ ClientInv'
  BY <1>1 DEF LifeInv, ModInv, ClientInv, Up
<1> QED BY <1>1, <1>3, <1>4, <1>5, <1>6, Untouched DEF LifeInv

LEMMA ThreadHeadInv ==
  ASSUME LifeInv, ThreadHead
  PROVE  LifeInv'
<1>1. /\ thr.pc = "head"
      /\ thr' = IF thr.stop THEN [thr EXCEPT !.pc = "gone", !.stop = FALSE]
                ELSE [thr EXCEPT !.pc = "lock"]
      /\ UNCHANGED <<at, doing, todo, held, lock, pw, dbg, ctxs, mod>>
  BY DEF ThreadHead, Runs
<1>2. /\ thr' \in [pc : {"none", "created", "head", "lock", "work", "gone"}, stop : BOOLEAN,
                   strategy : {"MIN", "MAX"}]
      /\ thr'.strategy = thr.strategy /\ ~thr'.stop
      /\ thr'.pc = IF thr.stop THEN "gone" ELSE "lock"
  <2>1. CASE thr.stop
    <3> DEFINE a == [thr EXCEPT !.pc = "gone"]
    <3>1. /\ a \in [pc : {"none", "created", "head", "lock", "work", "gone"}, stop : BOOLEAN,
                    strategy : {"MIN", "MAX"}]
          /\ a.pc = "gone" /\ a.strategy = thr.strategy
      BY DEF LifeInv, LifeTypeOK
    <3>2. thr' = [a EXCEPT !.stop = FALSE]
      BY <1>1, <2>1
    <3> HIDE DEF a
    <3> QED BY <2>1, <3>1, <3>2
  <2>2. CASE ~thr.stop
    BY <1>1, <2>2 DEF LifeInv, LifeTypeOK
  <2> QED BY <2>1, <2>2
<1>3. LifeTypeOK'
  <2>1. LifeTypeOK
    BY DEF LifeInv
  <2> QED BY <1>1, <1>2, <2>1 DEF LifeTypeOK
<1>4. ThreadInv'
  BY <1>1, <1>2 DEF LifeInv, ThreadInv, Alive, NoThread
<1>5. PowerInv'
  BY <1>1, <1>2 DEF LifeInv, PowerInv
<1>6. ModInv' /\ ClientInv'
  BY <1>1 DEF LifeInv, ModInv, ClientInv, Up
<1> QED BY <1>1, <1>3, <1>4, <1>5, <1>6, Untouched DEF LifeInv

LEMMA ThreadLockInv ==
  ASSUME LifeInv, ThreadLock
  PROVE  LifeInv'
<1>1. /\ thr.pc = "lock" /\ ~lock /\ thr' = [thr EXCEPT !.pc = "work"]
      /\ UNCHANGED <<at, doing, todo, held, lock, pw, dbg, ctxs, mod>>
  BY DEF ThreadLock, Runs
<1>2. /\ thr' \in [pc : {"none", "created", "head", "lock", "work", "gone"}, stop : BOOLEAN,
                   strategy : {"MIN", "MAX"}]
      /\ thr'.pc = "work" /\ thr'.strategy = thr.strategy /\ (thr'.stop <=> thr.stop)
  BY <1>1 DEF LifeInv, LifeTypeOK
<1>3. LifeTypeOK'
  <2>1. LifeTypeOK
    BY DEF LifeInv
  <2> QED BY <1>1, <1>2, <2>1 DEF LifeTypeOK
<1>4. ThreadInv'
  BY <1>1, <1>2 DEF LifeInv, ThreadInv, Alive, NoThread
<1>5. PowerInv'
  BY <1>1, <1>2 DEF LifeInv, PowerInv
<1>6. ModInv' /\ ClientInv'
  BY <1>1 DEF LifeInv, ModInv, ClientInv, Up
<1> QED BY <1>1, <1>3, <1>4, <1>5, <1>6, Untouched DEF LifeInv

LEMMA ThreadIdleInv ==
  ASSUME LifeInv, ThreadIdle
  PROVE  LifeInv'
<1>1. /\ thr.pc = "work" /\ thr' = [thr EXCEPT !.pc = "head"]
      /\ UNCHANGED <<at, doing, todo, held, lock, pw, dbg, ctxs, mod>>
  BY DEF ThreadIdle, Runs
<1>2. /\ thr' \in [pc : {"none", "created", "head", "lock", "work", "gone"}, stop : BOOLEAN,
                   strategy : {"MIN", "MAX"}]
      /\ thr'.pc = "head" /\ thr'.strategy = thr.strategy /\ (thr'.stop <=> thr.stop)
  BY <1>1 DEF LifeInv, LifeTypeOK
<1>3. LifeTypeOK'
  <2>1. LifeTypeOK
    BY DEF LifeInv
  <2> QED BY <1>1, <1>2, <2>1 DEF LifeTypeOK
<1>4. ThreadInv'
  BY <1>1, <1>2 DEF LifeInv, ThreadInv, Alive, NoThread
<1>5. PowerInv'
  BY <1>1, <1>2 DEF LifeInv, PowerInv
<1>6. ModInv' /\ ClientInv'
  BY <1>1 DEF LifeInv, ModInv, ClientInv, Up
<1> QED BY <1>1, <1>3, <1>4, <1>5, <1>6, Untouched DEF LifeInv

LEMMA ThreadAdjustInv ==
  ASSUME LifeInv, PlainLife, ThreadAdjust
  PROVE  LifeInv'
<1>1. PICK strategy \in {"MIN", "MAX"} :
      /\ thr.pc = "work" /\ ~lock /\ Quiet
      /\ thr' = [thr EXCEPT !.pc = "head", !.strategy = strategy]
      /\ pw' = StageAdjust(pw, strategy)
      /\ UNCHANGED <<at, doing, todo, held, lock, dbg, ctxs, mod>>
  BY DEF ThreadAdjust, Runs
<1>2. /\ thr' \in [pc : {"none", "created", "head", "lock", "work", "gone"}, stop : BOOLEAN,
                   strategy : {"MIN", "MAX"}]
      /\ thr'.pc = "head" /\ thr'.strategy = strategy /\ (thr'.stop <=> thr.stop)
  <2> DEFINE a == [thr EXCEPT !.pc = "head"]
  <2>1. /\ a \in [pc : {"none", "created", "head", "lock", "work", "gone"}, stop : BOOLEAN,
                  strategy : {"MIN", "MAX"}]
        /\ a.pc = "head" /\ (a.stop <=> thr.stop)
    BY DEF LifeInv, LifeTypeOK
  <2>2. thr' = [a EXCEPT !.strategy = strategy]
    BY <1>1
  <2> HIDE DEF a
  <2> QED BY <2>1, <2>2
<1>3. /\ {"dpm", "pm", "thread"} \subseteq held /\ "suspend" \notin Ahead(todo)
      /\ doing = "give" => "resume" \in Ahead(todo)
  BY <1>1, WorkHolds
<1>4. /\ pw.dpm = "live" /\ pw.usage = (IF pw.susp THEN 0 ELSE 1) /\ (pw.clk <=> ~pw.susp)
      /\ pw.cur = IF pw.susp THEN "off" ELSE "on"
  BY <1>3 DEF LifeInv, PowerInv, LifeTypeOK
<1>5. /\ pw' \in PowerSet /\ pw'.dpm = "live" /\ pw'.susp = (strategy = "MIN")
      /\ pw'.usage = (IF pw'.susp THEN 0 ELSE 1) /\ pw'.clk = ~pw'.susp
      /\ pw'.cur = IF pw'.susp THEN "off" ELSE "on"
  <2>1. pw.clk = ~pw.susp
    BY <1>4, PowerTyped DEF PowerSet
  <2> QED BY <1>1, <1>4, <2>1, PowerTyped, Adjusted
<1>6. pw'.usage \in 0 .. 1 /\ (pw'.clk <=> ~pw'.susp) /\ (strategy = "MAX" => ~pw'.susp)
  BY <1>5 DEF PowerSet
<1>7. LifeTypeOK'
  <2>1. LifeTypeOK
    BY DEF LifeInv
  <2> QED BY <1>1, <1>2, <1>5, <1>6, <2>1, TypedPower DEF LifeTypeOK
<1>8. ThreadInv'
  BY <1>1, <1>2, <1>3 DEF LifeInv, ThreadInv, Alive
<1>9. PowerInv'
  <2>1. doing \in {"take", "give"}
    BY DEF LifeInv, LifeTypeOK
  <2> QED BY <1>1, <1>2, <1>3, <1>5, <1>6, <2>1 DEF PowerInv
<1>10. ModInv' /\ ClientInv'
  BY <1>1 DEF LifeInv, ModInv, ClientInv, Up, Quiet, PlainLife
<1> QED BY <1>1, <1>7, <1>8, <1>9, <1>10, Untouched DEF LifeInv

-----------------------------------------------------------------------------
(* Clients. *)

(* A device that is up has all it probed for.                               *)
LEMMA UpHolds ==
  ASSUME LifeInv, Up
  PROVE  /\ doing = "take" /\ Resources \ held \subseteq {"sys"}
         /\ "suspend" \notin Ahead(todo)
<1>1. doing = "take" /\ Ahead(todo) = {}
  BY Placements, Nothing DEF LifeInv, Up
<1>2. "region" \notin Ahead(todo)
  BY <1>1
<1> QED BY <1>1, <1>2, HeldTaking DEF Up

LEMMA RemovingGives ==
  ASSUME LifeInv, todo = Removing
  PROVE  doing = "give"
<1>1. "stop" \in Ahead(todo) /\ "stop" \notin ModuleSteps \cup DeviceSteps
  BY Takes, DeviceStepsAre DEF ModuleSteps
<1> QED BY <1>1, HeldTaking DEF TakeOrder, LifeInv, LifeTypeOK

(* A register access finds the device there and not yet resumed for good.   *)
LEMMA DebugHolds ==
  ASSUME LifeInv, dbg # "none"
  PROVE  /\ {"pm", "hw", "map", "dpm"} \subseteq held
         /\ "suspend" \notin Ahead(todo) /\ (doing = "give" => "resume" \in Ahead(todo))
         /\ Up \/ todo = Removing
<1>1. Up \/ todo = Removing
  BY DEF LifeInv, ClientInv
<1>2. {"pm", "hw", "map", "dpm"} \subseteq Resources \ {"sys"}
  BY ResourcesAre
<1>3. CASE Up
  BY <1>2, <1>3, UpHolds
<1>4. CASE todo = Removing
  <2>1. /\ doing = "give" /\ {"pm", "hw", "region", "dpm", "resume"} \subseteq Ahead(todo)
        /\ "suspend" \notin Ahead(todo)
    BY <1>4, RemovingGives, Takes
  <2>2. {"pm", "hw", "dpm"} \subseteq
          Resources \ (ModuleSteps \cup {"sys", "locks", "minor", "map"})
    BY ResourcesAre DEF ModuleSteps
  <2> QED BY <1>4, <2>1, <2>2, HeldGiving
<1> QED BY <1>1, <1>3, <1>4

LEMMA OpenInv ==
  ASSUME LifeInv, PlainLife, Open
  PROVE  LifeInv'
<1>1. /\ Up /\ ctxs < MaxContexts /\ ctxs' = ctxs + 1
      /\ UNCHANGED <<at, doing, todo, held, lock, thr, pw, dbg, mod>>
  BY DEF Open, PlainLife
<1>2. LifeTypeOK'
  <2>1. LifeTypeOK /\ ctxs' \in 0 .. MaxContexts
    BY <1>1, LifeAssumption DEF LifeInv, LifeTypeOK
  <2> QED BY <1>1, <2>1 DEF LifeTypeOK
<1>3. ThreadInv' /\ PowerInv' /\ ModInv'
  BY <1>1 DEF LifeInv, ThreadInv, PowerInv, ModInv
<1>4. ClientInv'
  BY <1>1 DEF LifeInv, ClientInv, Up
<1> QED BY <1>1, <1>2, <1>3, <1>4, Untouched DEF LifeInv

LEMMA CloseInv ==
  ASSUME LifeInv, Close
  PROVE  LifeInv'
<1>1. /\ Up /\ ctxs > 0 /\ ctxs' = ctxs - 1
      /\ UNCHANGED <<at, doing, todo, held, lock, thr, pw, dbg, mod>>
  BY DEF Close
<1>2. LifeTypeOK'
  <2>1. LifeTypeOK /\ ctxs' \in 0 .. MaxContexts
    BY <1>1, LifeAssumption DEF LifeInv, LifeTypeOK
  <2> QED BY <1>1, <2>1 DEF LifeTypeOK
<1>3. ThreadInv' /\ PowerInv' /\ ModInv'
  BY <1>1 DEF LifeInv, ThreadInv, PowerInv, ModInv
<1>4. ClientInv'
  BY <1>1 DEF LifeInv, ClientInv, Up
<1> QED BY <1>1, <1>2, <1>3, <1>4, Untouched DEF LifeInv

LEMMA DebugCheckInv ==
  ASSUME LifeInv, PlainLife, DebugCheck
  PROVE  LifeInv'
<1>1. /\ Up /\ "sysfs" \in held /\ dbg' = (IF pw.susp THEN "suspended" ELSE "on")
      /\ UNCHANGED <<at, doing, todo, held, lock, thr, pw, ctxs, mod>>
  BY DEF DebugCheck, Debugs, PlainLife
<1>2. LifeTypeOK'
  BY <1>1 DEF LifeInv, LifeTypeOK
<1>3. ThreadInv' /\ PowerInv' /\ ModInv'
  BY <1>1 DEF LifeInv, ThreadInv, PowerInv, ModInv
<1>4. ClientInv'
  BY <1>1 DEF LifeInv, ClientInv, Up
<1> QED BY <1>1, <1>2, <1>3, <1>4, Untouched DEF LifeInv

LEMMA DebugAccessInv ==
  ASSUME LifeInv, DebugAccess
  PROVE  LifeInv'
<1>1. dbg' = "none" /\ UNCHANGED <<at, doing, todo, held, lock, thr, pw, ctxs, mod>>
  BY DEF DebugAccess, Debugs
<1>2. LifeTypeOK'
  BY <1>1 DEF LifeInv, LifeTypeOK
<1>3. ThreadInv' /\ PowerInv' /\ ModInv'
  BY <1>1 DEF LifeInv, ThreadInv, PowerInv, ModInv
<1>4. ClientInv'
  BY <1>1 DEF LifeInv, ClientInv, Up
<1> QED BY <1>1, <1>2, <1>3, <1>4, Untouched DEF LifeInv

LEMMA DebugResumeInv ==
  ASSUME LifeInv, DebugResume
  PROVE  LifeInv'
<1>1. /\ dbg = "suspended" /\ dbg' = "on" /\ pw' = PowerUp(pw)
      /\ UNCHANGED <<at, doing, todo, held, lock, thr, ctxs, mod>>
  BY DEF DebugResume, Debugs
<1>2. /\ {"pm", "dpm"} \subseteq held /\ "suspend" \notin Ahead(todo)
      /\ Up \/ todo = Removing
  BY <1>1, DebugHolds
<1>3. pw.susp /\ pw.usage = 0 /\ pw.dpm = "live"
  BY <1>1, <1>2 DEF LifeInv, PowerInv, ClientInv
<1>4. /\ pw' \in PowerSet /\ pw'.usage = pw.usage + 1 /\ pw'.clk /\ ~pw'.susp
      /\ pw'.dpm = "live" /\ pw'.cur = "on"
  <2>1. pw' \in {PowerUp(pw), PlatformPmInit(pw)}
    BY <1>1
  <2> QED BY <1>3, <2>1, PowerTyped, SwitchedOn
<1>5. LifeTypeOK'
  <2>1. LifeTypeOK
    BY DEF LifeInv
  <2> QED BY <1>1, <1>3, <1>4, <2>1, TypedPower DEF LifeTypeOK
<1>6. ThreadInv' /\ ModInv'
  BY <1>1 DEF LifeInv, ThreadInv, ModInv
<1>7. PowerInv'
  BY <1>1, <1>2, <1>3, <1>4 DEF PowerInv
<1>8. ClientInv'
  BY <1>1, <1>4 DEF LifeInv, ClientInv, Up
<1> QED BY <1>1, <1>5, <1>6, <1>7, <1>8, Untouched DEF LifeInv

LEMMA SetClkCoreInv ==
  ASSUME LifeInv, SetClkCore
  PROVE  LifeInv'
<1>1. /\ dbg = "on" /\ dbg' = "none" /\ pw' = SetClock(pw, TRUE)
      /\ UNCHANGED <<at, doing, todo, held, lock, thr, ctxs, mod>>
  BY Zenon DEF SetClkCore, Debugs
<1>2. {"pm", "dpm"} \subseteq held /\ "suspend" \notin Ahead(todo)
  BY <1>1, DebugHolds
<1>3. ~pw.susp /\ pw.usage = 1 /\ pw.dpm = "live"
  BY <1>1, <1>2 DEF LifeInv, PowerInv, ClientInv
<1>4. /\ pw' \in PowerSet /\ pw'.usage = pw.usage /\ pw'.clk /\ pw'.susp = pw.susp
      /\ pw'.dpm = "live" /\ pw'.cur = "on"
  <2>1. ASSUME NEW q, q = SetClock(pw, TRUE)
        PROVE  /\ q \in PowerSet /\ q.usage = pw.usage /\ q.clk /\ q.susp = pw.susp
               /\ q.dpm = pw.dpm /\ q.cur = "on"
    BY <1>3, <2>1, PowerTyped, ClockOn, Zenon
  <2>2. pw' = SetClock(pw, TRUE)
    BY <1>1, Zenon
  <2>3. /\ pw' \in PowerSet /\ pw'.usage = pw.usage /\ pw'.clk /\ pw'.susp = pw.susp
        /\ pw'.dpm = pw.dpm /\ pw'.cur = "on"
    BY <2>1, <2>2, Zenon
  <2> QED BY <1>3, <2>3
<1>5. LifeTypeOK'
  <2>1. LifeTypeOK
    BY DEF LifeInv
  <2>2. UNCHANGED <<at, doing, todo, held, lock, thr, ctxs, mod>> /\ dbg' = "none"
    BY <1>1, Zenon
  <2> QED BY <1>3, <1>4, <2>1, <2>2, TypedPower DEF LifeTypeOK
<1>6. UNCHANGED <<at, doing, todo, held, lock, thr, ctxs, mod>> /\ dbg' = "none"
  BY <1>1, Zenon
<1>7. ThreadInv' /\ ModInv'
  BY <1>6 DEF LifeInv, ThreadInv, ModInv
<1>8. PowerInv'
  BY <1>2, <1>3, <1>4, <1>6 DEF PowerInv
<1>9. ClientInv'
  BY <1>6 DEF LifeInv, ClientInv, Up
<1> QED BY <1>5, <1>6, <1>7, <1>8, <1>9, Untouched DEF LifeInv

-----------------------------------------------------------------------------
(* The ends of the lists, and new lists. *)

(* A list that has come to its end.                                         *)
LEMMA AtEnd ==
  ASSUME LifeInv, todo = <<>>
  PROVE  /\ at = "out" => held = {}
         /\ at = "in" => held = ModuleSteps \ Silent
         /\ at = "failed" => held \ {"sys", "locks", "minor"} = ModuleSteps \ Silent
         /\ at = "up" => Up
         /\ at # "up" => /\ thr = NoThread /\ pw.usage = 0 /\ ~pw.clk /\ ~lock
                         /\ dbg = "none" /\ ctxs = 0 /\ pw.dpm # "live"
<1>1. Ahead(todo) = {} /\ Due(todo) = {} /\ ~Inside(todo) /\ todo # Removing
  BY Nothing, Takes
<1>2. held \subseteq Resources /\ HeldInv
  BY DEF LifeInv, LifeTypeOK
<1>3. ModuleSteps \ Silent \subseteq Resources \ {"sys", "locks", "minor"}
  BY ResourcesAre DEF ModuleSteps, Silent
<1>4. ASSUME at = "out"
      PROVE  held = {}
  <2>1. doing = "give"
    BY <1>4, Placements DEF LifeInv
  <2> QED BY <1>1, <1>2, <1>4, <2>1 DEF HeldInv, Left, Loose
<1>5. ASSUME at = "in"
      PROVE  held = ModuleSteps \ Silent
  <2>1. doing \in {"take", "give"} /\ "sys" \notin held
    BY <1>1, <1>2, <1>5 DEF LifeInv, LifeTypeOK, HeldInv
  <2>2. \A r \in Resources \ {"sys"} : r \in held <=> r \in ModuleSteps \ Silent
    BY <1>1, <1>2, <1>5, <2>1 DEF HeldInv, Left, Wanted, Loose
  <2> QED BY <1>2, <1>3, <2>1, <2>2
<1>6. ASSUME at = "failed"
      PROVE  held \ {"sys", "locks", "minor"} = ModuleSteps \ Silent
  <2>1. doing = "give"
    BY <1>6, Placements DEF LifeInv
  <2>2. \A r \in Resources \ {"sys", "locks", "minor"} : r \in held <=> r \in ModuleSteps \ Silent
    BY <1>1, <1>2, <1>6, <2>1 DEF HeldInv, Left, Loose
  <2> QED BY <1>2, <1>3, <2>2
<1>7. ASSUME at # "up"
      PROVE  /\ thr = NoThread /\ pw.usage = 0 /\ ~pw.clk /\ ~lock
             /\ dbg = "none" /\ ctxs = 0 /\ pw.dpm # "live"
  <2>1. {"thread", "pm", "dpm", "sysfs"} \cap held = {}
    <3>1. {"thread", "pm", "dpm", "sysfs"} \cap (ModuleSteps \cup {"sys", "locks", "minor"}) = {}
      BY DEF ModuleSteps
    <3> QED BY <1>4, <1>5, <1>6, <1>7, <3>1 DEF LifeInv, LifeTypeOK
  <2>2. ~Up
    BY <1>7 DEF Up
  <2>3. ctxs = 0 /\ dbg = "none"
    BY <2>1, <2>2 DEF LifeInv, LifeTypeOK, ClientInv
  <2>4. thr = NoThread /\ ~lock
    BY <1>1, <2>1 DEF LifeInv, ThreadInv
  <2>5. pw.usage = 0 /\ ~pw.clk /\ pw.dpm # "live"
    BY <2>1 DEF LifeInv, PowerInv
  <2> QED BY <2>3, <2>4, <2>5
<1> QED BY <1>4, <1>5, <1>6, <1>7 DEF Up

LEMMA ListsAre ==
  /\ <<>> \in Tails(ModuleExit) /\ ModuleInit \in Tails(ModuleInit)
  /\ ModuleExit \in Tails(ModuleExit) /\ Probing \in Tails(Probing)
  /\ Removing \in Tails(Removing)
  /\ Lists("in", "take") = {ModuleInit} /\ Lists("up", "take") = {Probing}
  /\ Lists("out", "give") = {ModuleExit} /\ Lists("in", "give") = {Removing}
  /\ Lists("failed", "give") = {UndoInit, UndoCdev}
<1>1. /\ ModuleInit \in Seq(Names) /\ ModuleExit \in Seq(Names)
      /\ Probing \in Seq(Names) /\ Removing \in Seq(Names)
  BY ModuleInitIs, ModuleExitIs, ProbingIs, RemovingIs
<1>2. /\ <<>> \in Tails(ModuleExit) /\ ModuleInit \in Tails(ModuleInit)
      /\ ModuleExit \in Tails(ModuleExit) /\ Probing \in Tails(Probing)
      /\ Removing \in Tails(Removing)
  BY <1>1, TailsAre
<1>3. /\ Lists("in", "take") = {ModuleInit} /\ Lists("up", "take") = {Probing}
      /\ Lists("out", "give") = {ModuleExit} /\ Lists("in", "give") = {Removing}
      /\ Lists("failed", "give") = {UndoInit, UndoCdev}
  BY DEF Lists
<1> QED BY <1>2, <1>3

LEMMA NothingTyped ==
  /\ NoThread \in [pc : {"none", "created", "head", "lock", "work", "gone"}, stop : BOOLEAN,
                  strategy : {"MIN", "MAX"}]
  /\ NoPower \in [usage : 0 .. 1, clk : BOOLEAN, susp : BOOLEAN,
                 dpm : {"none", "live", "freed"}, cur : {"off", "on"}]
<1>1. NoThread \in [pc : {"none", "created", "head", "lock", "work", "gone"}, stop : BOOLEAN,
                   strategy : {"MIN", "MAX"}]
  BY DEF NoThread
<1>2. NoPower \in [usage : 0 .. 1, clk : BOOLEAN, susp : BOOLEAN,
                  dpm : {"none", "live", "freed"}, cur : {"off", "on"}]
  BY DEF NoPower
<1> QED BY <1>1, <1>2

LEMMA InitInv ==
  ASSUME Init
  PROVE  LifeInv
<1>1. /\ at = "out" /\ doing = "give" /\ todo = <<>>
      /\ held = {} /\ lock = FALSE /\ ctxs = 0
      /\ thr = NoThread /\ pw = NoPower /\ dbg = "none"
      /\ mod = [uid |-> "none", minors |-> 0]
  BY DEF Init
<1>2. Ahead(todo) = {} /\ Due(todo) = {} /\ ~Inside(todo)
  BY <1>1, Nothing
<1>3. LifeTypeOK
  <2>1. mod \in [uid : {"none", "live", "hollow"}, minors : 0 .. MaxMinors]
    BY <1>1, LifeAssumption
  <2>2. /\ thr \in [pc : {"none", "created", "head", "lock", "work", "gone"}, stop : BOOLEAN,
                    strategy : {"MIN", "MAX"}]
        /\ pw \in [usage : 0 .. 1, clk : BOOLEAN, susp : BOOLEAN,
                   dpm : {"none", "live", "freed"}, cur : {"off", "on"}]
    BY <1>1, NothingTyped, Zenon
  <2>3. ctxs \in 0 .. MaxContexts
    BY <1>1, LifeAssumption
  <2>4. held \subseteq Resources /\ lock \in BOOLEAN
    BY <1>1
  <2> QED BY <1>1, <2>1, <2>2, <2>3, <2>4 DEF LifeTypeOK
<1>4. TodoInv
  BY <1>1, ListsAre DEF TodoInv
<1>5. HeldInv
  BY <1>1, <1>2 DEF HeldInv, Left
<1>6. ThreadInv
  BY <1>1 DEF ThreadInv, NoThread
<1>7. PowerInv
  BY <1>1 DEF PowerInv, NoPower, NoThread
<1>8. ModInv /\ ClientInv
  BY <1>1 DEF ModInv, ClientInv
<1> QED BY <1>1, <1>2, <1>3, <1>4, <1>5, <1>6, <1>7, <1>8 DEF LifeInv

LEMMA LoadModuleInv ==
  ASSUME LifeInv, LoadModule
  PROVE  LifeInv'
<1>1. /\ at = "out" /\ todo = <<>> /\ at' = "in" /\ doing' = "take" /\ todo' = ModuleInit
      /\ held' = {} /\ mod' = [uid |-> "none", minors |-> 0]
      /\ UNCHANGED <<lock, thr, pw, dbg, ctxs>>
  BY DEF LoadModule, Begin
<1>2. /\ held = {} /\ thr = NoThread /\ pw.usage = 0 /\ ~pw.clk /\ ~lock
      /\ dbg = "none" /\ ctxs = 0 /\ pw.dpm # "live"
  BY <1>1, AtEnd
<1>3. LifeTypeOK'
  <2>1. LifeTypeOK /\ mod' \in [uid : {"none", "live", "hollow"}, minors : 0 .. MaxMinors]
    BY <1>1, LifeAssumption DEF LifeInv
  <2> QED BY <1>1, <2>1 DEF LifeTypeOK
<1>4. TodoInv' /\ (lock' <=> Inside(todo'))
  BY <1>1, <1>2, ListsAre, Takes DEF TodoInv
<1>5. HeldInv'
  <2>1. ModuleSteps \ Silent \subseteq Due(ModuleInit)
    BY Takes DEF Due, ModuleSteps
  <2> QED BY <1>1, <2>1 DEF HeldInv, Wanted, Loose
<1>6. ThreadInv'
  BY <1>1, <1>2 DEF ThreadInv, NoThread
<1>7. PowerInv'
  BY <1>1, <1>2 DEF PowerInv, NoThread
<1>8. ModInv' /\ ClientInv'
  BY <1>1, <1>2 DEF ModInv, ClientInv
<1> QED BY <1>3, <1>4, <1>5, <1>6, <1>7, <1>8 DEF LifeInv

LEMMA ModulesAre ==
  ASSUME LifeInv, at \in {"in", "failed"}, todo = <<>>
  PROVE  held \cap ModuleSteps = {"major", "class", "classfile"}
<1>1. /\ ModuleSteps \ Silent = {"major", "class", "classfile"}
      /\ {"sys", "locks", "minor"} \cap ModuleSteps = {}
      /\ {"major", "class", "classfile"} \subseteq ModuleSteps
  BY DEF ModuleSteps, Silent
<1> QED BY <1>1, AtEnd

LEMMA UnloadModuleInv ==
  ASSUME LifeInv, UnloadModule
  PROVE  LifeInv'
<1>1. /\ at \in {"in", "failed"} /\ todo = <<>>
      /\ at' = "out" /\ doing' = "give" /\ todo' = ModuleExit
      /\ held' = held \cap ModuleSteps
      /\ UNCHANGED <<lock, thr, pw, dbg, ctxs, mod>>
  BY DEF UnloadModule, Begin
<1>2. /\ thr = NoThread /\ pw.usage = 0 /\ ~pw.clk /\ ~lock
      /\ dbg = "none" /\ ctxs = 0 /\ pw.dpm # "live"
  BY <1>1, AtEnd
<1>3. held' = {"major", "class", "classfile"}
  BY <1>1, ModulesAre
<1>4. LifeTypeOK'
  <2>1. LifeTypeOK
    BY DEF LifeInv
  <2> QED BY <1>1, <2>1 DEF LifeTypeOK
<1>5. TodoInv' /\ (lock' <=> Inside(todo'))
  BY <1>1, <1>2, ListsAre, Takes DEF TodoInv
<1>6. HeldInv'
  <2>1. Due(ModuleExit) = {"major", "class", "classfile"}
    BY Takes DEF Due
  <2>2. held' \subseteq Resources
    BY <1>3, ResourcesAre
  <2> QED BY <1>1, <1>3, <2>1, <2>2, Takes DEF HeldInv, Left, Loose
<1>7. ThreadInv'
  BY <1>1, <1>2, <1>3 DEF ThreadInv, NoThread
<1>8. PowerInv'
  BY <1>1, <1>2, <1>3 DEF PowerInv, NoThread
<1>9. ModInv' /\ ClientInv'
  BY <1>1, <1>2, <1>3 DEF ModInv, ClientInv
<1> QED BY <1>4, <1>5, <1>6, <1>7, <1>8, <1>9 DEF LifeInv

LEMMA ProbeInv ==
  ASSUME LifeInv, PlainLife, Probe
  PROVE  LifeInv'
<1>1. /\ at \in {"in", "failed"} /\ todo = <<>> /\ mod.uid # "hollow"
      /\ at' = "up" /\ doing' = "take" /\ todo' = Probing
      /\ held' = held \cap ModuleSteps
      /\ thr' = NoThread /\ pw' = [NoPower EXCEPT !.usage = pw.usage]
      /\ UNCHANGED <<lock, dbg, ctxs, mod>>
  BY DEF Probe, Begin, PlainLife
<1>2. /\ pw.usage = 0 /\ ~lock /\ dbg = "none" /\ ctxs = 0
  BY <1>1, AtEnd
<1>3. held' = {"major", "class", "classfile"}
  BY <1>1, ModulesAre
<1>4. pw' = NoPower
  BY <1>1, <1>2 DEF NoPower
<1>5. LifeTypeOK'
  <2>1. LifeTypeOK
    BY DEF LifeInv
  <2>2. /\ thr' \in [pc : {"none", "created", "head", "lock", "work", "gone"}, stop : BOOLEAN,
                     strategy : {"MIN", "MAX"}]
        /\ pw' \in [usage : 0 .. 1, clk : BOOLEAN, susp : BOOLEAN,
                    dpm : {"none", "live", "freed"}, cur : {"off", "on"}]
    BY <1>1, <1>4, NothingTyped
  <2> QED BY <1>1, <2>1, <2>2 DEF LifeTypeOK
<1>6. TodoInv' /\ (lock' <=> Inside(todo'))
  BY <1>1, <1>2, ListsAre, Takes DEF TodoInv
<1>7. HeldInv'
  <2>1. /\ \A r \in Resources \ {"sys"} : r \in {"major", "class", "classfile"} <=>
                                          r \notin Due(Probing)
        /\ held' \subseteq Resources
    BY <1>3, Takes, ResourcesAre DEF Due
  <2> QED BY <1>1, <1>3, <2>1 DEF HeldInv, Wanted, Loose
<1>8. ThreadInv'
  BY <1>1, <1>3 DEF ThreadInv, NoThread
<1>9. PowerInv'
  BY <1>1, <1>3, <1>4 DEF PowerInv, NoThread, NoPower
<1>10. ModInv' /\ ClientInv'
  BY <1>1, <1>2, <1>3 DEF ModInv, ClientInv
<1> QED BY <1>5, <1>6, <1>7, <1>8, <1>9, <1>10 DEF LifeInv

LEMMA RemoveInv ==
  ASSUME LifeInv, PlainLife, Remove
  PROVE  LifeInv'
<1>1. /\ Up /\ ~(ctxs > 0) /\ at' = "in" /\ doing' = "give" /\ todo' = Removing
      /\ UNCHANGED <<held, lock, thr, pw, dbg, ctxs, mod>>
  BY DEF Remove, Begin, PlainLife
<1>2. /\ doing = "take" /\ Resources \ held \subseteq {"sys"} /\ ~lock
      /\ "suspend" \notin Ahead(todo)
  BY <1>1, UpHolds, Nothing DEF LifeInv, Up
<1>3. LifeTypeOK'
  <2>1. LifeTypeOK
    BY DEF LifeInv
  <2> QED BY <1>1, <2>1 DEF LifeTypeOK
<1>4. TodoInv' /\ (lock' <=> Inside(todo'))
  BY <1>1, <1>2, ListsAre, Takes DEF TodoInv
<1>5. HeldInv'
  <2>1. \A r \in Resources \ {"sys"} : r \in ModuleSteps \ Silent \/ r \in Due(Removing)
    BY Takes, ResourcesAre DEF Due, ModuleSteps, Silent
  <2>2. "sys" \in Ahead(Removing) /\ "locks" \in held' /\ held' \subseteq Resources
    BY <1>1, <1>2, Takes, ResourcesAre DEF LifeInv, LifeTypeOK
  <2> QED BY <1>1, <1>2, <2>1, <2>2 DEF HeldInv, Left, Loose
<1>6. {"stop", "join", "resume"} \subseteq Ahead(Removing) /\ "suspend" \notin Ahead(Removing)
  BY Takes
<1>7. ThreadInv'
  BY <1>1, <1>2, <1>6 DEF LifeInv, ThreadInv
<1>8. PowerInv'
  BY <1>1, <1>2, <1>6 DEF LifeInv, PowerInv, Up
<1>9. ModInv' /\ ClientInv'
  BY <1>1 DEF LifeInv, ModInv, ClientInv
<1> QED BY <1>3, <1>4, <1>5, <1>7, <1>8, <1>9 DEF LifeInv

-----------------------------------------------------------------------------
(* A step fails. *)

(* The steps of the lists, apart by the module's and the device's.          *)
LEMMA ExitSteps ==
  ASSUME NEW t \in Tails(ModuleExit)
  PROVE  Ahead(t) \subseteq ModuleSteps
<1>1. ModuleExit \in Seq(Names) /\ Len(ModuleExit) = 3
  BY ModuleExitIs
<1>2. PICK k : Placed(t, ModuleExit, ModuleExitAt, 3, k)
  BY <1>1, ModuleExitRanks, TailIsPlaced
<1> QED BY <1>2 DEF Placed, ModuleExitAt, ModuleSteps

LEMMA ProbingSteps ==
  ASSUME NEW t \in Tails(Probing), NEW x \in Ahead(t)
  PROVE  x \notin ModuleSteps
<1>1. Probing \in Seq(Names) /\ Len(Probing) = 21
  BY ProbingIs
<1>2. PICK k : Placed(t, Probing, ProbingAt, 21, k)
  BY <1>1, ProbingRanks, TailIsPlaced
<1>3. x \in DOMAIN ProbingAt
  BY <1>2 DEF Placed
<1> QED BY <1>3 DEF ProbingAt, ModuleSteps

LEMMA HeadAhead ==
  ASSUME TodoInv, todo # <<>>
  PROVE  Head(todo) \in Ahead(todo)
<1>1. PICK L \in Lists(at, doing) : todo \in Tails(L)
  BY DEF TodoInv
<1>2. L \in Seq(Names)
  BY ListsAreWords
<1>3. PICK k : LeftAt(todo, L, k)
  BY <1>1, <1>2, TailsAre
<1> QED BY <1>2, <1>3, OneDone

LEMMA FailFrame ==
  ASSUME LifeInv, PlainLife, NEW s, Fail(s)
  PROVE  /\ todo # <<>> /\ doing = "take" /\ s = Head(todo) /\ s \in Survivable
         /\ at' = (IF s \in ModuleSteps THEN "out" ELSE "failed")
         /\ doing' = "give" /\ todo' = UndoOf(s)
         /\ s # "mem" => mod' = mod
         /\ mod' \in [uid : {"none", "live", "hollow"}, minors : 0 .. MaxMinors]
         /\ mod'.minors = mod.minors
         /\ UNCHANGED <<held, lock, thr, pw, dbg, ctxs>>
         /\ LifeTypeOK' /\ ClientInv'
<1>1. /\ todo # <<>> /\ doing = "take" /\ s = Head(todo) /\ s \in Survivable /\ Quiet
      /\ at' = (IF s \in ModuleSteps THEN "out" ELSE "failed")
      /\ doing' = "give" /\ todo' = UndoOf(s)
      /\ \/ s # "mem" /\ mod' = mod
         \/ s = "mem" /\ \E u \in {"none", "live", "hollow"} : mod' = [mod EXCEPT !.uid = u]
      /\ UNCHANGED <<held, lock, thr, pw, dbg, ctxs>>
  BY DEF Fail, Now, Begin, PlainLife, Survivable
<1>2. /\ mod' \in [uid : {"none", "live", "hollow"}, minors : 0 .. MaxMinors]
      /\ mod'.minors = mod.minors
  BY <1>1 DEF LifeInv, LifeTypeOK
<1>3. LifeTypeOK'
  <2>1. LifeTypeOK
    BY DEF LifeInv
  <2> QED BY <1>1, <1>2, <2>1 DEF LifeTypeOK
<1>4. ClientInv'
  BY <1>1, ClientFrame
<1> QED BY <1>1, <1>2, <1>3, <1>4

LEMMA LoadFailsInv ==
  ASSUME LifeInv, PlainLife, NEW s, Fail(s), at = "in"
  PROVE  LifeInv'
<1>1. todo \in Tails(ModuleInit) /\ s = Head(todo) /\ todo # <<>> /\ doing = "take"
  BY FailFrame, Placements DEF LifeInv
<1>2. s \in ModuleSteps /\ s # "mem"
  BY <1>1, HeadAhead, HeldTaking DEF LifeInv, ModuleSteps
<1>3. /\ at' = "out" /\ doing' = "give" /\ todo' = UndoOf(s) /\ mod' = mod
      /\ UNCHANGED <<held, lock, thr, pw, dbg, ctxs>> /\ LifeTypeOK' /\ ClientInv'
  BY <1>2, FailFrame
<1>4. /\ UndoOf(s) \in Tails(ModuleExit)
      /\ \A r \in Resources : r \in Due(UndoOf(s)) <=>
             r \in ModuleSteps \ Silent /\ r \notin Due(todo)
      /\ ~Inside(todo) /\ ~Inside(UndoOf(s))
  <2>1. s \in Survivable
    BY FailFrame
  <2> QED BY <1>1, <2>1, LoadFails
<1>5. TodoInv' /\ (lock' <=> Inside(todo'))
  BY <1>3, <1>4, ListsAre DEF TodoInv, LifeInv
<1>6. {"thread", "pm", "dpm", "mem", "minor", "sys"} \cap held = {}
  <2>1. {"thread", "pm", "dpm", "mem", "minor", "sys"} \subseteq Resources \ ModuleSteps
    BY ResourcesAre DEF ModuleSteps
  <2> QED BY <1>1, <2>1, HeldTaking
<1>7. HeldInv'
  <2>1. {"lock", "unlock"} \cap Ahead(UndoOf(s)) = {}
    BY <1>4, ExitSteps DEF ModuleSteps
  <2>2. ASSUME NEW r \in Resources
        PROVE  r \in held <=> r \in Due(UndoOf(s))
    <3>1. CASE r = "sys"
      BY <1>4, <1>6, <3>1, SilentAre
    <3>2. CASE r # "sys"
      BY <1>1, <1>4, <3>2 DEF LifeInv, HeldInv, Loose, Wanted
    <3> QED BY <3>1, <3>2
  <2>3. held \subseteq Resources
    BY DEF LifeInv, LifeTypeOK
  <2> QED BY <1>3, <1>6, <2>1, <2>2, <2>3 DEF HeldInv, Left, Loose
<1>8. thr = NoThread /\ pw.usage = 0 /\ ~pw.clk /\ pw.dpm # "live"
  BY <1>6 DEF LifeInv, ThreadInv, PowerInv
<1>9. ThreadInv'
  BY <1>3, <1>6, <1>8 DEF ThreadInv, NoThread
<1>10. PowerInv'
  BY <1>3, <1>6, <1>8 DEF PowerInv, NoThread
<1>11. ModInv'
  BY <1>3, <1>6 DEF ModInv
<1> QED BY <1>3, <1>5, <1>7, <1>9, <1>10, <1>11 DEF LifeInv

LEMMA ProbeFailsInv ==
  ASSUME LifeInv, PlainLife, NEW s, Fail(s), at = "up"
  PROVE  LifeInv'
<1>1. todo \in Tails(Probing) /\ s = Head(todo) /\ todo # <<>> /\ doing = "take"
  BY FailFrame, Placements DEF LifeInv
<1>2. s \notin ModuleSteps /\ s \in Ahead(todo)
  BY <1>1, HeadAhead, ProbingSteps DEF LifeInv
<1>3. /\ at' = "failed" /\ doing' = "give" /\ todo' = UndoOf(s)
      /\ s # "mem" => mod' = mod
      /\ mod'.minors = mod.minors
      /\ UNCHANGED <<held, lock, thr, pw, dbg, ctxs>> /\ LifeTypeOK' /\ ClientInv'
  BY <1>2, FailFrame
<1>4. FailOrder(todo, UndoOf(s))
  <2>1. s \in Survivable
    BY FailFrame
  <2> QED BY <1>1, <2>1, ProbeFails
<1>5. TodoInv' /\ (lock' <=> Inside(todo'))
  BY <1>3, <1>4, ListsAre DEF TodoInv, LifeInv, FailOrder
<1>6. \A r \in Resources \ {"sys", "map"} : r \in held <=> r \notin Ahead(todo)
  BY <1>1, HeldTaking
<1>7. {"thread", "pm", "dpm", "mem", "minor", "locks"} \subseteq Resources \ {"sys", "map"}
  BY ResourcesAre
<1>8. HeldInv'
  <2>1. {"lock", "unlock"} \cap Ahead(UndoOf(s)) # {} => "locks" \in held
    BY <1>4, <1>6, <1>7 DEF FailOrder
  <2>2. ASSUME NEW r \in Resources \ {"sys", "locks", "minor"}
        PROVE  r \in held <=> r \in ModuleSteps \ Silent \/ r \in Due(UndoOf(s))
    <3>1. r \in held <=> r \notin Due(todo)
      BY <1>1 DEF LifeInv, HeldInv, Loose, Wanted
    <3> QED BY <1>4, <3>1 DEF FailOrder
  <2>3. held \subseteq Resources
    BY DEF LifeInv, LifeTypeOK
  <2> QED BY <1>3, <2>1, <2>2, <2>3 DEF HeldInv, Left, Loose
<1>9. ThreadInv'
  <2>1. "thread" \in held => {"stop", "join"} \subseteq Ahead(UndoOf(s))
    BY <1>4, <1>6, <1>7 DEF FailOrder
  <2> QED BY <1>1, <1>3, <2>1 DEF LifeInv, ThreadInv
<1>10. PowerInv'
  <2>1. "pm" \in held /\ "resume" \notin Ahead(UndoOf(s)) => "suspend" \in Ahead(todo)
    BY <1>4, <1>6, <1>7 DEF FailOrder
  <2>2. "resume" \in Ahead(UndoOf(s)) => "suspend" \notin Ahead(todo)
    BY <1>4 DEF FailOrder
  <2> QED BY <1>1, <1>3, <2>1, <2>2 DEF LifeInv, PowerInv
<1>11. ModInv'
  BY <1>2, <1>3, <1>6, <1>7 DEF LifeInv, ModInv
<1> QED BY <1>3, <1>5, <1>8, <1>9, <1>10, <1>11 DEF LifeInv

LEMMA FailInv ==
  ASSUME LifeInv, PlainLife, NEW s, Fail(s)
  PROVE  LifeInv'
BY FailFrame, HeldTaking, LoadFailsInv, ProbeFailsInv

-----------------------------------------------------------------------------
(* Every step of the system keeps LifeInv.                                  *)
LEMMA NextInv ==
  ASSUME LifeInv, PlainLife, [Next]_vars
  PROVE  LifeInv'
<1>1. CASE LoadModule
  BY <1>1, LoadModuleInv
<1>2. CASE UnloadModule
  BY <1>2, UnloadModuleInv
<1>3. CASE Probe
  BY <1>3, ProbeInv
<1>4. CASE Remove
  BY <1>4, RemoveInv
<1>5. CASE KernelStep
  <2>1. ASSUME NEW how \in {"take", "give"}, Lock(how) \/ Unlock(how)
        PROVE  LifeInv'
    BY <2>1, LockInv, UnlockInv
  <2>2. ASSUME NEW s \in ModuleSteps \cup DeviceSteps,
               TakePlain(s) \/ TakeNothing(s) \/ Fail(s) \/ GivePlain(s)
        PROVE  LifeInv'
    BY <2>2, TakePlainInv, TakeNothingInv, FailInv, GivePlainInv
  <2>3. CASE VoltageInit \/ CreateIoregion \/ PmInit \/ MemInit \/ TakeDpm
    BY <2>3, VoltageInitInv, CreateIoregionInv, PmInitInv, MemInitInv, TakeDpmInv
  <2>4. CASE ThreadCreate \/ SuspendFirst \/ MinorGet
    BY <2>4, ThreadCreateInv, SuspendFirstInv, MinorGetInv
  <2>5. CASE DestroyIoregion \/ ThreadStop \/ ThreadJoin \/ ThreadAwait \/ ThreadFree
    BY <2>5, DestroyIoregionInv, ThreadStopInv, ThreadJoinInv, ThreadAwaitInv, ThreadFreeInv
  <2>6. CASE ResumeLast \/ DestroyAllContext \/ MemDeinit \/ PmDeinit \/ GiveDpm \/ MinorRemove
    BY <2>6, ResumeLastInv, DestroyAllContextInv, MemDeinitInv, PmDeinitInv, GiveDpmInv,
       MinorRemoveInv
  <2> QED BY <1>5, <2>1, <2>2, <2>3, <2>4, <2>5, <2>6 DEF KernelStep
<1>6. CASE ThreadStep
  BY <1>6, ThreadStartInv, ThreadHeadInv, ThreadLockInv, ThreadIdleInv, ThreadAdjustInv
     DEF ThreadStep
<1>7. CASE Open
  BY <1>7, OpenInv
<1>8. CASE Close
  BY <1>8, CloseInv
<1>9. CASE DebugCheck
  BY <1>9, DebugCheckInv
<1>10. CASE DebugStep
  BY <1>10, DebugResumeInv, DebugAccessInv, SetClkCoreInv DEF DebugStep
<1>11. CASE UNCHANGED vars
  <2>1. UNCHANGED <<at, doing, todo, held, lock, thr, pw, dbg, ctxs, mod>>
    BY <1>11 DEF vars
  <2>2. LifeTypeOK' /\ ThreadInv' /\ PowerInv' /\ ModInv' /\ ClientInv'
    BY <2>1 DEF LifeInv, LifeTypeOK, ThreadInv, PowerInv, ModInv, ClientInv, Up
  <2> QED BY <2>1, <2>2, Untouched DEF LifeInv
<1> QED BY <1>1, <1>2, <1>3, <1>4, <1>5, <1>6, <1>7, <1>8, <1>9, <1>10, <1>11 DEF Next

-----------------------------------------------------------------------------
(* What the invariant says of the properties. *)

(* What a step needs, where no file is open.                                *)
LEMMA NeedsAre ==
  ASSUME NEW how, NEW s, ~(ctxs > 0), NEW r \in Needs(how, s)
  PROVE  \/ s \in {"lock", "unlock"} /\ r = "locks"
         \/ s \in {"stop", "thread"} /\ r = "queue"
         \/ s = "hw" /\ (r \in {"region", "map"} \/ (how = "give" /\ r = "hw"))
         \/ s = "resume" /\ r \in {"pm", "hw", "map"}
         \/ s = "suspend" /\ r \in {"pm", "hw"}
         \/ /\ how = "give" /\ r = s
            /\ s \in {"queue", "mem", "pm", "ids", "irq", "region", "alloc"}
BY DEF Needs

LEMMA InvPowers ==
  ASSUME LifeInv, "pm" \in held
  PROVE  /\ pw.dpm # "freed" /\ pw.usage = (IF pw.susp THEN 0 ELSE 1) /\ pw.clk = ~pw.susp
         /\ ~pw.susp => Powered(pw)
<1>1. /\ pw.dpm # "freed" /\ pw.usage = (IF pw.susp THEN 0 ELSE 1) /\ (pw.clk <=> ~pw.susp)
  BY DEF LifeInv, PowerInv
<1>2. pw.clk \in BOOLEAN /\ pw.susp \in BOOLEAN
  BY DEF LifeInv, LifeTypeOK
<1>3. pw.clk = ~pw.susp
  BY <1>1, <1>2
<1>4. ~pw.susp => Powered(pw)
  BY <1>1 DEF Powered
<1> QED BY <1>1, <1>3, <1>4

StepUses ==
  /\ Needs(doing, Head(todo)) \subseteq held
  /\ Head(todo) \in ChangesClock => pw.dpm # "freed"
  /\ Head(todo) = "hw" => Powered(pw)
  /\ NeedsUid(doing, Head(todo)) => mod.uid # "hollow"

LEMMA TakeUses ==
  ASSUME LifeInv, todo # <<>>, doing = "take"
  PROVE  StepUses
<1> DEFINE s == Head(todo)
<1>1. s \in Ahead(todo) /\ s \in ModuleSteps \cup DeviceSteps /\ TakeOrder(todo)
  BY HeadAhead, HeldTaking DEF LifeInv, TakeOrder
<1>2. ~(ctxs > 0) /\ s \notin {"stop", "resume", "contexts"}
  BY <1>1, DeviceStepsAre DEF LifeInv, ClientInv, Up, ModuleSteps
<1>3. {"locks", "queue", "region", "pm", "hw"} \subseteq Resources \ {"sys", "map"}
  BY ResourcesAre
<1>4. CASE at = "in"
  <2>1. s \in ModuleSteps
    BY <1>1, <1>4, HeldTaking
  <2>2. s \in {"major", "class", "classfile", "driver"}
    BY <2>1 DEF ModuleSteps
  <2>3. \A r \in Needs(doing, s) : r \in held
    BY <1>2, <2>2, NeedsAre
  <2> QED BY <1>2, <2>2, <2>3 DEF StepUses, ChangesClock, NeedsUid
<1>5. CASE at = "up"
  <2>1. /\ \A r \in Resources \ {"sys", "map"} : r \in held <=> r \notin Ahead(todo)
        /\ "map" \in held <=> "region" \notin Ahead(todo)
    BY <1>5, HeldTaking
  <2>2. ASSUME NEW r \in Needs(doing, s)
        PROVE  r \in held
    <3>1. CASE s \in {"lock", "unlock"} /\ r = "locks"
      BY <1>1, <1>3, <2>1, <3>1 DEF TakeOrder
    <3>2. CASE s = "thread" /\ r = "queue"
      BY <1>1, <1>3, <2>1, <3>2 DEF TakeOrder
    <3>3. CASE s = "hw" /\ r \in {"region", "map"}
      BY <1>1, <1>3, <2>1, <3>3 DEF TakeOrder
    <3>4. CASE s = "suspend" /\ r \in {"pm", "hw"}
      BY <1>1, <1>3, <2>1, <3>4 DEF TakeOrder
    <3> QED BY <1>2, <2>2, <3>1, <3>2, <3>3, <3>4, NeedsAre
  <2>3. pw.dpm # "freed" /\ mod.uid # "hollow"
    BY <1>5 DEF LifeInv, PowerInv, ModInv
  <2>4. ASSUME s = "hw"
        PROVE  Powered(pw)
    <3>1. "pm" \in held /\ "suspend" \in Ahead(todo)
      BY <1>1, <1>3, <2>1, <2>4 DEF TakeOrder
    <3> QED BY <3>1, InvPowers DEF LifeInv, PowerInv
  <2> QED BY <2>2, <2>3, <2>4 DEF StepUses
<1> QED BY <1>4, <1>5, HeldTaking

LEMMA GiveUses ==
  ASSUME LifeInv, todo # <<>>, doing = "give"
  PROVE  StepUses
<1> DEFINE s == Head(todo)
<1>1. s \in Ahead(todo) /\ GiveOrder(todo)
  BY HeadAhead, HeldGiving DEF LifeInv
<1>2. ~(ctxs > 0) /\ s # "suspend"
  BY <1>1 DEF LifeInv, ClientInv, Up, GiveOrder
<1>3. {"queue", "mem", "pm", "ids", "irq", "region", "alloc", "hw"} \subseteq
        Resources \ (ModuleSteps \cup {"sys", "locks", "minor", "map"})
  BY ResourcesAre DEF ModuleSteps
<1>4. /\ \A r \in Resources \ (ModuleSteps \cup {"sys", "locks", "minor", "map"}) :
           r \in held <=> r \in Ahead(todo)
      /\ "map" \in held <=> "region" \in Ahead(todo)
      /\ {"lock", "unlock"} \cap Ahead(todo) # {} => "locks" \in held
  BY HeldGiving
<1>5. ASSUME NEW r \in Needs(doing, s)
      PROVE  r \in held
  <2>1. CASE s \in {"lock", "unlock"} /\ r = "locks"
    BY <1>1, <1>4, <2>1
  <2>2. CASE s \in {"stop", "thread"} /\ r = "queue"
    BY <1>1, <1>3, <1>4, <2>2 DEF GiveOrder
  <2>3. CASE s = "hw" /\ r \in {"region", "map", "hw"}
    BY <1>1, <1>3, <1>4, <2>3 DEF GiveOrder
  <2>4. CASE s = "resume" /\ r \in {"pm", "hw", "map"}
    BY <1>1, <1>3, <1>4, <2>4 DEF GiveOrder
  <2>5. CASE r = s /\ s \in {"queue", "mem", "pm", "ids", "irq", "region", "alloc"}
    BY <1>1, <1>3, <1>4, <2>5
  <2> QED BY <1>2, <1>5, <2>1, <2>2, <2>3, <2>4, <2>5, NeedsAre
<1>6. ASSUME s \in ChangesClock
      PROVE  pw.dpm # "freed"
  <2>1. "pm" \in held
    BY <1>1, <1>2, <1>3, <1>4, <1>6 DEF GiveOrder, ChangesClock
  <2> QED BY <2>1, InvPowers
<1>7. ASSUME s = "hw"
      PROVE  Powered(pw)
  <2>1. "pm" \in held /\ "resume" \notin Ahead(todo)
    BY <1>1, <1>3, <1>4, <1>7 DEF GiveOrder
  <2> QED BY <2>1, InvPowers DEF LifeInv, PowerInv
<1>8. NeedsUid(doing, s) => mod.uid # "hollow"
  <2>1. NeedsUid(doing, s) => s = "mem"
    BY <1>2 DEF NeedsUid
  <2>2. s = "mem" => "mem" \in held
    BY <1>1, <1>3, <1>4
  <2> QED BY <2>1, <2>2 DEF LifeInv, ModInv
<1> QED BY <1>5, <1>6, <1>7, <1>8 DEF StepUses

LEMMA InvUses ==
  ASSUME LifeInv
  PROVE  UsesHeld
<1>1. todo # <<>> => StepUses
  BY TakeUses, GiveUses DEF LifeInv, LifeTypeOK
<1>2. ASSUME thr.pc = "work"
      PROVE  /\ {"locks", "queue", "dpm", "hw", "map"} \subseteq held
             /\ thr.strategy = "MAX" => Powered(pw)
  <2>1. {"locks", "queue", "dpm", "hw", "map", "pm"} \subseteq held
    BY <1>2, WorkHolds
  <2>2. thr.strategy = "MAX" => ~pw.susp
    BY <1>2 DEF LifeInv, PowerInv
  <2> QED BY <2>1, <2>2, InvPowers
<1>3. ASSUME dbg # "none"
      PROVE  /\ {"pm", "hw", "map", "dpm"} \subseteq held
             /\ dbg = "on" => Powered(pw)
  <2>1. {"pm", "hw", "map", "dpm"} \subseteq held
    BY <1>3, DebugHolds
  <2>2. dbg = "on" => ~pw.susp
    BY DEF LifeInv, ClientInv
  <2> QED BY <2>1, <2>2, InvPowers
<1>4. dbg = "on" => dbg # "none"
  OBVIOUS
<1> QED BY <1>1, <1>2, <1>3, <1>4 DEF UsesHeld, StepUses

LEMMA InvIsWhole ==
  ASSUME LifeInv
  PROVE  AllOrNothing
<1>1. ASSUME todo = <<>>, at = "up"
      PROVE  Resources \ held \subseteq {"sys"} /\ thr.pc # "none"
  <2>1. doing = "take" /\ Resources \ held \subseteq {"sys"}
    BY <1>1, UpHolds DEF Up
  <2>2. "thread" \in held
    BY <2>1, ResourcesAre
  <2> QED BY <2>1, <2>2 DEF LifeInv, ThreadInv, Alive
<1>2. ASSUME todo = <<>>
      PROVE  /\ at = "out" => held = {}
             /\ at = "in" => held = ModuleSteps \ Silent
             /\ at = "failed" => held \ {"sys", "locks", "minor"} = ModuleSteps \ Silent
             /\ at # "up" => pw.usage = 0 /\ ~pw.clk /\ thr.pc = "none" /\ ~lock
  BY <1>2, AtEnd DEF NoThread
<1> QED BY <1>1, <1>2 DEF AllOrNothing

LEMMA InvAgrees ==
  ASSUME LifeInv
  PROVE  PowerAgrees
<1>1. "pm" \in held => pw.usage = (IF pw.susp THEN 0 ELSE 1) /\ pw.clk = ~pw.susp
  BY InvPowers
<1>2. ASSUME Up
      PROVE  /\ pw.cur = IF pw.susp THEN "off" ELSE "on"
             /\ thr.strategy = "MAX" => ~pw.susp
  <2>1. /\ doing = "take" /\ "suspend" \notin Ahead(todo) /\ Resources \ held \subseteq {"sys"}
    BY <1>2, UpHolds
  <2>2. {"dpm", "pm", "thread"} \subseteq held
    BY <2>1, ResourcesAre
  <2>3. thr.pc # "gone"
    BY <2>1, <2>2 DEF LifeInv, ThreadInv, Alive
  <2> QED BY <2>1, <2>2, <2>3 DEF LifeInv, PowerInv
<1> QED BY <1>1, <1>2 DEF PowerAgrees

-----------------------------------------------------------------------------
(* In the plain case, with the failures that the code survives: LifeInv     *)
(* always holds.                                                            *)
THEOREM LifeInvariantHolds ==
  ASSUME PlainLife
  PROVE  Spec => []LifeInv
<1>1. Init => LifeInv
  BY InitInv
<1>2. LifeInv /\ [Next]_vars => LifeInv'
  BY NextInv
<1> QED BY <1>1, <1>2, PTL DEF Spec

(* Every variable has its type (adlak_platform_device.c, adlak_device.c).   *)
THEOREM LifeIsTyped ==
  ASSUME PlainLife
  PROVE  Spec => []LifeTypeOK
<1>1. LifeInv => LifeTypeOK
  BY DEF LifeInv
<1> QED BY <1>1, LifeInvariantHolds, PTL

(* No step of load, probe, remove or unload, of any failed one's labels, no *)
(* round of the inference thread and no register access uses what is not    *)
(* there (adlak_device_init, adlak_device_deinit, adlak_platform_remove).   *)
THEOREM UseIsHeld ==
  ASSUME PlainLife
  PROVE  Spec => []UsesHeld
<1>1. LifeInv => UsesHeld
  BY InvUses
<1> QED BY <1>1, LifeInvariantHolds, PTL

(* Whatever failed, a list that has ended leaves all of the resources or    *)
(* none (the labels of adlak_platform_probe and of adlak_device_init).      *)
THEOREM LifeIsAllOrNothing ==
  ASSUME PlainLife
  PROVE  Spec => []AllOrNothing
<1>1. LifeInv => AllOrNothing
  BY InvIsWhole
<1> QED BY <1>1, LifeInvariantHolds, PTL

(* is_suspend, the clocks, the power domain and dpm agree, whoever switched *)
(* last (adlak_platform_resume, adlak_platform_suspend, adlak_dpm.c).       *)
THEOREM PowerAlwaysAgrees ==
  ASSUME PlainLife
  PROVE  Spec => []PowerAgrees
<1>1. LifeInv => PowerAgrees
  BY InvAgrees
<1> QED BY <1>1, LifeInvariantHolds, PTL
=============================================================================
