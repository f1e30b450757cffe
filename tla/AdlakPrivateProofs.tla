------------------------- MODULE AdlakPrivateProofs -------------------------
(***************************************************************************)
(* Proofs about AdlakPrivate: where the layers of a model lie in its queue, *)
(* and that in the plain case, for models no invoke of which fills its      *)
(* queue, a submission runs as planned and leaves nothing behind.           *)
(***************************************************************************)
EXTENDS AdlakPrivate, FiniteSetTheorems, WellFoundedInduction, TLAPS

-----------------------------------------------------------------------------
(* Numbers.                                                                 *)

Before == {ss \in Nat \X Nat : ss[1] < ss[2]}

(* < is well-founded, so that a set of naturals has a least element.        *)
LEMMA LeastIs ==
  ASSUME NEW S \in SUBSET Nat, S # {}
  PROVE  \E x \in S : \A y \in S : x <= y
<1>1. IsWellFoundedOn(Before, Nat)
  BY NatLessThanWellFounded DEF OpToRel, Before
<1>2. PICK x \in S : \A y \in S : ~(<<y, x>> \in Before)
  BY <1>1, WFMin
<1>3. ASSUME NEW y \in S PROVE x <= y
  <2>1. x \in Nat /\ y \in Nat /\ ~(<<y, x>> \in Before)
    BY <1>2
  <2>2. ~(y < x)
    BY <2>1 DEF Before
  <2> QED BY <2>1, <2>2
<1> QED BY <1>2, <1>3

(* What Min and Max choose. *)
LEMMA MinIs ==
  ASSUME NEW S \in SUBSET Nat, S # {}
  PROVE  Min(S) \in S /\ \A y \in S : Min(S) <= y
BY LeastIs DEF Min

LEMMA MaxIs ==
  ASSUME NEW k \in Nat, NEW S, S \subseteq 0 .. k, S # {}
  PROVE  Max(S) \in S /\ \A y \in S : y <= Max(S)
<1> DEFINE Below == {j \in 0 .. k : k - j \in S}
<1>1. Below # {}
  <2>1. PICK x \in S : TRUE
    OBVIOUS
  <2>2. k - x \in 0 .. k /\ k - (k - x) = x
    BY <2>1
  <2> QED BY <2>1, <2>2
<1>2. PICK j \in Below : \A i \in Below : j <= i
  <2>1. Below \in SUBSET Nat
    OBVIOUS
  <2> QED BY <1>1, <2>1, LeastIs
<1>3. ASSUME NEW y \in S PROVE k - j >= y
  <2>1. k - y \in Below
    OBVIOUS
  <2> QED BY <1>2, <2>1
<1>4. \E x \in S : \A y \in S : x >= y
  BY <1>2, <1>3
<1>5. Max(S) \in S /\ \A y \in S : Max(S) >= y
  BY <1>4 DEF Max
<1> QED BY <1>5

LEMMA ModBelow ==
  ASSUME NEW a \in Nat \ {0}, NEW x \in 0 .. (a - 1)
  PROVE  x % a = x
OBVIOUS

LEMMA ModItself ==
  ASSUME NEW a \in Nat \ {0}
  PROVE  a % a = 0
OBVIOUS

(* Rounding up takes nothing away.                                          *)
LEMMA RoundUpIs ==
  ASSUME NEW n \in Nat, NEW a \in Nat \ {0}
  PROVE  RoundUp(n, a) \in Nat /\ RoundUp(n, a) >= n
<1>1. n + a - 1 \in Nat
  OBVIOUS
<1>2. \A x \in Nat : ((x \div a) + 1) * a > x
  OBVIOUS
<1> DEFINE q == (n + a - 1) \div a
<1>3. q \in Nat /\ (q + 1) * a > n + a - 1
  BY <1>1, <1>2
<1> HIDE DEF q
<1>4. (q + 1) * a = q * a + a
  BY <1>3
<1> QED BY <1>3, <1>4 DEF RoundUp, q

(* What a layer takes up, and what the check of the model counts for it.    *)
LEMMA WrittenIs ==
  ASSUME NEW c \in Nat
  PROVE  /\ Expected(c) \in Nat /\ Written(c) \in Nat
         /\ 0 < Written(c) /\ Written(c) <= Expected(c)
BY DEF Expected, Written, RoundUp, Line

-----------------------------------------------------------------------------
(* Recursive functions: a function that is built up step by step exists, so *)
(* that the ones of the model are what their equations say.                 *)

Follows(f, G, k) ==
  f \in [0 .. k -> Nat] /\ f[0] = 0 /\ \A i \in 1 .. k : f[i] = G[<<i, f[i - 1]>>]

LEMMA RecursionExists ==
  ASSUME NEW k \in Nat, NEW G \in [(1 .. k) \X Nat -> Nat]
  PROVE  \E f : Follows(f, G, k)
<1> DEFINE Bad == {j \in 0 .. k : ~ \E f : Follows(f, G, j)}
<1>1. SUFFICES ASSUME Bad # {} PROVE FALSE
  OBVIOUS
<1>2. PICK j \in Bad : \A y \in Bad : j <= y
  <2>1. Bad \in SUBSET Nat
    OBVIOUS
  <2> QED BY <1>1, <2>1, LeastIs
<1>3. j \in 0 .. k /\ ~ \E f : Follows(f, G, j)
  OBVIOUS
<1>4. CASE j = 0
  <2>1. Follows([i \in 0 .. 0 |-> 0], G, 0)
    BY DEF Follows
  <2> QED BY <1>3, <1>4, <2>1
<1>5. CASE j # 0
  <2>1. j - 1 \in 0 .. k /\ j \in 1 .. k /\ ~(j <= j - 1)
    BY <1>3, <1>5
  <2>2. PICK f : Follows(f, G, j - 1)
    BY <1>2, <2>1
  <2> DEFINE g == [i \in 0 .. j |-> IF i = j THEN G[<<j, f[j - 1]>>] ELSE f[i]]
  <2>3. f \in [0 .. (j - 1) -> Nat] /\ f[j - 1] \in Nat /\ G[<<j, f[j - 1]>>] \in Nat
    BY <2>1, <2>2 DEF Follows
  <2>4. g \in [0 .. j -> Nat] /\ g[0] = 0
    BY <2>1, <2>2, <2>3 DEF Follows
  <2>5. ASSUME NEW i \in 1 .. j PROVE g[i] = G[<<i, g[i - 1]>>]
    <3>1. i - 1 \in 0 .. (j - 1) /\ i - 1 # j /\ g[i - 1] = f[i - 1]
      BY <2>1
    <3>2. CASE i = j
      <4>1. g[j] = G[<<j, f[j - 1]>>]
        BY <2>1
      <4> QED BY <3>1, <3>2, <4>1
    <3>3. CASE i # j
      <4>1. i \in 1 .. (j - 1) /\ g[i] = f[i]
        BY <2>1, <3>3
      <4> QED BY <2>2, <3>1, <4>1 DEF Follows
    <3> QED BY <3>2, <3>3
  <2> HIDE DEF g
  <2>6. Follows(g, G, j)
    BY <2>4, <2>5 DEF Follows
  <2> QED BY <1>3, <2>6
<1> QED BY <1>4, <1>5

(* The sums of a function.                                                  *)
LEMMA SumsIs ==
  ASSUME NEW d \in Nat, NEW f \in [0 .. d -> Nat], NEW k \in 0 .. (d + 1)
  PROVE  /\ Sums(f, k) \in [0 .. k -> Nat] /\ Sums(f, k)[0] = 0
         /\ \A i \in 1 .. k : Sums(f, k)[i] = Sums(f, k)[i - 1] + f[i - 1]
<1> DEFINE G == [x \in (1 .. k) \X Nat |-> x[2] + f[x[1] - 1]]
           Is(s) == s = [i \in 0 .. k |-> IF i = 0 THEN 0 ELSE s[i - 1] + f[i - 1]]
<1>1. G \in [(1 .. k) \X Nat -> Nat]
  <2>1. ASSUME NEW x \in (1 .. k) \X Nat PROVE x[2] + f[x[1] - 1] \in Nat
    <3>1. x[1] - 1 \in 0 .. d /\ x[2] \in Nat
      OBVIOUS
    <3> QED BY <3>1
  <2> QED BY <2>1
<1>2. PICK s : Follows(s, G, k)
  <2>1. k \in Nat
    OBVIOUS
  <2> QED BY <1>1, <2>1, RecursionExists
<1>3. ASSUME NEW i \in 1 .. k PROVE s[i] = s[i - 1] + f[i - 1]
  <2>1. s[i - 1] \in Nat /\ <<i, s[i - 1]>> \in (1 .. k) \X Nat
    BY <1>2 DEF Follows
  <2> QED BY <1>2, <2>1 DEF Follows
<1>4. Is(s)
  <2>1. s = [i \in 0 .. k |-> s[i]]
    BY <1>2 DEF Follows
  <2>2. \A i \in 0 .. k : s[i] = IF i = 0 THEN 0 ELSE s[i - 1] + f[i - 1]
    BY <1>2, <1>3 DEF Follows
  <2> QED BY <2>1, <2>2
<1>5. Sums(f, k) = CHOOSE t : Is(t)
  BY DEF Sums
<1>6. Is(Sums(f, k))
  BY <1>4, <1>5
<1> DEFINE sum == Sums(f, k)
           Bad == {i \in 0 .. k : sum[i] \notin Nat}
<1>7. sum = [i \in 0 .. k |-> IF i = 0 THEN 0 ELSE sum[i - 1] + f[i - 1]]
  BY <1>6
<1> HIDE DEF sum
<1>8. sum[0] = 0 /\ \A i \in 1 .. k : sum[i] = sum[i - 1] + f[i - 1]
  BY <1>7
<1>9. Bad = {}
  <2>1. SUFFICES ASSUME Bad # {} PROVE FALSE
    OBVIOUS
  <2>2. PICK j \in Bad : \A y \in Bad : j <= y
    <3>1. Bad \in SUBSET Nat
      OBVIOUS
    <3> QED BY <2>1, <3>1, LeastIs
  <2>3. j \in 1 .. k
    BY <1>8
  <2>4. j - 1 \in 0 .. k /\ ~(j <= j - 1) /\ j - 1 \in 0 .. d
    BY <2>3
  <2>5. sum[j - 1] \in Nat /\ f[j - 1] \in Nat
    BY <2>2, <2>4
  <2> QED BY <1>8, <2>3, <2>5
<1>10. sum \in [0 .. k -> Nat]
  BY <1>7, <1>9
<1> QED BY <1>8, <1>10 DEF sum

(* Sums grow, ... *)
LEMMA SumsGrow ==
  ASSUME NEW k \in Nat, NEW s \in [0 .. k -> Nat], \A i \in 1 .. k : s[i - 1] <= s[i],
         NEW i \in 0 .. k, NEW j \in i .. k
  PROVE  s[i] <= s[j]
<1> DEFINE Bad == {x \in i .. k : ~(s[i] <= s[x])}
<1>1. SUFFICES ASSUME Bad # {} PROVE FALSE
  OBVIOUS
<1>2. PICK x \in Bad : \A y \in Bad : x <= y
  <2>1. Bad \in SUBSET Nat
    OBVIOUS
  <2> QED BY <1>1, <2>1, LeastIs
<1>3. x # i /\ x \in 1 .. k /\ x - 1 \in i .. k /\ x - 1 \in 0 .. k
  OBVIOUS
<1>4. s[i] <= s[x - 1] /\ s[x - 1] <= s[x]
  BY <1>2, <1>3
<1> QED BY <1>3, <1>4

(* ... stay where they are as long as nothing is added, ... *)
LEMMA SumsRest ==
  ASSUME NEW k \in Nat, NEW s \in [0 .. k -> Nat],
         NEW i \in 0 .. k, NEW j \in i .. k, \A x \in (i + 1) .. j : s[x] = s[x - 1]
  PROVE  s[j] = s[i]
<1> DEFINE Bad == {x \in i .. j : s[x] # s[i]}
<1>1. SUFFICES ASSUME Bad # {} PROVE FALSE
  OBVIOUS
<1>2. PICK x \in Bad : \A y \in Bad : x <= y
  <2>1. Bad \in SUBSET Nat
    OBVIOUS
  <2> QED BY <1>1, <2>1, LeastIs
<1>3. x # i /\ x \in (i + 1) .. j /\ x - 1 \in i .. j
  OBVIOUS
<1> QED BY <1>2, <1>3

(* ... and are the larger for larger summands.                              *)
LEMMA SumsCompare ==
  ASSUME NEW k \in Nat, NEW s \in [0 .. k -> Nat], NEW t \in [0 .. k -> Nat],
         s[0] = 0, t[0] = 0,
         \A i \in 1 .. k : s[i] - s[i - 1] <= t[i] - t[i - 1],
         NEW j \in 0 .. k
  PROVE  s[j] <= t[j]
<1> DEFINE Bad == {x \in 0 .. k : ~(s[x] <= t[x])}
<1>1. SUFFICES ASSUME Bad # {} PROVE FALSE
  OBVIOUS
<1>2. PICK x \in Bad : \A y \in Bad : x <= y
  <2>1. Bad \in SUBSET Nat
    OBVIOUS
  <2> QED BY <1>1, <2>1, LeastIs
<1>3. x # 0 /\ x \in 1 .. k /\ x - 1 \in 0 .. k
  OBVIOUS
<1>4. s[x - 1] <= t[x - 1]
  BY <1>2, <1>3
<1>5. s[x] - s[x - 1] <= t[x] - t[x - 1]
  BY <1>3
<1>6. s[x] \in Nat /\ s[x - 1] \in Nat /\ t[x] \in Nat /\ t[x - 1] \in Nat
  BY <1>3
<1> QED BY <1>2, <1>4, <1>5, <1>6

-----------------------------------------------------------------------------
(* The layout of a model's queue.                                           *)

(* The layers of a model are numbered from 0; those of the device are among *)
(* them, between the first and the last.                                    *)
LEMMA ModelIs ==
  ASSUME NEW m \in Models
  PROVE  \E d \in Nat :
           /\ m.cfg \in [0 .. d -> Nat] /\ DOMAIN m.cfg = 0 .. d
           /\ HwLayers(m) = {i \in 0 .. d : m.cfg[i] > 0}
           /\ HwFirst(m) \in HwLayers(m) /\ HwLast(m) \in HwLayers(m)
           /\ \A i \in HwLayers(m) : HwFirst(m) <= i /\ i <= HwLast(m)
<1> DEFINE d == Cardinality(DOMAIN m.cfg) - 1
<1>1. m.cfg \in [0 .. d -> Nat] /\ IsFiniteSet(DOMAIN m.cfg) /\ HwLayers(m) # {}
  BY ModelsAssumption DEF ModelsAssumption
<1>2. Cardinality(DOMAIN m.cfg) \in Nat /\ d \in Int
  BY <1>1, FS_CardinalityType
<1> HIDE DEF d
<1>3. DOMAIN m.cfg = 0 .. d
  BY <1>1
<1>4. HwLayers(m) = {i \in 0 .. d : m.cfg[i] > 0}
  BY <1>3 DEF HwLayers
<1>5. d \in Nat
  BY <1>1, <1>2, <1>4
<1>6. HwLayers(m) \in SUBSET Nat /\ HwLayers(m) \subseteq 0 .. d
  BY <1>4, <1>5
<1>7. HwFirst(m) \in HwLayers(m) /\ \A i \in HwLayers(m) : HwFirst(m) <= i
  BY <1>1, <1>6, MinIs DEF HwFirst
<1>8. HwLast(m) \in HwLayers(m) /\ \A i \in HwLayers(m) : i <= HwLast(m)
  BY <1>1, <1>5, <1>6, MaxIs DEF HwLast
<1> QED BY <1>1, <1>3, <1>4, <1>5, <1>7, <1>8

(* Where the layers end if nothing wraps.                                   *)
Needs(m) == [i \in DOMAIN m.cfg |-> Layer(m.cfg[i])]
Ends(m) == Sums(Needs(m), HwLast(m) + 1)

LEMMA LayerIs ==
  ASSUME NEW c \in Nat
  PROVE  /\ Layer(c) \in Nat
         /\ c = 0 => Layer(c) = 0
         /\ c > 0 => Layer(c) = Written(c) /\ Layer(c) > 0 /\ Layer(c) <= Expected(c)
BY WrittenIs DEF Layer

(* Each layer begins where the one before it ends, ... *)
LEMMA EndsAre ==
  ASSUME NEW m \in Models
  PROVE  /\ Ends(m) \in [0 .. (HwLast(m) + 1) -> Nat] /\ Ends(m)[0] = 0
         /\ \A i \in 0 .. HwLast(m) : Ends(m)[i + 1] = Ends(m)[i] + Layer(m.cfg[i])
         /\ \A i \in 0 .. (HwLast(m) + 1) : \A j \in i .. (HwLast(m) + 1) :
              Ends(m)[i] <= Ends(m)[j]
         /\ \A i \in HwLayers(m) : Ends(m)[i] < Ends(m)[i + 1]
<1>1. PICK d \in Nat :
        /\ m.cfg \in [0 .. d -> Nat] /\ DOMAIN m.cfg = 0 .. d
        /\ HwLayers(m) = {i \in 0 .. d : m.cfg[i] > 0}
        /\ HwFirst(m) \in HwLayers(m) /\ HwLast(m) \in HwLayers(m)
        /\ \A i \in HwLayers(m) : HwFirst(m) <= i /\ i <= HwLast(m)
  BY ModelIs
<1>2. HwLast(m) \in 0 .. d /\ HwLast(m) + 1 \in 0 .. (d + 1) /\ HwLast(m) + 1 \in Nat
  BY <1>1
<1>3. Needs(m) \in [0 .. d -> Nat]
  <2>1. \A i \in 0 .. d : Layer(m.cfg[i]) \in Nat
    BY <1>1, LayerIs
  <2> QED BY <1>1, <2>1 DEF Needs
<1>4. /\ Ends(m) \in [0 .. (HwLast(m) + 1) -> Nat] /\ Ends(m)[0] = 0
      /\ \A i \in 1 .. (HwLast(m) + 1) : Ends(m)[i] = Ends(m)[i - 1] + Needs(m)[i - 1]
  BY <1>2, <1>3, SumsIs DEF Ends
<1>5. ASSUME NEW i \in 0 .. HwLast(m)
      PROVE  Ends(m)[i + 1] = Ends(m)[i] + Layer(m.cfg[i]) /\ Layer(m.cfg[i]) \in Nat
  <2>1. i + 1 \in 1 .. (HwLast(m) + 1) /\ (i + 1) - 1 = i /\ i \in 0 .. d
    BY <1>2
  <2>2. Ends(m)[i + 1] = Ends(m)[(i + 1) - 1] + Needs(m)[(i + 1) - 1]
    BY <1>4, <2>1
  <2>3. Needs(m)[i] = Layer(m.cfg[i]) /\ m.cfg[i] \in Nat
    BY <1>1, <2>1 DEF Needs
  <2> QED BY <2>1, <2>2, <2>3, LayerIs
<1>6. ASSUME NEW i \in 1 .. (HwLast(m) + 1) PROVE Ends(m)[i - 1] <= Ends(m)[i]
  <2>1. i - 1 \in 0 .. HwLast(m) /\ (i - 1) + 1 = i /\ i - 1 \in 0 .. (HwLast(m) + 1)
    BY <1>2
  <2>2. Ends(m)[i - 1] \in Nat /\ Ends(m)[i] \in Nat
    BY <1>4, <2>1
  <2>3. Ends(m)[(i - 1) + 1] = Ends(m)[i - 1] + Layer(m.cfg[i - 1]) /\ Layer(m.cfg[i - 1]) \in Nat
    BY <1>5, <2>1
  <2> QED BY <2>1, <2>2, <2>3
<1>7. ASSUME NEW i \in 0 .. (HwLast(m) + 1), NEW j \in i .. (HwLast(m) + 1)
      PROVE  Ends(m)[i] <= Ends(m)[j]
  <2> DEFINE k == HwLast(m) + 1
  <2>1. k \in Nat /\ Ends(m) \in [0 .. k -> Nat] /\ i \in 0 .. k /\ j \in i .. k
    BY <1>2, <1>4
  <2>2. \A x \in 1 .. k : Ends(m)[x - 1] <= Ends(m)[x]
    BY <1>6
  <2> HIDE DEF k
  <2> QED BY <2>1, <2>2, SumsGrow
<1>8. ASSUME NEW i \in HwLayers(m) PROVE Ends(m)[i] < Ends(m)[i + 1]
  <2>1. i \in 0 .. HwLast(m) /\ i \in 0 .. (HwLast(m) + 1) /\ m.cfg[i] \in Nat /\ m.cfg[i] > 0
    BY <1>1, <1>2
  <2>2. Ends(m)[i] \in Nat
    BY <1>4, <2>1
  <2>3. Layer(m.cfg[i]) \in Nat /\ Layer(m.cfg[i]) > 0
    BY <2>1, LayerIs
  <2>4. Ends(m)[i + 1] = Ends(m)[i] + Layer(m.cfg[i])
    BY <1>5, <2>1
  <2> QED BY <2>2, <2>3, <2>4
<1> QED BY <1>4, <1>5, <1>7, <1>8

(* ... and the last of them in front of the end of the buffer or at it:     *)
(* adlak_invoke_pre_check counts enough.                                    *)
LEMMA AllFits ==
  ASSUME NEW m \in Models
  PROVE  /\ Alloc(m) \in Nat \ {0}
         /\ Ends(m)[HwLast(m) + 1] <= Alloc(m)
         /\ \A i \in 0 .. HwLast(m) : Ends(m)[i] < Alloc(m)
<1>1. PICK d \in Nat :
        /\ m.cfg \in [0 .. d -> Nat] /\ DOMAIN m.cfg = 0 .. d
        /\ HwLayers(m) = {i \in 0 .. d : m.cfg[i] > 0}
        /\ HwFirst(m) \in HwLayers(m) /\ HwLast(m) \in HwLayers(m)
        /\ \A i \in HwLayers(m) : HwFirst(m) <= i /\ i <= HwLast(m)
  BY ModelIs
<1> DEFINE need == [i \in DOMAIN m.cfg |-> IF m.cfg[i] = 0 THEN 0 ELSE Expected(m.cfg[i])]
           k == HwLast(m) + 1
           t == Sums(need, k)
           s == Ends(m)
<1>2. k \in Nat /\ k \in 0 .. (d + 1) /\ k - 1 = HwLast(m) /\ HwLast(m) \in Nat
  BY <1>1
<1>3. \A i \in 0 .. d : need[i] \in Nat /\ Layer(m.cfg[i]) <= need[i] /\ Layer(m.cfg[i]) \in Nat
  <2>1. ASSUME NEW i \in 0 .. d
        PROVE  need[i] \in Nat /\ Layer(m.cfg[i]) <= need[i] /\ Layer(m.cfg[i]) \in Nat
    <3>1. m.cfg[i] \in Nat /\ need[i] = IF m.cfg[i] = 0 THEN 0 ELSE Expected(m.cfg[i])
      BY <1>1
    <3> QED BY <3>1, LayerIs, WrittenIs
  <2> QED BY <2>1
<1>4. need \in [0 .. d -> Nat]
  BY <1>1, <1>3
<1>5. ExpectedTotal(m) = t[k]
  BY DEF ExpectedTotal
<1> HIDE DEF need
<1>6. t \in [0 .. k -> Nat] /\ t[0] = 0 /\ \A i \in 1 .. k : t[i] = t[i - 1] + need[i - 1]
  BY <1>2, <1>4, SumsIs
<1>7. /\ s \in [0 .. k -> Nat] /\ s[0] = 0
      /\ \A i \in 0 .. HwLast(m) : s[i + 1] = s[i] + Layer(m.cfg[i])
      /\ \A i \in 0 .. k : \A j \in i .. k : s[i] <= s[j]
      /\ \A i \in HwLayers(m) : s[i] < s[i + 1]
  BY EndsAre
<1> HIDE DEF s, t, k
<1>8. ASSUME NEW i \in 1 .. k PROVE s[i] - s[i - 1] <= t[i] - t[i - 1]
  <2>1. i - 1 \in 0 .. HwLast(m) /\ (i - 1) + 1 = i /\ i - 1 \in 0 .. k /\ i \in 0 .. k
          /\ i - 1 \in 0 .. d
    BY <1>2
  <2>2. s[(i - 1) + 1] = s[i - 1] + Layer(m.cfg[i - 1])
    BY <1>7, <2>1
  <2>3. t[i] = t[i - 1] + need[i - 1]
    BY <1>6
  <2>4. s[i - 1] \in Nat /\ t[i - 1] \in Nat /\ need[i - 1] \in Nat
          /\ Layer(m.cfg[i - 1]) \in Nat /\ Layer(m.cfg[i - 1]) <= need[i - 1]
    BY <1>3, <1>6, <1>7, <2>1
  <2> QED BY <2>1, <2>2, <2>3, <2>4
<1>9. k \in 0 .. k /\ s[k] <= t[k]
  <2>1. k \in 0 .. k
    BY <1>2
  <2> QED BY <1>2, <1>6, <1>7, <1>8, <2>1, SumsCompare
<1>10. s[HwLast(m)] < s[k] /\ s[k] \in Nat /\ t[k] \in Nat
  BY <1>1, <1>2, <1>6, <1>7, <1>9 DEF k
<1>11. Alloc(m) \in Nat /\ Alloc(m) >= t[k]
  <2>1. Page \in Nat \ {0}
    BY PrivateAssumption DEF PrivateAssumption
  <2> QED BY <1>5, <1>10, <2>1, RoundUpIs DEF Alloc
<1>12. ASSUME NEW i \in 0 .. HwLast(m) PROVE s[i] < Alloc(m)
  <2>1. i \in 0 .. k /\ HwLast(m) \in i .. k /\ HwLast(m) \in 0 .. k
    BY <1>2
  <2>2. s[i] <= s[HwLast(m)] /\ s[i] \in Nat /\ s[HwLast(m)] \in Nat
    BY <1>7, <2>1
  <2> QED BY <1>9, <1>10, <1>11, <2>2
<1>13. s[HwLast(m)] \in Nat
  BY <1>2, <1>7
<1> QED BY <1>9, <1>10, <1>11, <1>12, <1>13 DEF s, k

(* Taken modulo the size of the buffer, only the last layer's end can come  *)
(* to be 0.                                                                 *)
LEMMA OffsetsAre ==
  ASSUME NEW m \in Models
  PROVE  /\ \A i \in 0 .. HwLast(m) : Offsets(m)[i].read = Ends(m)[i]
         /\ \A i \in HwLayers(m) :
              /\ Ends(m)[i + 1] <= Alloc(m)
              /\ Ends(m)[i + 1] = Alloc(m) => i = HwLast(m)
              /\ Offsets(m)[i].write =
                   IF Ends(m)[i + 1] = Alloc(m) THEN 0 ELSE Ends(m)[i + 1]
<1>1. PICK d \in Nat :
        /\ m.cfg \in [0 .. d -> Nat] /\ DOMAIN m.cfg = 0 .. d
        /\ HwLayers(m) = {i \in 0 .. d : m.cfg[i] > 0}
        /\ HwFirst(m) \in HwLayers(m) /\ HwLast(m) \in HwLayers(m)
        /\ \A i \in HwLayers(m) : HwFirst(m) <= i /\ i <= HwLast(m)
  BY ModelIs
<1> DEFINE k == HwLast(m) + 1
           A == Alloc(m)
           s == Ends(m)
           G == [x \in (1 .. k) \X Nat |-> (x[2] + Layer(m.cfg[x[1] - 1])) % A]
           Is(t) == t = [i \in 0 .. (HwLast(m) + 1) |->
                           IF i = 0 THEN 0
                           ELSE (t[i - 1] + Layer(m.cfg[i - 1])) % Alloc(m)]
           tail == CHOOSE t : Is(t)
<1>2. HwLast(m) \in Nat /\ k \in Nat /\ k - 1 = HwLast(m) /\ k \in 0 .. (d + 1)
  BY <1>1
<1>3. A \in Nat \ {0} /\ s[k] <= A /\ \A i \in 0 .. HwLast(m) : s[i] < A
  BY AllFits
<1>4. /\ s \in [0 .. k -> Nat] /\ s[0] = 0
      /\ \A i \in 0 .. HwLast(m) : s[i + 1] = s[i] + Layer(m.cfg[i])
      /\ \A i \in 0 .. k : \A j \in i .. k : s[i] <= s[j]
      /\ \A i \in HwLayers(m) : s[i] < s[i + 1]
  BY EndsAre
<1>5. \A i \in 1 .. k : Layer(m.cfg[i - 1]) \in Nat
  <2>1. ASSUME NEW i \in 1 .. k PROVE Layer(m.cfg[i - 1]) \in Nat
    <3>1. i - 1 \in 0 .. d
      BY <1>2
    <3> QED BY <1>1, <3>1, LayerIs
  <2> QED BY <2>1
<1>6. G \in [(1 .. k) \X Nat -> Nat]
  <2>1. ASSUME NEW x \in (1 .. k) \X Nat PROVE (x[2] + Layer(m.cfg[x[1] - 1])) % A \in Nat
    <3>1. x[1] \in 1 .. k /\ x[2] \in Nat
      OBVIOUS
    <3>2. x[2] + Layer(m.cfg[x[1] - 1]) \in Nat
      BY <1>5, <3>1
    <3> HIDE DEF A, k
    <3> QED BY <1>3, <3>2
  <2> QED BY <2>1
<1>7. PICK t : Follows(t, G, k)
  BY <1>2, <1>6, RecursionExists
<1>8. Is(t)
  <2>1. t \in [0 .. k -> Nat] /\ t[0] = 0
    BY <1>7 DEF Follows
  <2>2. ASSUME NEW i \in 1 .. k PROVE t[i] = (t[i - 1] + Layer(m.cfg[i - 1])) % A
    <3>1. i - 1 \in 0 .. k
      BY <1>2
    <3>2. <<i, t[i - 1]>> \in (1 .. k) \X Nat
      BY <2>1, <3>1
    <3>3. t[i] = G[<<i, t[i - 1]>>]
      BY <1>7 DEF Follows
    <3> HIDE DEF A, k
    <3> QED BY <3>2, <3>3
  <2>3. t = [i \in 0 .. k |-> t[i]]
    BY <2>1
  <2>4. \A i \in 0 .. k : t[i] = IF i = 0 THEN 0 ELSE (t[i - 1] + Layer(m.cfg[i - 1])) % A
    <3>1. \A i \in 0 .. k : i = 0 \/ i \in 1 .. k
      BY <1>2
    <3> HIDE DEF A, k
    <3> QED BY <2>1, <2>2, <3>1
  <2> QED BY <2>3, <2>4
<1>9. Is(tail)
  BY <1>8
<1>10. Offsets(m) = [i \in DOMAIN m.cfg |->
                       [read |-> IF i <= HwLast(m) THEN tail[i] ELSE 0,
                        write |-> IF i \in HwLayers(m) THEN tail[i + 1] ELSE 0]]
  BY DEF Offsets
<1> HIDE DEF tail
<1>11. tail[0] = 0 /\ \A i \in 1 .. k : tail[i] = (tail[i - 1] + Layer(m.cfg[i - 1])) % A
  BY <1>2, <1>9
<1> HIDE DEF G, Is, A, s
<1> DEFINE Bad == {i \in 0 .. HwLast(m) : tail[i] # s[i]}
<1>12. Bad = {}
  <2>1. SUFFICES ASSUME Bad # {} PROVE FALSE
    OBVIOUS
  <2>2. PICK j \in Bad : \A y \in Bad : j <= y
    <3>1. Bad \in SUBSET Nat
      OBVIOUS
    <3> QED BY <2>1, <3>1, LeastIs
  <2>3. j # 0 /\ j \in 0 .. HwLast(m)
    BY <1>4, <1>11
  <2>4. j \in 1 .. k /\ j - 1 \in 0 .. HwLast(m) /\ ~(j <= j - 1) /\ (j - 1) + 1 = j
    BY <1>2, <2>3
  <2>5. tail[j - 1] = s[j - 1]
    BY <2>2, <2>4
  <2>6. s[(j - 1) + 1] = s[j - 1] + Layer(m.cfg[j - 1])
    BY <1>4, <2>4
  <2>7. tail[j] = s[j] % A
    BY <1>11, <2>4, <2>5, <2>6
  <2>8. s[j] \in 0 .. (A - 1)
    <3>1. j \in 0 .. k
      BY <2>4
    <3>2. s[j] \in Nat
      BY <1>4, <3>1
    <3> QED BY <1>3, <2>3, <3>2
  <2> QED BY <1>3, <2>2, <2>7, <2>8, ModBelow
<1>13. \A i \in 0 .. HwLast(m) : tail[i] = s[i]
  BY <1>12
<1>14. ASSUME NEW i \in 0 .. HwLast(m) PROVE Offsets(m)[i].read = s[i]
  <2>1. i \in 0 .. d /\ i <= HwLast(m)
    BY <1>2
  <2> QED BY <1>1, <1>10, <1>13, <2>1
<1>15. ASSUME NEW i \in HwLayers(m)
       PROVE  /\ s[i + 1] <= A
              /\ s[i + 1] = A => i = HwLast(m)
              /\ Offsets(m)[i].write = IF s[i + 1] = A THEN 0 ELSE s[i + 1]
  <2>1. i \in 0 .. d /\ i <= HwLast(m) /\ i \in 0 .. HwLast(m)
    BY <1>1, <1>2
  <2>2. Offsets(m)[i].write = tail[i + 1]
    BY <1>1, <1>10, <2>1
  <2>3. CASE i = HwLast(m)
    <3>1. k \in 1 .. k /\ k \in 0 .. k /\ k - 1 = i /\ k = i + 1
      BY <1>2, <2>3
    <3>2. tail[k] = (tail[k - 1] + Layer(m.cfg[k - 1])) % A
      BY <1>11, <3>1
    <3>3. s[i + 1] = s[i] + Layer(m.cfg[i]) /\ tail[i] = s[i]
      BY <1>4, <1>13, <2>1
    <3>4. tail[i + 1] = s[i + 1] % A
      BY <3>1, <3>2, <3>3
    <3>5. s[i + 1] \in Nat /\ s[i + 1] <= A
      BY <1>3, <1>4, <3>1
    <3>6. CASE s[i + 1] = A
      BY <1>3, <2>2, <2>3, <3>4, <3>5, <3>6, ModItself
    <3>7. CASE s[i + 1] # A
      <4>1. s[i + 1] \in 0 .. (A - 1)
        BY <1>3, <3>5, <3>7
      <4> QED BY <1>3, <2>2, <2>3, <3>4, <3>5, <3>7, <4>1, ModBelow
    <3> QED BY <3>6, <3>7
  <2>4. CASE i # HwLast(m)
    <3>1. i + 1 \in 0 .. HwLast(m) /\ i + 1 \in 0 .. k
      BY <1>2, <2>1, <2>4
    <3>2. tail[i + 1] = s[i + 1] /\ s[i + 1] < A /\ s[i + 1] \in Nat
      BY <1>3, <1>4, <1>13, <3>1
    <3> QED BY <1>3, <2>2, <2>4, <3>2
  <2> QED BY <2>3, <2>4
<1> QED BY <1>14, <1>15 DEF s, A

(* What of this the protocol needs: offsets are numbers, ... *)
LEMMA OffsetsType ==
  ASSUME NEW m \in Models, NEW i \in HwLayers(m)
  PROVE  /\ i \in Nat /\ i \in DOMAIN m.cfg /\ HwFirst(m) <= i /\ i <= HwLast(m)
         /\ HwFirst(m) \in HwLayers(m) /\ HwLast(m) \in HwLayers(m)
         /\ HwFirst(m) \in Nat /\ HwLast(m) \in Nat
         /\ Offsets(m)[i].read \in Nat /\ Offsets(m)[i].write \in Nat
         /\ Offsets(m)[i].read = Ends(m)[i]
         /\ Offsets(m)[i].read \in 0 .. (Alloc(m) - 1)
         /\ Offsets(m)[i].write \in 0 .. (Alloc(m) - 1)
<1>1. PICK d \in Nat :
        /\ m.cfg \in [0 .. d -> Nat] /\ DOMAIN m.cfg = 0 .. d
        /\ HwLayers(m) = {x \in 0 .. d : m.cfg[x] > 0}
        /\ HwFirst(m) \in HwLayers(m) /\ HwLast(m) \in HwLayers(m)
        /\ \A x \in HwLayers(m) : HwFirst(m) <= x /\ x <= HwLast(m)
  BY ModelIs
<1>2. /\ i \in 0 .. HwLast(m) /\ i + 1 \in 0 .. (HwLast(m) + 1)
      /\ i \in 0 .. (HwLast(m) + 1)
  BY <1>1
<1>3. Ends(m)[i] \in Nat /\ Ends(m)[i + 1] \in Nat
  BY <1>2, EndsAre
<1>4. Offsets(m)[i].read = Ends(m)[i]
  BY <1>2, OffsetsAre
<1>5. Offsets(m)[i].write \in Nat
  BY <1>3, OffsetsAre
<1>6. Alloc(m) \in Nat \ {0} /\ Ends(m)[i] < Alloc(m)
  BY <1>2, AllFits
<1>7. Offsets(m)[i].write < Alloc(m)
  BY <1>3, <1>6, OffsetsAre
<1>8. /\ Offsets(m)[i].read \in 0 .. (Alloc(m) - 1)
      /\ Offsets(m)[i].write \in 0 .. (Alloc(m) - 1)
  BY <1>3, <1>4, <1>5, <1>6, <1>7
<1> QED BY <1>1, <1>3, <1>4, <1>5, <1>8

(* ... the queue begins with the first layer, ... *)
LEMMA FirstAtStart ==
  ASSUME NEW m \in Models
  PROVE  Offsets(m)[HwFirst(m)].read = 0
<1>1. PICK d \in Nat :
        /\ m.cfg \in [0 .. d -> Nat] /\ DOMAIN m.cfg = 0 .. d
        /\ HwLayers(m) = {x \in 0 .. d : m.cfg[x] > 0}
        /\ HwFirst(m) \in HwLayers(m) /\ HwLast(m) \in HwLayers(m)
        /\ \A x \in HwLayers(m) : HwFirst(m) <= x /\ x <= HwLast(m)
  BY ModelIs
<1> DEFINE k == HwLast(m) + 1
           s == Ends(m)
<1>2. k \in Nat /\ 0 \in 0 .. k /\ HwFirst(m) \in 0 .. k /\ HwFirst(m) \in 0 .. HwLast(m)
  BY <1>1
<1>3. /\ s \in [0 .. k -> Nat] /\ s[0] = 0
      /\ \A i \in 0 .. HwLast(m) : s[i + 1] = s[i] + Layer(m.cfg[i])
  BY EndsAre
<1>4. ASSUME NEW x \in (0 + 1) .. HwFirst(m) PROVE s[x] = s[x - 1]
  <2>1. x - 1 \in 0 .. HwLast(m) /\ (x - 1) + 1 = x /\ x - 1 \in 0 .. d /\ x - 1 \in 0 .. k
    BY <1>1
  <2>2. x - 1 \notin HwLayers(m)
    BY <1>1
  <2>3. m.cfg[x - 1] = 0 /\ s[x - 1] \in Nat
    <3>1. m.cfg[x - 1] \in Nat /\ ~(m.cfg[x - 1] > 0)
      BY <1>1, <2>1, <2>2
    <3>2. s[x - 1] \in Nat
      BY <1>3, <2>1
    <3> QED BY <3>1, <3>2
  <2>4. Layer(m.cfg[x - 1]) = 0
    BY <2>3, LayerIs
  <2>5. s[(x - 1) + 1] = s[x - 1] + Layer(m.cfg[x - 1])
    BY <1>3, <2>1
  <2> QED BY <2>1, <2>3, <2>4, <2>5
<1>5. s[HwFirst(m)] = s[0]
  <2>1. HwFirst(m) \in 0 .. k
    BY <1>2
  <2> HIDE DEF s, k
  <2> QED BY <1>2, <1>3, <1>4, <2>1, SumsRest
<1> QED BY <1>2, <1>3, <1>5, OffsetsAre

(* ... neighbours touch, ... *)
LEMMA NeighboursTouch ==
  ASSUME NEW m \in Models, NEW i \in HwLayers(m), i + 1 \in HwLayers(m)
  PROVE  Offsets(m)[i + 1].read = Offsets(m)[i].write
<1>1. i \in Nat /\ HwLast(m) \in Nat /\ i + 1 <= HwLast(m)
  BY OffsetsType
<1>2. Offsets(m)[i + 1].read = Ends(m)[i + 1]
  BY OffsetsType
<1>3. Ends(m)[i + 1] # Alloc(m)
  BY <1>1, OffsetsAre
<1> QED BY <1>2, <1>3, OffsetsAre

(* ... and software layers between them take up nothing; ... *)
LEMMA GapsClose ==
  ASSUME NEW m \in Models, NEW e \in HwLayers(m), e # HwLast(m)
  PROVE  /\ NextStart(m, e) \in HwLayers(m)
         /\ Offsets(m)[NextStart(m, e)].read = Offsets(m)[e].write
<1>1. PICK d \in Nat :
        /\ m.cfg \in [0 .. d -> Nat] /\ DOMAIN m.cfg = 0 .. d
        /\ HwLayers(m) = {x \in 0 .. d : m.cfg[x] > 0}
        /\ HwFirst(m) \in HwLayers(m) /\ HwLast(m) \in HwLayers(m)
        /\ \A x \in HwLayers(m) : HwFirst(m) <= x /\ x <= HwLast(m)
  BY ModelIs
<1> DEFINE k == HwLast(m) + 1
           s == Ends(m)
           Later == {i \in HwLayers(m) : i > e}
           j == NextStart(m, e)
<1>2. e \in Nat /\ e < HwLast(m) /\ HwLast(m) \in Nat
  BY <1>1
<1>3. Later \in SUBSET Nat /\ HwLast(m) \in Later
  BY <1>1, <1>2
<1>4. j = Min(Later)
  BY DEF NextStart
<1>5. j \in Later /\ \A y \in Later : j <= y
  <2>1. Later # {}
    BY <1>3
  <2> HIDE DEF Later, j
  <2> QED BY <1>3, <1>4, <2>1, MinIs
<1> HIDE DEF j
<1>6. j \in HwLayers(m) /\ j \in Nat /\ e < j /\ j <= HwLast(m)
  BY <1>1, <1>5
<1>7. /\ s \in [0 .. k -> Nat]
      /\ \A i \in 0 .. HwLast(m) : s[i + 1] = s[i] + Layer(m.cfg[i])
  BY EndsAre
<1>8. ASSUME NEW x \in ((e + 1) + 1) .. j PROVE s[x] = s[x - 1]
  <2>1. x - 1 \in 0 .. HwLast(m) /\ (x - 1) + 1 = x /\ x - 1 \in 0 .. d /\ x - 1 \in 0 .. k
    BY <1>1, <1>2, <1>6
  <2>2. x - 1 \notin HwLayers(m)
    <3>1. x - 1 > e /\ ~(j <= x - 1)
      BY <1>2, <1>6
    <3> QED BY <1>5, <3>1
  <2>3. m.cfg[x - 1] = 0 /\ s[x - 1] \in Nat
    <3>1. m.cfg[x - 1] \in Nat /\ ~(m.cfg[x - 1] > 0)
      BY <1>1, <2>1, <2>2
    <3>2. s[x - 1] \in Nat
      BY <1>7, <2>1
    <3> QED BY <3>1, <3>2
  <2>4. Layer(m.cfg[x - 1]) = 0
    BY <2>3, LayerIs
  <2>5. s[(x - 1) + 1] = s[x - 1] + Layer(m.cfg[x - 1])
    BY <1>7, <2>1
  <2> QED BY <2>1, <2>3, <2>4, <2>5
<1>9. s[j] = s[e + 1]
  <2>1. k \in Nat /\ e + 1 \in 0 .. k /\ j \in (e + 1) .. k
    BY <1>2, <1>6
  <2> HIDE DEF s, k
  <2> QED BY <1>7, <1>8, <2>1, SumsRest
<1>10. Offsets(m)[j].read = s[j]
  BY <1>6, OffsetsType
<1>11. Offsets(m)[e].write = s[e + 1]
  <2>1. Ends(m)[e + 1] # Alloc(m)
    BY OffsetsAre
  <2> QED BY <2>1, OffsetsAre
<1> QED BY <1>6, <1>9, <1>10, <1>11 DEF j

(* ... no two layers begin at the same place, ... *)
LEMMA LaterBegins ==
  ASSUME NEW m \in Models, NEW i \in HwLayers(m), NEW j \in HwLayers(m), i < j
  PROVE  /\ Ends(m)[i] \in Nat /\ Ends(m)[i + 1] \in Nat /\ Ends(m)[j] \in Nat
         /\ Ends(m)[i] < Ends(m)[i + 1] /\ Ends(m)[i + 1] <= Ends(m)[j]
<1>1. i \in Nat /\ j \in Nat /\ j <= HwLast(m) /\ HwLast(m) \in Nat
  BY OffsetsType
<1> DEFINE k == HwLast(m) + 1
<1>2. i \in 0 .. k /\ i + 1 \in 0 .. k /\ j \in (i + 1) .. k /\ j \in 0 .. k
  BY <1>1
<1>3. Ends(m) \in [0 .. k -> Nat]
  BY EndsAre
<1>4. Ends(m)[i] < Ends(m)[i + 1] /\ Ends(m)[i + 1] <= Ends(m)[j]
  BY <1>2, EndsAre
<1> QED BY <1>2, <1>3, <1>4

LEMMA BeginningsApart ==
  ASSUME NEW m \in Models, NEW i \in HwLayers(m), NEW j \in HwLayers(m),
         Offsets(m)[i].read = Offsets(m)[j].read
  PROVE  i = j
<1>1. i \in Nat /\ j \in Nat
  BY OffsetsType
<1>2. Ends(m)[i] = Ends(m)[j]
  <2>1. Offsets(m)[i].read = Ends(m)[i] /\ Offsets(m)[j].read = Ends(m)[j]
    BY OffsetsType
  <2> QED BY <2>1
<1>3. CASE i < j
  <2>1. /\ Ends(m)[i] \in Nat /\ Ends(m)[i + 1] \in Nat /\ Ends(m)[j] \in Nat
        /\ Ends(m)[i] < Ends(m)[i + 1] /\ Ends(m)[i + 1] <= Ends(m)[j]
    BY <1>3, LaterBegins
  <2> QED BY <1>2, <2>1
<1>4. CASE j < i
  <2>1. /\ Ends(m)[j] \in Nat /\ Ends(m)[j + 1] \in Nat /\ Ends(m)[i] \in Nat
        /\ Ends(m)[j] < Ends(m)[j + 1] /\ Ends(m)[j + 1] <= Ends(m)[i]
    BY <1>4, LaterBegins
  <2> QED BY <1>2, <2>1
<1> QED BY <1>1, <1>3, <1>4

(* ... and an invoke does not end where it began, unless it is the whole    *)
(* model and fills the queue.                                               *)
LEMMA NotFull ==
  ASSUME NEW m \in Models, ~(OneInvoke(m) /\ Full(m)),
         NEW i \in HwLayers(m), NEW e \in HwLayers(m), i <= e,
         \A x \in i .. e : x \in HwLayers(m)
  PROVE  Offsets(m)[i].read # Offsets(m)[e].write
<1>1. /\ i \in Nat /\ e \in Nat /\ i <= HwLast(m) /\ e <= HwLast(m) /\ HwFirst(m) <= i
      /\ HwLast(m) \in Nat /\ HwFirst(m) \in Nat
      /\ HwFirst(m) \in HwLayers(m) /\ HwLast(m) \in HwLayers(m)
  BY OffsetsType
<1>2. Offsets(m)[i].read = Ends(m)[i]
  BY OffsetsType
<1>3. /\ Ends(m)[e + 1] = Alloc(m) => e = HwLast(m)
      /\ Offsets(m)[e].write = IF Ends(m)[e + 1] = Alloc(m) THEN 0 ELSE Ends(m)[e + 1]
  BY OffsetsAre
<1>4. Ends(m)[i] \in Nat /\ Ends(m)[e + 1] \in Nat /\ Ends(m)[i] < Ends(m)[e + 1]
  <2> DEFINE k == HwLast(m) + 1
  <2>1. i \in 0 .. k /\ i + 1 \in 0 .. k /\ e + 1 \in (i + 1) .. k /\ e + 1 \in 0 .. k
    BY <1>1
  <2>2. Ends(m) \in [0 .. k -> Nat]
    BY EndsAre
  <2>3. Ends(m)[i] < Ends(m)[i + 1] /\ Ends(m)[i + 1] <= Ends(m)[e + 1]
    BY <2>1, EndsAre
  <2>4. Ends(m)[i] \in Nat /\ Ends(m)[i + 1] \in Nat /\ Ends(m)[e + 1] \in Nat
    BY <2>1, <2>2
  <2> QED BY <2>3, <2>4
<1>5. CASE Ends(m)[e + 1] # Alloc(m)
  BY <1>2, <1>3, <1>4, <1>5
<1>6. CASE Ends(m)[e + 1] = Alloc(m)
  <2>1. e = HwLast(m) /\ Offsets(m)[HwLast(m)].write = 0
    BY <1>3, <1>6
  <2>2. i # HwFirst(m)
    BY <1>1, <2>1 DEF OneInvoke, Full
  <2>3. HwFirst(m) < i
    BY <1>1, <2>2
  <2>4. /\ Ends(m)[HwFirst(m)] \in Nat /\ Ends(m)[HwFirst(m) + 1] \in Nat
        /\ Ends(m)[HwFirst(m)] < Ends(m)[HwFirst(m) + 1]
        /\ Ends(m)[HwFirst(m) + 1] <= Ends(m)[i]
    BY <1>1, <2>3, LaterBegins
  <2> QED BY <1>2, <1>4, <2>1, <2>4
<1> QED BY <1>5, <1>6

(* The words of a layer lie between its beginning and its end.              *)
LEMMA WordsAre ==
  ASSUME NEW m \in Models, NEW i \in HwLayers(m),
         NEW k \in 0 .. (Written(m.cfg[i]) - 1)
  PROVE  /\ (Offsets(m)[i].read + k) % Alloc(m) = Ends(m)[i] + k
         /\ Ends(m)[i] + k < Ends(m)[i + 1] /\ k \in Nat
<1>1. /\ i \in Nat /\ i \in DOMAIN m.cfg /\ i <= HwLast(m) /\ HwLast(m) \in Nat
      /\ Offsets(m)[i].read = Ends(m)[i]
  BY OffsetsType
<1>2. m.cfg[i] \in Nat /\ m.cfg[i] > 0
  <2>1. PICK d \in Nat : m.cfg \in [0 .. d -> Nat]
    BY ModelIs
  <2> QED BY <1>1, <2>1 DEF HwLayers
<1>3. /\ Layer(m.cfg[i]) = Written(m.cfg[i])
      /\ Written(m.cfg[i]) \in Nat
  BY <1>2, LayerIs, WrittenIs
<1>4. i \in 0 .. HwLast(m) /\ i \in 0 .. (HwLast(m) + 1) /\ i + 1 \in 0 .. (HwLast(m) + 1)
  BY <1>1
<1>5. /\ Ends(m)[i] \in Nat /\ Ends(m)[i + 1] \in Nat
      /\ Ends(m)[i + 1] = Ends(m)[i] + Layer(m.cfg[i])
  BY <1>4, EndsAre
<1>6. Ends(m)[i + 1] <= Alloc(m) /\ Alloc(m) \in Nat \ {0}
  BY AllFits, OffsetsAre
<1>7. Ends(m)[i] + k < Ends(m)[i + 1] /\ k \in Nat
  BY <1>3, <1>5
<1>8. Ends(m)[i] + k \in 0 .. (Alloc(m) - 1)
  BY <1>5, <1>6, <1>7
<1>9. (Ends(m)[i] + k) % Alloc(m) = Ends(m)[i] + k
  BY <1>6, <1>8, ModBelow
<1> QED BY <1>1, <1>7, <1>9

LEMMA WordsApart ==
  ASSUME NEW m \in Models, NEW i \in HwLayers(m), NEW j \in HwLayers(m), i < j,
         NEW k \in 0 .. (Written(m.cfg[i]) - 1), NEW l \in 0 .. (Written(m.cfg[j]) - 1)
  PROVE  (Offsets(m)[i].read + k) % Alloc(m) # (Offsets(m)[j].read + l) % Alloc(m)
<1>1. /\ (Offsets(m)[i].read + k) % Alloc(m) = Ends(m)[i] + k
      /\ Ends(m)[i] + k < Ends(m)[i + 1] /\ k \in Nat
  BY WordsAre
<1>2. (Offsets(m)[j].read + l) % Alloc(m) = Ends(m)[j] + l /\ l \in Nat
  BY WordsAre
<1>3. /\ Ends(m)[i] \in Nat /\ Ends(m)[i + 1] \in Nat /\ Ends(m)[j] \in Nat
      /\ Ends(m)[i + 1] <= Ends(m)[j]
  BY LaterBegins
<1> QED BY <1>1, <1>2, <1>3

-----------------------------------------------------------------------------
(* The queue of a registered model has its layout, whatever may happen.     *)

ShapeOf(c) ==
  c = [model |-> c.model, type |-> c.type, queue |-> c.queue, args |-> c.args,
       run |-> c.run, storage |-> c.storage, sem |-> c.sem, next |-> c.next]

PlacedOf(c) ==
  c.model # NoModel => c.model \in Models /\ c.queue.offs = Offsets(c.model)

PlacedInv ==
  DOMAIN net = Net /\ \A n \in Net : ShapeOf(net[n]) /\ PlacedOf(net[n])

(* What may change about a context that keeps its model.                    *)
LEMMA StaysPlaced ==
  ASSUME NEW c, ShapeOf(c), PlacedOf(c), NEW v
  PROVE  /\ ShapeOf([c EXCEPT !.type = v]) /\ PlacedOf([c EXCEPT !.type = v])
         /\ ShapeOf([c EXCEPT !.sem = v]) /\ PlacedOf([c EXCEPT !.sem = v])
         /\ ShapeOf([c EXCEPT !.storage = v]) /\ PlacedOf([c EXCEPT !.storage = v])
         /\ ShapeOf([c EXCEPT !.run = v]) /\ PlacedOf([c EXCEPT !.run = v])
         /\ ShapeOf([c EXCEPT !.args = v]) /\ PlacedOf([c EXCEPT !.args = v])
         /\ ShapeOf([c EXCEPT !.next = v]) /\ PlacedOf([c EXCEPT !.next = v])
<1>1. /\ ShapeOf([c EXCEPT !.type = v]) /\ PlacedOf([c EXCEPT !.type = v])
      /\ ShapeOf([c EXCEPT !.sem = v]) /\ PlacedOf([c EXCEPT !.sem = v])
  BY DEF ShapeOf, PlacedOf
<1>2. /\ ShapeOf([c EXCEPT !.storage = v]) /\ PlacedOf([c EXCEPT !.storage = v])
      /\ ShapeOf([c EXCEPT !.run = v]) /\ PlacedOf([c EXCEPT !.run = v])
  BY DEF ShapeOf, PlacedOf
<1>3. /\ ShapeOf([c EXCEPT !.args = v]) /\ PlacedOf([c EXCEPT !.args = v])
      /\ ShapeOf([c EXCEPT !.next = v]) /\ PlacedOf([c EXCEPT !.next = v])
  BY DEF ShapeOf, PlacedOf
<1> QED BY <1>1, <1>2, <1>3

(* A submission's changes to its context, one after the other.              *)
WithStorage(c, a) == [c EXCEPT !.storage = a]
WithRun(c, b) == [c EXCEPT !.run = b]
ArgsOf(c, S, b) == [i \in DOMAIN c.args |-> IF i \in S THEN b ELSE c.args[i]]
WithArgs(c, S, b) == [c EXCEPT !.args = ArgsOf(c, S, b)]
WithNext(c, d) == [c EXCEPT !.next = d]
Submitted(c, a, b, S, d) == WithNext(WithArgs(WithRun(WithStorage(c, a), b), S, b), d)

SubmitsIn(n, a, b, S, d) ==
  net' = [net EXCEPT ![n].storage = a, ![n].run = b,
            ![n].args = [i \in DOMAIN @ |-> IF i \in S THEN b ELSE @[i]],
            ![n].next = d]

LEMMA SubmittedIs ==
  ASSUME DOMAIN net = Net, NEW n \in Net,
         NEW a, NEW b, NEW S, NEW d, SubmitsIn(n, a, b, S, d)
  PROVE  net' = [net EXCEPT ![n] = Submitted(net[n], a, b, S, d)]
<1> DEFINE n1 == [net EXCEPT ![n].storage = a]
           n2 == [n1 EXCEPT ![n].run = b]
           n3 == [n2 EXCEPT ![n].args = [i \in DOMAIN @ |-> IF i \in S THEN b ELSE @[i]]]
           n4 == [n3 EXCEPT ![n].next = d]
<1>1. net' = n4
  BY DEF SubmitsIn
<1>2. n1 = [net EXCEPT ![n] = WithStorage(net[n], a)] /\ n1[n] = WithStorage(net[n], a)
        /\ DOMAIN n1 = Net
  BY DEF WithStorage
<1>3. n2 = [n1 EXCEPT ![n] = WithRun(n1[n], b)]
  BY <1>2 DEF WithRun
<1>4. n2[n] = WithRun(n1[n], b) /\ DOMAIN n2 = Net
  BY <1>2, <1>3
<1>5. n3 = [n2 EXCEPT ![n] = WithArgs(n2[n], S, b)]
  BY <1>4 DEF WithArgs, ArgsOf
<1>6. n3[n] = WithArgs(n2[n], S, b) /\ DOMAIN n3 = Net
  BY <1>4, <1>5
<1>7. n4 = [n3 EXCEPT ![n] = WithNext(n3[n], d)]
  BY <1>6 DEF WithNext
<1> HIDE DEF n1, n2, n3, n4
<1>8. n4[n] = Submitted(net[n], a, b, S, d)
  BY <1>2, <1>4, <1>6, <1>7 DEF Submitted
<1>9. /\ DOMAIN n4 = Net /\ \A o \in Net \ {n} : n4[o] = net[o]
      /\ n4 = [o \in Net |-> n4[o]]
  BY <1>2, <1>3, <1>4, <1>5, <1>6, <1>7
<1>10. n4 = [net EXCEPT ![n] = Submitted(net[n], a, b, S, d)]
  BY <1>8, <1>9
<1> QED BY <1>1, <1>10

LEMMA SubmittedHas ==
  ASSUME NEW c \in Contexts, NEW a \in Storages, NEW b \in 0 .. 1, NEW S, NEW d \in Nat,
         NEW args \in Args,
         args = ArgsOf(c, S, b),
         NEW e, e = Submitted(c, a, b, S, d)
  PROVE  /\ e \in Contexts
         /\ e.model = c.model /\ e.type = c.type /\ e.queue = c.queue /\ e.sem = c.sem
         /\ e.storage = a /\ e.run = b /\ e.args = args /\ e.next = d
<1> DEFINE c1 == WithStorage(c, a)
           c2 == WithRun(c1, b)
           c3 == WithArgs(c2, S, b)
           c4 == WithNext(c3, d)
<1>1. /\ c1 \in Contexts /\ c1.storage = a
      /\ c1.model = c.model /\ c1.type = c.type /\ c1.queue = c.queue
      /\ c1.sem = c.sem /\ c1.args = c.args
  BY DEF WithStorage, Contexts
<1>2. c2 = [c1 EXCEPT !.run = b] /\ c3 = WithArgs(c2, S, b) /\ c4 = [c3 EXCEPT !.next = d]
  BY DEF WithRun, WithNext
<1>3. e = c4
  BY DEF Submitted
<1> HIDE DEF c1, c2, c3, c4
<1>4. /\ c2 \in Contexts /\ c2.storage = a /\ c2.run = b
      /\ c2.model = c.model /\ c2.type = c.type /\ c2.queue = c.queue
      /\ c2.sem = c.sem /\ c2.args = c.args
  BY <1>1, <1>2 DEF Contexts
<1>5. c3 = [c2 EXCEPT !.args = args]
  BY <1>2, <1>4 DEF WithArgs, ArgsOf
<1>6. /\ c3 \in Contexts /\ c3.storage = a /\ c3.run = b /\ c3.args = args
      /\ c3.model = c.model /\ c3.type = c.type /\ c3.queue = c.queue /\ c3.sem = c.sem
  BY <1>4, <1>5 DEF Contexts
<1>7. /\ c4 \in Contexts /\ c4.storage = a /\ c4.run = b /\ c4.args = args /\ c4.next = d
      /\ c4.model = c.model /\ c4.type = c.type /\ c4.queue = c.queue /\ c4.sem = c.sem
  BY <1>2, <1>6 DEF Contexts
<1> QED BY <1>3, <1>7

(* A context that got a model.                                              *)
Attached(c, m, q, args, d) ==
  [[[[c EXCEPT !.model = m] EXCEPT !.queue = q] EXCEPT !.args = args] EXCEPT !.next = d]

LEMMA AttachedIs ==
  ASSUME NEW c, ShapeOf(c), NEW m, NEW q, NEW args, NEW d,
         NEW e, e = Attached(c, m, q, args, d)
  PROVE  /\ ShapeOf(e)
         /\ e.model = m /\ e.queue = q /\ e.args = args /\ e.next = d
         /\ e.type = c.type /\ e.run = c.run /\ e.storage = c.storage /\ e.sem = c.sem
<1> DEFINE c1 == [c EXCEPT !.model = m]
           c2 == [c1 EXCEPT !.queue = q]
           c3 == [c2 EXCEPT !.args = args]
           c4 == [c3 EXCEPT !.next = d]
<1>1. /\ ShapeOf(c1) /\ c1.model = m
      /\ c1.type = c.type /\ c1.run = c.run /\ c1.storage = c.storage /\ c1.sem = c.sem
  BY DEF ShapeOf
<1>2. c2 = [c1 EXCEPT !.queue = q] /\ c3 = [c2 EXCEPT !.args = args]
        /\ c4 = [c3 EXCEPT !.next = d] /\ c4 = Attached(c, m, q, args, d)
  BY DEF Attached
<1> HIDE DEF c1, c2, c3, c4
<1>3. /\ ShapeOf(c2) /\ c2.model = m /\ c2.queue = q
      /\ c2.type = c.type /\ c2.run = c.run /\ c2.storage = c.storage /\ c2.sem = c.sem
  BY <1>1, <1>2 DEF ShapeOf
<1>4. /\ ShapeOf(c3) /\ c3.model = m /\ c3.queue = q /\ c3.args = args
      /\ c3.type = c.type /\ c3.run = c.run /\ c3.storage = c.storage /\ c3.sem = c.sem
  BY <1>2, <1>3 DEF ShapeOf
<1>5. /\ ShapeOf(c4) /\ c4.model = m /\ c4.queue = q /\ c4.args = args /\ c4.next = d
      /\ c4.type = c.type /\ c4.run = c.run /\ c4.storage = c.storage /\ c4.sem = c.sem
  BY <1>2, <1>4 DEF ShapeOf
<1> QED BY <1>2, <1>5

(* Only a registration gives a context another model.                       *)
LEMMA PlacedStep ==
  ASSUME PlacedInv, [Next]_vars
  PROVE  PlacedInv'
<1>0. SUFFICES DOMAIN net' = Net /\ \A n \in Net : ShapeOf(net'[n]) /\ PlacedOf(net'[n])
  BY DEF PlacedInv, ShapeOf, PlacedOf
<1>1. DOMAIN net = Net /\ \A n \in Net : ShapeOf(net[n]) /\ PlacedOf(net[n])
  BY DEF PlacedInv
<1>2. ASSUME NEW n \in Net, NEW c, ShapeOf(c), PlacedOf(c), net' = [net EXCEPT ![n] = c]
      PROVE  DOMAIN net' = Net /\ \A o \in Net : ShapeOf(net'[o]) /\ PlacedOf(net'[o])
  <2>1. DOMAIN net' = Net /\ net'[n] = c /\ \A o \in Net \ {n} : net'[o] = net[o]
    BY <1>1, <1>2
  <2>2. ASSUME NEW o \in Net PROVE ShapeOf(net'[o]) /\ PlacedOf(net'[o])
    <3>1. CASE o = n
      BY <1>2, <2>1, <3>1
    <3>2. CASE o # n
      BY <1>1, <2>1, <3>2
    <3> QED BY <3>1, <3>2
  <2> QED BY <2>1, <2>2
<1>3. ASSUME NEW n \in Net, NEW type \in Types, SetContextAttribute(n, type)
      PROVE  DOMAIN net' = Net /\ \A o \in Net : ShapeOf(net'[o]) /\ PlacedOf(net'[o])
  <2>1. net' = [net EXCEPT ![n] = [net[n] EXCEPT !.type = type]]
    BY <1>3 DEF SetContextAttribute
  <2>2. ShapeOf([net[n] EXCEPT !.type = type]) /\ PlacedOf([net[n] EXCEPT !.type = type])
    BY <1>1, StaysPlaced
  <2> QED BY <1>2, <2>1, <2>2
<1>4. ASSUME NEW n \in Net, NEW m \in Models, NetAttach(n, m)
      PROVE  DOMAIN net' = Net /\ \A o \in Net : ShapeOf(net'[o]) /\ PlacedOf(net'[o])
  <2> DEFINE f == Fresh(net[n].type)
             q == Fill(m, net[n].type)
             args == [i \in DOMAIN m.cfg |-> 0]
             c == Attached(f, m, q, args, HwFirst(m))
  <2>1. net' = [net EXCEPT ![n] = c]
    BY <1>4 DEF NetAttach, Attached
  <2>2. ShapeOf(f)
    BY DEF ShapeOf, Fresh
  <2>3. q.offs = Offsets(m)
    BY DEF Fill
  <2> HIDE DEF f, q, args
  <2>6. c = Attached(f, m, q, args, HwFirst(m))
    OBVIOUS
  <2> HIDE DEF c
  <2>4. /\ ShapeOf(c) /\ c.model = m /\ c.queue = q
    BY <2>2, <2>6, AttachedIs
  <2>5. PlacedOf(c)
    BY <2>3, <2>4 DEF PlacedOf
  <2> QED BY <1>2, <2>1, <2>4, <2>5
<1>5. ASSUME NEW n \in Net, NetDettach(n)
      PROVE  DOMAIN net' = Net /\ \A o \in Net : ShapeOf(net'[o]) /\ PlacedOf(net'[o])
  <2>1. net' = [net EXCEPT ![n] = Fresh(net[n].type)]
    BY <1>5 DEF NetDettach
  <2>2. ShapeOf(Fresh(net[n].type)) /\ PlacedOf(Fresh(net[n].type))
    BY DEF ShapeOf, PlacedOf, Fresh
  <2> QED BY <1>2, <2>1, <2>2
<1>6. ASSUME NEW n \in Net, Submit(n)
      PROVE  DOMAIN net' = Net /\ \A o \in Net : ShapeOf(net'[o]) /\ PlacedOf(net'[o])
  <2>1. PICK s \in DOMAIN net[n].args, e \in DOMAIN net[n].args :
          SubmitsIn(n, StorageFor(n, s), 1 - net[n].run, s .. e, NextStart(net[n].model, e))
    BY <1>6 DEF Submit, SubmitsIn
  <2> DEFINE run == 1 - net[n].run
             c1 == WithStorage(net[n], StorageFor(n, s))
             c2 == WithRun(c1, run)
             c3 == WithArgs(c2, s .. e, run)
             c4 == WithNext(c3, NextStart(net[n].model, e))
  <2>2. net' = [net EXCEPT ![n] = c4]
    <3>1. net' = [net EXCEPT ![n] = Submitted(net[n], StorageFor(n, s), 1 - net[n].run,
                                              s .. e, NextStart(net[n].model, e))]
      BY <1>1, <2>1, SubmittedIs
    <3> QED BY <3>1 DEF Submitted
  <2>3. ShapeOf(c1) /\ PlacedOf(c1)
    BY <1>1, StaysPlaced DEF WithStorage
  <2>4. ShapeOf(c2) /\ PlacedOf(c2)
    <3> HIDE DEF c1
    <3> QED BY <2>3, StaysPlaced DEF WithRun
  <2>5. ShapeOf(c3) /\ PlacedOf(c3)
    <3> HIDE DEF c2
    <3> QED BY <2>4, StaysPlaced DEF WithArgs
  <2>6. ShapeOf(c4) /\ PlacedOf(c4)
    <3> HIDE DEF c3
    <3> QED BY <2>5, StaysPlaced DEF WithNext
  <2> HIDE DEF c4
  <2> QED BY <1>2, <2>2, <2>6
<1>7. ASSUME NEW t, NEW v, net' = [net EXCEPT ![t].sem = v]
      PROVE  DOMAIN net' = Net /\ \A o \in Net : ShapeOf(net'[o]) /\ PlacedOf(net'[o])
  <2>1. CASE t \in Net
    <3>1. net' = [net EXCEPT ![t] = [net[t] EXCEPT !.sem = v]]
      BY <1>7
    <3>2. ShapeOf([net[t] EXCEPT !.sem = v]) /\ PlacedOf([net[t] EXCEPT !.sem = v])
      BY <1>1, <2>1, StaysPlaced
    <3> QED BY <1>2, <2>1, <3>1, <3>2
  <2>2. CASE t \notin Net
    <3>1. DOMAIN net' = Net /\ \A o \in Net : net'[o] = net[o]
      BY <1>1, <1>7, <2>2
    <3> QED BY <1>1, <3>1
  <2> QED BY <2>1, <2>2
<1>8. ASSUME NEW t, NEW v, net' = [net EXCEPT ![t].storage = v]
      PROVE  DOMAIN net' = Net /\ \A o \in Net : ShapeOf(net'[o]) /\ PlacedOf(net'[o])
  <2>1. CASE t \in Net
    <3>1. net' = [net EXCEPT ![t] = [net[t] EXCEPT !.storage = v]]
      BY <1>8
    <3>2. ShapeOf([net[t] EXCEPT !.storage = v]) /\ PlacedOf([net[t] EXCEPT !.storage = v])
      BY <1>1, <2>1, StaysPlaced
    <3> QED BY <1>2, <2>1, <3>1, <3>2
  <2>2. CASE t \notin Net
    <3>1. DOMAIN net' = Net /\ \A o \in Net : net'[o] = net[o]
      BY <1>1, <1>8, <2>2
    <3> QED BY <1>1, <3>1
  <2> QED BY <2>1, <2>2
<1>9. CASE SecondPart
  BY <1>7, <1>9 DEF SecondPart
<1>10. CASE PreemptFinished \/ PreemptFailed
  BY <1>8, <1>10 DEF PreemptFinished, PreemptFailed
<1>11. CASE Handler /\ thr.partial
  BY <1>7, <1>11 DEF Handler
<1>12. CASE \/ Handler /\ ~thr.partial
            \/ TakeToken \/ Expire \/ PowerCycle \/ Device \/ UNCHANGED vars
  <2>1. net' = net
    BY <1>12 DEF Handler, TakeToken, Expire, PowerCycle, Device, Execute, Fail, Hang, vars
  <2> QED BY <1>1, <2>1
<1> QED BY <1>3, <1>4, <1>5, <1>6, <1>9, <1>10, <1>11, <1>12 DEF Next, ThreadStep

(* The commands of a model's layers never overlap in its buffer, whatever   *)
(* the clients and the device do.                                           *)
THEOREM LayersStayApart == Spec => []LayersApart
<1>1. Init => PlacedInv
  <2> SUFFICES ASSUME Init PROVE PlacedInv
    OBVIOUS
  <2>1. net = [n \in Net |-> Fresh("PUBLIC_ONLY")]
    BY DEF Init
  <2>2. \A n \in Net : net[n] = Fresh("PUBLIC_ONLY")
    BY <2>1
  <2>3. ShapeOf(Fresh("PUBLIC_ONLY")) /\ PlacedOf(Fresh("PUBLIC_ONLY"))
    BY DEF ShapeOf, PlacedOf, Fresh
  <2> QED BY <2>1, <2>2, <2>3 DEF PlacedInv
<1>2. PlacedInv /\ [Next]_vars => PlacedInv'
  BY PlacedStep
<1>3. PlacedInv => LayersApart
  <2> SUFFICES ASSUME PlacedInv, NEW n \in Net, Registered(n),
                      NEW i \in HwLayers(net[n].model), NEW j \in HwLayers(net[n].model),
                      i # j
               PROVE  Words(n, i) \cap Words(n, j) = {}
    BY DEF LayersApart
  <2> DEFINE m == net[n].model
  <2>1. m \in Models /\ net[n].queue.offs = Offsets(m)
    BY DEF PlacedInv, PlacedOf, Registered
  <2>2. i \in Nat /\ j \in Nat
    BY <2>1, OffsetsType
  <2>3. ASSUME NEW k \in 0 .. (Written(m.cfg[i]) - 1), NEW l \in 0 .. (Written(m.cfg[j]) - 1)
        PROVE  (Offsets(m)[i].read + k) % Alloc(m) # (Offsets(m)[j].read + l) % Alloc(m)
    <3>1. CASE i < j
      BY <2>1, <3>1, WordsApart
    <3>2. CASE j < i
      BY <2>1, <3>2, WordsApart
    <3> QED BY <2>2, <3>1, <3>2
  <2>4. \A x \in Words(n, i) : x \notin Words(n, j)
    BY <2>1, <2>3 DEF Words
  <2> QED BY <2>4
<1> QED BY <1>1, <1>2, <1>3, PTL DEF Spec

-----------------------------------------------------------------------------
(* During a submission.                                                     *)

(* What the invariant says of the context n that the thread works on and of *)
(* its model m: their types and the layers of the invoke, ...               *)
Working(n, m) ==
  /\ n = thr.net /\ m = net[n].model /\ n \in Net /\ m \in Models /\ Registered(n)
  /\ net[n] \in Contexts
  /\ net[n].queue.offs = Offsets(m) /\ net[n].queue.irqs = Interrupting(m, net[n].type)
  /\ m.last \in Int /\ Segment(m, thr.first, thr.last)
  /\ thr.first \in Nat /\ thr.last \in Nat /\ thr.first <= thr.last
  /\ thr.first \in HwLayers(m) /\ thr.last \in HwLayers(m) /\ thr.last + 1 \notin HwLayers(m)
  /\ \A i \in thr.first .. thr.last : i \in HwLayers(m) /\ net[n].args[i] = net[n].run
  /\ Done \in Nat /\ Done <= All /\ All \in Nat

(* ... and its two parts.                                                   *)
Halves(n, m) ==
  InTwo(n) =>
    /\ m.last \in HwLayers(m) /\ m.last \in Nat /\ thr.first <= m.last /\ m.last < thr.last
    /\ FirstPart(n) = m.last - thr.first + 1

LEMMA WorkingIs ==
  ASSUME PrivInv, thr.pc # "IDLE"
  PROVE  /\ Working(thr.net, net[thr.net].model) /\ Halves(thr.net, net[thr.net].model)
         /\ RanInv(thr.net) /\ PlaceInv(thr.net) /\ SignalInv(thr.net)
         /\ net[thr.net].next = NextStart(net[thr.net].model, thr.last)
         /\ \A o \in Net \ {thr.net} : net[o].sem = 0
<1> DEFINE n == thr.net
           m == net[n].model
<1>1. /\ n \in Net /\ Registered(n)
      /\ Segment(m, thr.first, thr.last) /\ net[n].next = NextStart(m, thr.last)
      /\ \A i \in thr.first .. thr.last : net[n].args[i] = net[n].run
      /\ \A o \in Net \ {n} : net[o].sem = 0
      /\ RanInv(n) /\ PlaceInv(n) /\ SignalInv(n)
  BY DEF PrivInv, WorkInv
<1>2. net[n] \in Contexts /\ m \in Models
  BY <1>1 DEF PrivInv, PrivTypeOK, Contexts, Registered
<1>3. net[n].queue.offs = Offsets(m) /\ net[n].queue.irqs = Interrupting(m, net[n].type)
  <2>1. net[n].queue = Fill(m, net[n].type)
    BY <1>1 DEF PrivInv, NetInv
  <2> QED BY <2>1 DEF Fill
<1>4. m.last \in Int
  BY <1>2, ModelsAssumption DEF ModelsAssumption
<1>5. /\ thr.first \in HwLayers(m) /\ thr.last \in HwLayers(m) /\ thr.first <= thr.last
      /\ thr.last + 1 \notin HwLayers(m)
      /\ \A i \in thr.first .. thr.last : i \in HwLayers(m)
  BY <1>1 DEF Segment
<1>6. thr.first \in Nat /\ thr.last \in Nat
  BY <1>2, <1>5, OffsetsType
<1>7. Done \in Nat /\ Done <= All /\ All \in Nat
  <2>1. ran \in Seq([layer : Int, table : {"public", "private"}, arg : 0 .. 1]) /\ Done <= All
    BY <1>1 DEF RanInv
  <2>2. Len(ran) \in Nat
    BY <2>1
  <2> QED BY <1>5, <1>6, <2>1, <2>2 DEF Done, All
<1>8. Working(n, m)
  BY <1>1, <1>2, <1>3, <1>4, <1>5, <1>6, <1>7 DEF Working
<1>9. Halves(n, m)
  <2> SUFFICES ASSUME InTwo(n)
               PROVE  /\ m.last \in HwLayers(m) /\ m.last \in Nat
                      /\ thr.first <= m.last /\ m.last < thr.last
                      /\ FirstPart(n) = m.last - thr.first + 1
    BY DEF Halves
  <2>1. thr.first <= m.last /\ m.last < thr.last /\ FirstPart(n) = m.last - thr.first + 1
    BY DEF InTwo, FirstPart
  <2>2. m.last \in thr.first .. thr.last
    BY <1>4, <1>6, <2>1
  <2> QED BY <1>5, <1>6, <2>1, <2>2
<1> QED BY <1>1, <1>8, <1>9

(* The parser stands where the next layer of the invoke begins, ... *)
LEMMA ParserAt ==
  ASSUME NEW n, NEW m, Working(n, m), PlaceInv(n), Done < All
  PROVE  /\ thr.first + Done \in HwLayers(m) /\ thr.first + Done <= thr.last
         /\ dev.rpt = Offsets(m)[thr.first + Done].read
<1>1. /\ m \in Models /\ net[n].queue.offs = Offsets(m)
      /\ thr.first \in Nat /\ thr.last \in Nat /\ Done \in Nat
      /\ \A i \in thr.first .. thr.last : i \in HwLayers(m)
  BY DEF Working
<1>2. thr.first + Done \in thr.first .. thr.last
  BY <1>1 DEF All
<1>3. thr.first + Done \in HwLayers(m)
  BY <1>1, <1>2
<1>4. CASE Done = 0
  <2>1. dev.rpt = Offsets(m)[thr.first].read
    BY <1>1, <1>4 DEF PlaceInv
  <2>2. thr.first + Done = thr.first
    BY <1>1, <1>4
  <2> QED BY <1>2, <1>3, <2>1, <2>2
<1>5. CASE Done # 0
  <2> DEFINE i == thr.first + Done - 1
  <2>1. i \in thr.first .. thr.last /\ i + 1 = thr.first + Done
    BY <1>1, <1>2, <1>5
  <2>2. i \in HwLayers(m) /\ i + 1 \in HwLayers(m)
    BY <1>1, <1>3, <2>1
  <2>3. dev.rpt = Offsets(m)[i].write
    BY <1>1, <1>5 DEF PlaceInv
  <2>4. Offsets(m)[i + 1].read = Offsets(m)[i].write
    <3> HIDE DEF i
    <3> QED BY <1>1, <2>2, NeighboursTouch
  <2> QED BY <1>2, <1>3, <2>1, <2>3, <2>4
<1> QED BY <1>4, <1>5

(* ... behind the whole invoke or behind its first part once that has been  *)
(* executed.                                                                *)
LEMMA ParserBehind ==
  ASSUME NEW n, NEW m, Working(n, m), Halves(n, m), PlaceInv(n)
  PROVE  /\ Done = All => dev.rpt = Offsets(m)[thr.last].write
         /\ InTwo(n) /\ Done = FirstPart(n) => dev.rpt = Offsets(m)[m.last].write
<1>1. /\ net[n].queue.offs = Offsets(m) /\ m.last \in Int
      /\ thr.first \in Nat /\ thr.last \in Nat /\ thr.first <= thr.last
  BY DEF Working
<1>2. Done = All => dev.rpt = Offsets(m)[thr.last].write
  <2>1. CASE Done = All
    <3>1. Done # 0 /\ thr.first + Done - 1 = thr.last
      BY <1>1, <2>1 DEF All
    <3> QED BY <1>1, <3>1 DEF PlaceInv
  <2> QED BY <2>1
<1>3. InTwo(n) /\ Done = FirstPart(n) => dev.rpt = Offsets(m)[m.last].write
  <2>1. CASE InTwo(n) /\ Done = FirstPart(n)
    <3>1. Done # 0 /\ thr.first + Done - 1 = m.last
      BY <1>1, <2>1 DEF Halves
    <3> QED BY <1>1, <3>1 DEF PlaceInv
  <2> QED BY <2>1
<1> QED BY <1>2, <1>3

(* A busy device works for the thread, on a layer that is still to be done. *)
LEMMA BusyIs ==
  ASSUME PrivInv, Busy
  PROVE  /\ thr.pc \in {"PART", "WAIT"} /\ dev.queue = thr.net /\ Done < All
         /\ thr.pc = "PART" => InTwo(thr.net) /\ Done < FirstPart(thr.net)
<1>1. dev.ok /\ dev.rpt # dev.wpt
  BY DEF Busy
<1>2. thr.pc # "IDLE"
  BY <1>1 DEF PrivInv, RestInv
<1> DEFINE n == thr.net
           m == net[n].model
<1>3. Working(n, m) /\ Halves(n, m) /\ RanInv(n) /\ PlaceInv(n) /\ SignalInv(n)
  BY <1>2, WorkingIs
<1>4. /\ Done = All => dev.rpt = Offsets(m)[thr.last].write
      /\ InTwo(n) /\ Done = FirstPart(n) => dev.rpt = Offsets(m)[m.last].write
  BY <1>3, ParserBehind
<1>5. /\ net[n].queue.offs = Offsets(m) /\ m = net[n].model
      /\ m.last \in Int /\ thr.first \in Nat /\ thr.last \in Nat
      /\ Done \in Nat /\ Done <= All /\ All \in Nat
  BY <1>3 DEF Working
<1>6. thr.pc \in {"IDLE", "PART", "WAIT", "FINISHED", "FAILED"}
  BY DEF PrivInv, PrivTypeOK
<1>7. CASE thr.pc = "PART"
  <2>1. /\ InTwo(n) /\ Done <= FirstPart(n) /\ dev.queue = n
        /\ dev.wpt = Offsets(m)[m.last].write
    BY <1>3, <1>5, <1>7 DEF PlaceInv
  <2>2. FirstPart(n) = m.last - thr.first + 1 /\ m.last < thr.last
    BY <1>3, <2>1 DEF Halves
  <2>3. Done # FirstPart(n)
    BY <1>1, <1>4, <2>1
  <2>4. FirstPart(n) \in Int /\ FirstPart(n) < All
    BY <1>5, <2>2 DEF All
  <2>5. Done < FirstPart(n)
    BY <1>5, <2>1, <2>3, <2>4
  <2> QED BY <1>5, <1>7, <2>1, <2>4, <2>5
<1>8. CASE thr.pc # "PART"
  <2>1. dev.queue = n /\ dev.wpt = Offsets(m)[thr.last].write
    BY <1>3, <1>5, <1>8 DEF PlaceInv
  <2>2. Done # All
    BY <1>1, <1>4, <2>1
  <2>3. thr.pc \notin {"FINISHED", "FAILED"}
    BY <1>1, <1>3, <2>2 DEF SignalInv
  <2> QED BY <1>2, <1>5, <1>6, <1>8, <2>1, <2>2, <2>3
<1> QED BY <1>7, <1>8

-----------------------------------------------------------------------------
(* Steps of the thread and the device within a submission.                  *)

(* The plan is the same as long as the invoke and its context are.          *)
LEMMA SamePlan ==
  ASSUME NEW n, thr.net = n, thr'.net = n, thr'.first = thr.first, thr'.last = thr.last,
         net'[n].model = net[n].model, net'[n].type = net[n].type, net'[n].run = net[n].run
  PROVE  /\ Plan' = Plan /\ All' = All /\ FirstPart(n)' = FirstPart(n)
         /\ InTwo(n)' <=> InTwo(n)
         /\ \A i : TableOf(n, i)' = TableOf(n, i)
<1>1. \A i : TableOf(n, i)' = TableOf(n, i)
  BY DEF TableOf
<1>2. Plan' = Plan
  BY DEF Plan, TableOf
<1> QED BY <1>1, <1>2 DEF All, FirstPart, InTwo

(* What a step has to keep of WorkInv if it keeps the invoke.               *)
LEMMA StillWorking ==
  ASSUME PrivInv, thr.pc # "IDLE", NEW n, thr.net = n,
         thr'.net = n, thr'.first = thr.first, thr'.last = thr.last,
         net'[n].model = net[n].model, net'[n].type = net[n].type,
         net'[n].queue = net[n].queue, net'[n].args = net[n].args,
         net'[n].run = net[n].run, net'[n].next = net[n].next,
         \A o \in Net \ {n} : net'[o] = net[o],
         RanInv(n)', PlaceInv(n)', SignalInv(n)'
  PROVE  WorkInv'
<1>1. /\ n \in Net /\ Registered(n)
      /\ Segment(net[n].model, thr.first, thr.last)
      /\ net[n].next = NextStart(net[n].model, thr.last)
      /\ \A i \in thr.first .. thr.last : net[n].args[i] = net[n].run
      /\ \A o \in Net \ {n} : net[o].sem = 0
  BY DEF PrivInv, WorkInv
<1>2. /\ n \in Net /\ Registered(n)'
      /\ Segment(net'[n].model, thr'.first, thr'.last)
      /\ net'[n].next = NextStart(net'[n].model, thr'.last)
      /\ \A i \in thr'.first .. thr'.last : net'[n].args[i] = net'[n].run
      /\ \A o \in Net \ {n} : net'[o].sem = 0
  BY <1>1 DEF Registered
<1> QED BY <1>2 DEF WorkInv

(* NetInv and RestInv have nothing to do then.                              *)
LEMMA NetInvKept ==
  ASSUME NetInv,
         \A o \in Net : /\ net'[o].model = net[o].model /\ net'[o].type = net[o].type
                        /\ net'[o].queue = net[o].queue /\ net'[o].args = net[o].args
                        /\ net'[o].next = net[o].next
                        /\ \/ net'[o].storage = net[o].storage
                           \/ net'[o].storage \in Positions(net[o].model)
  PROVE  NetInv'
BY DEF NetInv, Registered

LEMMA TakeTokenStep ==
  ASSUME PrivInv, TakeToken
  PROVE  PrivInv'
<1>1. PICK n : n = thr.net
  OBVIOUS
<1> DEFINE m == net[n].model
<1>2. /\ thr.pc = "WAIT" /\ sem_irq > 0 /\ sem_irq' = sem_irq - 1
      /\ thr' = [thr EXCEPT !.pc = IF dev.irqOn /\ dev.stamp = thr.last
                                   THEN "FINISHED" ELSE "FAILED"]
      /\ net' = net /\ pre' = pre /\ dev' = dev /\ ran' = ran
  BY DEF TakeToken
<1>3. Working(n, m) /\ RanInv(n) /\ PlaceInv(n) /\ SignalInv(n)
  BY <1>1, <1>2, WorkingIs
<1>4. /\ thr \in [pc : {"IDLE", "PART", "WAIT", "FINISHED", "FAILED"},
                  net : Net \cup {NoNet}, first : Int, last : Int, partial : BOOLEAN]
      /\ sem_irq \in 0 .. 1
  BY DEF PrivInv, PrivTypeOK
<1>5. /\ thr'.net = n /\ thr'.first = thr.first /\ thr'.last = thr.last
      /\ thr'.partial = thr.partial
      /\ thr'.pc = IF dev.irqOn /\ dev.stamp = thr.last THEN "FINISHED" ELSE "FAILED"
      /\ sem_irq' = 0
  BY <1>1, <1>2, <1>4
<1>6. PrivTypeOK'
  <2>1. thr' \in [pc : {"IDLE", "PART", "WAIT", "FINISHED", "FAILED"},
                  net : Net \cup {NoNet}, first : Int, last : Int, partial : BOOLEAN]
    BY <1>2, <1>4
  <2> QED BY <1>2, <1>5, <2>1 DEF PrivInv, PrivTypeOK
<1>7. NetInv'
  BY <1>2, NetInvKept DEF PrivInv
<1>8. RestInv'
  BY <1>5 DEF RestInv
<1>9. /\ Plan' = Plan /\ All' = All /\ FirstPart(n)' = FirstPart(n)
      /\ InTwo(n)' <=> InTwo(n)
      /\ \A i : TableOf(n, i)' = TableOf(n, i)
      /\ Done' = Done
  BY <1>1, <1>2, <1>5, SamePlan DEF Done
<1>10. RanInv(n)'
  BY <1>2, <1>3, <1>9 DEF RanInv
<1>11. PlaceInv(n)'
  BY <1>2, <1>3, <1>5, <1>9 DEF PlaceInv
<1>12. SignalInv(n)'
  <2>1. ~thr.partial /\ net[n].sem = 0
    BY <1>2, <1>3 DEF SignalInv
  <2>2. CASE Done = All
    <3>1. dev.ok /\ Signal("TS", sem_irq)
      BY <1>2, <1>3, <2>2 DEF SignalInv
    <3>2. dev.irq = {} /\ dev.irqOn
      BY <1>2, <1>4, <3>1 DEF Signal
    <3>3. dev.stamp = thr.last
      <4>1. /\ thr.first \in Nat /\ thr.last \in Nat /\ thr.first <= thr.last
        BY <1>3 DEF Working
      <4>2. Done > 0 /\ thr.first + Done - 1 = thr.last
        BY <2>2, <4>1 DEF All
      <4> QED BY <1>3, <4>2 DEF PlaceInv
    <3>4. thr'.pc = "FINISHED"
      BY <1>5, <3>2, <3>3
    <3> QED BY <1>2, <1>5, <1>9, <2>1, <2>2, <3>1, <3>2, <3>4 DEF SignalInv, Silent
  <2>3. CASE Done # All
    <3>1. ~dev.ok /\ Signal("ERR", sem_irq)
      BY <1>2, <1>3, <1>4, <2>3 DEF SignalInv, Silent
    <3>2. dev.irq = {} /\ ~dev.irqOn
      BY <1>2, <1>4, <3>1 DEF Signal
    <3>3. thr'.pc = "FAILED"
      BY <1>5, <3>2
    <3> QED BY <1>2, <1>5, <1>9, <2>1, <2>3, <3>1, <3>2, <3>3 DEF SignalInv
  <2> QED BY <2>2, <2>3
<1>13. WorkInv'
  BY <1>1, <1>2, <1>5, <1>10, <1>11, <1>12, StillWorking
<1> QED BY <1>6, <1>7, <1>8, <1>13 DEF PrivInv

(* The timeout expires only after the device has failed: as long as a layer *)
(* is to be done, the parser is not at its write point.                     *)
LEMMA ExpireStep ==
  ASSUME PrivInv, PlainModels, Expire
  PROVE  PrivInv'
<1>1. PICK n : n = thr.net
  OBVIOUS
<1> DEFINE m == net[n].model
<1>2. /\ thr.pc = "WAIT" /\ sem_irq = 0
      /\ ~Busy /\ (dev.irq = {} \/ ~dev.irqOn)
      /\ thr' = [thr EXCEPT !.pc = "FAILED"]
      /\ net' = net /\ pre' = pre /\ dev' = dev /\ sem_irq' = sem_irq /\ ran' = ran
  BY DEF Expire
<1>3. Working(n, m) /\ RanInv(n) /\ PlaceInv(n) /\ SignalInv(n)
  BY <1>1, <1>2, WorkingIs
<1>4. thr \in [pc : {"IDLE", "PART", "WAIT", "FINISHED", "FAILED"},
               net : Net \cup {NoNet}, first : Int, last : Int, partial : BOOLEAN]
  BY DEF PrivInv, PrivTypeOK
<1>5. /\ thr'.net = n /\ thr'.first = thr.first /\ thr'.last = thr.last
      /\ thr'.partial = thr.partial /\ thr'.pc = "FAILED"
  BY <1>1, <1>2, <1>4
<1>6. PrivTypeOK'
  <2>1. thr' \in [pc : {"IDLE", "PART", "WAIT", "FINISHED", "FAILED"},
                  net : Net \cup {NoNet}, first : Int, last : Int, partial : BOOLEAN]
    BY <1>2, <1>4
  <2> QED BY <1>2, <2>1 DEF PrivInv, PrivTypeOK
<1>7. NetInv'
  BY <1>2, NetInvKept DEF PrivInv
<1>8. RestInv'
  BY <1>5 DEF RestInv
<1>9. /\ Plan' = Plan /\ All' = All /\ FirstPart(n)' = FirstPart(n)
      /\ InTwo(n)' <=> InTwo(n)
      /\ \A i : TableOf(n, i)' = TableOf(n, i)
      /\ Done' = Done
  BY <1>1, <1>2, <1>5, SamePlan DEF Done
<1>10. RanInv(n)'
  BY <1>2, <1>3, <1>9 DEF RanInv
<1>11. PlaceInv(n)'
  BY <1>2, <1>3, <1>5, <1>9 DEF PlaceInv
<1>12. ~dev.ok /\ dev.irq = {}
  <2>0. Done # All
    BY <1>2, <1>3 DEF SignalInv, Signal
  <2>1. Done < All
    BY <1>3, <2>0 DEF Working
  <2>2. Silent(sem_irq) \/ (~dev.ok /\ Signal("ERR", sem_irq))
    BY <1>2, <1>3, <2>0 DEF SignalInv
  <2>3. dev.irq = {}
    BY <1>2, <2>2 DEF Silent, Signal
  <2>4. CASE ~dev.ok
    BY <2>3, <2>4
  <2>5. CASE dev.ok
    <3> DEFINE i == thr.first + Done
    <3>1. i \in HwLayers(m) /\ i <= thr.last /\ dev.rpt = Offsets(m)[i].read
      BY <1>3, <2>1, ParserAt
    <3>2. dev.wpt = Offsets(m)[thr.last].write /\ dev.queue = n /\ n # NoNet
      <4>1. net[n].queue.offs = Offsets(m) /\ n \in Net
        BY <1>3 DEF Working
      <4> QED BY <1>2, <1>3, <4>1, NamesAssumption DEF PlaceInv, NamesAssumption
    <3>3. \A x \in i .. thr.last : x \in HwLayers(m)
      <4>1. /\ thr.first \in Nat /\ thr.last \in Nat /\ Done \in Nat
            /\ \A x \in thr.first .. thr.last : x \in HwLayers(m)
        BY <1>3 DEF Working
      <4>2. \A x \in i .. thr.last : x \in thr.first .. thr.last
        BY <4>1
      <4> QED BY <4>1, <4>2
    <3>4. m \in Models /\ thr.last \in HwLayers(m) /\ ~(OneInvoke(m) /\ Full(m))
      BY <1>3 DEF Working, PlainModels
    <3> HIDE DEF i
    <3>5. dev.rpt # dev.wpt
      BY <3>1, <3>2, <3>3, <3>4, NotFull
    <3> QED BY <1>2, <2>5, <3>2, <3>5 DEF Busy
  <2> QED BY <2>4, <2>5
<1>13. SignalInv(n)'
  <2>1. ~thr.partial /\ net[n].sem = 0
    BY <1>2, <1>3 DEF SignalInv
  <2> QED BY <1>2, <1>5, <1>12, <2>1 DEF SignalInv
<1>14. WorkInv'
  BY <1>1, <1>2, <1>5, <1>10, <1>11, <1>13, StillWorking
<1> QED BY <1>6, <1>7, <1>8, <1>14 DEF PrivInv

(* In the plain case the device only fails while the thread itself waits.   *)
LEMMA FaultStep ==
  ASSUME PrivInv, Allow = {}, Fail \/ Hang
  PROVE  PrivInv'
<1>1. PICK n : n = thr.net
  OBVIOUS
<1> DEFINE m == net[n].model
<1>2. /\ Busy /\ (thr.pc # "PART")
      /\ \/ dev' = [dev EXCEPT !.ok = FALSE, !.irq = @ \cup {"ERR"}]
         \/ dev' = [dev EXCEPT !.ok = FALSE]
      /\ net' = net /\ pre' = pre /\ thr' = thr /\ sem_irq' = sem_irq /\ ran' = ran
  BY DEF Fail, Hang, Fault
<1>3. thr.pc = "WAIT" /\ dev.queue = n /\ Done < All
  BY <1>1, <1>2, BusyIs
<1>4. Working(n, m) /\ RanInv(n) /\ PlaceInv(n) /\ SignalInv(n)
  BY <1>1, <1>3, WorkingIs
<1>5. dev \in [queue : Net \cup {NoNet}, rpt : Nat, wpt : Nat,
               table : {"public", "private"}, stamp : Int, ok : BOOLEAN,
               irq : SUBSET {"TS", "ERR"}, irqOn : BOOLEAN]
  BY DEF PrivInv, PrivTypeOK
<1>6. Silent(sem_irq)
  <2>1. dev.ok /\ Done # All
    BY <1>2, <1>3, <1>4 DEF Busy, Working
  <2> QED BY <1>3, <1>4, <2>1 DEF SignalInv
<1>7. /\ dev'.queue = dev.queue /\ dev'.rpt = dev.rpt /\ dev'.wpt = dev.wpt
      /\ dev'.table = dev.table /\ dev'.stamp = dev.stamp /\ dev'.irqOn = dev.irqOn
      /\ ~dev'.ok /\ dev'.irq \in {{}, {"ERR"}}
  <2>1. CASE dev' = [dev EXCEPT !.ok = FALSE, !.irq = @ \cup {"ERR"}]
    BY <1>5, <1>6, <2>1 DEF Silent
  <2>2. CASE dev' = [dev EXCEPT !.ok = FALSE]
    BY <1>5, <1>6, <2>2 DEF Silent
  <2> QED BY <1>2, <2>1, <2>2
<1>8. PrivTypeOK'
  <2>1. dev' \in [queue : Net \cup {NoNet}, rpt : Nat, wpt : Nat,
                  table : {"public", "private"}, stamp : Int, ok : BOOLEAN,
                  irq : SUBSET {"TS", "ERR"}, irqOn : BOOLEAN]
    <3>1. CASE dev' = [dev EXCEPT !.ok = FALSE, !.irq = @ \cup {"ERR"}]
      BY <1>5, <3>1
    <3>2. CASE dev' = [dev EXCEPT !.ok = FALSE]
      BY <1>5, <3>2
    <3> QED BY <1>2, <3>1, <3>2
  <2> QED BY <1>2, <2>1 DEF PrivInv, PrivTypeOK
<1>9. NetInv'
  BY <1>2, NetInvKept DEF PrivInv
<1>10. RestInv'
  BY <1>2, <1>3 DEF RestInv
<1>11. /\ Plan' = Plan /\ All' = All /\ FirstPart(n)' = FirstPart(n)
       /\ InTwo(n)' <=> InTwo(n)
       /\ \A i : TableOf(n, i)' = TableOf(n, i)
       /\ Done' = Done
  BY <1>1, <1>2, SamePlan DEF Done
<1>12. RanInv(n)'
  BY <1>2, <1>4, <1>11 DEF RanInv
<1>13. PlaceInv(n)'
  BY <1>2, <1>4, <1>7, <1>11 DEF PlaceInv
<1>14. SignalInv(n)'
  <2>1. ~thr.partial /\ net[n].sem = 0
    BY <1>2, <1>4 DEF SignalInv
  <2>2. dev.irqOn /\ sem_irq = 0
    BY <1>6 DEF Silent
  <2>3. Done' # All'
    BY <1>3, <1>4, <1>11 DEF Working
  <2>4. Silent(sem_irq)' \/ (~dev'.ok /\ Signal("ERR", sem_irq)')
    BY <1>2, <1>7, <2>2 DEF Silent, Signal
  <2> QED BY <1>2, <1>3, <2>1, <2>3, <2>4 DEF SignalInv
<1>15. WorkInv'
  BY <1>1, <1>2, <1>3, <1>12, <1>13, <1>14, StillWorking
<1> QED BY <1>8, <1>9, <1>10, <1>15 DEF PrivInv

(* The second part follows the token of the first.                          *)
LEMMA SecondPartStep ==
  ASSUME PrivInv, SecondPart
  PROVE  PrivInv'
<1>1. PICK n : n = thr.net
  OBVIOUS
<1> DEFINE m == net[n].model
           part == Parts(n, thr.first, thr.last)[2]
<1>2. /\ thr.pc = "PART" /\ net[n].sem > 0
      /\ net' = [net EXCEPT ![n].sem = @ - 1]
      /\ dev' = [dev EXCEPT !.wpt = part.wpt, !.table = part.table]
      /\ thr' = [thr EXCEPT !.pc = "WAIT", !.partial = FALSE]
      /\ pre' = pre /\ sem_irq' = sem_irq /\ ran' = ran
  BY <1>1 DEF SecondPart
<1>3. /\ Working(n, m) /\ Halves(n, m) /\ RanInv(n) /\ PlaceInv(n) /\ SignalInv(n)
      /\ \A o \in Net \ {n} : net[o].sem = 0
  BY <1>1, <1>2, WorkingIs
<1>4. /\ thr \in [pc : {"IDLE", "PART", "WAIT", "FINISHED", "FAILED"},
                  net : Net \cup {NoNet}, first : Int, last : Int, partial : BOOLEAN]
      /\ dev \in [queue : Net \cup {NoNet}, rpt : Nat, wpt : Nat,
                  table : {"public", "private"}, stamp : Int, ok : BOOLEAN,
                  irq : SUBSET {"TS", "ERR"}, irqOn : BOOLEAN]
      /\ net \in [Net -> Contexts] /\ n \in Net /\ net[n] \in Contexts
  BY <1>3 DEF PrivInv, PrivTypeOK, Working
<1>5. InTwo(n) /\ dev.ok /\ sem_irq = 0
  BY <1>2, <1>3 DEF PlaceInv, SignalInv
<1>6. Done = FirstPart(n) /\ net[n].sem = 1 /\ dev.irq = {} /\ dev.irqOn
  <2>1. net[n].sem \in 0 .. 1
    BY <1>4 DEF Contexts
  <2>2. Done = FirstPart(n)
    BY <1>2, <1>3, <2>1 DEF SignalInv, Silent
  <2>3. Signal("TS", net[n].sem)
    BY <1>2, <1>3, <2>2 DEF SignalInv
  <2> QED BY <1>2, <1>4, <2>1, <2>2, <2>3 DEF Signal
<1>7. /\ net[n].type = "PRIVATE_AND_PUBLIC" /\ thr.first <= m.last /\ m.last < thr.last
      /\ m.last \in Int /\ thr.first \in Nat /\ thr.last \in Nat
      /\ net[n].queue.offs = Offsets(m) /\ m \in Models /\ thr.last \in HwLayers(m)
  BY <1>3, <1>5 DEF InTwo, Working
<1>8. part = [wpt |-> Offsets(m)[thr.last].write, table |-> "private"]
  <2>1. ~(m.last >= thr.last) /\ ~(m.last < thr.first)
    BY <1>7
  <2>2. Parts(n, thr.first, thr.last) =
          <<[wpt |-> Offsets(m)[m.last].write, table |-> "public"],
            [wpt |-> Offsets(m)[thr.last].write, table |-> "private"]>>
    BY <1>7, <2>1 DEF Parts
  <2> QED BY <2>2
<1> HIDE DEF part
<1>9. /\ thr'.net = n /\ thr'.first = thr.first /\ thr'.last = thr.last
      /\ thr'.partial = FALSE /\ thr'.pc = "WAIT"
  BY <1>1, <1>2, <1>4
<1>10. /\ dev'.queue = dev.queue /\ dev'.rpt = dev.rpt /\ dev'.stamp = dev.stamp
       /\ dev'.ok = dev.ok /\ dev'.irq = dev.irq /\ dev'.irqOn = dev.irqOn
       /\ dev'.wpt = Offsets(m)[thr.last].write /\ dev'.table = "private"
  BY <1>2, <1>4, <1>8
<1>11. /\ net'[n].model = m /\ net'[n].type = net[n].type
       /\ net'[n].queue = net[n].queue /\ net'[n].args = net[n].args
       /\ net'[n].run = net[n].run /\ net'[n].next = net[n].next
       /\ net'[n].storage = net[n].storage
       /\ net'[n].sem = 0 /\ net'[n] \in Contexts
       /\ \A o \in Net \ {n} : net'[o] = net[o]
  BY <1>2, <1>4, <1>6 DEF Contexts
<1>12. PrivTypeOK'
  <2>1. net' \in [Net -> Contexts]
    BY <1>2, <1>4, <1>11
  <2>2. Offsets(m)[thr.last].write \in Nat
    BY <1>7, OffsetsType
  <2>3. dev' \in [queue : Net \cup {NoNet}, rpt : Nat, wpt : Nat,
                  table : {"public", "private"}, stamp : Int, ok : BOOLEAN,
                  irq : SUBSET {"TS", "ERR"}, irqOn : BOOLEAN]
    BY <1>2, <1>4, <1>8, <2>2
  <2>4. thr' \in [pc : {"IDLE", "PART", "WAIT", "FINISHED", "FAILED"},
                  net : Net \cup {NoNet}, first : Int, last : Int, partial : BOOLEAN]
    BY <1>2, <1>4
  <2> QED BY <1>2, <2>1, <2>3, <2>4 DEF PrivInv, PrivTypeOK
<1>13. NetInv'
  BY <1>11, NetInvKept DEF PrivInv
<1>14. RestInv'
  BY <1>9 DEF RestInv
<1>15. /\ Plan' = Plan /\ All' = All /\ FirstPart(n)' = FirstPart(n)
       /\ InTwo(n)' <=> InTwo(n)
       /\ \A i : TableOf(n, i)' = TableOf(n, i)
       /\ Done' = Done
  BY <1>1, <1>2, <1>9, <1>11, SamePlan DEF Done
<1>16. RanInv(n)'
  BY <1>2, <1>3, <1>15 DEF RanInv
<1>17. PlaceInv(n)'
  <2>1. TableOf(n, thr.last) = "private"
    BY <1>7 DEF TableOf
  <2>2. FirstPart(n) \in Int
    BY <1>7 DEF FirstPart
  <2> QED BY <1>2, <1>3, <1>6, <1>7, <1>9, <1>10, <1>11, <1>15, <2>1, <2>2 DEF PlaceInv
<1>18. SignalInv(n)'
  <2>1. Done # All
    BY <1>6, <1>7 DEF FirstPart, All
  <2> QED BY <1>2, <1>5, <1>6, <1>9, <1>10, <1>11, <1>15, <2>1 DEF SignalInv, Silent
<1>19. WorkInv'
  BY <1>1, <1>2, <1>9, <1>11, <1>16, <1>17, <1>18, StillWorking
<1> QED BY <1>12, <1>13, <1>14, <1>19 DEF PrivInv

(* The handler makes the interrupt a token of the one who waits for it.     *)
LEMMA HandlerStep ==
  ASSUME PrivInv, Handler
  PROVE  PrivInv'
<1>1. PICK n : n = thr.net
  OBVIOUS
<1> DEFINE m == net[n].model
<1>2. /\ dev.irqOn /\ dev.irq # {} /\ n # NoNet
      /\ dev' = [dev EXCEPT !.irq = {}, !.irqOn = "ERR" \notin dev.irq]
      /\ \/ thr.partial /\ net' = [net EXCEPT ![n].sem = @ + 1] /\ sem_irq' = sem_irq
         \/ ~thr.partial /\ net' = net /\ sem_irq' = sem_irq + 1
      /\ pre' = pre /\ thr' = thr /\ ran' = ran
  BY <1>1 DEF Handler
<1>3. thr.pc # "IDLE"
  BY <1>2 DEF PrivInv, RestInv
<1>4. /\ Working(n, m) /\ Halves(n, m) /\ RanInv(n) /\ PlaceInv(n) /\ SignalInv(n)
      /\ \A o \in Net \ {n} : net[o].sem = 0
  BY <1>1, <1>3, WorkingIs
<1>5. /\ thr \in [pc : {"IDLE", "PART", "WAIT", "FINISHED", "FAILED"},
                  net : Net \cup {NoNet}, first : Int, last : Int, partial : BOOLEAN]
      /\ dev \in [queue : Net \cup {NoNet}, rpt : Nat, wpt : Nat,
                  table : {"public", "private"}, stamp : Int, ok : BOOLEAN,
                  irq : SUBSET {"TS", "ERR"}, irqOn : BOOLEAN]
      /\ net \in [Net -> Contexts] /\ n \in Net /\ net[n] \in Contexts
      /\ sem_irq \in 0 .. 1 /\ net[n].sem \in 0 .. 1
  BY <1>4 DEF PrivInv, PrivTypeOK, Working, Contexts
<1>6. thr.pc \in {"PART", "WAIT"}
  <2>1. thr.pc \notin {"FINISHED", "FAILED"}
    BY <1>2, <1>4 DEF SignalInv, Silent
  <2> QED BY <1>3, <1>5, <2>1
<1>7. /\ dev'.queue = dev.queue /\ dev'.rpt = dev.rpt /\ dev'.wpt = dev.wpt
      /\ dev'.table = dev.table /\ dev'.stamp = dev.stamp /\ dev'.ok = dev.ok
      /\ dev'.irq = {} /\ dev'.irqOn = ("ERR" \notin dev.irq)
  BY <1>2, <1>5
<1>8. /\ net'[n].model = m /\ net'[n].type = net[n].type
      /\ net'[n].queue = net[n].queue /\ net'[n].args = net[n].args
      /\ net'[n].run = net[n].run /\ net'[n].next = net[n].next
      /\ net'[n].storage = net[n].storage
      /\ \A o \in Net \ {n} : net'[o] = net[o]
  BY <1>2, <1>5 DEF Contexts
<1>9. /\ Plan' = Plan /\ All' = All /\ FirstPart(n)' = FirstPart(n)
      /\ InTwo(n)' <=> InTwo(n)
      /\ \A i : TableOf(n, i)' = TableOf(n, i)
      /\ Done' = Done
  BY <1>1, <1>2, <1>8, SamePlan DEF Done
<1>10. RanInv(n)'
  BY <1>2, <1>4, <1>9 DEF RanInv
<1>11. PlaceInv(n)'
  BY <1>2, <1>4, <1>7, <1>8, <1>9 DEF PlaceInv
<1>12. SignalInv(n)' /\ sem_irq' \in 0 .. 1 /\ net'[n].sem \in 0 .. 1
  <2>1. CASE thr.pc = "PART"
    <3>1. thr.partial /\ dev.ok /\ sem_irq = 0
      BY <1>4, <2>1 DEF SignalInv
    <3>2. Done = FirstPart(n) /\ Signal("TS", net[n].sem)
      BY <1>2, <1>4, <2>1 DEF SignalInv, Silent
    <3>3. dev.irq = {"TS"} /\ net[n].sem = 0
      BY <1>2, <3>2 DEF Signal
    <3>4. sem_irq' = 0 /\ net'[n].sem = 1 /\ dev'.irqOn
      BY <1>2, <1>5, <1>7, <3>1, <3>3 DEF Contexts
    <3>5. Signal("TS", net[n].sem)'
      BY <1>7, <3>4 DEF Signal
    <3> QED BY <1>2, <1>7, <1>9, <2>1, <3>1, <3>2, <3>4, <3>5 DEF SignalInv
  <2>2. CASE thr.pc = "WAIT"
    <3>1. ~thr.partial /\ net[n].sem = 0
      BY <1>4, <2>2 DEF SignalInv
    <3>2. sem_irq' = sem_irq + 1 /\ net' = net
      BY <1>2, <3>1
    <3>3. CASE Done = All
      <4>1. dev.ok /\ Signal("TS", sem_irq)
        BY <1>4, <2>2, <3>3 DEF SignalInv
      <4>2. dev.irq = {"TS"} /\ sem_irq = 0
        BY <1>2, <4>1 DEF Signal
      <4>3. Signal("TS", sem_irq)'
        <5>1. "ERR" \notin dev.irq /\ sem_irq' = 1
          BY <3>2, <4>2
        <5>2. dev'.irqOn
          BY <1>7, <5>1
        <5> QED BY <1>7, <5>1, <5>2 DEF Signal
      <4> QED BY <1>2, <1>7, <1>9, <2>2, <3>1, <3>2, <3>3, <4>1, <4>2, <4>3 DEF SignalInv
    <3>4. CASE Done # All
      <4>1. ~dev.ok /\ Signal("ERR", sem_irq)
        BY <1>2, <1>4, <2>2, <3>4 DEF SignalInv, Silent
      <4>2. dev.irq = {"ERR"} /\ sem_irq = 0
        BY <1>2, <4>1 DEF Signal
      <4>3. Signal("ERR", sem_irq)'
        <5>1. "ERR" \in dev.irq /\ sem_irq' = 1
          BY <3>2, <4>2
        <5>2. ~dev'.irqOn
          BY <1>7, <5>1
        <5> QED BY <1>7, <5>1, <5>2 DEF Signal
      <4> QED BY <1>2, <1>7, <1>9, <2>2, <3>1, <3>2, <3>4, <4>1, <4>2, <4>3 DEF SignalInv
    <3> QED BY <3>3, <3>4
  <2> QED BY <1>6, <2>1, <2>2
<1>13. PrivTypeOK'
  <2>1. net'[n] \in Contexts
    BY <1>2, <1>5, <1>12 DEF Contexts
  <2>2. net' \in [Net -> Contexts]
    BY <1>2, <1>5, <2>1
  <2>3. dev' \in [queue : Net \cup {NoNet}, rpt : Nat, wpt : Nat,
                  table : {"public", "private"}, stamp : Int, ok : BOOLEAN,
                  irq : SUBSET {"TS", "ERR"}, irqOn : BOOLEAN]
    BY <1>2, <1>5
  <2> QED BY <1>2, <1>12, <2>2, <2>3 DEF PrivInv, PrivTypeOK
<1>14. NetInv'
  BY <1>8, NetInvKept DEF PrivInv
<1>15. RestInv'
  BY <1>2, <1>3 DEF RestInv
<1>16. WorkInv'
  BY <1>1, <1>2, <1>3, <1>8, <1>10, <1>11, <1>12, StillWorking
<1> QED BY <1>13, <1>14, <1>15, <1>16 DEF PrivInv

(* The device executes the next layer of the plan, and gives an interrupt   *)
(* if it is the last of the invoke or of the part, and only then.           *)
LEMMA InterruptsAre ==
  ASSUME NEW n, NEW m, Working(n, m), Halves(n, m),
         NEW i \in thr.first .. thr.last
  PROVE  /\ i = thr.last => i \in Interrupting(m, net[n].type)
         /\ InTwo(n) /\ i = m.last => i \in Interrupting(m, net[n].type)
         /\ i # thr.last /\ ~(InTwo(n) /\ i = m.last) => i \notin Interrupting(m, net[n].type)
<1>1. /\ m \in Models /\ m = net[n].model /\ m.last \in Int
      /\ thr.first \in Nat /\ thr.last \in Nat
      /\ thr.last \in HwLayers(m) /\ thr.last + 1 \notin HwLayers(m)
      /\ \A x \in thr.first .. thr.last : x \in HwLayers(m)
  BY DEF Working
<1>2. i \in HwLayers(m) /\ i \in Nat /\ i <= thr.last /\ thr.first <= i
  BY <1>1
<1>3. PICK d \in Nat :
        /\ m.cfg \in [0 .. d -> Nat] /\ DOMAIN m.cfg = 0 .. d
        /\ HwLayers(m) = {x \in 0 .. d : m.cfg[x] > 0}
        /\ HwLast(m) \in HwLayers(m)
        /\ \A x \in HwLayers(m) : x <= HwLast(m)
  BY <1>1, ModelIs
<1>4. ASSUME i = thr.last PROVE i \in Interrupting(m, net[n].type)
  <2>1. CASE i = HwLast(m)
    BY <1>2, <2>1 DEF Interrupting
  <2>2. CASE i # HwLast(m)
    <3>1. i + 1 <= HwLast(m) /\ i + 1 \in 0 .. d
      BY <1>2, <1>3, <2>2
    <3>2. m.cfg[i + 1] = 0
      <4>1. i + 1 \notin HwLayers(m)
        BY <1>1, <1>4
      <4>2. m.cfg[i + 1] \in Nat
        BY <1>3, <3>1
      <4> QED BY <1>3, <3>1, <4>1, <4>2
    <3> QED BY <1>2, <3>1, <3>2 DEF Interrupting, SoftwareNext
  <2> QED BY <2>1, <2>2
<1>5. ASSUME InTwo(n), i = m.last PROVE i \in Interrupting(m, net[n].type)
  BY <1>2, <1>5 DEF Interrupting, InTwo
<1>6. ASSUME i # thr.last, ~(InTwo(n) /\ i = m.last)
      PROVE  i \notin Interrupting(m, net[n].type)
  <2>1. i < thr.last /\ thr.last <= HwLast(m) /\ HwLast(m) \in Nat
    <3>1. i < thr.last
      BY <1>1, <1>2, <1>6
    <3>2. HwLast(m) \in 0 .. d
      BY <1>3
    <3>3. thr.last <= HwLast(m)
      BY <1>1, <1>3
    <3>4. HwLast(m) \in Nat
      BY <1>3, <3>2
    <3> QED BY <3>1, <3>3, <3>4
  <2>2. i # HwLast(m)
    BY <1>1, <1>2, <2>1
  <2>3. ~(net[n].type = "PRIVATE_AND_PUBLIC" /\ i = m.last)
    BY <1>1, <1>2, <1>6, <2>1 DEF InTwo
  <2>4. ~SoftwareNext(m, i)
    <3>1. i + 1 \in thr.first .. thr.last
      BY <1>1, <1>2, <2>1
    <3>2. m.cfg[i + 1] > 0
      BY <1>1, <1>3, <3>1
    <3> QED BY <3>2 DEF SoftwareNext
  <2> QED BY <2>2, <2>3, <2>4 DEF Interrupting
<1> QED BY <1>4, <1>5, <1>6

(* The table of the part that runs is that of the layer.                    *)
LEMMA TableIsRight ==
  ASSUME NEW n, NEW m, Working(n, m), Halves(n, m), PlaceInv(n), Done < All,
         thr.pc = "PART" => Done < FirstPart(n)
  PROVE  dev.table = TableOf(n, thr.first + Done)
<1>1. /\ m = net[n].model /\ m.last \in Int /\ net[n] \in Contexts
      /\ thr.first \in Nat /\ thr.last \in Nat /\ Done \in Nat
  BY DEF Working
<1> DEFINE i == thr.first + Done
<1>2. i \in Nat /\ thr.first <= i /\ i <= thr.last
  BY <1>1 DEF All
<1>3. CASE thr.pc = "PART"
  <2>1. dev.table = "public" /\ InTwo(n)
    BY <1>3 DEF PlaceInv
  <2>2. i <= m.last
    BY <1>1, <1>3, <2>1 DEF Halves
  <2>3. TableOf(n, i) = "public"
    BY <1>1, <1>2, <2>1, <2>2 DEF TableOf, InTwo
  <2> QED BY <2>1, <2>3
<1>4. CASE thr.pc # "PART"
  <2>1. dev.table = TableOf(n, thr.last) /\ (InTwo(n) => Done >= FirstPart(n))
    BY <1>4 DEF PlaceInv
  <2>2. CASE net[n].type = "PRIVATE_AND_PUBLIC"
    <3>1. (i > m.last) <=> (thr.last > m.last)
      <4>1. CASE InTwo(n)
        <5>1. FirstPart(n) = m.last - thr.first + 1 /\ m.last < thr.last
          BY <4>1 DEF Halves
        <5> QED BY <1>1, <2>1, <4>1, <5>1
      <4>2. CASE ~InTwo(n)
        BY <1>1, <1>2, <2>2, <4>2 DEF InTwo
      <4> QED BY <4>1, <4>2
    <3> QED BY <1>1, <2>1, <3>1 DEF TableOf
  <2>3. CASE net[n].type # "PRIVATE_AND_PUBLIC"
    BY <1>1, <2>1, <2>3 DEF TableOf
  <2> QED BY <2>2, <2>3
<1> QED BY <1>3, <1>4

LEMMA ExecuteStep ==
  ASSUME PrivInv, Execute
  PROVE  PrivInv'
<1>1. PICK n : n = thr.net
  OBVIOUS
<1> DEFINE m == net[n].model
           i == thr.first + Done
<1>2. Busy /\ net' = net /\ pre' = pre /\ thr' = thr /\ sem_irq' = sem_irq
  BY DEF Execute
<1>3. /\ thr.pc \in {"PART", "WAIT"} /\ dev.queue = n /\ Done < All
      /\ thr.pc = "PART" => InTwo(n) /\ Done < FirstPart(n)
  BY <1>1, <1>2, BusyIs
<1>4. Working(n, m) /\ Halves(n, m) /\ RanInv(n) /\ PlaceInv(n) /\ SignalInv(n)
  BY <1>1, <1>3, WorkingIs
<1>5. /\ dev \in [queue : Net \cup {NoNet}, rpt : Nat, wpt : Nat,
                  table : {"public", "private"}, stamp : Int, ok : BOOLEAN,
                  irq : SUBSET {"TS", "ERR"}, irqOn : BOOLEAN]
      /\ net[n] \in Contexts
  BY <1>4 DEF PrivInv, PrivTypeOK, Working
<1>6. /\ m \in Models /\ net[n].queue.offs = Offsets(m)
      /\ net[n].queue.irqs = Interrupting(m, net[n].type)
      /\ m.last \in Int /\ thr.first \in Nat /\ thr.last \in Nat /\ thr.first <= thr.last
      /\ Done \in Nat /\ All \in Nat
      /\ \A x \in thr.first .. thr.last : x \in HwLayers(m) /\ net[n].args[x] = net[n].run
  BY <1>4 DEF Working
<1>7. i \in HwLayers(m) /\ i <= thr.last /\ dev.rpt = Offsets(m)[i].read
  BY <1>3, <1>4, ParserAt
<1>8. i \in Nat /\ i \in thr.first .. thr.last
  BY <1>6, <1>7
<1>9. LayersAt(n, dev.rpt) = {i}
  <2>1. ASSUME NEW x \in HwLayers(m), Offsets(m)[x].read = dev.rpt PROVE x = i
    <3> HIDE DEF i
    <3> QED BY <1>6, <1>7, <2>1, BeginningsApart
  <2> HIDE DEF i
  <2> QED BY <1>6, <1>7, <2>1 DEF LayersAt
<1>10. /\ dev' = [dev EXCEPT !.rpt = Offsets(m)[i].write, !.stamp = i,
                    !.irq = IF i \in Interrupting(m, net[n].type) THEN @ \cup {"TS"} ELSE @]
       /\ ran' = Append(ran, [layer |-> i, table |-> dev.table, arg |-> net[n].run])
  <2>1. PICK x \in LayersAt(n, dev.rpt) :
          /\ dev' = [dev EXCEPT !.rpt = net[n].queue.offs[x].write, !.stamp = x,
                       !.irq = IF x \in net[n].queue.irqs THEN @ \cup {"TS"} ELSE @]
          /\ ran' = Append(ran, [layer |-> x, table |-> dev.table, arg |-> net[n].args[x]])
    BY <1>3 DEF Execute
  <2>2. x = i
    BY <1>9, <2>1
  <2> HIDE DEF i
  <2> QED BY <1>6, <1>8, <2>1, <2>2
<1>11. /\ dev'.queue = dev.queue /\ dev'.wpt = dev.wpt /\ dev'.table = dev.table
       /\ dev'.ok = dev.ok /\ dev'.irqOn = dev.irqOn
       /\ dev'.rpt = Offsets(m)[i].write /\ dev'.stamp = i
       /\ dev'.irq = IF i \in Interrupting(m, net[n].type)
                     THEN dev.irq \cup {"TS"} ELSE dev.irq
  <2> HIDE DEF i
  <2> QED BY <1>5, <1>10
<1>12. dev.table = TableOf(n, i)
  BY <1>3, <1>4, TableIsRight
<1>13. /\ Plan' = Plan /\ All' = All /\ FirstPart(n)' = FirstPart(n)
       /\ InTwo(n)' <=> InTwo(n)
       /\ \A x : TableOf(n, x)' = TableOf(n, x)
  BY <1>1, <1>2, SamePlan
<1> DEFINE item == [layer |-> i, table |-> dev.table, arg |-> net[n].run]
           Items == [layer : Int, table : {"public", "private"}, arg : 0 .. 1]
<1>14. /\ ran \in Seq(Items) /\ item \in Items
       /\ \A k \in 1 .. Done : ran[k] = Plan[k]
  BY <1>4, <1>5, <1>8 DEF RanInv, Contexts
<1>15. /\ ran' \in Seq(Items) /\ Done' = Done + 1 /\ ran'[Done + 1] = item
       /\ \A k \in 1 .. Done : ran'[k] = ran[k]
  <2> HIDE DEF item, Items
  <2> QED BY <1>10, <1>14 DEF Done, item
<1>16. RanInv(n)'
  <2>1. Plan[Done + 1] = item
    <3>1. Done + 1 \in 1 .. (thr.last - thr.first + 1) /\ thr.first + (Done + 1) - 1 = i
      BY <1>3, <1>6 DEF All
    <3> QED BY <1>1, <1>12, <3>1 DEF Plan
  <2>2. \A k \in 1 .. Done' : ran'[k] = Plan'[k]
    <3>1. \A k \in 1 .. (Done + 1) : k \in 1 .. Done \/ k = Done + 1
      BY <1>6
    <3> HIDE DEF item, i
    <3> QED BY <1>13, <1>14, <1>15, <2>1, <3>1
  <2>3. Done' <= All'
    BY <1>3, <1>6, <1>13, <1>15
  <2> QED BY <1>15, <2>2, <2>3 DEF RanInv
<1>17. PlaceInv(n)'
  <2>1. Done' # 0 /\ thr.first + Done' - 1 = i /\ Done' > 0
    BY <1>6, <1>15
  <2>2. thr.pc = "PART" => Done' <= FirstPart(n)
    BY <1>3, <1>4, <1>6, <1>15 DEF Halves
  <2>3. thr.pc # "PART" => (InTwo(n) => Done' >= FirstPart(n))
    <3>1. FirstPart(n) \in Int
      BY <1>6 DEF FirstPart
    <3> QED BY <1>4, <1>6, <1>15, <3>1 DEF PlaceInv
  <2>4. /\ pre' = n /\ dev'.queue = n
        /\ dev'.rpt = IF Done' = 0 THEN net'[n].queue.offs[thr'.first].read
                      ELSE net'[n].queue.offs[thr'.first + Done' - 1].write
        /\ Done' > 0 => dev'.stamp = thr'.first + Done' - 1
    <3>1. pre = n
      BY <1>4 DEF PlaceInv
    <3> HIDE DEF i
    <3> QED BY <1>2, <1>3, <1>6, <1>11, <2>1, <3>1
  <2>5. IF thr'.pc = "PART"
        THEN /\ InTwo(n)' /\ Done' <= FirstPart(n)'
             /\ dev'.wpt = net'[n].queue.offs[net'[n].model.last].write
             /\ dev'.table = "public"
        ELSE /\ InTwo(n)' => Done' >= FirstPart(n)'
             /\ dev'.wpt = net'[n].queue.offs[thr'.last].write
             /\ dev'.table = TableOf(n, thr.last)'
    <3> HIDE DEF i
    <3> QED BY <1>2, <1>3, <1>4, <1>11, <1>13, <2>2, <2>3 DEF PlaceInv
  <2> QED BY <2>4, <2>5 DEF PlaceInv
<1>18. SignalInv(n)'
  <2>1. /\ i = thr.last => i \in Interrupting(m, net[n].type)
        /\ InTwo(n) /\ i = m.last => i \in Interrupting(m, net[n].type)
        /\ i # thr.last /\ ~(InTwo(n) /\ i = m.last) => i \notin Interrupting(m, net[n].type)
    <3> HIDE DEF i
    <3> QED BY <1>4, <1>8, InterruptsAre
  <2>2. (Done' = All <=> i = thr.last) /\ dev.ok
    <3>1. dev.ok
      BY <1>2 DEF Busy
    <3>2. Done' = Done + 1 /\ All = thr.last - thr.first + 1
      BY <1>15 DEF All
    <3> QED BY <1>6, <3>1, <3>2
  <2>3. Done # All
    BY <1>3, <1>6
  <2>4. CASE thr.pc = "PART"
    <3>1. m.last < thr.last /\ FirstPart(n) = m.last - thr.first + 1 /\ InTwo(n)
      BY <1>3, <1>4, <2>4 DEF Halves
    <3>2. (Done' = FirstPart(n) <=> i = m.last) /\ Done # FirstPart(n)
      <4>1. Done' = Done + 1 /\ Done < FirstPart(n)
        BY <1>3, <1>15, <2>4
      <4> QED BY <1>6, <3>1, <4>1
    <3>3. thr.partial /\ sem_irq = 0 /\ Silent(net[n].sem)
      BY <1>4, <2>4, <3>2 DEF SignalInv
    <3>4. i # thr.last
      BY <1>3, <1>6, <2>4, <3>1
    <3>5. IF Done' = FirstPart(n) THEN Signal("TS", net[n].sem)' ELSE Silent(net[n].sem)'
      <4>1. dev.irq = {} /\ dev.irqOn /\ net[n].sem = 0
        BY <3>3 DEF Silent
      <4>2. CASE i = m.last
        <5>1. dev'.irq = {"TS"}
          BY <1>11, <2>1, <3>1, <4>1, <4>2
        <5> QED BY <1>2, <1>11, <3>2, <4>1, <4>2, <5>1 DEF Signal
      <4>3. CASE i # m.last
        <5>1. dev'.irq = {}
          BY <1>11, <2>1, <3>4, <4>1, <4>3
        <5> QED BY <1>2, <1>11, <3>2, <4>1, <4>3, <5>1 DEF Silent
      <4> QED BY <4>2, <4>3
    <3> HIDE DEF i
    <3> QED BY <1>2, <1>11, <1>13, <2>2, <2>4, <3>3, <3>5 DEF SignalInv
  <2>5. CASE thr.pc = "WAIT"
    <3>1. ~thr.partial /\ net[n].sem = 0 /\ Silent(sem_irq)
      BY <1>4, <2>2, <2>3, <2>5 DEF SignalInv
    <3>2. dev.irq = {} /\ dev.irqOn /\ sem_irq = 0
      BY <3>1 DEF Silent
    <3>3. ~(InTwo(n) /\ i = m.last)
      <4>1. InTwo(n) => Done >= FirstPart(n)
        BY <1>4, <2>5 DEF PlaceInv
      <4>2. InTwo(n) => FirstPart(n) = m.last - thr.first + 1
        BY <1>4 DEF Halves
      <4> QED BY <1>6, <4>1, <4>2
    <3>4. IF Done' = All THEN Signal("TS", sem_irq)' ELSE Silent(sem_irq)'
      <4>1. CASE i = thr.last
        <5>1. dev'.irq = {"TS"}
          BY <1>11, <2>1, <3>2, <4>1
        <5> QED BY <1>2, <1>11, <2>2, <3>2, <4>1, <5>1 DEF Signal
      <4>2. CASE i # thr.last
        <5>1. dev'.irq = {}
          BY <1>11, <2>1, <3>2, <3>3, <4>2
        <5> QED BY <1>2, <1>11, <2>2, <3>2, <4>2, <5>1 DEF Silent
      <4> QED BY <4>1, <4>2
    <3> HIDE DEF i
    <3> QED BY <1>2, <1>11, <1>13, <2>2, <2>5, <3>1, <3>4 DEF SignalInv
  <2> QED BY <1>3, <2>4, <2>5
<1>19. PrivTypeOK'
  <2>1. Offsets(m)[i].write \in Nat
    <3> HIDE DEF i
    <3> QED BY <1>6, <1>7, OffsetsType
  <2>2. i \in Int
    BY <1>8
  <2>3. dev' \in [queue : Net \cup {NoNet}, rpt : Nat, wpt : Nat,
                  table : {"public", "private"}, stamp : Int, ok : BOOLEAN,
                  irq : SUBSET {"TS", "ERR"}, irqOn : BOOLEAN]
    <3> HIDE DEF i
    <3> QED BY <1>5, <1>10, <2>1, <2>2
  <2> QED BY <1>2, <2>3 DEF PrivInv, PrivTypeOK
<1>20. NetInv'
  BY <1>2, NetInvKept DEF PrivInv
<1>21. RestInv'
  BY <1>2, <1>3 DEF RestInv
<1>22. WorkInv'
  BY <1>1, <1>2, <1>3, <1>16, <1>17, <1>18, StillWorking
<1> QED BY <1>19, <1>20, <1>21, <1>22 DEF PrivInv

-----------------------------------------------------------------------------
(* Between submissions.                                                     *)

(* The parser rests where the client of the last invoke goes on.            *)
LEMMA PreemptFinishedStep ==
  ASSUME PrivInv, PreemptFinished
  PROVE  PrivInv'
<1>1. PICK n : n = thr.net
  OBVIOUS
<1> DEFINE m == net[n].model
<1>2. /\ thr.pc = "FINISHED"
      /\ net' = [net EXCEPT ![n].storage = [rpt |-> dev.rpt, wpt |-> dev.wpt]]
      /\ thr' = Rest /\ ran' = <<>> /\ pre' = pre /\ dev' = dev /\ sem_irq' = sem_irq
  BY <1>1 DEF PreemptFinished
<1>3. /\ Working(n, m) /\ Halves(n, m) /\ RanInv(n) /\ PlaceInv(n) /\ SignalInv(n)
      /\ net[n].next = NextStart(m, thr.last)
      /\ \A o \in Net \ {n} : net[o].sem = 0
  BY <1>1, <1>2, WorkingIs
<1>4. /\ net \in [Net -> Contexts] /\ n \in Net /\ net[n] \in Contexts
      /\ dev.rpt \in Nat /\ dev.wpt \in Nat
  BY <1>3 DEF PrivInv, PrivTypeOK, Working
<1>5. /\ net'[n].model = m /\ net'[n].type = net[n].type
      /\ net'[n].queue = net[n].queue /\ net'[n].args = net[n].args
      /\ net'[n].sem = net[n].sem /\ net'[n].next = net[n].next /\ net'[n] \in Contexts
      /\ \A o \in Net \ {n} : net'[o] = net[o]
  BY <1>2, <1>4 DEF Contexts, Storages
<1>6. thr'.pc = "IDLE"
  BY <1>2 DEF Rest
<1>7. PrivTypeOK'
  <2>1. net' \in [Net -> Contexts]
    BY <1>2, <1>4, <1>5
  <2>2. thr' \in [pc : {"IDLE", "PART", "WAIT", "FINISHED", "FAILED"},
                  net : Net \cup {NoNet}, first : Int, last : Int, partial : BOOLEAN]
    BY <1>2 DEF Rest
  <2> QED BY <1>2, <2>1, <2>2 DEF PrivInv, PrivTypeOK
<1>9. Done = All /\ dev.ok /\ Silent(sem_irq) /\ net[n].sem = 0
  BY <1>2, <1>3 DEF SignalInv
<1>10. dev.rpt = Offsets(m)[thr.last].write /\ dev.wpt = Offsets(m)[thr.last].write
  <2>1. dev.rpt = Offsets(m)[thr.last].write
    BY <1>3, <1>9, ParserBehind
  <2>2. dev.wpt = Offsets(m)[thr.last].write
    BY <1>2, <1>3 DEF PlaceInv, Working
  <2> QED BY <2>1, <2>2
<1>8. NetInv'
  <2>1. Offsets(m)[thr.last].write \in 0 .. (Alloc(m) - 1)
    BY <1>3, OffsetsType DEF Working
  <2>2. net'[n].storage = [rpt |-> dev.rpt, wpt |-> dev.wpt]
    BY <1>2, <1>4 DEF Contexts
  <2>3. net'[n].storage \in Positions(m)
    BY <1>10, <2>1, <2>2 DEF Positions
  <2> QED BY <1>5, <2>3, NetInvKept DEF PrivInv
<1>11. RestInv'
  <2>1. \A o \in Net : net'[o].sem = 0
    BY <1>3, <1>5, <1>9
  <2>2. dev.ok /\ dev.irqOn /\ dev.irq = {} /\ sem_irq = 0 /\ dev.rpt = dev.wpt
    BY <1>9, <1>10 DEF Silent
  <2>3. ASSUME NEW o \in Net, pre = o, net'[o].next # HwFirst(net'[o].model)
        PROVE  /\ dev.queue = o
               /\ dev.rpt = net'[o].queue.offs[net'[o].next].read
    <3>1. o = n /\ dev.queue = n
      BY <1>3, <2>3 DEF PlaceInv
    <3>2. m \in Models /\ thr.last \in HwLayers(m) /\ net[n].queue.offs = Offsets(m)
      BY <1>3 DEF Working
    <3>3. NextStart(m, thr.last) # HwFirst(m)
      BY <1>3, <1>5, <2>3, <3>1
    <3>4. thr.last # HwLast(m)
      BY <3>3 DEF NextStart
    <3>5. /\ NextStart(m, thr.last) \in HwLayers(m)
          /\ Offsets(m)[NextStart(m, thr.last)].read = Offsets(m)[thr.last].write
      BY <3>2, <3>4, GapsClose
    <3> QED BY <1>3, <1>5, <1>10, <3>1, <3>2, <3>5
  <2> QED BY <1>2, <2>1, <2>2, <2>3 DEF RestInv
<1>12. WorkInv'
  BY <1>6 DEF WorkInv
<1> QED BY <1>7, <1>8, <1>11, <1>12 DEF PrivInv

(* A reset forgets whose queue the parser holds.                            *)
LEMMA ResetStep ==
  ASSUME PrivInv, PreemptFailed \/ PowerCycle
  PROVE  PrivInv'
<1>1. /\ pre' = NoNet /\ dev' = Reset0 /\ sem_irq' = sem_irq /\ thr' = Rest /\ ran' = <<>>
  BY DEF PreemptFailed, PowerCycle, PrivInv, RestInv
<1>2. net \in [Net -> Contexts]
  BY DEF PrivInv, PrivTypeOK
<1>3. /\ net' \in [Net -> Contexts]
      /\ sem_irq = 0
      /\ \A o \in Net : /\ net'[o].model = net[o].model /\ net'[o].type = net[o].type
                        /\ net'[o].queue = net[o].queue /\ net'[o].args = net[o].args
                        /\ net'[o].sem = 0 /\ net'[o].next = net[o].next
                        /\ net'[o].storage \in {net[o].storage, NoStorage}
  <2>1. CASE PreemptFailed
    <3>1. PICK n : n = thr.net
      OBVIOUS
    <3>2. thr.pc = "FAILED" /\ net' = [net EXCEPT ![n].storage = NoStorage]
      BY <2>1, <3>1 DEF PreemptFailed
    <3>3. /\ n \in Net /\ SignalInv(n) /\ \A o \in Net \ {n} : net[o].sem = 0
      BY <3>1, <3>2, WorkingIs DEF Working
    <3>4. sem_irq = 0 /\ \A o \in Net : net[o].sem = 0
      BY <3>2, <3>3 DEF SignalInv
    <3>5. net[n] \in Contexts /\ NoStorage \in Storages
      BY <1>2, <3>3 DEF NoStorage, Storages
    <3>6. /\ net'[n].model = net[n].model /\ net'[n].type = net[n].type
          /\ net'[n].queue = net[n].queue /\ net'[n].args = net[n].args
          /\ net'[n].sem = net[n].sem /\ net'[n].next = net[n].next
          /\ net'[n].storage = NoStorage /\ net'[n] \in Contexts
          /\ \A o \in Net \ {n} : net'[o] = net[o]
      BY <1>2, <3>2, <3>3, <3>5 DEF Contexts
    <3>7. net' \in [Net -> Contexts]
      BY <1>2, <3>2, <3>6
    <3> QED BY <3>4, <3>6, <3>7
  <2>2. CASE PowerCycle
    <3>1. net' = net /\ thr.pc = "IDLE"
      BY <2>2 DEF PowerCycle
    <3> QED BY <1>2, <3>1 DEF PrivInv, RestInv
  <2> QED BY <2>1, <2>2
<1>4. PrivTypeOK'
  <2>1. dev' \in [queue : Net \cup {NoNet}, rpt : Nat, wpt : Nat,
                  table : {"public", "private"}, stamp : Int, ok : BOOLEAN,
                  irq : SUBSET {"TS", "ERR"}, irqOn : BOOLEAN]
    BY <1>1 DEF Reset0
  <2>2. thr' \in [pc : {"IDLE", "PART", "WAIT", "FINISHED", "FAILED"},
                  net : Net \cup {NoNet}, first : Int, last : Int, partial : BOOLEAN]
    BY <1>1 DEF Rest
  <2> QED BY <1>1, <1>3, <2>1, <2>2 DEF PrivInv, PrivTypeOK
<1>5. NetInv'
  <2>1. ASSUME NEW o \in Net, Registered(o) PROVE NoStorage \in Positions(net[o].model)
    <3>1. net[o].model \in Models
      BY <1>2, <2>1 DEF Contexts, Registered
    <3>2. Alloc(net[o].model) \in Nat \ {0}
      BY <3>1, AllFits
    <3> QED BY <3>2 DEF NoStorage, Positions
  <2> QED BY <1>3, <2>1 DEF PrivInv, NetInv, Registered
<1>6. RestInv'
  <2>1. \A o \in Net : pre' # o
    BY <1>1, NamesAssumption DEF NamesAssumption
  <2> QED BY <1>1, <1>3, <2>1 DEF RestInv, Reset0
<1>7. WorkInv'
  BY <1>1 DEF WorkInv, Rest
<1> QED BY <1>4, <1>5, <1>6, <1>7 DEF PrivInv

(* Nothing of a submission changes if its context and the device do not.    *)
LEMMA WorkKept ==
  ASSUME PrivInv, thr.pc # "IDLE",
         pre' = pre, dev' = dev, thr' = thr, sem_irq' = sem_irq, ran' = ran,
         net'[thr.net] = net[thr.net],
         \A o \in Net \ {thr.net} : net'[o].sem = 0
  PROVE  WorkInv'
<1>1. PICK t : t = thr.net
  OBVIOUS
<1>2. /\ t \in Net /\ Registered(t)
      /\ Segment(net[t].model, thr.first, thr.last)
      /\ net[t].next = NextStart(net[t].model, thr.last)
      /\ \A i \in thr.first .. thr.last : net[t].args[i] = net[t].run
      /\ RanInv(t) /\ PlaceInv(t) /\ SignalInv(t)
  BY <1>1 DEF PrivInv, WorkInv
<1>3. net'[t] = net[t]
  BY <1>1
<1>4. /\ Plan' = Plan /\ All' = All /\ FirstPart(t)' = FirstPart(t)
      /\ InTwo(t)' <=> InTwo(t)
      /\ \A i : TableOf(t, i)' = TableOf(t, i)
      /\ Done' = Done
  BY <1>1, <1>3, SamePlan DEF Done
<1>5. RanInv(t)'
  BY <1>2, <1>4 DEF RanInv
<1>6. PlaceInv(t)'
  BY <1>2, <1>3, <1>4 DEF PlaceInv
<1>7. SignalInv(t)'
  BY <1>2, <1>3, <1>4 DEF SignalInv, Signal, Silent
<1>8. \A o \in Net \ {t} : net'[o].sem = 0
  BY <1>1
<1> QED BY <1>1, <1>2, <1>3, <1>5, <1>6, <1>7, <1>8 DEF WorkInv, Registered

(* A context that the thread does not work on may change, if it is left     *)
(* without a model or with one that begins at its first layer.              *)
LEMMA OtherContext ==
  ASSUME PrivInv, NEW n \in Net, thr.net # n, NEW c \in Contexts, c.sem = 0,
         c.model # NoModel =>
           /\ c.queue = Fill(c.model, c.type) /\ c.args \in [DOMAIN c.model.cfg -> 0 .. 1]
           /\ c.next = HwFirst(c.model) /\ c.next \in HwLayers(c.model)
           /\ c.storage \in Positions(c.model),
         net' = [net EXCEPT ![n] = c],
         pre' = pre \/ (pre = n /\ pre' = NoNet),
         dev' = dev, thr' = thr, sem_irq' = sem_irq, ran' = ran
  PROVE  PrivInv'
<1>1. net \in [Net -> Contexts]
  BY DEF PrivInv, PrivTypeOK
<1>2. net' \in [Net -> Contexts] /\ net'[n] = c /\ \A o \in Net \ {n} : net'[o] = net[o]
  BY <1>1
<1>3. PrivTypeOK'
  BY <1>2 DEF PrivInv, PrivTypeOK
<1>4. NetInv'
  <2>1. ASSUME NEW o \in Net, net'[o].model # NoModel
        PROVE  /\ net'[o].queue = Fill(net'[o].model, net'[o].type)
               /\ net'[o].args \in [DOMAIN net'[o].model.cfg -> 0 .. 1]
               /\ net'[o].next \in HwLayers(net'[o].model)
               /\ net'[o].storage \in Positions(net'[o].model)
    <3>1. CASE o = n
      BY <1>2, <2>1, <3>1
    <3>2. CASE o # n
      <4>1. net'[o] = net[o]
        BY <1>2, <3>2
      <4> QED BY <2>1, <4>1 DEF PrivInv, NetInv, Registered
    <3> QED BY <3>1, <3>2
  <2> QED BY <2>1 DEF NetInv, Registered
<1>5. RestInv'
  <2> SUFFICES ASSUME thr'.pc = "IDLE" PROVE RestInv'
    BY DEF RestInv
  <2>1. /\ thr = Rest /\ ran = <<>>
        /\ sem_irq = 0 /\ \A o \in Net : net[o].sem = 0
        /\ dev.ok /\ dev.irqOn /\ dev.irq = {} /\ dev.rpt = dev.wpt
    BY DEF PrivInv, RestInv
  <2>2. ASSUME NEW o \in Net, pre' = o, Registered(o)', net'[o].next # HwFirst(net'[o].model)
        PROVE  /\ dev.queue = o
               /\ dev.rpt = net'[o].queue.offs[net'[o].next].read
    <3>1. o # n /\ net'[o] = net[o]
      BY <1>2, <2>2 DEF Registered
    <3>2. pre = o
      BY <2>2, NamesAssumption DEF NamesAssumption
    <3> QED BY <2>2, <3>1, <3>2 DEF PrivInv, RestInv, Registered
  <2>3. \A o \in Net : net'[o].sem = 0
    BY <1>2, <2>1
  <2> QED BY <2>1, <2>2, <2>3 DEF RestInv
<1>6. WorkInv'
  <2>1. CASE thr.pc = "IDLE"
    BY <2>1 DEF WorkInv
  <2>2. CASE thr.pc # "IDLE"
    <3>1. thr.net \in Net /\ \A o \in Net \ {thr.net} : net[o].sem = 0
      BY <2>2 DEF PrivInv, WorkInv
    <3>2. /\ net'[thr.net] = net[thr.net]
          /\ \A o \in Net \ {thr.net} : net'[o].sem = 0
      BY <1>2, <3>1
    <3>3. pre' = pre
      BY <2>2 DEF PrivInv, WorkInv, PlaceInv
    <3> QED BY <2>2, <3>2, <3>3, WorkKept
  <2> QED BY <2>1, <2>2
<1> QED BY <1>3, <1>4, <1>5, <1>6 DEF PrivInv

LEMMA ClientStep ==
  ASSUME PrivInv, Allow = {}, NEW n \in Net,
         \/ \E type \in Types : SetContextAttribute(n, type)
         \/ \E m \in Models : NetAttach(n, m)
         \/ NetDettach(n)
  PROVE  PrivInv'
<1>1. net[n] \in Contexts
  BY DEF PrivInv, PrivTypeOK
<1>2. ASSUME ~Registered(n) PROVE thr.net # n
  <2>1. CASE thr.pc = "IDLE"
    <3>1. thr.net = NoNet
      BY <2>1 DEF PrivInv, RestInv, Rest
    <3> QED BY <3>1, NamesAssumption DEF NamesAssumption
  <2>2. CASE thr.pc # "IDLE"
    BY <1>2, <2>2 DEF PrivInv, WorkInv
  <2> QED BY <2>1, <2>2
<1>3. ASSUME thr.net # n PROVE net[n].sem = 0
  <2>1. CASE thr.pc = "IDLE"
    BY <2>1 DEF PrivInv, RestInv
  <2>2. CASE thr.pc # "IDLE"
    BY <1>3, <2>2, WorkingIs
  <2> QED BY <2>1, <2>2
<1>4. ASSUME NEW type \in Types, SetContextAttribute(n, type) PROVE PrivInv'
  <2> DEFINE c == [net[n] EXCEPT !.type = type]
  <2>1. ~Registered(n) /\ thr.net # n
    BY <1>2, <1>4 DEF SetContextAttribute
  <2>2. net' = [net EXCEPT ![n] = c]
    BY <1>4 DEF SetContextAttribute
  <2>3. c \in Contexts /\ c.sem = 0 /\ c.model = NoModel
    BY <1>1, <1>3, <2>1 DEF Contexts, Registered
  <2>4. pre' = pre /\ dev' = dev /\ thr' = thr /\ sem_irq' = sem_irq /\ ran' = ran
    BY <1>4 DEF SetContextAttribute
  <2> HIDE DEF c
  <2> QED BY <2>1, <2>2, <2>3, <2>4, OtherContext
<1>5. ASSUME NEW m \in Models, NetAttach(n, m) PROVE PrivInv'
  <2> DEFINE f == Fill(m, net[n].type)
             args == [i \in DOMAIN m.cfg |-> 0]
             fresh == Fresh(net[n].type)
             c == Attached(fresh, m, f, args, HwFirst(m))
  <2>1. thr.net # n
    BY <1>5 DEF NetAttach
  <2>2. net' = [net EXCEPT ![n] = c]
    BY <1>5 DEF NetAttach, Attached
  <2>3. net[n].type \in Types /\ f \in Queues
    BY <1>1 DEF Contexts, Queues
  <2>4. args \in [DOMAIN m.cfg -> 0 .. 1] /\ args \in Args
    BY DEF Args
  <2>5. HwFirst(m) \in Nat /\ HwFirst(m) \in HwLayers(m)
    <3>1. HwFirst(m) \in HwLayers(m)
      BY ModelIs
    <3> QED BY <3>1, OffsetsType
  <2>6. NoStorage \in Storages /\ NoStorage \in Positions(m)
    <3>1. Alloc(m) \in Nat \ {0}
      BY AllFits
    <3> QED BY <3>1 DEF NoStorage, Storages, Positions
  <2>7. /\ ShapeOf(c) /\ c.model = m /\ c.queue = f /\ c.args = args /\ c.next = HwFirst(m)
        /\ c.type = net[n].type /\ c.run = 0 /\ c.storage = NoStorage /\ c.sem = 0
    <3>1. /\ ShapeOf(fresh) /\ fresh.type = net[n].type /\ fresh.run = 0
          /\ fresh.storage = NoStorage /\ fresh.sem = 0
      BY DEF ShapeOf, Fresh
    <3>2. c = Attached(fresh, m, f, args, HwFirst(m))
      OBVIOUS
    <3> HIDE DEF f, args, fresh, c
    <3> QED BY <3>1, <3>2, AttachedIs
  <2> HIDE DEF f, args, fresh, c
  <2>8. c \in Contexts
    BY <2>3, <2>4, <2>5, <2>6, <2>7 DEF Contexts, ShapeOf
  <2>9. /\ c.sem = 0
        /\ c.queue = Fill(c.model, c.type) /\ c.args \in [DOMAIN c.model.cfg -> 0 .. 1]
        /\ c.next = HwFirst(c.model) /\ c.next \in HwLayers(c.model)
        /\ c.storage \in Positions(c.model)
    BY <2>4, <2>5, <2>6, <2>7 DEF f
  <2>10. /\ pre' = pre \/ (pre = n /\ pre' = NoNet)
         /\ dev' = dev /\ thr' = thr /\ sem_irq' = sem_irq /\ ran' = ran
    BY <1>5 DEF NetAttach
  <2> QED BY <2>1, <2>2, <2>8, <2>9, <2>10, OtherContext
<1>6. ASSUME NetDettach(n) PROVE PrivInv'
  <2> DEFINE c == Fresh(net[n].type)
  <2>1. thr.net # n /\ net' = [net EXCEPT ![n] = c]
    BY <1>6 DEF NetDettach
  <2>2. c \in Contexts /\ c.sem = 0 /\ c.model = NoModel
    BY <1>1 DEF Contexts, Fresh, NoStorage, Storages, Queues, Args
  <2>3. pre' = pre /\ dev' = dev /\ thr' = thr /\ sem_irq' = sem_irq /\ ran' = ran
    BY <1>6 DEF NetDettach
  <2> HIDE DEF c
  <2> QED BY <2>1, <2>2, <2>3, OtherContext
<1> QED BY <1>4, <1>5, <1>6

(* The parts of a submission are those that the invariant speaks of.        *)
Two(n, s, e) ==
  /\ net[n].type = "PRIVATE_AND_PUBLIC"
  /\ s <= net[n].model.last /\ net[n].model.last < e

LEMMA PartsAre ==
  ASSUME NEW n, net[n].type \in Types, net[n].model.last \in Int,
         NEW s \in Nat, NEW e \in Nat, s <= e
  PROVE  /\ Two(n, s, e) =>
              /\ Len(Parts(n, s, e)) = 2
              /\ Parts(n, s, e)[1] =
                   [wpt |-> net[n].queue.offs[net[n].model.last].write, table |-> "public"]
         /\ ~Two(n, s, e) =>
              /\ Len(Parts(n, s, e)) = 1
              /\ Parts(n, s, e)[1] =
                   [wpt |-> net[n].queue.offs[e].write, table |-> TableOf(n, e)]
<1> DEFINE m == net[n].model
           one(t) == <<[wpt |-> net[n].queue.offs[e].write, table |-> t]>>
<1>1. CASE Two(n, s, e)
  <2>1. ~(m.last >= e) /\ ~(m.last < s)
    BY <1>1 DEF Two
  <2>2. Parts(n, s, e) = <<[wpt |-> net[n].queue.offs[m.last].write, table |-> "public"],
                           [wpt |-> net[n].queue.offs[e].write, table |-> "private"]>>
    BY <1>1, <2>1 DEF Two, Parts
  <2> QED BY <1>1, <2>2
<1>2. CASE ~Two(n, s, e)
  <2>1. Parts(n, s, e) = one(TableOf(n, e))
    <3>1. CASE net[n].type = "PUBLIC_ONLY"
      BY <3>1 DEF Parts, TableOf
    <3>2. CASE net[n].type = "PRIVATE_ONLY"
      BY <3>2 DEF Parts, TableOf
    <3>3. CASE net[n].type = "PRIVATE_AND_PUBLIC"
      <4>1. m.last >= e \/ m.last < s
        BY <1>2, <3>3 DEF Two
      <4>2. CASE m.last >= e
        <5>1. ~(e > m.last)
          BY <4>2
        <5> QED BY <3>3, <4>2, <5>1 DEF Parts, TableOf
      <4>3. CASE m.last < s
        <5>1. ~(m.last >= e) /\ e > m.last
          BY <4>3
        <5> QED BY <3>3, <4>3, <5>1 DEF Parts, TableOf
      <4> QED BY <4>1, <4>2, <4>3
    <3> QED BY <3>1, <3>2, <3>3 DEF Types
  <2> QED BY <1>2, <2>1
<1> QED BY <1>1, <1>2

(* A submission begins with the parser in front of its first layer.         *)
LEMMA ResumedAt ==
  ASSUME PrivInv, thr.pc = "IDLE", NEW n \in Net, Registered(n), NEW s,
         s = net[n].next, s \in HwLayers(net[n].model)
  PROVE  /\ Resumed(n, s) \in [queue : Net \cup {NoNet}, rpt : Nat, wpt : Nat,
                               table : {"public", "private"}, stamp : Int, ok : BOOLEAN,
                               irq : SUBSET {"TS", "ERR"}, irqOn : BOOLEAN]
         /\ Resumed(n, s).queue = n
         /\ Resumed(n, s).rpt = Offsets(net[n].model)[s].read
         /\ Resumed(n, s).ok = dev.ok /\ Resumed(n, s).irq = dev.irq
         /\ Resumed(n, s).irqOn = dev.irqOn
         /\ StorageFor(n, s) \in Storages
         /\ StorageFor(n, s) \in Positions(net[n].model)
<1> DEFINE m == net[n].model
           r == StorageFor(n, s)
<1>1. /\ net[n] \in Contexts /\ m \in Models /\ net[n].queue.offs = Offsets(m)
      /\ net[n].storage \in Positions(m)
  <2>1. net[n] \in Contexts
    BY DEF PrivInv, PrivTypeOK
  <2>2. m \in Models
    BY <2>1 DEF Contexts, Registered
  <2>3. net[n].queue = Fill(m, net[n].type) /\ net[n].storage \in Positions(m)
    BY DEF PrivInv, NetInv
  <2> QED BY <2>1, <2>2, <2>3 DEF Fill
<1>2. dev \in [queue : Net \cup {NoNet}, rpt : Nat, wpt : Nat,
               table : {"public", "private"}, stamp : Int, ok : BOOLEAN,
               irq : SUBSET {"TS", "ERR"}, irqOn : BOOLEAN]
  BY DEF PrivInv, PrivTypeOK
<1>3. r \in Storages /\ r.rpt = Offsets(m)[s].read
  <2>1. Offsets(m)[s].read \in Nat
    BY <1>1, OffsetsType
  <2>2. CASE s = HwFirst(m)
    BY <1>1, <2>2, FirstAtStart DEF StorageFor, NoStorage, Storages
  <2>3. CASE s # HwFirst(m)
    BY <1>1, <2>1, <2>3 DEF StorageFor, Storages, Contexts
  <2> QED BY <2>2, <2>3
<1>6. StorageFor(n, s) \in Positions(m)
  <2>1. Offsets(m)[s].read \in 0 .. (Alloc(m) - 1)
    BY <1>1, OffsetsType
  <2>2. NoStorage \in Positions(m)
    <3>1. Alloc(m) \in Nat \ {0}
      BY <1>1, AllFits
    <3> QED BY <3>1 DEF NoStorage, Positions
  <2>3. [rpt |-> Offsets(m)[s].read, wpt |-> Offsets(m)[s].read] \in Positions(m)
    BY <2>1 DEF Positions
  <2> QED BY <1>1, <2>2, <2>3 DEF StorageFor
<1>4. CASE pre # n \/ s = HwFirst(m)
  <2>1. Resumed(n, s) = [dev EXCEPT !.queue = n, !.rpt = r.rpt, !.wpt = r.wpt]
    BY <1>4 DEF Resumed
  <2>2. r.rpt \in Nat /\ r.wpt \in Nat
    BY <1>3 DEF Storages
  <2> HIDE DEF r
  <2>3. r \in Storages /\ StorageFor(n, s) \in Storages
    BY <1>3 DEF r
  <2> QED BY <1>2, <1>3, <1>6, <2>1, <2>2, <2>3
<1>5. CASE ~(pre # n \/ s = HwFirst(m))
  <2>1. Resumed(n, s) = dev
    BY <1>5 DEF Resumed
  <2>2. dev.queue = n /\ dev.rpt = Offsets(m)[s].read
    BY <1>1, <1>5 DEF PrivInv, RestInv
  <2> QED BY <1>2, <1>3, <1>6, <2>1, <2>2
<1> QED BY <1>4, <1>5

LEMMA SubmitStep ==
  ASSUME PrivInv, Allow = {}, NEW n \in Net, Submit(n)
  PROVE  PrivInv'
<1> DEFINE m == net[n].model
           run == 1 - net[n].run
<1>1. PICK s \in DOMAIN net[n].args, e \in DOMAIN net[n].args :
        /\ thr.pc = "IDLE" /\ Registered(n) /\ Segment(m, s, e)
        /\ s # net[n].next => "Skip" \in Allow
        /\ SubmitsIn(n, StorageFor(n, s), run, s .. e, NextStart(m, e))
        /\ pre' = n
        /\ dev' = [Resumed(n, s) EXCEPT !.wpt = Parts(n, s, e)[1].wpt,
                                        !.table = Parts(n, s, e)[1].table]
        /\ thr' = [pc |-> IF Len(Parts(n, s, e)) = 2 THEN "PART" ELSE "WAIT", net |-> n,
                   first |-> s, last |-> e, partial |-> Len(Parts(n, s, e)) = 2]
        /\ ran' = <<>> /\ sem_irq' = sem_irq
  BY DEF Submit, SubmitsIn
<1>2. /\ net \in [Net -> Contexts] /\ net[n] \in Contexts /\ m \in Models
      /\ m.last \in Int /\ net[n].type \in Types
      /\ net[n].queue = Fill(m, net[n].type) /\ net[n].queue.offs = Offsets(m)
      /\ net[n].args \in [DOMAIN m.cfg -> 0 .. 1] /\ net[n].run \in 0 .. 1
  <2>0. Registered(n)
    BY <1>1
  <2>1. net \in [Net -> Contexts] /\ net[n] \in Contexts
    BY DEF PrivInv, PrivTypeOK
  <2>2. m \in Models /\ net[n].type \in Types /\ net[n].run \in 0 .. 1
    BY <2>0, <2>1 DEF Contexts, Registered
  <2>3. m.last \in Int
    BY <2>2, ModelsAssumption DEF ModelsAssumption
  <2>4. net[n].queue = Fill(m, net[n].type) /\ net[n].args \in [DOMAIN m.cfg -> 0 .. 1]
    BY <2>0 DEF PrivInv, NetInv
  <2>5. net[n].queue.offs = Offsets(m)
    BY <2>4 DEF Fill
  <2> QED BY <2>1, <2>2, <2>3, <2>4, <2>5
<1>3. /\ s \in HwLayers(m) /\ e \in HwLayers(m) /\ s <= e /\ s \in Nat /\ e \in Nat
      /\ \A i \in s .. e : i \in HwLayers(m)
      /\ s = net[n].next
  <2>1. /\ s \in HwLayers(m) /\ e \in HwLayers(m) /\ s <= e
        /\ \A i \in s .. e : i \in HwLayers(m)
    BY <1>1 DEF Segment
  <2> QED BY <1>1, <1>2, <2>1, OffsetsType
<1>4. /\ sem_irq = 0 /\ dev.ok /\ dev.irqOn /\ dev.irq = {}
      /\ \A o \in Net : net[o].sem = 0
  BY <1>1 DEF PrivInv, RestInv
<1>5. run \in 0 .. 1 /\ run \in Int
  BY <1>2
<1> DEFINE args == [i \in DOMAIN net[n].args |-> IF i \in s .. e THEN run ELSE net[n].args[i]]
<1>7. /\ args \in [DOMAIN m.cfg -> 0 .. 1]
      /\ \A i \in s .. e : args[i] = run
  <2>1. \A i \in s .. e : i \in DOMAIN m.cfg
    BY <1>2, <1>3, OffsetsType
  <2> QED BY <1>2, <1>5, <2>1
<1> HIDE DEF args
<1>8. NextStart(m, e) \in Nat /\ NextStart(m, e) \in HwLayers(m)
  <2>1. CASE e = HwLast(m)
    <3>1. HwFirst(m) \in HwLayers(m)
      BY <1>2, ModelIs
    <3>2. HwFirst(m) \in Nat
      BY <1>2, <3>1, OffsetsType
    <3> QED BY <2>1, <3>1, <3>2 DEF NextStart
  <2>2. CASE e # HwLast(m)
    <3>1. NextStart(m, e) \in HwLayers(m)
      BY <1>2, <1>3, <2>2, GapsClose
    <3> QED BY <1>2, <3>1, OffsetsType
  <2> QED BY <2>1, <2>2
<1>9. /\ Resumed(n, s) \in [queue : Net \cup {NoNet}, rpt : Nat, wpt : Nat,
                            table : {"public", "private"}, stamp : Int, ok : BOOLEAN,
                            irq : SUBSET {"TS", "ERR"}, irqOn : BOOLEAN]
      /\ Resumed(n, s).queue = n
      /\ Resumed(n, s).rpt = Offsets(m)[s].read
      /\ Resumed(n, s).ok = dev.ok /\ Resumed(n, s).irq = dev.irq
      /\ Resumed(n, s).irqOn = dev.irqOn
      /\ StorageFor(n, s) \in Storages /\ StorageFor(n, s) \in Positions(m)
  <2>1. thr.pc = "IDLE" /\ Registered(n)
    BY <1>1
  <2> QED BY <1>3, <2>1, ResumedAt
<1> DEFINE two == Two(n, s, e)
<1>6. /\ net' = [net EXCEPT ![n] = net'[n]] /\ net'[n] \in Contexts
      /\ \A o \in Net \ {n} : net'[o] = net[o]
      /\ net'[n].model = m /\ net'[n].type = net[n].type /\ net'[n].queue = net[n].queue
      /\ net'[n].sem = net[n].sem
      /\ net'[n].args = args /\ net'[n].run = run /\ net'[n].next = NextStart(m, e)
      /\ net'[n].storage = StorageFor(n, s)
  <2> DEFINE a == StorageFor(n, s)
             d == NextStart(m, e)
             c == Submitted(net[n], a, run, s .. e, d)
  <2>1. DOMAIN net = Net /\ SubmitsIn(n, a, run, s .. e, d)
    BY <1>1, <1>2
  <2>2. net' = [net EXCEPT ![n] = c]
    <3> HIDE DEF a, run, d
    <3> QED BY <2>1, SubmittedIs
  <2>3. /\ c \in Contexts /\ c.model = m /\ c.type = net[n].type
        /\ c.queue = net[n].queue /\ c.sem = net[n].sem
        /\ c.args = args /\ c.run = run /\ c.next = d /\ c.storage = a
    <3>1. args \in Args
      BY <1>2, <1>7 DEF Args
    <3>2. args = ArgsOf(net[n], s .. e, run)
      BY DEF args, ArgsOf
    <3>3. net[n] \in Contexts /\ a \in Storages /\ d \in Nat /\ run \in 0 .. 1
      BY <1>2, <1>5, <1>8, <1>9
    <3>4. c = Submitted(net[n], a, run, s .. e, d)
      OBVIOUS
    <3> HIDE DEF a, run, d, c
    <3> QED BY <3>1, <3>2, <3>3, <3>4, SubmittedHas
  <2> HIDE DEF c
  <2>4. net'[n] = c /\ \A o \in Net \ {n} : net'[o] = net[o]
    BY <2>1, <2>2
  <2> QED BY <2>2, <2>3, <2>4
<1> HIDE DEF run
<1>10. /\ two => /\ Len(Parts(n, s, e)) = 2
                 /\ Parts(n, s, e)[1] =
                      [wpt |-> Offsets(m)[m.last].write, table |-> "public"]
       /\ ~two => /\ Len(Parts(n, s, e)) = 1
                  /\ Parts(n, s, e)[1] =
                       [wpt |-> Offsets(m)[e].write, table |-> TableOf(n, e)]
  BY <1>2, <1>3, PartsAre
<1>11. /\ thr'.pc = IF two THEN "PART" ELSE "WAIT"
       /\ thr'.net = n /\ thr'.first = s /\ thr'.last = e /\ thr'.partial = two
       /\ thr'.pc # "IDLE"
  <2> DEFINE k == Len(Parts(n, s, e))
  <2>1. thr' = [pc |-> IF k = 2 THEN "PART" ELSE "WAIT", net |-> n,
                first |-> s, last |-> e, partial |-> k = 2]
    BY <1>1
  <2>2. k = 2 <=> two
    BY <1>10
  <2> HIDE DEF k, two
  <2>3. /\ thr'.net = n /\ thr'.first = s /\ thr'.last = e
        /\ thr'.pc = IF k = 2 THEN "PART" ELSE "WAIT"
        /\ thr'.partial = (k = 2)
    BY <2>1
  <2> QED BY <2>2, <2>3
<1>12. /\ dev'.queue = n /\ dev'.rpt = Offsets(m)[s].read
       /\ dev'.ok /\ dev'.irqOn /\ dev'.irq = {}
       /\ dev'.wpt = Parts(n, s, e)[1].wpt /\ dev'.table = Parts(n, s, e)[1].table
  BY <1>1, <1>4, <1>9
<1>13. (InTwo(n)' <=> two) /\ \A i : TableOf(n, i)' = TableOf(n, i)
  BY <1>6, <1>11 DEF InTwo, Two, TableOf
<1>14. Parts(n, s, e)[1].wpt \in Nat /\ Parts(n, s, e)[1].table \in {"public", "private"}
  <2>1. CASE two
    <3>1. m.last \in s .. e
      BY <1>2, <1>3, <2>1 DEF Two
    <3>2. Offsets(m)[m.last].write \in Nat
      BY <1>2, <1>3, <3>1, OffsetsType
    <3> QED BY <1>10, <2>1, <3>2
  <2>2. CASE ~two
    <3>1. Offsets(m)[e].write \in Nat
      BY <1>2, <1>3, OffsetsType
    <3> QED BY <1>10, <2>2, <3>1 DEF TableOf
  <2> QED BY <2>1, <2>2
<1>15. PrivTypeOK'
  <2>1. pre' \in Net \cup {NoNet} /\ sem_irq' \in 0 .. 1
    BY <1>1, <1>4
  <2>2. net' \in [Net -> Contexts]
    BY <1>2, <1>6
  <2>3. dev' \in [queue : Net \cup {NoNet}, rpt : Nat, wpt : Nat,
                  table : {"public", "private"}, stamp : Int, ok : BOOLEAN,
                  irq : SUBSET {"TS", "ERR"}, irqOn : BOOLEAN]
    <3> DEFINE w == Parts(n, s, e)[1].wpt
               t == Parts(n, s, e)[1].table
               r == Resumed(n, s)
    <3>1. dev' = [r EXCEPT !.wpt = w, !.table = t]
      BY <1>1
    <3>2. w \in Nat /\ t \in {"public", "private"}
      BY <1>14
    <3>3. r \in [queue : Net \cup {NoNet}, rpt : Nat, wpt : Nat,
                 table : {"public", "private"}, stamp : Int, ok : BOOLEAN,
                 irq : SUBSET {"TS", "ERR"}, irqOn : BOOLEAN]
      BY <1>9
    <3> HIDE DEF w, t, r
    <3> QED BY <3>1, <3>2, <3>3
  <2>4. thr' \in [pc : {"IDLE", "PART", "WAIT", "FINISHED", "FAILED"},
                  net : Net \cup {NoNet}, first : Int, last : Int, partial : BOOLEAN]
    <3> DEFINE k == Len(Parts(n, s, e))
    <3>1. thr' = [pc |-> IF k = 2 THEN "PART" ELSE "WAIT", net |-> n,
                  first |-> s, last |-> e, partial |-> k = 2]
      BY <1>1
    <3> HIDE DEF k
    <3> QED BY <1>3, <3>1
  <2> QED BY <2>1, <2>2, <2>3, <2>4 DEF PrivTypeOK
<1>16. NetInv'
  <2>1. ASSUME NEW o \in Net, net'[o].model # NoModel
        PROVE  /\ net'[o].queue = Fill(net'[o].model, net'[o].type)
               /\ net'[o].args \in [DOMAIN net'[o].model.cfg -> 0 .. 1]
               /\ net'[o].next \in HwLayers(net'[o].model)
               /\ net'[o].storage \in Positions(net'[o].model)
    <3>1. CASE o = n
      BY <1>2, <1>6, <1>7, <1>8, <1>9, <3>1
    <3>2. CASE o # n
      <4>1. net'[o] = net[o]
        BY <1>6, <3>2
      <4> QED BY <2>1, <4>1 DEF PrivInv, NetInv, Registered
    <3> QED BY <3>1, <3>2
  <2> QED BY <2>1 DEF NetInv, Registered
<1>17. RestInv'
  BY <1>11 DEF RestInv
<1>18. Done' = 0 /\ All' = e - s + 1 /\ FirstPart(n)' = m.last - s + 1
  <2>1. ran' = <<>>
    BY <1>1
  <2> QED BY <1>6, <1>11, <2>1 DEF Done, All, FirstPart
<1>19. RanInv(n)'
  <2>1. ran' \in Seq([layer : Int, table : {"public", "private"}, arg : 0 .. 1])
    <3>1. ran' = <<>>
      BY <1>1
    <3> QED BY <3>1
  <2>2. Done' <= All' /\ \A k \in 1 .. Done' : ran'[k] = Plan'[k]
    BY <1>3, <1>18
  <2> QED BY <2>1, <2>2 DEF RanInv
<1>20. PlaceInv(n)'
  <2>0. pre' = n /\ net'[n].queue.offs = Offsets(m)
    BY <1>1, <1>2, <1>6
  <2>1. CASE two
    <3>1. 0 <= m.last - s + 1
      BY <1>2, <1>3, <2>1 DEF Two
    <3> QED BY <1>6, <1>10, <1>11, <1>12, <1>13, <1>18, <2>0, <2>1, <3>1 DEF PlaceInv
  <2>2. CASE ~two
    BY <1>6, <1>10, <1>11, <1>12, <1>13, <1>18, <2>0, <2>2 DEF PlaceInv
  <2> QED BY <2>1, <2>2
<1>21. SignalInv(n)'
  <2>1. net'[n].sem = 0 /\ sem_irq' = 0
    <3>1. sem_irq' = sem_irq
      BY <1>1
    <3> QED BY <1>4, <1>6, <3>1
  <2>2. Done' # All'
    BY <1>3, <1>18
  <2>3. CASE two
    <3>1. Done' # FirstPart(n)'
      BY <1>2, <1>3, <1>18, <2>3 DEF Two
    <3> QED BY <1>11, <1>12, <2>1, <2>3, <3>1 DEF SignalInv, Silent
  <2>4. CASE ~two
    BY <1>11, <1>12, <2>1, <2>2, <2>4 DEF SignalInv, Silent
  <2> QED BY <2>3, <2>4
<1>22. WorkInv'
  <2>1. /\ net'[n].model = m /\ net'[n].args = args /\ net'[n].run = run
        /\ net'[n].next = NextStart(m, e)
    BY <1>6
  <2>2. \A o \in Net \ {n} : net'[o].sem = 0
    BY <1>4, <1>6
  <2>3. m # NoModel
    BY <1>1 DEF Registered
  <2> QED BY <1>1, <1>7, <1>11, <1>19, <1>20, <1>21, <2>1, <2>2, <2>3 DEF WorkInv, Registered
<1> QED BY <1>15, <1>16, <1>17, <1>22 DEF PrivInv

-----------------------------------------------------------------------------
(* The theorems.                                                            *)

LEMMA PrivInit == Init => PrivInv
<1> SUFFICES ASSUME Init PROVE PrivInv
  OBVIOUS
<1> DEFINE c == Fresh("PUBLIC_ONLY")
<1>1. /\ net = [n \in Net |-> c]
      /\ pre = NoNet /\ dev = Reset0 /\ thr = Rest /\ sem_irq = 0 /\ ran = <<>>
  BY DEF Init
<1>2. c \in Contexts /\ c.sem = 0 /\ c.model = NoModel
  BY DEF Contexts, Fresh, NoStorage, Storages, Queues, Args, Types
<1> HIDE DEF c
<1>3. \A n \in Net : ~Registered(n) /\ net[n].sem = 0
  BY <1>1, <1>2 DEF Registered
<1>4. PrivTypeOK
  <2>1. dev \in [queue : Net \cup {NoNet}, rpt : Nat, wpt : Nat,
                 table : {"public", "private"}, stamp : Int, ok : BOOLEAN,
                 irq : SUBSET {"TS", "ERR"}, irqOn : BOOLEAN]
    BY <1>1 DEF Reset0
  <2>2. thr \in [pc : {"IDLE", "PART", "WAIT", "FINISHED", "FAILED"},
                 net : Net \cup {NoNet}, first : Int, last : Int, partial : BOOLEAN]
    BY <1>1 DEF Rest
  <2> QED BY <1>1, <1>2, <2>1, <2>2 DEF PrivTypeOK
<1> QED BY <1>1, <1>3, <1>4 DEF PrivInv, NetInv, RestInv, WorkInv, Reset0, Rest

LEMMA PrivNext ==
  ASSUME PrivInv, Allow = {}, PlainModels, [Next]_vars
  PROVE  PrivInv'
<1>1. CASE \E n \in Net : \/ \E type \in Types : SetContextAttribute(n, type)
                          \/ \E m \in Models : NetAttach(n, m)
                          \/ NetDettach(n)
  BY <1>1, ClientStep
<1>2. CASE \E n \in Net : Submit(n)
  BY <1>2, SubmitStep
<1>3. CASE ThreadStep
  BY <1>3, SecondPartStep, TakeTokenStep, ExpireStep, PreemptFinishedStep, ResetStep
     DEF ThreadStep
<1>4. CASE PowerCycle
  BY <1>4, ResetStep
<1>5. CASE Device
  BY <1>5, ExecuteStep, FaultStep DEF Device
<1>6. CASE Handler
  BY <1>6, HandlerStep
<1>7. CASE UNCHANGED vars
  <2>1. /\ net' = net /\ pre' = pre /\ dev' = dev /\ thr' = thr
        /\ sem_irq' = sem_irq /\ ran' = ran
    BY <1>7 DEF vars
  <2>2. PrivTypeOK'
    BY <2>1 DEF PrivInv, PrivTypeOK
  <2>3. NetInv'
    BY <2>1, NetInvKept DEF PrivInv
  <2>4. RestInv'
    BY <2>1 DEF PrivInv, RestInv, Registered
  <2>5. WorkInv'
    <3>1. CASE thr.pc = "IDLE"
      BY <2>1, <3>1 DEF WorkInv
    <3>2. CASE thr.pc # "IDLE"
      <4>1. \A o \in Net \ {thr.net} : net'[o].sem = 0
        BY <2>1, <3>2, WorkingIs
      <4> QED BY <2>1, <3>2, <4>1, WorkKept
    <3> QED BY <3>1, <3>2
  <2> QED BY <2>2, <2>3, <2>4, <2>5 DEF PrivInv
<1> QED BY <1>1, <1>2, <1>3, <1>4, <1>5, <1>6, <1>7 DEF Next

(* The inductive invariant of a private queue, for any number of contexts   *)
(* and any models of which no single invoke fills the queue, in the plain   *)
(* case: segments in order, one type for a registration, and no failure of  *)
(* the device in the first of two parts.                                    *)
THEOREM PrivInvariantHolds == Allow = {} /\ PlainModels => (Spec => []PrivInv)
<1> SUFFICES ASSUME Allow = {}, PlainModels PROVE Spec => []PrivInv
  OBVIOUS
<1>1. Init => PrivInv
  BY PrivInit
<1>2. PrivInv /\ [Next]_vars => PrivInv'
  BY PrivNext
<1> QED BY <1>1, <1>2, PTL DEF Spec

(* Type correctness: no semaphore ever counts to 2, the next invoke of a    *)
(* model begins with a layer of the device, and the parser of a model is    *)
(* kept, across the models of other contexts, within its own queue.         *)
THEOREM PrivTypeCorrect ==
  Allow = {} /\ PlainModels => (Spec => [](PrivTypeOK /\ NetInv))
<1>1. PrivInv => PrivTypeOK /\ NetInv
  BY DEF PrivInv
<1> QED BY <1>1, PrivInvariantHolds, PTL

(* The device executes nothing but the layers of the invoke, in their order *)
(* and with their tables and addresses, and all of them if the invoke is    *)
(* reported to have finished.                                               *)
THEOREM InvokesRunAsPlanned == Allow = {} /\ PlainModels => (Spec => []RunsAsPlanned)
<1>1. PrivInv => RunsAsPlanned
  <2> SUFFICES ASSUME PrivInv, thr.pc # "IDLE"
               PROVE  IsPrefix(ran, Plan) /\ (thr.pc = "FINISHED" => ran = Plan)
    BY DEF RunsAsPlanned
  <2> DEFINE Items == [layer : Int, table : {"public", "private"}, arg : 0 .. 1]
  <2>1. /\ RanInv(thr.net) /\ SignalInv(thr.net)
        /\ Done \in Nat /\ Done <= All /\ All \in Nat
    BY WorkingIs DEF Working
  <2>2. ran \in Seq(Items) /\ \A k \in 1 .. Done : ran[k] = Plan[k]
    BY <2>1 DEF RanInv
  <2>3. DOMAIN Plan = 1 .. All
    BY DEF Plan, All
  <2>4. Len(Plan) = All
    BY <2>1, <2>3
  <2>5. DOMAIN ran = 1 .. Len(ran) /\ Len(ran) = Done
    BY <2>2 DEF Done
  <2>6. IsPrefix(ran, Plan)
    <3>1. SubSeq(ran, 1, Len(ran)) = SubSeq(Plan, 1, Len(ran))
      <4> DEFINE p == Plan
                 R == {p[k] : k \in 1 .. All}
      <4>1. p = [k \in 1 .. All |-> p[k]] /\ All \in Nat
        BY <2>1 DEF Plan, All
      <4>2. p \in Seq(R) /\ Len(p) = All /\ Len(ran) <= Len(p)
        <5> HIDE DEF p
        <5>1. p \in [1 .. All -> R]
          BY <4>1
        <5> HIDE DEF R
        <5>2. p \in Seq(R) /\ Len(p) = All
          BY <4>1, <5>1
        <5> QED BY <2>1, <2>5, <5>2
      <4>3. \A k \in 1 .. Len(ran) : ran[k] = p[k]
        BY <2>2, <2>5
      <4> HIDE DEF p
      <4>4. /\ SubSeq(ran, 1, Len(ran)) = [k \in 1 .. Len(ran) |-> ran[k]]
            /\ SubSeq(p, 1, Len(ran)) = [k \in 1 .. Len(ran) |-> p[k]]
        BY <2>2, <4>2
      <4> QED BY <4>3, <4>4 DEF p
    <3> QED BY <2>1, <2>4, <2>5, <3>1 DEF IsPrefix
  <2>7. ASSUME thr.pc = "FINISHED" PROVE ran = Plan
    <3>1. Done = All
      BY <2>1, <2>7 DEF SignalInv
    <3>2. ran = [k \in 1 .. Len(ran) |-> ran[k]]
      BY <2>2
    <3>3. Plan = [k \in 1 .. All |-> Plan[k]]
      BY DEF Plan, All
    <3> HIDE DEF Plan
    <3> QED BY <2>2, <2>5, <3>1, <3>2, <3>3
  <2> QED BY <2>6, <2>7
<1> QED BY <1>1, PrivInvariantHolds, PTL

(* An invoke is only failed if the device has: no timeout and no interrupt  *)
(* makes a failure of an invoke that the device carries out.                *)
THEOREM FailuresAreReal == Allow = {} /\ PlainModels => (Spec => []FailureIsReal)
<1>1. PrivInv => FailureIsReal
  <2> SUFFICES ASSUME PrivInv, thr.pc = "FAILED" PROVE ~dev.ok
    BY DEF FailureIsReal
  <2>1. SignalInv(thr.net)
    BY WorkingIs
  <2> QED BY <2>1 DEF SignalInv
<1> QED BY <1>1, PrivInvariantHolds, PTL

(* No token and no interrupt is left for the next submission.               *)
THEOREM NothingStaysBehind == Allow = {} /\ PlainModels => (Spec => []NothingLeft)
<1>1. PrivInv => NothingLeft
  BY DEF PrivInv, RestInv, NothingLeft
<1> QED BY <1>1, PrivInvariantHolds, PTL

(* The second part is not submitted before the first has been executed.     *)
THEOREM SecondFollowsFirst == Allow = {} /\ PlainModels => (Spec => []SecondAfterFirst)
<1>1. PrivInv => SecondAfterFirst
  <2> SUFFICES ASSUME PrivInv, thr.pc = "WAIT", dev.table = "private",
                      NEW i \in thr.first .. thr.last, TableOf(thr.net, i) = "public"
               PROVE  \E k \in DOMAIN ran : ran[k].layer = i
    BY DEF SecondAfterFirst
  <2> DEFINE n == thr.net
             m == net[n].model
  <2>1. Working(n, m) /\ Halves(n, m) /\ RanInv(n) /\ PlaceInv(n)
    BY WorkingIs
  <2>2. /\ thr.first \in Nat /\ thr.last \in Nat /\ m.last \in Int /\ Done \in Nat
    BY <2>1 DEF Working
  <2>3. TableOf(n, thr.last) = "private" /\ (InTwo(n) => Done >= FirstPart(n))
    BY <2>1 DEF PlaceInv
  <2>4. /\ net[n].type = "PRIVATE_AND_PUBLIC" /\ thr.last > m.last /\ ~(i > m.last)
    BY <2>3 DEF TableOf
  <2>5. InTwo(n)
    BY <2>2, <2>4 DEF InTwo
  <2>6. FirstPart(n) = m.last - thr.first + 1
    BY <2>1, <2>5 DEF Halves
  <2> DEFINE k == i - thr.first + 1
  <2>7. k \in 1 .. Done /\ k \in 1 .. (thr.last - thr.first + 1)
    BY <2>2, <2>3, <2>4, <2>5, <2>6
  <2>8. ran[k] = Plan[k] /\ DOMAIN ran = 1 .. Done
    BY <2>1, <2>7 DEF RanInv, Done
  <2>9. Plan[k].layer = i
    <3>1. thr.first + k - 1 = i
      BY <2>2
    <3> HIDE DEF k
    <3> QED BY <2>7, <3>1 DEF Plan
  <2> QED BY <2>7, <2>8, <2>9
<1> QED BY <1>1, PrivInvariantHolds, PTL
=============================================================================
