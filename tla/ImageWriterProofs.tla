--------------------------- MODULE ImageWriterProofs --------------------------
(***************************************************************************)
(* Theorems about ImageWriter and the detector and parser in it, for every *)
(* threshold, buffer and header size, every set of sparse images, and      *)
(* every way to cut a stream of any length.                                *)
(***************************************************************************)
EXTENDS ImageWriter, WellFoundedInduction, TLAPS

-----------------------------------------------------------------------------
(* Induction over numbers, and what needs it: a set that holds 0, and with *)
(* every number the next, holds them all.                                  *)

(* A set of numbers that is not empty has a least one.                     *)
LEMMA LeastNumber ==
  ASSUME NEW S \in SUBSET Nat, S # {}
  PROVE  \E x \in S : \A y \in S : x <= y
<1>1. \E x \in S : \A y \in S : ~(<<y, x>> \in OpToRel(<, Nat))
  BY NatLessThanWellFounded, WFMin
<1>2. PICK x \in S : \A y \in S : ~(<<y, x>> \in OpToRel(<, Nat))
  BY <1>1
<1>3. \A y \in S : <<y, x>> \in Nat \X Nat /\ <<y, x>>[1] = y /\ <<y, x>>[2] = x
  OBVIOUS
<1>4. \A y \in S : ~(y < x)
  BY <1>2, <1>3 DEF OpToRel
<1> QED BY <1>4

(* Induction over a set: what holds the numbers for which something is so. *)
LEMMA Induction ==
  ASSUME NEW S, 0 \in S, \A k \in Nat : k \in S => k + 1 \in S
  PROVE  Nat \subseteq S
<1> DEFINE Bad == {k \in Nat : k \notin S}
<1>1. CASE Bad = {}
  BY <1>1
<1>2. CASE Bad # {}
  <2>1. PICK least \in Bad : \A k \in Bad : least <= k
    BY <1>2, LeastNumber
  <2>2. least \in Nat /\ least \notin S /\ least # 0
    BY <2>1
  <2>3. least - 1 \in Nat /\ least - 1 \notin Bad
    BY <2>1, <2>2
  <2>4. least - 1 + 1 \in S
    BY <2>3
  <2> QED BY <2>2, <2>4
<1> QED BY <1>1, <1>2

(* A sequence of sums exists.                                              *)
LEMMA SumsExist ==
  ASSUME NEW n \in Nat, NEW w \in [1 .. n -> Nat], NEW base \in Nat
  PROVE  \E f \in [1 .. n + 1 -> Nat] : f[1] = base /\ \A i \in 1 .. n : f[i + 1] = f[i] + w[i]
<1> DEFINE Sums(k) == \E f \in [1 .. k + 1 -> Nat] :
                        f[1] = base /\ \A i \in 1 .. k : f[i + 1] = f[i] + w[i]
           S == {k \in Nat : k <= n => Sums(k)}
<1>1. Sums(0)
  <2> DEFINE f == [i \in 1 .. 0 + 1 |-> base]
  <2>1. f \in [1 .. 0 + 1 -> Nat] /\ f[1] = base /\ \A i \in 1 .. 0 : f[i + 1] = f[i] + w[i]
    OBVIOUS
  <2> QED BY <2>1
<1>2. ASSUME NEW k \in Nat, k + 1 <= n, Sums(k)
      PROVE  Sums(k + 1)
  <2>1. PICK f \in [1 .. k + 1 -> Nat] :
          f[1] = base /\ \A i \in 1 .. k : f[i + 1] = f[i] + w[i]
    BY <1>2
  <2> DEFINE g == [i \in 1 .. k + 1 + 1 |-> IF i <= k + 1 THEN f[i] ELSE f[k + 1] + w[k + 1]]
  <2>2. w[k + 1] \in Nat /\ f[k + 1] \in Nat
    BY <1>2
  <2>3. g \in [1 .. k + 1 + 1 -> Nat] /\ g[1] = base
    BY <2>1, <2>2
  <2>4. ASSUME NEW i \in 1 .. k + 1
        PROVE  g[i + 1] = g[i] + w[i]
    <3>1. CASE i <= k
      BY <2>1, <3>1
    <3>2. CASE i = k + 1
      BY <3>2
    <3> QED BY <3>1, <3>2
  <2> HIDE DEF g
  <2> QED BY <2>3, <2>4
<1> HIDE DEF Sums
<1>3. \A k \in Nat : k \in S => k + 1 \in S
  BY <1>2
<1>4. Nat \subseteq S
  BY <1>1, <1>3, Induction
<1>5. Sums(n)
  BY <1>4
<1> QED BY <1>5 DEF Sums

(* Sums of what is positive grow.                                          *)
LEMMA SumsGrow ==
  ASSUME NEW n \in Nat, NEW w \in [1 .. n -> Nat], NEW f, f[1] \in Nat,
         \A i \in 1 .. n : f[i + 1] = f[i] + w[i]
  PROVE  /\ \A i \in 1 .. n + 1 : f[i] \in Nat
         /\ \A i, j \in 1 .. n + 1 : i <= j => f[i] <= f[j]
<1> DEFINE S == {k \in Nat : k <= n => /\ f[k + 1] \in Nat
                                       /\ \A i \in 1 .. k + 1 : f[i] \in Nat /\ f[i] <= f[k + 1]}
<1>1. 0 \in S
  <2>1. f[0 + 1] \in Nat /\ 1 .. 0 + 1 = {1}
    OBVIOUS
  <2> QED BY <2>1
<1>2. ASSUME NEW k \in Nat, k \in S
      PROVE  k + 1 \in S
  <2>1. SUFFICES ASSUME k + 1 <= n
                 PROVE  /\ f[k + 1 + 1] \in Nat
                        /\ \A i \in 1 .. k + 1 + 1 : f[i] \in Nat /\ f[i] <= f[k + 1 + 1]
    OBVIOUS
  <2>2. f[k + 1] \in Nat /\ \A i \in 1 .. k + 1 : f[i] \in Nat /\ f[i] <= f[k + 1]
    BY <1>2, <2>1
  <2>3. k + 1 \in 1 .. n /\ w[k + 1] \in Nat /\ f[k + 1 + 1] = f[k + 1] + w[k + 1]
    BY <2>1
  <2>4. \A i \in 1 .. k + 1 + 1 : i \in 1 .. k + 1 \/ i = k + 1 + 1
    OBVIOUS
  <2> HIDE DEF S
  <2>5. f[k + 1 + 1] \in Nat /\ f[k + 1] <= f[k + 1 + 1]
    BY <2>2, <2>3
  <2>6. \A i \in 1 .. k + 1 : f[i] \in Nat /\ f[i] <= f[k + 1 + 1]
    BY <2>2, <2>5
  <2> QED BY <2>4, <2>5, <2>6
<1>3. Nat \subseteq S
  <2> HIDE DEF S
  <2> QED BY <1>1, <1>2, Induction
<1>4. \A j \in 1 .. n + 1 : j - 1 \in S /\ j - 1 <= n /\ j - 1 + 1 = j
  <2> HIDE DEF S
  <2>1. \A j \in 1 .. n + 1 : j - 1 \in Nat /\ j - 1 <= n /\ j - 1 + 1 = j
    OBVIOUS
  <2> QED BY <1>3, <2>1
<1>5. \A j \in 1 .. n + 1 : f[j] \in Nat /\ \A i \in 1 .. j : f[i] <= f[j]
  BY <1>4
<1> QED BY <1>5

(* Functions laid one over the other.                                      *)
LEMMA LayersExist ==
  ASSUME NEW n \in Nat, NEW w
  PROVE  \E f : f = [i \in 0 .. n |-> IF i = 0 THEN <<>> ELSE P!Over(w[i], f[i - 1])]
<1> DEFINE Layers(k) == \E f : f = [i \in 0 .. k |-> IF i = 0 THEN <<>>
                                                    ELSE P!Over(w[i], f[i - 1])]
           S == {k \in Nat : Layers(k)}
<1>1. Layers(0)
  <2> DEFINE f == [i \in 0 .. 0 |-> <<>>]
  <2>1. f = [i \in 0 .. 0 |-> IF i = 0 THEN <<>> ELSE P!Over(w[i], f[i - 1])]
    <3>1. \A i \in 0 .. 0 : i = 0
      OBVIOUS
    <3> QED BY <3>1
  <2> HIDE DEF f
  <2> QED BY <2>1
<1>2. ASSUME NEW k \in Nat, Layers(k)
      PROVE  Layers(k + 1)
  <2>1. PICK f : f = [i \in 0 .. k |-> IF i = 0 THEN <<>> ELSE P!Over(w[i], f[i - 1])]
    BY <1>2
  <2> DEFINE g == [i \in 0 .. k + 1 |-> IF i = k + 1 THEN P!Over(w[k + 1], f[k]) ELSE f[i]]
             h == [i \in 0 .. k + 1 |-> IF i = 0 THEN <<>> ELSE P!Over(w[i], g[i - 1])]
  <2>2. ASSUME NEW i \in 0 .. k + 1
        PROVE  g[i] = IF i = 0 THEN <<>> ELSE P!Over(w[i], g[i - 1])
    <3>1. CASE i = 0
      <4>1. i # k + 1 /\ i \in 0 .. k
        BY <3>1
      <4>2. g[i] = f[i]
        BY <4>1
      <4> HIDE DEF g
      <4>3. f[i] = IF i = 0 THEN <<>> ELSE P!Over(w[i], f[i - 1])
        BY <2>1, <4>1, Zenon
      <4> QED BY <3>1, <4>2, <4>3
    <3>2. CASE i = k + 1
      <4>1. i # 0 /\ i - 1 = k /\ k \in 0 .. k + 1 /\ k # k + 1
        BY <3>2
      <4>2. g[i] = P!Over(w[k + 1], f[k])
        BY <3>2
      <4>3. g[k] = f[k]
        BY <4>1
      <4> HIDE DEF g
      <4> QED BY <3>2, <4>1, <4>2, <4>3
    <3>3. CASE i # 0 /\ i # k + 1
      <4>1. i \in 0 .. k /\ i - 1 \in 0 .. k + 1 /\ i - 1 # k + 1
        BY <3>3
      <4>2. g[i] = f[i] /\ g[i - 1] = f[i - 1]
        BY <3>3, <4>1
      <4> HIDE DEF g
      <4>3. f[i] = IF i = 0 THEN <<>> ELSE P!Over(w[i], f[i - 1])
        BY <2>1, <4>1, Zenon
      <4> QED BY <3>3, <4>2, <4>3
    <3> QED BY <3>1, <3>2, <3>3
  <2>3. DOMAIN g = 0 .. k + 1 /\ g = [i \in 0 .. k + 1 |-> g[i]]
    OBVIOUS
  <2> HIDE DEF g
  <2>4. g = h
    BY <2>2, <2>3
  <2> QED BY <2>4
<1> HIDE DEF Layers
<1>3. \A k \in Nat : k \in S => k + 1 \in S
  BY <1>2
<1>4. Nat \subseteq S
  BY <1>1, <1>3, Induction
<1>5. Layers(n)
  BY <1>4
<1> QED BY <1>5 DEF Layers

(* Laid over each other where none covers another, all of them show.       *)
Layered(n, w, f) == f[0] = <<>> /\ \A i \in 1 .. n : f[i] = P!Over(w[i], f[i - 1])

Apart(n, w) == \A i, j \in 1 .. n : i # j => DOMAIN w[i] \intersect DOMAIN w[j] = {}

Shows(n, w, g) ==
  /\ \A o : o \in DOMAIN g <=> \E i \in 1 .. n : o \in DOMAIN w[i]
  /\ \A i \in 1 .. n : \A o \in DOMAIN w[i] : g[o] = w[i][o]

(* What is written last, in layers apart from each other, shows them all.  *)
LEMMA LayersShow ==
  ASSUME NEW n \in Nat, NEW w, NEW f, Layered(n, w, f), Apart(n, w)
  PROVE  Shows(n, w, f[n])
<1> USE DEF Layered, Apart
<1> DEFINE Shown(k) == Shows(k, w, f[k])
           S == {k \in Nat : k <= n => Shown(k)}
<1>1. Shown(0)
  <2>1. DOMAIN f[0] = {} /\ 1 .. 0 = {}
    OBVIOUS
  <2> QED BY <2>1 DEF Shows
<1>2. ASSUME NEW k \in Nat, k + 1 <= n, Shown(k)
      PROVE  Shown(k + 1)
  <2>1. k + 1 \in 1 .. n /\ k + 1 - 1 = k
    BY <1>2
  <2>2. f[k + 1] = P!Over(w[k + 1], f[k])
    BY <2>1
  <2>3. /\ DOMAIN f[k + 1] = DOMAIN w[k + 1] \union DOMAIN f[k]
        /\ \A o \in DOMAIN f[k + 1] :
             f[k + 1][o] = IF o \in DOMAIN w[k + 1] THEN w[k + 1][o] ELSE f[k][o]
    BY <2>2 DEF P!Over
  <2>4. \A i : i \in 1 .. k + 1 <=> i \in 1 .. k \/ i = k + 1
    OBVIOUS
  <2>5. \A i \in 1 .. k : i \in 1 .. n /\ i # k + 1
    BY <1>2
  <2>6. \A o : o \in DOMAIN f[k + 1] <=> \E i \in 1 .. k + 1 : o \in DOMAIN w[i]
    <3> HIDE DEF S
    <3> QED BY <1>2, <2>3, <2>4 DEF Shows
  <2>7. ASSUME NEW i \in 1 .. k + 1, NEW o \in DOMAIN w[i]
        PROVE  f[k + 1][o] = w[i][o]
    <3>1. CASE i = k + 1
      BY <2>3, <3>1
    <3>2. CASE i \in 1 .. k
      <4>1. o \notin DOMAIN w[k + 1]
        BY <2>1, <2>5, <3>2
      <4>2. o \in DOMAIN f[k] /\ f[k][o] = w[i][o]
        BY <1>2, <3>2 DEF Shows
      <4> QED BY <2>3, <4>1, <4>2
    <3> QED BY <2>4, <3>1, <3>2
  <2> QED BY <2>6, <2>7 DEF Shows
<1>3. \A k \in Nat : k \in S => k + 1 \in S
  <2>1. SUFFICES ASSUME NEW k \in Nat, k \in S, k + 1 <= n PROVE Shown(k + 1)
    OBVIOUS
  <2>2. k <= n
    BY <2>1
  <2> QED BY <1>2, <2>1, <2>2
<1>4. Nat \subseteq S
  BY <1>1, <1>3, Induction
<1>5. Shown(n)
  BY <1>4
<1> QED BY <1>5

-----------------------------------------------------------------------------
(* Sequences.                                                              *)

(* Two sequences with the same elements are one.                           *)
LEMMA SameElements ==
  ASSUME NEW a \in Seq(Nat), NEW b \in Seq(Nat), Len(a) = Len(b),
         \A i \in 1 .. Len(a) : a[i] = b[i]
  PROVE  a = b
<1>1. a = [i \in 1 .. Len(a) |-> a[i]]
  OBVIOUS
<1>2. b = [i \in 1 .. Len(a) |-> b[i]]
  OBVIOUS
<1>3. [i \in 1 .. Len(a) |-> a[i]] = [i \in 1 .. Len(a) |-> b[i]]
  OBVIOUS
<1> QED BY <1>1, <1>2, <1>3, Zenon

(* The elements of a concatenation.                                        *)
LEMMA ConcatElements ==
  ASSUME NEW a \in Seq(Nat), NEW b \in Seq(Nat)
  PROVE  /\ a \o b \in Seq(Nat) /\ Len(a \o b) = Len(a) + Len(b)
         /\ \A i \in 1 .. Len(a) + Len(b) :
              (a \o b)[i] = IF i <= Len(a) THEN a[i] ELSE b[i - Len(a)]
OBVIOUS

(* What follows the first words of a stretch of the stream.                *)
LEMMA StretchDrop ==
  ASSUME NEW s \in Seq(Nat), NEW m \in Nat, m <= Len(s), NEW begun \in Nat,
         \A k \in 1 .. Len(s) : s[k] = begun + k - 1
  PROVE  /\ SubSeq(s, m + 1, Len(s)) \in Seq(Nat) /\ Len(SubSeq(s, m + 1, Len(s))) = Len(s) - m
         /\ \A k \in 1 .. Len(s) - m : SubSeq(s, m + 1, Len(s))[k] = begun + m + k - 1
<1>1. /\ SubSeq(s, m + 1, Len(s)) \in Seq(Nat) /\ Len(SubSeq(s, m + 1, Len(s))) = Len(s) - m
      /\ \A k \in 1 .. Len(s) - m : SubSeq(s, m + 1, Len(s))[k] = s[m + k]
  OBVIOUS
<1>2. \A k \in 1 .. Len(s) - m : m + k \in 1 .. Len(s)
  OBVIOUS
<1> QED BY <1>1, <1>2

(* A stretch of the stream, unit by unit.                                  *)
LEMMA UnitsTypes ==
  ASSUME NEW from \in Nat, NEW n \in Nat
  PROVE  /\ Units(from, n) \in Seq(Nat) /\ Len(Units(from, n)) = n
         /\ \A i \in 1 .. n : Units(from, n)[i] = from + i
BY DEF Units

(* Consecutive stretches of the stream make one.                           *)
LEMMA UnitsConcat ==
  ASSUME NEW from \in Nat, NEW m \in Nat, NEW n \in Nat
  PROVE  Units(from, m) \o Units(from + m, n) = Units(from, m + n)
<1>1. \A s, t, u \in Seq(Nat) :
        /\ Len(s) = m /\ Len(t) = n /\ Len(u) = m + n
        /\ \A i \in 1 .. m : s[i] = from + i
        /\ \A i \in 1 .. n : t[i] = from + m + i
        /\ \A i \in 1 .. m + n : u[i] = from + i
        => s \o t = u
  <2>1. SUFFICES ASSUME NEW s \in Seq(Nat), NEW t \in Seq(Nat), NEW u \in Seq(Nat),
                        Len(s) = m, Len(t) = n, Len(u) = m + n,
                        \A i \in 1 .. m : s[i] = from + i,
                        \A i \in 1 .. n : t[i] = from + m + i,
                        \A i \in 1 .. m + n : u[i] = from + i
                 PROVE  s \o t = u
    OBVIOUS
  <2>2. s \o t \in Seq(Nat) /\ Len(s \o t) = m + n
    BY <2>1, ConcatElements
  <2>3. ASSUME NEW i \in 1 .. m + n
        PROVE  (s \o t)[i] = u[i]
    <3>1. (s \o t)[i] = IF i <= m THEN s[i] ELSE t[i - m]
      BY <2>1, ConcatElements
    <3>2. CASE i <= m
      <4>1. i \in 1 .. m
        BY <3>2
      <4>2. s[i] = from + i /\ u[i] = from + i
        BY <2>1, <4>1
      <4> QED BY <3>1, <3>2, <4>2
    <3>3. CASE ~(i <= m)
      <4>1. i - m \in 1 .. n /\ from + m + (i - m) = from + i
        BY <3>3
      <4> QED BY <2>1, <3>1, <3>3, <4>1
    <3> QED BY <3>2, <3>3
  <2> QED BY <2>1, <2>2, <2>3, SameElements
<1>2. from + m \in Nat /\ m + n \in Nat
  OBVIOUS
<1>3. /\ Units(from, m) \in Seq(Nat) /\ Len(Units(from, m)) = m
      /\ \A i \in 1 .. m : Units(from, m)[i] = from + i
  BY UnitsTypes
<1>4. /\ Units(from + m, n) \in Seq(Nat) /\ Len(Units(from + m, n)) = n
      /\ \A i \in 1 .. n : Units(from + m, n)[i] = from + m + i
  BY <1>2, UnitsTypes
<1>5. /\ Units(from, m + n) \in Seq(Nat) /\ Len(Units(from, m + n)) = m + n
      /\ \A i \in 1 .. m + n : Units(from, m + n)[i] = from + i
  BY <1>2, UnitsTypes
<1> QED BY <1>1, <1>3, <1>4, <1>5

(* Neighbouring stretches of the stream join into one.                     *)
LEMMA FrontConcat ==
  ASSUME NEW m \in Nat, NEW n \in Nat
  PROVE  Units(0, m) \o Units(m, n) = Units(0, m + n)
<1>1. Units(0, m) \o Units(0 + m, n) = Units(0, m + n)
  BY UnitsConcat
<1>2. 0 + m = m
  OBVIOUS
<1> QED BY <1>1, <1>2

-----------------------------------------------------------------------------
(* The image.                                                              *)

ChunkSet == [type : {"raw", "fill", "dont_care", "invalid"}, blocks : Nat]

(* What a chunk takes in the stream and on the device.                     *)
LEMMA ChunkFacts ==
  ASSUME NEW c \in ChunkSet
  PROVE  /\ ChunkHeaderWords \in Nat /\ ChunkHeaderWords > 1 /\ ChunkHeaderWords < Threshold
         /\ BlockWords \in Nat \ {0} /\ Threshold \in Nat \ {0}
         /\ c.type \in {"raw", "fill", "dont_care", "invalid"} /\ c.blocks \in Nat
         /\ P!OutputWords(c) \in Nat /\ (c.blocks > 0 => P!OutputWords(c) > 0)
         /\ P!FileWords(c) \in Nat /\ P!FileWords(c) >= ChunkHeaderWords
         /\ c.type = "raw" => P!FileWords(c) = ChunkHeaderWords + P!OutputWords(c)
         /\ c.type = "fill" => P!FileWords(c) = ChunkHeaderWords + 1
         /\ c.type = "dont_care" => P!FileWords(c) = ChunkHeaderWords
<1>1. /\ ChunkHeaderWords \in Nat /\ ChunkHeaderWords > 1 /\ ChunkHeaderWords < Threshold
      /\ BlockWords \in Nat \ {0} /\ Threshold \in Nat \ {0}
  BY WriterAssumption, DetectorAssumption
<1>2. c.type \in {"raw", "fill", "dont_care", "invalid"} /\ c.blocks \in Nat
  BY DEF ChunkSet
<1>3. P!OutputWords(c) \in Nat /\ (c.blocks > 0 => P!OutputWords(c) > 0)
  <2>1. \A a, b \in Nat : a * b \in Nat /\ (a > 0 /\ b > 0 => a * b > 0)
    OBVIOUS
  <2> QED BY <1>1, <1>2, <2>1 DEF P!OutputWords
<1>4. /\ c.type = "raw" => P!FileWords(c) = ChunkHeaderWords + P!OutputWords(c)
      /\ c.type = "fill" => P!FileWords(c) = ChunkHeaderWords + 1
      /\ c.type = "dont_care" => P!FileWords(c) = ChunkHeaderWords
      /\ c.type = "invalid" => P!FileWords(c) = ChunkHeaderWords
  BY DEF P!FileWords
<1> QED BY <1>1, <1>2, <1>3, <1>4

(* What is assumed of an image.                                            *)
LEMMA ImageFacts ==
  ASSUME NEW im \in Images
  PROVE  /\ im.body \in Seq(ChunkSet) /\ Len(im.body) \in Nat
         /\ \A i \in 1 .. Len(im.body) : im.body[i] \in ChunkSet
         /\ im.chunks \in Nat /\ im.blocks \in Nat /\ im.trailing \in Nat
<1>1. /\ im.body \in Seq(ChunkSet)
      /\ im.chunks \in Nat /\ im.blocks \in Nat /\ im.trailing \in Nat
  BY WriterAssumption DEF ChunkSet
<1> QED BY <1>1

(* The recursive definitions, unfolded once.                               *)
LEMMA ChunkStartsUnfold ==
  ASSUME NEW im \in Images
  PROVE  P!ChunkStarts(im) =
           [i \in 1 .. Len(im.body) + 1 |->
              IF i = 1 THEN Threshold
              ELSE P!ChunkStarts(im)[i - 1] + P!FileWords(im.body[i - 1])]
<1> DEFINE n == Len(im.body)
           w == [i \in 1 .. n |-> P!FileWords(im.body[i])]
<1>1. w \in [1 .. n -> Nat] /\ n \in Nat /\ Threshold \in Nat
  BY ChunkFacts, ImageFacts, DetectorAssumption
<1>2. \A i \in 2 .. n + 1 : w[i - 1] = P!FileWords(im.body[i - 1])
  BY <1>1
<1> HIDE DEF w, n
<1>3. PICK f \in [1 .. n + 1 -> Nat] :
        f[1] = Threshold /\ \A i \in 1 .. n : f[i + 1] = f[i] + w[i]
  <2>1. \A base \in Nat : \E f \in [1 .. n + 1 -> Nat] :
          f[1] = base /\ \A i \in 1 .. n : f[i + 1] = f[i] + w[i]
    BY <1>1, SumsExist, Zenon
  <2> QED BY <1>1, <2>1, Zenon
<1>4. \A i \in 2 .. n + 1 : i - 1 \in 1 .. n /\ i - 1 + 1 = i
  BY <1>1
<1>5. f = [i \in 1 .. n + 1 |->
             IF i = 1 THEN Threshold ELSE f[i - 1] + P!FileWords(im.body[i - 1])]
  BY <1>1, <1>2, <1>3, <1>4
<1> QED BY <1>5, Zenon DEF P!ChunkStarts, n

(* The same for the positions in the output.                               *)
LEMMA OutputStartsUnfold ==
  ASSUME NEW im \in Images
  PROVE  P!OutputStarts(im) =
           [i \in 1 .. Len(im.body) + 1 |->
              IF i = 1 THEN 0
              ELSE P!OutputStarts(im)[i - 1] + P!OutputWords(im.body[i - 1])]
<1> DEFINE n == Len(im.body)
           w == [i \in 1 .. n |-> P!OutputWords(im.body[i])]
<1>1. w \in [1 .. n -> Nat] /\ n \in Nat /\ 0 \in Nat
  BY ChunkFacts, ImageFacts
<1>2. \A i \in 2 .. n + 1 : w[i - 1] = P!OutputWords(im.body[i - 1])
  BY <1>1
<1> HIDE DEF w, n
<1>3. PICK f \in [1 .. n + 1 -> Nat] : f[1] = 0 /\ \A i \in 1 .. n : f[i + 1] = f[i] + w[i]
  <2>1. \A base \in Nat : \E f \in [1 .. n + 1 -> Nat] :
          f[1] = base /\ \A i \in 1 .. n : f[i + 1] = f[i] + w[i]
    BY <1>1, SumsExist, Zenon
  <2> QED BY <1>1, <2>1, Zenon
<1>4. \A i \in 2 .. n + 1 : i - 1 \in 1 .. n /\ i - 1 + 1 = i
  BY <1>1
<1>5. f = [i \in 1 .. n + 1 |->
             IF i = 1 THEN 0 ELSE f[i - 1] + P!OutputWords(im.body[i - 1])]
  BY <1>1, <1>2, <1>3, <1>4
<1> QED BY <1>5, Zenon DEF P!OutputStarts, n

(* The parser: where in the stream a chunk begins, where on the device its *)
(* output does, and how many chunks there are.                             *)
Chunks      == Len(image.body)

Chunk(i)    == image.body[i]

ChunkAt(i)  == P!ChunkStarts(image)[i]

OutputAt(i) == P!OutputStarts(image)[i]

(* Positions grow from chunk to chunk, in the stream by a header at least. *)
LEMMA PositionFacts ==
  ASSUME image \in Images
  PROVE  /\ Chunks \in Nat /\ \A i \in 1 .. Chunks : Chunk(i) \in ChunkSet
         /\ ChunkAt(1) = Threshold /\ OutputAt(1) = 0
         /\ \A i \in 1 .. Chunks : /\ ChunkAt(i + 1) = ChunkAt(i) + P!FileWords(Chunk(i))
                                   /\ OutputAt(i + 1) = OutputAt(i) + P!OutputWords(Chunk(i))
         /\ \A i \in 1 .. Chunks + 1 : ChunkAt(i) \in Nat /\ OutputAt(i) \in Nat
         /\ \A i, j \in 1 .. Chunks + 1 :
              i <= j => ChunkAt(i) <= ChunkAt(j) /\ OutputAt(i) <= OutputAt(j)
         /\ \A i, j \in 1 .. Chunks + 1 : i < j => ChunkAt(i) + ChunkHeaderWords <= ChunkAt(j)
<1>1. Chunks \in Nat /\ \A i \in 1 .. Chunks : Chunk(i) \in ChunkSet
  BY ImageFacts DEF Chunks, Chunk
<1> DEFINE w == [i \in 1 .. Chunks |-> P!FileWords(Chunk(i))]
           v == [i \in 1 .. Chunks |-> P!OutputWords(Chunk(i))]
           f == P!ChunkStarts(image)
           g == P!OutputStarts(image)
<1>2. w \in [1 .. Chunks -> Nat] /\ v \in [1 .. Chunks -> Nat]
  BY <1>1, ChunkFacts
<1>3. /\ \A i \in 1 .. Chunks : w[i] = P!FileWords(Chunk(i))
      /\ \A i \in 1 .. Chunks : v[i] = P!OutputWords(Chunk(i))
  OBVIOUS
<1> HIDE DEF w, v
<1>4. f = [i \in 1 .. Chunks + 1 |-> IF i = 1 THEN Threshold
                                     ELSE f[i - 1] + P!FileWords(Chunk(i - 1))]
  BY ChunkStartsUnfold DEF Chunks, Chunk
<1>5. g = [i \in 1 .. Chunks + 1 |-> IF i = 1 THEN 0
                                     ELSE g[i - 1] + P!OutputWords(Chunk(i - 1))]
  BY OutputStartsUnfold DEF Chunks, Chunk
<1> HIDE DEF f, g
<1>6. /\ 1 \in 1 .. Chunks + 1
      /\ \A i \in 1 .. Chunks : i + 1 \in 1 .. Chunks + 1 /\ i + 1 # 1 /\ i + 1 - 1 = i
  BY <1>1
<1>7. f[1] = Threshold /\ \A i \in 1 .. Chunks : f[i + 1] = f[i] + w[i]
  <2>1. f[1] = Threshold
    BY <1>4, <1>6
  <2>2. ASSUME NEW i \in 1 .. Chunks
        PROVE  f[i + 1] = f[i] + w[i]
    <3>1. \A k \in 1 .. Chunks + 1 :
            f[k] = IF k = 1 THEN Threshold ELSE f[k - 1] + P!FileWords(Chunk(k - 1))
      BY <1>4, Zenon
    <3>2. i + 1 \in 1 .. Chunks + 1 /\ i + 1 # 1 /\ i + 1 - 1 = i
      BY <1>6
    <3>3. f[i + 1] = f[i] + P!FileWords(Chunk(i))
      BY <3>1, <3>2
    <3> QED BY <1>3, <3>3
  <2> QED BY <2>1, <2>2
<1>8. g[1] = 0 /\ 0 \in Nat /\ \A i \in 1 .. Chunks : g[i + 1] = g[i] + v[i]
  <2>1. g[1] = 0
    BY <1>5, <1>6
  <2>2. ASSUME NEW i \in 1 .. Chunks
        PROVE  g[i + 1] = g[i] + v[i]
    <3>1. \A k \in 1 .. Chunks + 1 :
            g[k] = IF k = 1 THEN 0 ELSE g[k - 1] + P!OutputWords(Chunk(k - 1))
      BY <1>5, Zenon
    <3>2. i + 1 \in 1 .. Chunks + 1 /\ i + 1 # 1 /\ i + 1 - 1 = i
      BY <1>6
    <3>3. g[i + 1] = g[i] + P!OutputWords(Chunk(i))
      BY <3>1, <3>2
    <3> QED BY <1>3, <3>3
  <2> QED BY <2>1, <2>2
<1>9. /\ \A i \in 1 .. Chunks + 1 : f[i] \in Nat
      /\ \A i, j \in 1 .. Chunks + 1 : i <= j => f[i] <= f[j]
  BY <1>1, <1>2, <1>7, SumsGrow, DetectorAssumption
<1>10. /\ \A i \in 1 .. Chunks + 1 : g[i] \in Nat
       /\ \A i, j \in 1 .. Chunks + 1 : i <= j => g[i] <= g[j]
  BY <1>1, <1>2, <1>8, SumsGrow
<1>11. ASSUME NEW i \in 1 .. Chunks + 1, NEW j \in 1 .. Chunks + 1, i < j
       PROVE  f[i] + ChunkHeaderWords <= f[j]
  <2>1. i \in 1 .. Chunks /\ i + 1 \in 1 .. Chunks + 1 /\ i + 1 <= j
    BY <1>1, <1>11
  <2>2. f[i + 1] <= f[j] /\ f[i + 1] = f[i] + w[i] /\ f[i] \in Nat /\ f[j] \in Nat
    BY <1>7, <1>9, <2>1
  <2>3. w[i] \in Nat /\ w[i] >= ChunkHeaderWords /\ ChunkHeaderWords \in Nat
    BY <1>1, <1>3, <2>1, ChunkFacts
  <2> QED BY <2>2, <2>3
<1>12. \A i : ChunkAt(i) = f[i] /\ OutputAt(i) = g[i]
  BY DEF ChunkAt, OutputAt, f, g
<1> QED BY <1>1, <1>3, <1>7, <1>8, <1>9, <1>10, <1>11, <1>12

(* Words at the beginning of a chunk are its header; ...                   *)
LEMMA ParseAtChunk ==
  ASSUME image \in Images, NEW words \in Seq(Nat), NEW i \in 1 .. Chunks,
         Len(words) >= ChunkHeaderWords, Len(words) <= ChunkHeaderWords + 1,
         \A k \in 1 .. Len(words) : words[k] = ChunkAt(i) + k - 1
  PROVE  /\ Chunk(i).type = "invalid" => P!ParseChunkHeader(words) = -1
         /\ Chunk(i).type = "fill" /\ Len(words) = ChunkHeaderWords =>
              P!ParseChunkHeader(words) = 0
         /\ /\ Chunk(i).type # "invalid"
            /\ Chunk(i).type = "fill" => Len(words) # ChunkHeaderWords
            => P!ParseChunkHeader(words) = i
<1> DEFINE here == {j \in 1 .. Len(image.body) :
                      \A k \in 1 .. ChunkHeaderWords : words[k] = P!ChunkStarts(image)[j] + k - 1}
<1>1. ChunkHeaderWords \in Nat /\ ChunkHeaderWords > 1
  BY WriterAssumption, DetectorAssumption
<1>2. here = {j \in 1 .. Chunks :
                \A k \in 1 .. ChunkHeaderWords : words[k] = ChunkAt(j) + k - 1}
  BY DEF Chunks, ChunkAt
<1>3. i \in here
  BY <1>1, <1>2
<1>4. ASSUME NEW j \in here
      PROVE  j = i
  <2>1. j \in 1 .. Chunks /\ words[1] = ChunkAt(j) + 1 - 1 /\ words[1] = ChunkAt(i) + 1 - 1
    <3>1. 1 \in 1 .. ChunkHeaderWords /\ 1 \in 1 .. Len(words)
      BY <1>1
    <3> QED BY <1>2, <3>1
  <2>2. /\ Chunks \in Nat /\ i \in 1 .. Chunks + 1 /\ j \in 1 .. Chunks + 1
        /\ ChunkAt(i) \in Nat /\ ChunkAt(j) \in Nat
    BY <2>1, PositionFacts
  <2>3. ChunkAt(i) = ChunkAt(j)
    BY <2>1, <2>2
  <2>4. /\ i < j => ChunkAt(i) + ChunkHeaderWords <= ChunkAt(j)
        /\ j < i => ChunkAt(j) + ChunkHeaderWords <= ChunkAt(i)
    BY <2>2, PositionFacts
  <2> QED BY <1>1, <2>2, <2>3, <2>4
<1>5. here = {i}
  BY <1>3, <1>4
<1>6. P!ParseChunkHeader(words) =
        CASE \A j \in here : image.body[j].type = "invalid" -> -1
          [] \E j \in here : image.body[j].type = "fill" /\ Len(words) = ChunkHeaderWords -> 0
          [] OTHER -> CHOOSE j \in here : TRUE
  BY DEF P!ParseChunkHeader
<1> HIDE DEF here
<1>7. (CHOOSE j \in here : TRUE) = i
  BY <1>5
<1> QED BY <1>5, <1>6, <1>7 DEF Chunk

(* ... anywhere else they are not a header.                                *)
LEMMA ParseElsewhere ==
  ASSUME image \in Images, NEW words \in Seq(Nat), NEW begun \in Nat,
         words[1] = begun, \A i \in 1 .. Chunks : begun # ChunkAt(i)
  PROVE  P!ParseChunkHeader(words) = -1
<1> DEFINE here == {j \in 1 .. Len(image.body) :
                      \A k \in 1 .. ChunkHeaderWords : words[k] = P!ChunkStarts(image)[j] + k - 1}
<1>1. here = {}
  <2>1. SUFFICES ASSUME NEW j \in here PROVE FALSE
    OBVIOUS
  <2>2. 1 \in 1 .. ChunkHeaderWords
    BY WriterAssumption, DetectorAssumption
  <2>3. j \in 1 .. Chunks /\ words[1] = ChunkAt(j) + 1 - 1
    BY <2>2 DEF Chunks, ChunkAt
  <2>4. ChunkAt(j) \in Nat
    BY <2>3, PositionFacts
  <2> QED BY <2>3, <2>4
<1>2. P!ParseChunkHeader(words) =
        CASE \A j \in here : image.body[j].type = "invalid" -> -1
          [] \E j \in here : image.body[j].type = "fill" /\ Len(words) = ChunkHeaderWords -> 0
          [] OTHER -> CHOOSE j \in here : TRUE
  BY DEF P!ParseChunkHeader
<1> HIDE DEF here
<1> QED BY <1>1, <1>2

(* What chunk i writes.                                                    *)
Piece(i) == P!ExpandedChunk(image, i)

(* A piece of the expansion is the output of one chunk.                    *)
LEMMA PieceFacts ==
  ASSUME image \in Images, NEW i \in 1 .. Chunks
  PROVE  /\ \A o : o \in DOMAIN Piece(i) <=> /\ Chunk(i).type \in {"raw", "fill"}
                                             /\ o \in OutputAt(i) .. OutputAt(i + 1) - 1
         /\ \A o \in DOMAIN Piece(i) :
              Piece(i)[o] = IF Chunk(i).type = "raw"
                            THEN <<"raw", ChunkAt(i) + ChunkHeaderWords + (o - OutputAt(i))>>
                            ELSE <<"fill", ChunkAt(i) + ChunkHeaderWords>>
<1> DEFINE to == IF Chunk(i).type \in {"raw", "fill"}
                 THEN OutputAt(i) + P!OutputWords(Chunk(i)) - 1 ELSE OutputAt(i) - 1
<1>1. Piece(i) = [o \in OutputAt(i) .. to |->
                    IF Chunk(i).type = "raw"
                    THEN <<"raw", ChunkAt(i) + ChunkHeaderWords + (o - OutputAt(i))>>
                    ELSE <<"fill", ChunkAt(i) + ChunkHeaderWords>>]
  BY Zenon DEF Piece, P!ExpandedChunk, OutputAt, ChunkAt, Chunk
<1>2. /\ OutputAt(i) \in Nat /\ P!OutputWords(Chunk(i)) \in Nat
      /\ OutputAt(i + 1) = OutputAt(i) + P!OutputWords(Chunk(i))
  <2>1. i \in 1 .. Chunks + 1
    BY PositionFacts
  <2> QED BY <2>1, PositionFacts, ChunkFacts
<1>3. CASE Chunk(i).type \in {"raw", "fill"}
  <2>1. to = OutputAt(i + 1) - 1
    BY <1>2, <1>3
  <2> HIDE DEF to
  <2> QED BY <1>1, <1>3, <2>1
<1>4. CASE Chunk(i).type \notin {"raw", "fill"}
  <2>1. to = OutputAt(i) - 1
    BY <1>4
  <2>2. OutputAt(i) .. to = {}
    BY <1>2, <2>1
  <2> HIDE DEF to
  <2> QED BY <1>1, <1>4, <2>2
<1> QED BY <1>3, <1>4

(* No two chunks write the same position.                                  *)
LEMMA PiecesDisjoint ==
  ASSUME image \in Images, NEW i \in 1 .. Chunks, NEW j \in 1 .. Chunks, i # j,
         NEW o, o \in DOMAIN Piece(i), o \in DOMAIN Piece(j)
  PROVE  FALSE
<1>1. /\ Chunks \in Nat
      /\ i \in 1 .. Chunks + 1 /\ j \in 1 .. Chunks + 1
      /\ i + 1 \in 1 .. Chunks + 1 /\ j + 1 \in 1 .. Chunks + 1
  BY PositionFacts
<1>2. o \in OutputAt(i) .. OutputAt(i + 1) - 1 /\ o \in OutputAt(j) .. OutputAt(j + 1) - 1
  BY PieceFacts
<1>3. /\ OutputAt(i) \in Nat /\ OutputAt(i + 1) \in Nat
      /\ OutputAt(j) \in Nat /\ OutputAt(j + 1) \in Nat
      /\ i + 1 <= j => OutputAt(i + 1) <= OutputAt(j)
      /\ j + 1 <= i => OutputAt(j + 1) <= OutputAt(i)
  BY <1>1, PositionFacts
<1>4. i + 1 <= j \/ j + 1 <= i
  BY <1>1
<1> QED BY <1>2, <1>3, <1>4

(* The expansion of the image is what its chunks write.                    *)
LEMMA ExpandedFacts ==
  ASSUME image \in Images
  PROVE  /\ \A o : o \in DOMAIN P!Expanded(image) <=> \E i \in 1 .. Chunks : o \in DOMAIN Piece(i)
         /\ \A i \in 1 .. Chunks : \A o \in DOMAIN Piece(i) :
              P!Expanded(image)[o] = Piece(i)[o]
<1> DEFINE w == [i \in 1 .. Chunks |-> Piece(i)]
           Rec(f) == f = [i \in 0 .. Chunks |-> IF i = 0 THEN <<>>
                                               ELSE P!Over(Piece(i), f[i - 1])]
<1>1. Chunks \in Nat
  BY PositionFacts
<1>2. \A i \in 1 .. Chunks : w[i] = Piece(i)
  OBVIOUS
<1> HIDE DEF w
<1>3. \E f : Rec(f)
  <2>1. PICK f : f = [i \in 0 .. Chunks |-> IF i = 0 THEN <<>> ELSE P!Over(w[i], f[i - 1])]
    BY <1>1, LayersExist
  <2>2. \A i \in 0 .. Chunks : i # 0 => i \in 1 .. Chunks
    BY <1>1
  <2>3. [i \in 0 .. Chunks |-> IF i = 0 THEN <<>> ELSE P!Over(w[i], f[i - 1])]
          = [i \in 0 .. Chunks |-> IF i = 0 THEN <<>> ELSE P!Over(Piece(i), f[i - 1])]
    BY <1>2, <2>2
  <2> QED BY <2>1, <2>3
<1> DEFINE f == CHOOSE g : Rec(g)
<1>4. Rec(f)
  BY <1>3, Zenon
<1>5. P!Expanded(image) = f[Chunks]
  BY Zenon DEF P!Expanded, Piece, Chunks
<1> HIDE DEF f
<1>6. Layered(Chunks, w, f)
  <2>1. \A i \in 0 .. Chunks : f[i] = IF i = 0 THEN <<>> ELSE P!Over(Piece(i), f[i - 1])
    BY <1>4, Zenon
  <2>2. 0 \in 0 .. Chunks /\ \A i \in 1 .. Chunks : i \in 0 .. Chunks /\ i # 0
    BY <1>1
  <2> QED BY <1>2, <2>1, <2>2 DEF Layered
<1>7. Apart(Chunks, w)
  <2>1. SUFFICES ASSUME NEW i \in 1 .. Chunks, NEW j \in 1 .. Chunks, i # j,
                        NEW o, o \in DOMAIN Piece(i), o \in DOMAIN Piece(j)
                 PROVE  FALSE
    BY <1>2 DEF Apart
  <2> QED BY <2>1, PiecesDisjoint
<1>8. Shows(Chunks, w, f[Chunks])
  BY <1>1, <1>6, <1>7, LayersShow
<1> QED BY <1>2, <1>5, <1>8 DEF Shows

-----------------------------------------------------------------------------
(* The parser.                                                             *)

(* Where in the stream what is in the parser's buffer begins.              *)
Begun == next - Len(pbuffer)

(* The header's count has not been reached.  One of 0 never is: it is      *)
(* looked at after a chunk.                                                *)
BelowCount == image.chunks > 0 => processed < image.chunks

(* Before the header is complete nothing has been done.                    *)
AtHeader ==
  state = "WaitingHeader" =>
    /\ Len(pbuffer) < Threshold /\ next = Len(pbuffer)
    /\ processed = 0 /\ offset = 0 /\ at = 0 /\ device = <<>>

(* Between two chunks the parser stands at the beginning of the next one,  *)
(* or, past an empty RAW chunk, one word behind it; it holds a stretch of  *)
(* the stream, which is a whole header only if that is not all of a FILL   *)
(* chunk.                                                                  *)
AtChunk ==
  state = "WaitingChunkHeader" =>
    /\ processed <= Chunks /\ BelowCount /\ offset = OutputAt(processed + 1)
    /\ Len(pbuffer) <= ChunkHeaderWords
    /\ \A k \in 1 .. Len(pbuffer) : pbuffer[k] = Begun + k - 1
    /\ \/ Begun = ChunkAt(processed + 1)
       \/ Begun = ChunkAt(processed + 1) + 1 /\ ~P!NoEmptyRaw(image)
    /\ Len(pbuffer) = ChunkHeaderWords =>
         /\ Begun = ChunkAt(processed + 1) /\ processed < Chunks
         /\ Chunk(processed + 1).type = "fill"

(* In a RAW chunk the data still to come end with the chunk.               *)
InRawData ==
  state = "RawData" =>
    /\ processed < Chunks /\ BelowCount
    /\ Chunk(processed + 1).type = "raw" /\ pbuffer = <<>>
    /\ raw > 0 /\ raw <= P!OutputWords(Chunk(processed + 1))
    /\ next + raw = ChunkAt(processed + 2)
    /\ offset + raw = OutputAt(processed + 2)

AtEnd == P!CompleteMeansWhole

Accepting ==
  P!WellFormed(image) /\ P!NoEmptyRaw(image) => state # "Failed"

ParserInv ==
  /\ P!TypeOK /\ AtHeader /\ AtChunk /\ InRawData /\ AtEnd /\ Accepting

(* The parser starts in its invariant.                                     *)
LEMMA ParserInit == P!Init => ParserInv
<1> SUFFICES ASSUME P!Init PROVE ParserInv
  OBVIOUS
<1>1. /\ image \in Images /\ state = "WaitingHeader" /\ pbuffer = <<>> /\ processed = 0
      /\ raw = 0 /\ offset = 0 /\ next = 0 /\ avail = 0 /\ at = 0 /\ device = <<>>
  BY DEF P!Init
<1>2. Len(pbuffer) = 0 /\ pbuffer \in Seq(Nat) /\ 0 < Threshold /\ DOMAIN device \subseteq Nat
  BY <1>1, DetectorAssumption
<1>3. P!TypeOK
  BY <1>1, <1>2, DetectorAssumption DEF P!TypeOK, P!States
<1> QED BY <1>1, <1>2, <1>3
        DEF ParserInv, AtHeader, AtChunk, InRawData, AtEnd, Accepting, P!CompleteMeansWhole

(* Nothing of the image changes.                                           *)
LEMMA SameImage ==
  ASSUME image' = image
  PROVE  /\ Chunks' = Chunks /\ \A i : /\ Chunk(i)' = Chunk(i) /\ ChunkAt(i)' = ChunkAt(i)
                                       /\ OutputAt(i)' = OutputAt(i)
         /\ P!NoEmptyRaw(image)' = P!NoEmptyRaw(image)
         /\ P!WellFormed(image)' = P!WellFormed(image)
BY DEF Chunks, Chunk, ChunkAt, OutputAt

(* A chunk is done and the next one begins here.                           *)
LEMMA ChunkDoneKeeps ==
  ASSUME ParserInv, image' = image, processed < Chunks, BelowCount,
         P!ChunkDone(offset'), offset' = OutputAt(processed + 2),
         next' \in Nat, avail' \in Nat, next' <= avail', raw' \in Nat, at' \in Nat,
         DOMAIN device' \subseteq Nat,
         pbuffer' \in Seq(Nat), Len(pbuffer') < ChunkHeaderWords,
         \A k \in 1 .. Len(pbuffer') : pbuffer'[k] = next' - Len(pbuffer') + k - 1,
         \/ next' - Len(pbuffer') = ChunkAt(processed + 2)
         \/ next' - Len(pbuffer') = ChunkAt(processed + 2) + 1 /\ ~P!NoEmptyRaw(image)
  PROVE  ParserInv'
<1>1. /\ image \in Images /\ processed \in Nat /\ image.chunks \in Nat /\ Chunks \in Nat
      /\ ChunkHeaderWords \in Nat /\ ChunkHeaderWords < Threshold /\ Threshold \in Nat
  <2>1. image \in Images /\ processed \in Nat
    BY DEF ParserInv, P!TypeOK
  <2>2. image.chunks \in Nat /\ Chunks \in Nat
    BY <2>1, ImageFacts, PositionFacts
  <2>3. ChunkHeaderWords \in Nat /\ ChunkHeaderWords < Threshold /\ Threshold \in Nat
    BY WriterAssumption, DetectorAssumption
  <2> QED BY <2>1, <2>2, <2>3
<1>2. /\ processed' = processed + 1
      /\ processed + 1 # image.chunks => state' = "WaitingChunkHeader"
      /\ processed + 1 = image.chunks /\ offset' # image.blocks * BlockWords => state' = "Failed"
      /\ processed + 1 = image.chunks /\ offset' = image.blocks * BlockWords => state' = "Complete"
  <2> DEFINE last  == processed + 1 = image.chunks
             whole == offset' = image.blocks * BlockWords
  <2>1. /\ processed' = processed + 1
        /\ state' = CASE ~last          -> "WaitingChunkHeader"
                      [] last /\ ~whole -> "Failed"
                      [] last /\ whole  -> "Complete"
    BY DEF P!ChunkDone
  <2> HIDE DEF last, whole
  <2>2. /\ ~last => state' = "WaitingChunkHeader"
        /\ last /\ ~whole => state' = "Failed"
        /\ last /\ whole => state' = "Complete"
    BY <2>1, Zenon
  <2> QED BY <2>1, <2>2 DEF last, whole
<1>3. /\ processed + 2 \in 1 .. Chunks + 1 /\ processed' + 1 = processed + 2
      /\ offset' \in Nat
  <2>1. processed + 2 \in 1 .. Chunks + 1 /\ processed' + 1 = processed + 2
    BY <1>1, <1>2
  <2> QED BY <1>1, <2>1, PositionFacts
<1>4. P!TypeOK'
  <2>1. state' \in P!States
    BY <1>2 DEF P!States
  <2>2. Len(pbuffer') <= Threshold /\ processed' \in Nat
    BY <1>1, <1>2
  <2> QED BY <1>1, <1>3, <2>1, <2>2 DEF P!TypeOK
<1>5. AtHeader' /\ InRawData'
  BY <1>2 DEF AtHeader, InRawData
<1>6. AtChunk'
  <2>1. state' = "WaitingChunkHeader" =>
          processed' <= Chunks /\ BelowCount' /\ Len(pbuffer') <= ChunkHeaderWords
          /\ Len(pbuffer') # ChunkHeaderWords
    BY <1>1, <1>2 DEF BelowCount
  <2> QED BY <1>3, <2>1, SameImage DEF AtChunk, Begun
<1>7. AtEnd'
  <2>1. state' = "Complete" =>
          /\ processed' = image.chunks /\ image.chunks <= Chunks
          /\ offset' = OutputAt(image.chunks + 1) /\ offset' = image.blocks * BlockWords
    <3>1. state' = "Complete" =>
            processed + 1 = image.chunks /\ offset' = image.blocks * BlockWords
      BY <1>2
    <3>2. processed' = processed + 1
      BY <1>2
    <3>3. processed + 1 = image.chunks =>
            /\ processed' = image.chunks /\ image.chunks <= Chunks
            /\ offset' = OutputAt(image.chunks + 1)
      <4>1. processed + 1 = image.chunks =>
              image.chunks <= Chunks /\ image.chunks + 1 = processed + 2
        BY <1>1
      <4> QED BY <3>2, <4>1
    <3> QED BY <3>1, <3>3
  <2> QED BY <2>1 DEF AtEnd, P!CompleteMeansWhole, OutputAt, Chunks
<1>8. Accepting'
  <2>1. SUFFICES ASSUME P!WellFormed(image), processed + 1 = image.chunks
                 PROVE  offset' = image.blocks * BlockWords
    BY <1>2, SameImage DEF Accepting
  <2>2. image.chunks = Chunks /\ OutputAt(Chunks + 1) = image.blocks * BlockWords
    BY <2>1 DEF P!WellFormed, OutputAt, Chunks
  <2>3. processed + 2 = Chunks + 1
    BY <1>1, <2>1, <2>2
  <2> QED BY <2>2, <2>3
<1> QED BY <1>4, <1>5, <1>6, <1>7, <1>8 DEF ParserInv

(* The parser has had no turn.                                             *)
LEMMA FeedKeeps ==
  ASSUME ParserInv, NEW n \in Nat, P!Feed(n)
  PROVE  ParserInv'
<1>1. /\ avail' = avail + n /\ image' = image
      /\ UNCHANGED <<state, pbuffer, processed, raw, offset, next, at, device>>
  BY DEF P!Feed
<1>2. P!TypeOK'
  BY <1>1 DEF ParserInv, P!TypeOK
<1>3. AtHeader' /\ AtChunk' /\ InRawData'
  BY <1>1, SameImage DEF ParserInv, AtHeader, AtChunk, InRawData, Begun, BelowCount
<1>4. AtEnd' /\ Accepting'
  BY <1>1, SameImage DEF ParserInv, AtEnd, Accepting, P!CompleteMeansWhole
<1> QED BY <1>2, <1>3, <1>4 DEF ParserInv

(* ParserState::WaitingHeader: in parts or at once.                        *)
LEMMA HeaderTurnKeeps ==
  ASSUME ParserInv, P!HeaderTurn
  PROVE  ParserInv'
<1> DEFINE take == P!Smaller(Threshold - Len(pbuffer), P!Remaining)
<1>1. /\ state = "WaitingHeader" /\ avail - next > 0 /\ next' = next + take
      /\ UNCHANGED <<image, processed, raw, offset, avail, at, device>>
      /\ Len(pbuffer) + take = Threshold => pbuffer' = <<>> /\ state' = "WaitingChunkHeader"
      /\ Len(pbuffer) + take # Threshold => pbuffer' = pbuffer \o P!Words(take) /\ state' = state
  BY DEF P!HeaderTurn, P!Remaining
<1>2. /\ image \in Images /\ pbuffer \in Seq(Nat) /\ next \in Nat /\ avail \in Nat
      /\ Len(pbuffer) < Threshold /\ Threshold \in Nat \ {0} /\ next = Len(pbuffer)
      /\ processed = 0 /\ offset = 0 /\ at = 0 /\ device = <<>>
      /\ ChunkHeaderWords \in Nat \ {0}
  BY <1>1, WriterAssumption, DetectorAssumption DEF ParserInv, P!TypeOK, AtHeader
<1>3. /\ take \in Nat /\ take <= Threshold - Len(pbuffer) /\ take <= avail - next
  BY <1>1, <1>2 DEF P!Smaller, P!Remaining
<1> HIDE DEF take
<1>4. next' \in Nat /\ next' <= avail
  BY <1>1, <1>2, <1>3
<1>5. CASE Len(pbuffer) + take = Threshold
  <2>1. pbuffer' = <<>> /\ state' = "WaitingChunkHeader" /\ next' = Threshold
    BY <1>1, <1>2, <1>5
  <2>2. P!TypeOK'
    BY <1>1, <1>2, <1>4, <2>1 DEF ParserInv, P!TypeOK, P!States
  <2>3. AtChunk'
    <3>1. /\ Chunks \in Nat /\ ChunkAt(1) = Threshold /\ OutputAt(1) = 0
          /\ image.chunks \in Nat
      BY <1>2, PositionFacts, ImageFacts
    <3>2. Len(pbuffer') = 0 /\ Begun' = Threshold
      BY <1>2, <2>1 DEF Begun
    <3>3. BelowCount'
      BY <1>1, <1>2, <2>1, <3>1 DEF BelowCount
    <3> QED BY <1>1, <1>2, <2>1, <3>1, <3>2, <3>3, SameImage DEF AtChunk
  <2>4. AtHeader' /\ InRawData' /\ AtEnd' /\ Accepting'
    BY <2>1 DEF AtHeader, InRawData, AtEnd, Accepting, P!CompleteMeansWhole
  <2> QED BY <2>2, <2>3, <2>4 DEF ParserInv
<1>6. CASE Len(pbuffer) + take # Threshold
  <2>1. P!Words(take) \in Seq(Nat) /\ Len(P!Words(take)) = take
    BY <1>2, <1>3 DEF P!Words
  <2>2. pbuffer' \in Seq(Nat) /\ Len(pbuffer') = Len(pbuffer) + take /\ state' = "WaitingHeader"
    BY <1>1, <1>2, <1>6, <2>1, ConcatElements
  <2>3. P!TypeOK'
    BY <1>1, <1>2, <1>3, <1>4, <2>2 DEF ParserInv, P!TypeOK, P!States
  <2>4. AtHeader'
    BY <1>1, <1>2, <1>3, <1>6, <2>2 DEF AtHeader
  <2>5. AtChunk' /\ InRawData' /\ AtEnd' /\ Accepting'
    BY <2>2 DEF AtChunk, InRawData, AtEnd, Accepting, P!CompleteMeansWhole
  <2> QED BY <2>3, <2>4, <2>5 DEF ParserInv
<1> QED BY <1>5, <1>6

(* ParserState::Complete: the rest of the input is dropped.                *)
LEMMA CompleteTurnKeeps ==
  ASSUME ParserInv, P!CompleteTurn
  PROVE  ParserInv'
<1>1. /\ state = "Complete" /\ next' = avail
      /\ UNCHANGED <<image, state, pbuffer, processed, raw, offset, avail, at, device>>
  BY DEF P!CompleteTurn
<1>2. P!TypeOK'
  BY <1>1 DEF ParserInv, P!TypeOK
<1>3. AtHeader' /\ AtChunk' /\ InRawData'
  BY <1>1 DEF AtHeader, AtChunk, InRawData
<1>4. AtEnd' /\ Accepting'
  BY <1>1, SameImage DEF ParserInv, AtEnd, Accepting, P!CompleteMeansWhole
<1> QED BY <1>2, <1>3, <1>4 DEF ParserInv

(* ParserState::RawData: data up to the end of the chunk or of the input.  *)
LEMMA RawTurnKeeps ==
  ASSUME ParserInv, P!RawTurn
  PROVE  ParserInv'
<1> DEFINE take == P!Smaller(raw, P!Remaining)
<1>1. /\ state = "RawData" /\ avail - next > 0
      /\ at' = at + take /\ offset' = offset + take /\ raw' = raw - take /\ next' = next + take
      /\ raw' = 0 => P!ChunkDone(offset')
      /\ raw' # 0 => state' = state /\ processed' = processed
      /\ image' = image /\ pbuffer' = pbuffer /\ avail' = avail
  BY DEF P!RawTurn, P!Remaining
<1>2. DOMAIN device' = at .. at + take - 1 \union DOMAIN device
  BY DEF P!RawTurn, P!Written, P!Over
<1>3. /\ image \in Images /\ raw \in Nat \ {0} /\ next \in Nat /\ avail \in Nat
      /\ at \in Nat /\ offset \in Nat /\ processed \in Nat /\ DOMAIN device \subseteq Nat
      /\ processed < Chunks /\ BelowCount /\ pbuffer = <<>>
      /\ Chunk(processed + 1).type = "raw" /\ raw <= P!OutputWords(Chunk(processed + 1))
      /\ next + raw = ChunkAt(processed + 2) /\ offset + raw = OutputAt(processed + 2)
      /\ Chunks \in Nat /\ P!OutputWords(Chunk(processed + 1)) \in Nat
      /\ ChunkHeaderWords \in Nat \ {0}
  <2>1. image \in Images /\ Chunks \in Nat
    BY PositionFacts DEF ParserInv, P!TypeOK
  <2>2. processed \in Nat /\ processed < Chunks
    BY <1>1 DEF ParserInv, P!TypeOK, InRawData
  <2>3. processed + 1 \in 1 .. Chunks
    BY <2>1, <2>2
  <2>4. P!OutputWords(Chunk(processed + 1)) \in Nat /\ ChunkHeaderWords \in Nat \ {0}
    BY <2>1, <2>3, PositionFacts, ChunkFacts
  <2> QED BY <1>1, <2>1, <2>2, <2>4 DEF ParserInv, P!TypeOK, InRawData
<1>4. /\ take \in Nat \ {0} /\ take <= raw /\ take <= avail - next
  BY <1>1, <1>3 DEF P!Smaller, P!Remaining
<1> HIDE DEF take
<1>5. /\ next' \in Nat /\ next' <= avail /\ at' \in Nat /\ offset' \in Nat /\ raw' \in Nat
      /\ next' + raw' = ChunkAt(processed + 2) /\ offset' + raw' = OutputAt(processed + 2)
      /\ raw' <= P!OutputWords(Chunk(processed + 1))
  BY <1>1, <1>3, <1>4
<1>6. DOMAIN device' \subseteq Nat
  BY <1>2, <1>3, <1>4
<1>7. CASE raw' = 0
  <2>1. Len(pbuffer') = 0 /\ pbuffer' \in Seq(Nat) /\ 0 < ChunkHeaderWords
    BY <1>1, <1>3
  <2>2. next' - Len(pbuffer') = ChunkAt(processed + 2) /\ offset' = OutputAt(processed + 2)
    BY <1>5, <1>7, <2>1
  <2>3. \A k \in 1 .. Len(pbuffer') : pbuffer'[k] = next' - Len(pbuffer') + k - 1
    BY <2>1
  <2> QED BY <1>1, <1>3, <1>5, <1>6, <1>7, <2>1, <2>2, <2>3, ChunkDoneKeeps
<1>8. CASE raw' # 0
  <2>1. P!TypeOK'
    BY <1>1, <1>5, <1>6, <1>8 DEF ParserInv, P!TypeOK
  <2>2. InRawData'
    <3>1. /\ processed' = processed /\ image' = image /\ pbuffer' = <<>> /\ raw' > 0
          /\ raw' <= P!OutputWords(Chunk(processed + 1))
      <4>1. raw' \in Nat /\ raw' # 0
        BY <1>5, <1>8
      <4>2. raw' > 0
        BY <4>1
      <4> QED BY <1>1, <1>3, <1>5, <1>8, <4>2
    <3> QED BY <1>3, <1>5, <3>1 DEF InRawData, BelowCount, Chunks, Chunk, ChunkAt, OutputAt
  <2>3. AtHeader' /\ AtChunk' /\ AtEnd' /\ Accepting'
    BY <1>1, <1>8 DEF AtHeader, AtChunk, AtEnd, Accepting, P!CompleteMeansWhole
  <2> QED BY <2>1, <2>2, <2>3 DEF ParserInv
<1> QED BY <1>7, <1>8

(* What the parser sees in a turn before it looks for a chunk header.      *)
ParserTakes == P!Smaller(ChunkHeaderWords + 1 - Len(pbuffer), P!Remaining)

ParserSees == pbuffer \o P!Words(ParserTakes)

(* What the parser takes to complete a chunk header is a stretch of the stream. *)
LEMMA SeenFacts ==
  ASSUME ParserInv, state = "WaitingChunkHeader", P!Remaining > 0
  PROVE  /\ ParserTakes \in Nat \ {0} /\ ParserTakes <= avail - next
         /\ ParserSees \in Seq(Nat) /\ Len(ParserSees) = Len(pbuffer) + ParserTakes
         /\ Len(ParserSees) <= ChunkHeaderWords + 1
         /\ Begun \in Nat /\ next + ParserTakes = Begun + Len(ParserSees)
         /\ \A k \in 1 .. Len(ParserSees) : ParserSees[k] = Begun + k - 1
<1>1. /\ pbuffer \in Seq(Nat) /\ next \in Nat /\ avail \in Nat /\ image \in Images
      /\ Len(pbuffer) <= ChunkHeaderWords /\ ChunkHeaderWords \in Nat
      /\ \A k \in 1 .. Len(pbuffer) : pbuffer[k] = Begun + k - 1
      /\ processed \in Nat /\ processed <= Chunks /\ Chunks \in Nat
  BY PositionFacts, WriterAssumption, DetectorAssumption DEF ParserInv, P!TypeOK, AtChunk
<1>2. /\ ParserTakes \in Nat \ {0} /\ ParserTakes <= avail - next
      /\ ParserTakes <= ChunkHeaderWords + 1 - Len(pbuffer)
  BY <1>1 DEF ParserTakes, P!Smaller, P!Remaining
<1>3. Begun \in Nat
  <2>1. processed + 1 \in 1 .. Chunks + 1
    BY <1>1
  <2>2. ChunkAt(processed + 1) \in Nat
    BY <1>1, <2>1, PositionFacts
  <2> QED BY <2>2 DEF ParserInv, AtChunk
<1>4. /\ P!Words(ParserTakes) \in Seq(Nat) /\ Len(P!Words(ParserTakes)) = ParserTakes
      /\ \A k \in 1 .. ParserTakes : P!Words(ParserTakes)[k] = next + k - 1
  BY <1>1, <1>2 DEF P!Words
<1>5. /\ ParserSees \in Seq(Nat) /\ Len(ParserSees) = Len(pbuffer) + ParserTakes
      /\ \A k \in 1 .. Len(pbuffer) + ParserTakes :
           ParserSees[k] = IF k <= Len(pbuffer) THEN pbuffer[k]
                           ELSE P!Words(ParserTakes)[k - Len(pbuffer)]
  BY <1>1, <1>4, ConcatElements DEF ParserSees
<1>6. next + ParserTakes = Begun + Len(ParserSees)
  BY <1>1, <1>2, <1>5 DEF Begun
<1>7. ASSUME NEW k \in 1 .. Len(ParserSees)
      PROVE  ParserSees[k] = Begun + k - 1
  <2>1. CASE k <= Len(pbuffer)
    BY <1>1, <1>5, <2>1
  <2>2. CASE ~(k <= Len(pbuffer))
    <3>1. k - Len(pbuffer) \in 1 .. ParserTakes
      BY <1>1, <1>2, <1>5, <2>2
    <3>2. ParserSees[k] = next + (k - Len(pbuffer)) - 1
      BY <1>4, <1>5, <2>2, <3>1
    <3> QED BY <1>1, <3>2 DEF Begun
  <2> QED BY <2>1, <2>2
<1> QED BY <1>1, <1>2, <1>3, <1>5, <1>6, <1>7

(* A turn that looks for a chunk header; it has the next chunk's.          *)
LooksForHeader ==
  /\ ParserInv /\ state = "WaitingChunkHeader" /\ P!Remaining > 0
  /\ next' = next + ParserTakes /\ image' = image /\ avail' = avail

HeaderSeen ==
  /\ LooksForHeader
  /\ processed < Chunks /\ Begun = ChunkAt(processed + 1) /\ Len(ParserSees) >= ChunkHeaderWords

(* At a header that is complete the parser looks at the chunk it stands at. *)
LEMMA HeaderSeenFacts ==
  ASSUME HeaderSeen
  PROVE  /\ image \in Images /\ processed \in Nat /\ Chunks \in Nat /\ BelowCount
         /\ at \in Nat /\ offset \in Nat /\ raw \in Nat /\ DOMAIN device \subseteq Nat
         /\ processed + 1 \in 1 .. Chunks /\ Chunk(processed + 1) \in ChunkSet
         /\ P!OutputWords(Chunk(processed + 1)) \in Nat
         /\ P!FileWords(Chunk(processed + 1)) \in Nat
         /\ ChunkAt(processed + 1) \in Nat
         /\ ChunkAt(processed + 2) = ChunkAt(processed + 1) + P!FileWords(Chunk(processed + 1))
         /\ OutputAt(processed + 2) = offset + P!OutputWords(Chunk(processed + 1))
         /\ ChunkHeaderWords \in Nat /\ ChunkHeaderWords > 1
         /\ ParserSees \in Seq(Nat)
         /\ Len(ParserSees) = ChunkHeaderWords \/ Len(ParserSees) = ChunkHeaderWords + 1
         /\ next' \in Nat /\ avail' \in Nat /\ next' <= avail'
         /\ next' = ChunkAt(processed + 1) + Len(ParserSees)
         /\ \A k \in 1 .. Len(ParserSees) : ParserSees[k] = ChunkAt(processed + 1) + k - 1
<1> USE DEF HeaderSeen, LooksForHeader
<1>1. /\ image \in Images /\ processed \in Nat /\ Chunks \in Nat /\ BelowCount
      /\ at \in Nat /\ offset \in Nat /\ raw \in Nat /\ DOMAIN device \subseteq Nat
      /\ next \in Nat /\ avail \in Nat /\ next <= avail /\ offset = OutputAt(processed + 1)
  BY PositionFacts DEF ParserInv, P!TypeOK, AtChunk
<1>2. processed + 1 \in 1 .. Chunks /\ processed + 1 \in 1 .. Chunks + 1
      /\ processed + 1 + 1 = processed + 2
  BY <1>1
<1>3. /\ Chunk(processed + 1) \in ChunkSet /\ ChunkAt(processed + 1) \in Nat
      /\ ChunkAt(processed + 2) = ChunkAt(processed + 1) + P!FileWords(Chunk(processed + 1))
      /\ OutputAt(processed + 2) = offset + P!OutputWords(Chunk(processed + 1))
  BY <1>1, <1>2, PositionFacts
<1>4. /\ P!OutputWords(Chunk(processed + 1)) \in Nat
      /\ P!FileWords(Chunk(processed + 1)) \in Nat
      /\ ChunkHeaderWords \in Nat /\ ChunkHeaderWords > 1
  BY <1>3, ChunkFacts
<1>5. /\ ParserTakes \in Nat \ {0} /\ ParserTakes <= avail - next
      /\ ParserSees \in Seq(Nat) /\ Len(ParserSees) <= ChunkHeaderWords + 1
      /\ next + ParserTakes = Begun + Len(ParserSees)
      /\ \A k \in 1 .. Len(ParserSees) : ParserSees[k] = Begun + k - 1
  BY SeenFacts
<1>6. Len(ParserSees) = ChunkHeaderWords \/ Len(ParserSees) = ChunkHeaderWords + 1
  BY <1>4, <1>5
<1>7. /\ next' \in Nat /\ avail' \in Nat /\ next' <= avail'
      /\ next' = ChunkAt(processed + 1) + Len(ParserSees)
  BY <1>1, <1>5
<1> QED BY <1>1, <1>2, <1>3, <1>4, <1>5, <1>6, <1>7

(* A DONT_CARE chunk is passed over, with a Seek.                          *)
LEMMA DontCareChunkKeeps ==
  ASSUME HeaderSeen, Chunk(processed + 1).type = "dont_care",
         P!DontCareChunk(Chunk(processed + 1), ParserSees)
  PROVE  ParserInv'
<1> DEFINE c    == Chunk(processed + 1)
           here == ChunkAt(processed + 1)
           size == Len(ParserSees)
<1>1. /\ offset' = offset + P!OutputWords(c) /\ at' = offset'
      /\ pbuffer' = SubSeq(ParserSees, ChunkHeaderWords + 1, size)
      /\ P!ChunkDone(offset') /\ raw' = raw /\ device' = device
  BY DEF P!DontCareChunk
<1>2. /\ BelowCount /\ offset \in Nat /\ raw \in Nat /\ DOMAIN device \subseteq Nat
      /\ c \in ChunkSet /\ P!OutputWords(c) \in Nat /\ here \in Nat
      /\ ChunkAt(processed + 2) = here + P!FileWords(c)
      /\ OutputAt(processed + 2) = offset + P!OutputWords(c)
      /\ ChunkHeaderWords \in Nat /\ ChunkHeaderWords > 1
      /\ next' \in Nat /\ avail' \in Nat /\ next' <= avail' /\ next' = here + size
  BY HeaderSeenFacts
<1>3. /\ ParserSees \in Seq(Nat)
      /\ size = ChunkHeaderWords \/ size = ChunkHeaderWords + 1
      /\ \A k \in 1 .. size : ParserSees[k] = here + k - 1
  BY HeaderSeenFacts
<1>4. c.type = "dont_care" /\ processed < Chunks /\ ParserInv /\ image' = image
  BY DEF HeaderSeen, LooksForHeader
<1>5. /\ pbuffer' \in Seq(Nat) /\ Len(pbuffer') = size - ChunkHeaderWords
      /\ \A k \in 1 .. size - ChunkHeaderWords : pbuffer'[k] = here + ChunkHeaderWords + k - 1
  <2>1. ChunkHeaderWords <= Len(ParserSees)
    BY <1>2, <1>3
  <2> HIDE DEF here
  <2>2. \A k \in 1 .. Len(ParserSees) : ParserSees[k] = here + k - 1
    BY <1>3
  <2>3. LET rest == SubSeq(ParserSees, ChunkHeaderWords + 1, Len(ParserSees))
        IN  /\ rest \in Seq(Nat) /\ Len(rest) = Len(ParserSees) - ChunkHeaderWords
            /\ \A k \in 1 .. Len(ParserSees) - ChunkHeaderWords :
                 rest[k] = here + ChunkHeaderWords + k - 1
    BY <1>2, <1>3, <2>1, <2>2, StretchDrop
  <2> QED BY <1>1, <2>3
<1>6. size \in Nat
  BY <1>2, <1>3
<1> HIDE DEF c, here, size
<1>7. P!FileWords(c) = ChunkHeaderWords
  BY <1>2, <1>4, ChunkFacts
<1>8. offset' = OutputAt(processed + 2) /\ offset' \in Nat /\ at' \in Nat
  BY <1>1, <1>2
<1>9. /\ Len(pbuffer') < ChunkHeaderWords /\ next' - Len(pbuffer') = ChunkAt(processed + 2)
      /\ next' - Len(pbuffer') = here + ChunkHeaderWords
  BY <1>2, <1>3, <1>5, <1>6, <1>7
<1>10. \A k \in 1 .. Len(pbuffer') : pbuffer'[k] = next' - Len(pbuffer') + k - 1
  BY <1>5, <1>9
<1> QED BY <1>1, <1>2, <1>4, <1>5, <1>8, <1>9, <1>10, ChunkDoneKeeps

(* A FILL chunk is written at once.                                        *)
LEMMA FillChunkKeeps ==
  ASSUME HeaderSeen, Chunk(processed + 1).type = "fill", Len(ParserSees) # ChunkHeaderWords,
         P!FillChunk(Chunk(processed + 1), ParserSees)
  PROVE  ParserInv'
<1> DEFINE c    == Chunk(processed + 1)
           here == ChunkAt(processed + 1)
           size == Len(ParserSees)
<1>1. /\ offset' = offset + P!OutputWords(c) /\ at' = at + P!OutputWords(c)
      /\ pbuffer' = SubSeq(ParserSees, ChunkHeaderWords + 2, size)
      /\ P!ChunkDone(offset') /\ raw' = raw
  BY DEF P!FillChunk
<1>2. DOMAIN device' = at .. at + P!OutputWords(c) - 1 \union DOMAIN device
  BY DEF P!FillChunk, P!Written, P!Over
<1>3. /\ BelowCount /\ offset \in Nat /\ raw \in Nat /\ DOMAIN device \subseteq Nat
      /\ at \in Nat /\ c \in ChunkSet /\ P!OutputWords(c) \in Nat /\ here \in Nat
      /\ ChunkAt(processed + 2) = here + P!FileWords(c)
      /\ OutputAt(processed + 2) = offset + P!OutputWords(c)
      /\ ChunkHeaderWords \in Nat /\ ChunkHeaderWords > 1
      /\ next' \in Nat /\ avail' \in Nat /\ next' <= avail' /\ next' = here + size
  BY HeaderSeenFacts
<1>4. ParserSees \in Seq(Nat) /\ size = ChunkHeaderWords + 1
  BY HeaderSeenFacts
<1>5. c.type = "fill" /\ processed < Chunks /\ ParserInv /\ image' = image
  BY DEF HeaderSeen, LooksForHeader
<1>6. pbuffer' = <<>> /\ Len(pbuffer') = 0 /\ pbuffer' \in Seq(Nat)
  BY <1>1, <1>3, <1>4
<1> HIDE DEF c, here, size
<1>7. P!FileWords(c) = ChunkHeaderWords + 1
  BY <1>3, <1>5, ChunkFacts
<1>8. /\ offset' = OutputAt(processed + 2) /\ offset' \in Nat /\ at' \in Nat
      /\ DOMAIN device' \subseteq Nat
  <2>1. offset' = OutputAt(processed + 2) /\ offset' \in Nat /\ at' \in Nat
    BY <1>1, <1>3
  <2>2. at .. at + P!OutputWords(c) - 1 \subseteq Nat
    BY <1>3
  <2> QED BY <1>2, <1>3, <2>1, <2>2
<1>9. /\ Len(pbuffer') < ChunkHeaderWords /\ next' - Len(pbuffer') = ChunkAt(processed + 2)
  BY <1>3, <1>4, <1>6, <1>7
<1>10. \A k \in 1 .. Len(pbuffer') : pbuffer'[k] = next' - Len(pbuffer') + k - 1
  BY <1>6
<1> QED BY <1>1, <1>3, <1>5, <1>6, <1>8, <1>9, <1>10, ChunkDoneKeeps

(* Of a RAW chunk what follows the header in the buffer is written, the    *)
(* rest in RawTurn.  If there is no rest, a word too many may be lost.     *)
LEMMA RawChunkKeeps ==
  ASSUME HeaderSeen, Chunk(processed + 1).type = "raw",
         P!RawChunk(Chunk(processed + 1), ParserSees)
  PROVE  ParserInv'
<1> DEFINE c     == Chunk(processed + 1)
           here  == ChunkAt(processed + 1)
           size  == Len(ParserSees)
           out   == P!OutputWords(c)
           extra == P!Smaller(size - ChunkHeaderWords, out)
<1>1. /\ at' = at + extra /\ offset' = offset + extra
      /\ raw' = out - extra /\ pbuffer' = <<>>
      /\ raw' = 0 => P!ChunkDone(offset')
      /\ raw' # 0 => state' = "RawData" /\ processed' = processed
  BY DEF P!RawChunk
<1>2. DOMAIN device' = at .. at + extra - 1 \union DOMAIN device
  BY DEF P!RawChunk, P!Written, P!Over
<1>3. /\ BelowCount /\ offset \in Nat /\ DOMAIN device \subseteq Nat
      /\ at \in Nat /\ c \in ChunkSet /\ out \in Nat /\ here \in Nat
      /\ ChunkAt(processed + 2) = here + P!FileWords(c)
      /\ OutputAt(processed + 2) = offset + out
      /\ ChunkHeaderWords \in Nat /\ ChunkHeaderWords > 1
      /\ next' \in Nat /\ avail' \in Nat /\ next' <= avail' /\ next' = here + size
  BY HeaderSeenFacts
<1>4. /\ size = ChunkHeaderWords \/ size = ChunkHeaderWords + 1
      /\ image \in Images /\ processed \in Nat /\ Chunks \in Nat /\ processed + 1 \in 1 .. Chunks
  BY HeaderSeenFacts
<1>5. c.type = "raw" /\ processed < Chunks /\ ParserInv /\ image' = image
  BY DEF HeaderSeen, LooksForHeader
<1>6. out = 0 => ~P!NoEmptyRaw(image)
  <2>1. SUFFICES ASSUME out = 0 PROVE ~P!NoEmptyRaw(image)
    OBVIOUS
  <2>2. ~(c.blocks > 0)
    BY <1>3, <2>1, ChunkFacts
  <2> QED BY <1>4, <2>2 DEF P!NoEmptyRaw, Chunk, Chunks
<1>7. P!FileWords(c) = ChunkHeaderWords + out
  BY <1>3, <1>5, ChunkFacts
<1> HIDE DEF c, here, size, out
<1>8. /\ extra \in Nat /\ extra <= out
      /\ extra = size - ChunkHeaderWords \/ (extra = 0 /\ out = 0 /\ size = ChunkHeaderWords + 1)
  BY <1>3, <1>4 DEF P!Smaller
<1> HIDE DEF extra
<1>9. /\ at' \in Nat /\ offset' \in Nat /\ raw' \in Nat /\ raw' <= out
      /\ offset' + raw' = OutputAt(processed + 2)
  BY <1>1, <1>3, <1>8
<1>10. DOMAIN device' \subseteq Nat
  BY <1>2, <1>3, <1>8
<1>11. \/ next' + raw' = ChunkAt(processed + 2)
       \/ raw' = 0 /\ next' = ChunkAt(processed + 2) + 1 /\ ~P!NoEmptyRaw(image)
  <2>1. CASE extra = size - ChunkHeaderWords
    <3>1. \A a, b, m, n \in Nat :
            m - b \in Nat => (a + m) + (n - (m - b)) = a + (b + n)
      OBVIOUS
    <3>2. size \in Nat /\ size - ChunkHeaderWords \in Nat
      BY <1>3, <1>4
    <3>3. (here + size) + (out - (size - ChunkHeaderWords)) = here + (ChunkHeaderWords + out)
      BY <1>3, <3>1, <3>2
    <3>4. next' + raw' = (here + size) + (out - (size - ChunkHeaderWords))
      BY <1>1, <1>3, <2>1
    <3>5. ChunkAt(processed + 2) = here + (ChunkHeaderWords + out)
      BY <1>3, <1>7
    <3> QED BY <3>3, <3>4, <3>5
  <2>2. CASE extra = 0 /\ out = 0 /\ size = ChunkHeaderWords + 1
    BY <1>1, <1>3, <1>6, <1>7, <2>2
  <2> QED BY <1>8, <2>1, <2>2
<1>12. Len(pbuffer') = 0 /\ pbuffer' \in Seq(Nat)
  BY <1>1
<1>13. CASE raw' = 0
  <2>1. \A k \in 1 .. Len(pbuffer') : pbuffer'[k] = next' - Len(pbuffer') + k - 1
    BY <1>12
  <2>2. /\ offset' = OutputAt(processed + 2) /\ Len(pbuffer') < ChunkHeaderWords
        /\ next' - Len(pbuffer') = next'
        /\ next' = ChunkAt(processed + 2)
             \/ (next' = ChunkAt(processed + 2) + 1 /\ ~P!NoEmptyRaw(image))
    BY <1>3, <1>9, <1>11, <1>12, <1>13
  <2> QED BY <1>1, <1>3, <1>5, <1>9, <1>10, <1>12, <1>13, <2>1, <2>2, ChunkDoneKeeps
<1>14. CASE raw' # 0
  <2>1. state' = "RawData" /\ processed' = processed
    BY <1>1, <1>14
  <2>2. P!TypeOK'
    <3>1. Len(pbuffer') <= Threshold
      BY <1>12, DetectorAssumption
    <3> QED BY <1>3, <1>4, <1>5, <1>9, <1>10, <1>12, <2>1, <3>1 DEF P!TypeOK, P!States
  <2>3. InRawData'
    <3>1. raw' > 0 /\ next' + raw' = ChunkAt(processed + 2)
      BY <1>9, <1>11, <1>14
    <3>2. raw' <= P!OutputWords(Chunk(processed + 1)) /\ Chunk(processed + 1).type = "raw"
      BY <1>5, <1>9 DEF out, c
    <3> QED BY <1>1, <1>3, <1>5, <1>9, <2>1, <3>1, <3>2
            DEF InRawData, BelowCount, Chunks, Chunk, ChunkAt, OutputAt
  <2>4. AtHeader' /\ AtChunk' /\ AtEnd' /\ Accepting'
    BY <2>1 DEF AtHeader, AtChunk, AtEnd, Accepting, P!CompleteMeansWhole
  <2> QED BY <2>2, <2>3, <2>4 DEF ParserInv
<1> QED BY <1>13, <1>14

(* A turn looks for a header in what the parser sees.                      *)
Parsed == IF Len(ParserSees) < ChunkHeaderWords THEN 0 ELSE P!ParseChunkHeader(ParserSees)

(* The answers of parse_chunk_header, and when it gives which.             *)
LEMMA ParsedCases ==
  ASSUME P!ChunkHeaderTurn
  PROVE  /\ state = "WaitingChunkHeader" /\ P!Remaining > 0
         /\ next' = next + ParserTakes /\ image' = image /\ avail' = avail
         /\ Parsed = 0 => /\ pbuffer' = ParserSees
                          /\ UNCHANGED <<state, processed, raw, offset, at, device>>
         /\ Parsed = -1 => /\ pbuffer' = ParserSees /\ state' = "Failed"
                           /\ UNCHANGED <<processed, raw, offset, at, device>>
         /\ \A i \in Nat \ {0} : Parsed = i =>
              /\ Chunk(i).type = "raw" => P!RawChunk(Chunk(i), ParserSees)
              /\ Chunk(i).type = "fill" => P!FillChunk(Chunk(i), ParserSees)
              /\ Chunk(i).type = "dont_care" => P!DontCareChunk(Chunk(i), ParserSees)
<1> DEFINE R == P!RawChunk(Chunk(Parsed), ParserSees)
           F == P!FillChunk(Chunk(Parsed), ParserSees)
           D == P!DontCareChunk(Chunk(Parsed), ParserSees)
           Stay == /\ pbuffer' = ParserSees
                   /\ UNCHANGED <<state, processed, raw, offset, at, device>>
           Fail == /\ pbuffer' = ParserSees /\ state' = "Failed"
                   /\ UNCHANGED <<processed, raw, offset, at, device>>
           zero == Parsed = 0
           minus == Parsed = -1
           plus == Parsed > 0
           ty == Chunk(Parsed).type
<1>1. /\ state = "WaitingChunkHeader" /\ P!Remaining > 0
      /\ next' = next + ParserTakes /\ image' = image /\ avail' = avail
  BY DEF P!ChunkHeaderTurn, ParserTakes
<1>2. (CASE zero  -> Stay
         [] minus -> Fail
         [] plus  -> CASE ty = "raw"       -> R
                       [] ty = "fill"      -> F
                       [] ty = "dont_care" -> D)
  BY Zenon DEF P!ChunkHeaderTurn, ParserTakes, ParserSees, Parsed, Chunk
<1>3. /\ zero => ~minus /\ ~plus
      /\ minus => ~zero /\ ~plus
      /\ \A i \in Nat \ {0} : Parsed = i => ~zero /\ ~minus /\ plus
  OBVIOUS
<1> HIDE DEF R, F, D, Stay, Fail, zero, minus, plus, ty
<1>4. (zero => Stay) /\ (minus => Fail)
  BY <1>2, <1>3, Zenon
<1>5. ~zero /\ ~minus /\ plus =>
        (ty = "raw" => R) /\ (ty = "fill" => F) /\ (ty = "dont_care" => D)
  <2>1. SUFFICES ASSUME ~zero /\ ~minus /\ plus
                 PROVE  (ty = "raw" => R) /\ (ty = "fill" => F) /\ (ty = "dont_care" => D)
    OBVIOUS
  <2>2. (CASE ty = "raw"       -> R
           [] ty = "fill"      -> F
           [] ty = "dont_care" -> D)
    BY <1>2, <2>1, Zenon
  <2>3. "raw" # "fill" /\ "raw" # "dont_care" /\ "fill" # "dont_care"
    OBVIOUS
  <2> QED BY <2>2, <2>3
<1>6. ASSUME NEW i \in Nat \ {0}, Parsed = i
      PROVE  /\ Chunk(i).type = "raw" => P!RawChunk(Chunk(i), ParserSees)
             /\ Chunk(i).type = "fill" => P!FillChunk(Chunk(i), ParserSees)
             /\ Chunk(i).type = "dont_care" => P!DontCareChunk(Chunk(i), ParserSees)
  BY <1>3, <1>5, <1>6, Zenon DEF R, F, D, ty
<1>7. /\ Parsed = 0 => /\ pbuffer' = ParserSees
                       /\ UNCHANGED <<state, processed, raw, offset, at, device>>
      /\ Parsed = -1 => /\ pbuffer' = ParserSees /\ state' = "Failed"
                        /\ UNCHANGED <<processed, raw, offset, at, device>>
  BY <1>4, Zenon DEF zero, minus, Stay, Fail
<1> QED BY <1>1, <1>6, <1>7, Zenon

(* It waits for more: there is no whole header yet.                        *)
TurnWaits ==
  /\ pbuffer' = ParserSees /\ UNCHANGED <<state, processed, raw, offset, at, device>>
  /\ \/ Len(ParserSees) < ChunkHeaderWords
     \/ /\ Len(ParserSees) = ChunkHeaderWords
        /\ processed < Chunks /\ Begun = ChunkAt(processed + 1)
        /\ Chunk(processed + 1).type = "fill"

(* It fails: what there is, is no header, or a bad one.                    *)
TurnFails ==
  /\ pbuffer' = ParserSees /\ state' = "Failed" /\ UNCHANGED <<processed, raw, offset, at, device>>
  /\ ~(P!WellFormed(image) /\ P!NoEmptyRaw(image))

(* It works on the chunk.                                                  *)
WorksOn(c) ==
  /\ HeaderSeen
  /\ \/ c.type = "raw" /\ P!RawChunk(c, ParserSees)
     \/ c.type = "fill" /\ Len(ParserSees) # ChunkHeaderWords /\ P!FillChunk(c, ParserSees)
     \/ c.type = "dont_care" /\ P!DontCareChunk(c, ParserSees)

(* There is nothing else such a turn can do.                               *)
LEMMA ChunkHeaderTurnCases ==
  ASSUME ParserInv, P!ChunkHeaderTurn
  PROVE  LooksForHeader /\ (TurnWaits \/ TurnFails \/ WorksOn(Chunk(processed + 1)))
<1>1. /\ state = "WaitingChunkHeader" /\ P!Remaining > 0
      /\ next' = next + ParserTakes /\ image' = image /\ avail' = avail
      /\ Parsed = 0 => /\ pbuffer' = ParserSees
                       /\ UNCHANGED <<state, processed, raw, offset, at, device>>
      /\ Parsed = -1 => /\ pbuffer' = ParserSees /\ state' = "Failed"
                        /\ UNCHANGED <<processed, raw, offset, at, device>>
      /\ \A i \in Nat \ {0} : Parsed = i =>
           /\ Chunk(i).type = "raw" => P!RawChunk(Chunk(i), ParserSees)
           /\ Chunk(i).type = "fill" => P!FillChunk(Chunk(i), ParserSees)
           /\ Chunk(i).type = "dont_care" => P!DontCareChunk(Chunk(i), ParserSees)
  BY ParsedCases
<1>2. /\ ParserSees \in Seq(Nat) /\ Len(ParserSees) <= ChunkHeaderWords + 1 /\ Begun \in Nat
      /\ \A k \in 1 .. Len(ParserSees) : ParserSees[k] = Begun + k - 1
  BY <1>1, SeenFacts
<1>3. /\ image \in Images /\ processed \in Nat /\ Chunks \in Nat /\ processed <= Chunks
      /\ BelowCount
      /\ \/ Begun = ChunkAt(processed + 1)
         \/ Begun = ChunkAt(processed + 1) + 1 /\ ~P!NoEmptyRaw(image)
      /\ ChunkHeaderWords \in Nat /\ ChunkHeaderWords > 1
  BY <1>1, PositionFacts, WriterAssumption, DetectorAssumption DEF ParserInv, P!TypeOK, AtChunk
<1>4. LooksForHeader
  BY <1>1 DEF LooksForHeader
<1>5. CASE Len(ParserSees) < ChunkHeaderWords
  BY <1>1, <1>4, <1>5 DEF Parsed, TurnWaits
<1>6. CASE /\ Len(ParserSees) >= ChunkHeaderWords
           /\ processed < Chunks /\ Begun = ChunkAt(processed + 1)
  <2> DEFINE i == processed + 1
  <2>1. i \in 1 .. Chunks /\ i \in Nat \ {0} /\ Chunk(i) \in ChunkSet
    BY <1>3, <1>6, PositionFacts
  <2>2. Parsed = P!ParseChunkHeader(ParserSees)
    BY <1>2, <1>3, <1>6 DEF Parsed
  <2>3. HeaderSeen
    BY <1>4, <1>6 DEF HeaderSeen
  <2> HIDE DEF i
  <2>4. \A k \in 1 .. Len(ParserSees) : ParserSees[k] = ChunkAt(i) + k - 1
    BY <1>2, <1>6 DEF i
  <2>5. /\ Chunk(i).type = "invalid" => Parsed = -1
        /\ Chunk(i).type = "fill" /\ Len(ParserSees) = ChunkHeaderWords => Parsed = 0
        /\ /\ Chunk(i).type # "invalid"
           /\ Chunk(i).type = "fill" => Len(ParserSees) # ChunkHeaderWords
           => Parsed = i
    BY <1>2, <1>3, <1>6, <2>1, <2>2, <2>4, ParseAtChunk
  <2>6. CASE Chunk(i).type = "invalid"
    <3>1. ~P!WellFormed(image)
      BY <2>1, <2>6 DEF P!WellFormed, Chunk, Chunks
    <3> QED BY <1>1, <1>4, <2>5, <2>6, <3>1 DEF TurnFails
  <2>7. CASE Chunk(i).type = "fill" /\ Len(ParserSees) = ChunkHeaderWords
    BY <1>1, <1>4, <1>6, <2>5, <2>7 DEF TurnWaits, i
  <2>8. CASE Chunk(i).type = "fill" /\ Len(ParserSees) # ChunkHeaderWords
    BY <1>1, <1>4, <2>1, <2>3, <2>5, <2>8 DEF WorksOn, i
  <2>9. CASE Chunk(i).type = "raw"
    BY <1>1, <1>4, <2>1, <2>3, <2>5, <2>9 DEF WorksOn, i
  <2>10. CASE Chunk(i).type = "dont_care"
    BY <1>1, <1>4, <2>1, <2>3, <2>5, <2>10 DEF WorksOn, i
  <2>11. Chunk(i).type \in {"raw", "fill", "dont_care", "invalid"}
    BY <2>1 DEF ChunkSet
  <2> QED BY <2>6, <2>7, <2>8, <2>9, <2>10, <2>11
<1>7. CASE /\ Len(ParserSees) >= ChunkHeaderWords
           /\ ~(processed < Chunks /\ Begun = ChunkAt(processed + 1))
  <2>1. ASSUME NEW i \in 1 .. Chunks
        PROVE  Begun # ChunkAt(i)
    <3> DEFINE p == processed + 1
    <3>1. i \in 1 .. Chunks + 1 /\ p \in 1 .. Chunks + 1
      BY <1>3
    <3>2. /\ ChunkAt(i) \in Nat /\ ChunkAt(p) \in Nat
          /\ i < p => ChunkAt(i) + ChunkHeaderWords <= ChunkAt(p)
          /\ p < i => ChunkAt(p) + ChunkHeaderWords <= ChunkAt(i)
      BY <1>3, <3>1, PositionFacts
    <3>3. \/ Begun = ChunkAt(p) /\ i < p
          \/ Begun = ChunkAt(p) + 1
      BY <1>3, <1>7
    <3> HIDE DEF p
    <3>4. i < p \/ i = p \/ p < i
      BY <3>1
    <3> QED BY <1>3, <3>2, <3>3, <3>4
  <2>2. ParserSees[1] = Begun
    <3>1. 1 \in 1 .. Len(ParserSees) /\ Begun + 1 - 1 = Begun
      BY <1>2, <1>3, <1>7
    <3> QED BY <1>2, <3>1
  <2>3. Parsed = -1
    <3>1. Parsed = P!ParseChunkHeader(ParserSees)
      BY <1>2, <1>3, <1>7 DEF Parsed
    <3> QED BY <1>2, <1>3, <2>1, <2>2, <3>1, ParseElsewhere
  <2>4. ~(P!WellFormed(image) /\ P!NoEmptyRaw(image))
    <3>1. CASE Begun = ChunkAt(processed + 1)
      <4>1. image.chunks > 0 => image.chunks # Chunks
        BY <1>3, <1>7, <3>1 DEF BelowCount
      <4> QED BY <4>1 DEF P!WellFormed, Chunks
    <3>2. CASE Begun # ChunkAt(processed + 1)
      BY <1>3, <3>2
    <3> QED BY <3>1, <3>2
  <2> QED BY <1>1, <1>4, <2>3, <2>4 DEF TurnFails
<1>8. Len(ParserSees) < ChunkHeaderWords \/ Len(ParserSees) >= ChunkHeaderWords
  BY <1>2, <1>3
<1> QED BY <1>5, <1>6, <1>7, <1>8

(* A turn that needs more of the input.                                    *)
LEMMA WaitKeeps ==
  ASSUME LooksForHeader, TurnWaits
  PROVE  ParserInv'
<1> USE DEF LooksForHeader, TurnWaits
<1>1. /\ ParserTakes \in Nat \ {0} /\ ParserTakes <= avail - next
      /\ ParserSees \in Seq(Nat) /\ Begun \in Nat /\ next + ParserTakes = Begun + Len(ParserSees)
      /\ \A k \in 1 .. Len(ParserSees) : ParserSees[k] = Begun + k - 1
  BY SeenFacts
<1>2. /\ ChunkHeaderWords \in Nat /\ ChunkHeaderWords < Threshold /\ Threshold \in Nat
      /\ next \in Nat /\ avail \in Nat
  BY WriterAssumption, DetectorAssumption DEF ParserInv, P!TypeOK
<1>3. Begun' = Begun
  BY <1>1 DEF Begun
<1>4. next' \in Nat /\ next' <= avail' /\ Len(pbuffer') <= Threshold /\ pbuffer' \in Seq(Nat)
  BY <1>1, <1>2
<1>5. P!TypeOK'
  BY <1>4 DEF ParserInv, P!TypeOK
<1>6. AtChunk'
  <2>1. Len(pbuffer') <= ChunkHeaderWords
    BY <1>1, <1>2
  <2>2. \A k \in 1 .. Len(pbuffer') : pbuffer'[k] = Begun' + k - 1
    BY <1>1, <1>3
  <2>3. Len(pbuffer') = ChunkHeaderWords =>
          /\ Begun = ChunkAt(processed + 1) /\ processed < Chunks
          /\ Chunk(processed + 1).type = "fill"
    BY <1>1, <1>2
  <2> QED BY <1>3, <2>1, <2>2, <2>3, SameImage DEF ParserInv, AtChunk, BelowCount
<1>7. AtHeader' /\ InRawData' /\ AtEnd' /\ Accepting'
  BY DEF AtHeader, InRawData, AtEnd, Accepting, P!CompleteMeansWhole
<1> QED BY <1>5, <1>6, <1>7 DEF ParserInv

(* A turn that finds no valid chunk: there is none such in a sound image.  *)
LEMMA FailKeeps ==
  ASSUME LooksForHeader, TurnFails
  PROVE  ParserInv'
<1> USE DEF LooksForHeader, TurnFails
<1>1. /\ ParserTakes \in Nat \ {0} /\ ParserTakes <= avail - next
      /\ ParserSees \in Seq(Nat) /\ Len(ParserSees) <= ChunkHeaderWords + 1
  BY SeenFacts
<1>2. /\ ChunkHeaderWords \in Nat /\ ChunkHeaderWords < Threshold /\ Threshold \in Nat
      /\ next \in Nat /\ avail \in Nat
  BY WriterAssumption, DetectorAssumption DEF ParserInv, P!TypeOK
<1>3. next' \in Nat /\ next' <= avail' /\ Len(pbuffer') <= Threshold /\ pbuffer' \in Seq(Nat)
  BY <1>1, <1>2
<1>4. P!TypeOK'
  BY <1>3 DEF ParserInv, P!TypeOK, P!States
<1>5. AtHeader' /\ AtChunk' /\ InRawData' /\ AtEnd'
  BY DEF AtHeader, AtChunk, InRawData, AtEnd, P!CompleteMeansWhole
<1>6. Accepting'
  BY SameImage DEF Accepting
<1> QED BY <1>4, <1>5, <1>6 DEF ParserInv

(* ParserState::WaitingChunkHeader, in all its cases.                      *)
LEMMA ChunkHeaderTurnKeeps ==
  ASSUME ParserInv, P!ChunkHeaderTurn
  PROVE  ParserInv'
BY ChunkHeaderTurnCases, WaitKeeps, FailKeeps, RawChunkKeeps, FillChunkKeeps,
   DontCareChunkKeeps DEF WorksOn

(* Every turn of the loop in process() keeps the parser's invariant.       *)
LEMMA TurnKeeps == ParserInv /\ P!Turn => ParserInv'
BY HeaderTurnKeeps, ChunkHeaderTurnKeeps, RawTurnKeeps, CompleteTurnKeeps DEF P!Turn

-----------------------------------------------------------------------------
(* The device.                                                             *)

(* The reference expansion depends on the image only.                      *)
LEMMA SameExpansion ==
  ASSUME image' = image
  PROVE  P!Expanded(image)' = P!Expanded(image)
OBVIOUS

(* A step of another part leaves the device as it is.                      *)
LEMMA DeviceStays ==
  ASSUME P!DeviceIsExpansion, UNCHANGED <<image, offset, at, device>>
  PROVE  P!DeviceIsExpansion'
BY SameImage, SameExpansion DEF P!DeviceIsExpansion

(* A write of what the chunk has next.                                     *)
LEMMA WriteKeeps ==
  ASSUME ParserInv, P!DeviceIsExpansion, image' = image,
         NEW i \in 1 .. Chunks, Chunk(i).type \in {"raw", "fill"},
         NEW n \in Nat, OutputAt(i) <= offset, offset + n <= OutputAt(i + 1),
         NEW f, DOMAIN f = at .. at + n - 1,
         at = offset => \A o \in at .. at + n - 1 : f[o] = Piece(i)[o],
         device' = P!Over(f, device), at' = at + n, offset' = offset + n
  PROVE  P!DeviceIsExpansion'
<1> DEFINE E == P!Expanded(image)
<1>1. SUFFICES ASSUME P!WellFormed(image), P!NoEmptyRaw(image)
               PROVE  /\ at' = offset'
                      /\ DOMAIN device' = {o \in DOMAIN E : o < offset'}
                      /\ \A o \in DOMAIN device' : device'[o] = E[o]
  BY SameImage, SameExpansion DEF P!DeviceIsExpansion
<1>2. /\ at = offset /\ DOMAIN device = {o \in DOMAIN E : o < offset}
      /\ \A o \in DOMAIN device : device[o] = E[o]
  BY <1>1 DEF P!DeviceIsExpansion
<1>3. image \in Images /\ offset \in Nat
  BY DEF ParserInv, P!TypeOK
<1>4. /\ \A o : o \in DOMAIN E <=> \E j \in 1 .. Chunks : o \in DOMAIN Piece(j)
      /\ \A j \in 1 .. Chunks : \A o \in DOMAIN Piece(j) : E[o] = Piece(j)[o]
  BY <1>3, ExpandedFacts
<1> HIDE DEF E
<1>5. /\ OutputAt(i) \in Nat /\ OutputAt(i + 1) \in Nat
      /\ i + 1 \in 1 .. Chunks + 1
  <2>1. Chunks \in Nat
    BY <1>3, PositionFacts
  <2>2. i \in 1 .. Chunks + 1 /\ i + 1 \in 1 .. Chunks + 1
    BY <2>1
  <2> QED BY <1>3, <2>2, PositionFacts
<1>6. \A o \in offset .. offset + n - 1 : o \in OutputAt(i) .. OutputAt(i + 1) - 1
  BY <1>3, <1>5
<1>7. \A o \in offset .. offset + n - 1 : o \in DOMAIN E /\ f[o] = E[o]
  <2>1. SUFFICES ASSUME NEW o \in offset .. offset + n - 1
                 PROVE  o \in DOMAIN E /\ f[o] = E[o]
    OBVIOUS
  <2>2. o \in DOMAIN Piece(i)
    BY <1>3, <1>6, PieceFacts
  <2>3. f[o] = Piece(i)[o]
    BY <1>2
  <2> QED BY <1>4, <2>2, <2>3
<1>8. \A o \in DOMAIN E : o \in Nat
  <2>1. SUFFICES ASSUME NEW j \in 1 .. Chunks, NEW o \in DOMAIN Piece(j)
                 PROVE  o \in Nat
    BY <1>4
  <2>2. Chunks \in Nat
    BY <1>3, PositionFacts
  <2>3. j \in 1 .. Chunks + 1 /\ j + 1 \in 1 .. Chunks + 1
    BY <2>2
  <2>4. OutputAt(j) \in Nat /\ OutputAt(j + 1) \in Nat
    BY <1>3, <2>3, PositionFacts
  <2>5. o \in OutputAt(j) .. OutputAt(j + 1) - 1
    BY <1>3, PieceFacts
  <2> QED BY <2>4, <2>5
<1>9. /\ DOMAIN device' = (offset .. offset + n - 1) \union DOMAIN device
      /\ \A o \in DOMAIN device' :
           device'[o] = IF o \in offset .. offset + n - 1 THEN f[o] ELSE device[o]
  BY <1>2 DEF P!Over
<1>10. DOMAIN device' = {o \in DOMAIN E : o < offset'}
  <2>1. ASSUME NEW o \in DOMAIN device'
        PROVE  o \in DOMAIN E /\ o < offset'
    <3>1. CASE o \in offset .. offset + n - 1
      <4>1. o < offset + n
        BY <1>3, <3>1
      <4> QED BY <1>7, <3>1, <4>1
    <3>2. CASE o \in DOMAIN device
      <4>1. o \in DOMAIN E /\ o < offset /\ o \in Nat
        BY <1>2, <1>8, <3>2
      <4>2. o < offset + n
        BY <1>3, <4>1
      <4> QED BY <4>1, <4>2
    <3> QED BY <1>9, <3>1, <3>2
  <2>2. ASSUME NEW o \in DOMAIN E, o < offset'
        PROVE  o \in DOMAIN device'
    <3>1. o \in Nat /\ o < offset + n
      BY <1>8, <2>2
    <3>2. o < offset \/ o \in offset .. offset + n - 1
      BY <1>3, <3>1
    <3> QED BY <1>2, <1>9, <3>2
  <2> QED BY <2>1, <2>2
<1>11. \A o \in DOMAIN device' : device'[o] = E[o]
  BY <1>2, <1>7, <1>9
<1> QED BY <1>2, <1>10, <1>11

(* A Seek over a chunk that writes nothing.                                *)
LEMMA SeekKeeps ==
  ASSUME ParserInv, P!DeviceIsExpansion, image' = image,
         NEW i \in 1 .. Chunks, Chunk(i).type \notin {"raw", "fill"},
         offset = OutputAt(i), offset' = OutputAt(i + 1), at' = offset', device' = device
  PROVE  P!DeviceIsExpansion'
<1> DEFINE E == P!Expanded(image)
<1>1. SUFFICES ASSUME P!WellFormed(image), P!NoEmptyRaw(image)
               PROVE  /\ DOMAIN device' = {o \in DOMAIN E : o < offset'}
                      /\ \A o \in DOMAIN device' : device'[o] = E[o]
  BY SameImage, SameExpansion DEF P!DeviceIsExpansion
<1>2. /\ DOMAIN device = {o \in DOMAIN E : o < offset}
      /\ \A o \in DOMAIN device : device[o] = E[o]
  BY <1>1 DEF P!DeviceIsExpansion
<1>3. image \in Images /\ Chunks \in Nat
  BY PositionFacts DEF ParserInv, P!TypeOK
<1>4. \A o : o \in DOMAIN E <=> \E j \in 1 .. Chunks : o \in DOMAIN Piece(j)
  BY <1>3, ExpandedFacts
<1> HIDE DEF E
<1>5. ASSUME NEW o \in DOMAIN E
      PROVE  o < offset <=> o < offset'
  <2>1. PICK j \in 1 .. Chunks : o \in DOMAIN Piece(j)
    BY <1>4
  <2>2. j # i /\ o \in OutputAt(j) .. OutputAt(j + 1) - 1
    BY <1>3, <2>1, PieceFacts
  <2>3. /\ i \in 1 .. Chunks + 1 /\ i + 1 \in 1 .. Chunks + 1
        /\ j \in 1 .. Chunks + 1 /\ j + 1 \in 1 .. Chunks + 1
        /\ i <= i + 1
    BY <1>3
  <2>4. /\ OutputAt(i) \in Nat /\ OutputAt(i + 1) \in Nat
        /\ OutputAt(j) \in Nat /\ OutputAt(j + 1) \in Nat
        /\ OutputAt(i) <= OutputAt(i + 1)
        /\ i + 1 <= j => OutputAt(i + 1) <= OutputAt(j)
        /\ j + 1 <= i => OutputAt(j + 1) <= OutputAt(i)
    BY <1>3, <2>3, PositionFacts
  <2>5. i + 1 <= j \/ j + 1 <= i
    BY <2>2
  <2> QED BY <2>2, <2>4, <2>5
<1> QED BY <1>2, <1>5

(* More data of a RAW chunk: the device gains them, where they belong.     *)
LEMMA RawTurnExpands ==
  ASSUME ParserInv, P!DeviceIsExpansion, P!RawTurn
  PROVE  P!DeviceIsExpansion'
<1> DEFINE take == P!Smaller(raw, P!Remaining)
           f    == [o \in at .. at + take - 1 |-> <<"raw", next + (o - at)>>]
           i    == processed + 1
<1>1. /\ state = "RawData" /\ avail - next > 0 /\ image' = image
      /\ at' = at + take /\ offset' = offset + take /\ device' = P!Over(f, device)
  BY DEF P!RawTurn, P!Remaining, P!Written
<1>2. /\ image \in Images /\ Chunks \in Nat /\ processed \in Nat /\ processed < Chunks
      /\ offset \in Nat /\ raw \in Nat /\ next \in Nat /\ avail \in Nat
      /\ Chunk(i).type = "raw" /\ raw <= P!OutputWords(Chunk(i))
      /\ next + raw = ChunkAt(processed + 2) /\ offset + raw = OutputAt(processed + 2)
  BY <1>1, PositionFacts DEF ParserInv, P!TypeOK, InRawData
<1>3. i \in 1 .. Chunks /\ i \in 1 .. Chunks + 1 /\ i + 1 = processed + 2
  BY <1>2
<1>4. take \in Nat /\ take <= raw
  BY <1>1, <1>2 DEF P!Smaller, P!Remaining
<1>5. /\ DOMAIN f = at .. at + take - 1
      /\ \A o \in at .. at + take - 1 : f[o] = <<"raw", next + (o - at)>>
  OBVIOUS
<1> HIDE DEF take, f, i
<1>6. /\ Chunk(i) \in ChunkSet /\ ChunkAt(i) \in Nat /\ OutputAt(i) \in Nat
      /\ ChunkAt(i + 1) = ChunkAt(i) + P!FileWords(Chunk(i))
      /\ OutputAt(i + 1) = OutputAt(i) + P!OutputWords(Chunk(i))
  BY <1>2, <1>3, PositionFacts
<1>7. /\ P!OutputWords(Chunk(i)) \in Nat /\ ChunkHeaderWords \in Nat
      /\ P!FileWords(Chunk(i)) = ChunkHeaderWords + P!OutputWords(Chunk(i))
  BY <1>2, <1>6, ChunkFacts
<1>8. /\ OutputAt(i) <= offset /\ offset + take <= OutputAt(i + 1)
      /\ next + (OutputAt(i) - offset) = ChunkAt(i) + ChunkHeaderWords
  <2> DEFINE a == OutputAt(i)
             b == ChunkAt(i)
             out == P!OutputWords(Chunk(i))
  <2>1. OutputAt(i + 1) = offset + raw /\ ChunkAt(i + 1) = next + raw
    BY <1>2, <1>3
  <2>2. /\ a \in Nat /\ b \in Nat /\ out \in Nat /\ raw <= out
        /\ offset + raw = a + out /\ next + raw = b + (ChunkHeaderWords + out)
    BY <1>2, <1>6, <1>7, <2>1
  <2> HIDE DEF a, b, out
  <2>3. a <= offset /\ offset + take <= offset + raw /\ next + (a - offset) = b + ChunkHeaderWords
    BY <1>2, <1>4, <1>7, <2>2
  <2> QED BY <2>1, <2>3 DEF a, b
<1>9. ASSUME at = offset, NEW o \in at .. at + take - 1
      PROVE  f[o] = Piece(i)[o]
  <2>1. o \in OutputAt(i) .. OutputAt(i + 1) - 1
    BY <1>2, <1>4, <1>6, <1>7, <1>8, <1>9
  <2>2. Piece(i)[o] = <<"raw", ChunkAt(i) + ChunkHeaderWords + (o - OutputAt(i))>>
    <3>1. o \in DOMAIN Piece(i)
      BY <1>2, <1>3, <2>1, PieceFacts
    <3> QED BY <1>2, <1>3, <3>1, PieceFacts
  <2>3. o \in Int /\ at \in Int
    BY <1>2, <1>9
  <2>4. next + (o - at) = ChunkAt(i) + ChunkHeaderWords + (o - OutputAt(i))
    BY <1>2, <1>6, <1>7, <1>8, <1>9, <2>3
  <2> QED BY <1>5, <2>2, <2>4
<1> QED BY <1>1, <1>2, <1>3, <1>4, <1>5, <1>8, <1>9, WriteKeeps

(* A RAW chunk begins, with what came along with its header.               *)
LEMMA RawChunkExpands ==
  ASSUME HeaderSeen, P!DeviceIsExpansion, Chunk(processed + 1).type = "raw",
         P!RawChunk(Chunk(processed + 1), ParserSees)
  PROVE  P!DeviceIsExpansion'
<1> DEFINE i     == processed + 1
           size  == Len(ParserSees)
           out   == P!OutputWords(Chunk(i))
           extra == P!Smaller(size - ChunkHeaderWords, out)
           f     == [o \in at .. at + extra - 1 |->
                       <<"raw", ParserSees[ChunkHeaderWords + 1 + (o - at)]>>]
<1>1. /\ at' = at + extra /\ offset' = offset + extra /\ device' = P!Over(f, device)
  BY DEF P!RawChunk, P!Written
<1>2. /\ image \in Images /\ offset \in Nat /\ i \in 1 .. Chunks
      /\ out \in Nat /\ ChunkAt(i) \in Nat
      /\ OutputAt(processed + 2) = offset + out
      /\ ChunkHeaderWords \in Nat
      /\ processed \in Nat
  BY HeaderSeenFacts
<1>3. /\ size = ChunkHeaderWords \/ size = ChunkHeaderWords + 1
      /\ \A k \in 1 .. size : ParserSees[k] = ChunkAt(i) + k - 1
  BY HeaderSeenFacts
<1>4. ParserInv /\ image' = image /\ offset = OutputAt(i) /\ i + 1 = processed + 2
  BY <1>2 DEF HeaderSeen, LooksForHeader, ParserInv, AtChunk
<1>5. /\ DOMAIN f = at .. at + extra - 1
      /\ \A o \in at .. at + extra - 1 :
           f[o] = <<"raw", ParserSees[ChunkHeaderWords + 1 + (o - at)]>>
  OBVIOUS
<1>6. extra \in Nat /\ extra <= out /\ extra <= size - ChunkHeaderWords /\ size \in Nat
  <2> HIDE DEF out, size
  <2> QED BY <1>2, <1>3 DEF P!Smaller
<1>7. Chunk(i).type = "raw"
  OBVIOUS
<1> HIDE DEF size, out, extra, f, i
<1>8. OutputAt(i) <= offset /\ offset + extra <= OutputAt(i + 1) /\ OutputAt(i + 1) = offset + out
  BY <1>2, <1>4, <1>6
<1>9. ASSUME at = offset, NEW o \in at .. at + extra - 1
      PROVE  f[o] = Piece(i)[o]
  <2>1. o \in Int /\ at \in Int /\ at <= o /\ o < at + extra
    BY <1>2, <1>6, <1>9
  <2>2. o \in OutputAt(i) .. OutputAt(i + 1) - 1
    BY <1>2, <1>4, <1>6, <1>8, <1>9, <2>1
  <2>3. Piece(i)[o] = <<"raw", ChunkAt(i) + ChunkHeaderWords + (o - OutputAt(i))>>
    <3>1. o \in DOMAIN Piece(i)
      BY <1>2, <1>7, <2>2, PieceFacts
    <3> QED BY <1>2, <1>7, <3>1, PieceFacts
  <2>4. ChunkHeaderWords + 1 + (o - at) \in 1 .. size
    BY <1>2, <1>6, <2>1
  <2>5. ParserSees[ChunkHeaderWords + 1 + (o - at)]
          = ChunkAt(i) + (ChunkHeaderWords + 1 + (o - at)) - 1
    BY <1>3, <2>4
  <2>6. ChunkAt(i) + (ChunkHeaderWords + 1 + (o - at)) - 1
          = ChunkAt(i) + ChunkHeaderWords + (o - OutputAt(i))
    BY <1>2, <1>4, <1>9, <2>1
  <2> QED BY <1>5, <2>3, <2>5, <2>6
<1> QED BY <1>1, <1>2, <1>4, <1>5, <1>6, <1>7, <1>8, <1>9, WriteKeeps

(* A FILL chunk is written at once.                                        *)
LEMMA FillChunkExpands ==
  ASSUME HeaderSeen, P!DeviceIsExpansion, Chunk(processed + 1).type = "fill",
         Len(ParserSees) # ChunkHeaderWords, P!FillChunk(Chunk(processed + 1), ParserSees)
  PROVE  P!DeviceIsExpansion'
<1> DEFINE i   == processed + 1
           out == P!OutputWords(Chunk(i))
           f   == [o \in at .. at + out - 1 |-> <<"fill", ParserSees[ChunkHeaderWords + 1]>>]
<1>1. /\ at' = at + out /\ offset' = offset + out /\ device' = P!Over(f, device)
  BY DEF P!FillChunk, P!Written
<1>2. /\ image \in Images /\ offset \in Nat /\ i \in 1 .. Chunks
      /\ out \in Nat /\ ChunkAt(i) \in Nat
      /\ OutputAt(processed + 2) = offset + out
      /\ ChunkHeaderWords \in Nat
      /\ processed \in Nat
  BY HeaderSeenFacts
<1>3. /\ Len(ParserSees) = ChunkHeaderWords + 1
      /\ \A k \in 1 .. Len(ParserSees) : ParserSees[k] = ChunkAt(i) + k - 1
  BY HeaderSeenFacts
<1>4. ParserInv /\ image' = image /\ offset = OutputAt(i) /\ i + 1 = processed + 2
  BY <1>2 DEF HeaderSeen, LooksForHeader, ParserInv, AtChunk
<1>5. /\ DOMAIN f = at .. at + out - 1
      /\ \A o \in at .. at + out - 1 : f[o] = <<"fill", ParserSees[ChunkHeaderWords + 1]>>
  OBVIOUS
<1>6. Chunk(i).type = "fill"
  OBVIOUS
<1> HIDE DEF out, f, i
<1>7. OutputAt(i) <= offset /\ offset + out <= OutputAt(i + 1) /\ OutputAt(i + 1) = offset + out
  BY <1>2, <1>4
<1>8. ASSUME at = offset, NEW o \in at .. at + out - 1
      PROVE  f[o] = Piece(i)[o]
  <2>1. o \in OutputAt(i) .. OutputAt(i + 1) - 1
    BY <1>2, <1>4, <1>7, <1>8
  <2>2. Piece(i)[o] = <<"fill", ChunkAt(i) + ChunkHeaderWords>>
    <3>1. o \in DOMAIN Piece(i)
      BY <1>2, <1>6, <2>1, PieceFacts
    <3> QED BY <1>2, <1>6, <3>1, PieceFacts
  <2>3. ChunkHeaderWords + 1 \in 1 .. Len(ParserSees)
    BY <1>2, <1>3
  <2>4. ParserSees[ChunkHeaderWords + 1] = ChunkAt(i) + (ChunkHeaderWords + 1) - 1
    BY <1>3, <2>3
  <2>5. ChunkAt(i) + (ChunkHeaderWords + 1) - 1 = ChunkAt(i) + ChunkHeaderWords
    BY <1>2
  <2> QED BY <1>5, <2>2, <2>4, <2>5
<1> QED BY <1>1, <1>2, <1>4, <1>5, <1>6, <1>7, <1>8, WriteKeeps

(* A DONT_CARE chunk adds nothing to the expansion and moves the position. *)
LEMMA DontCareChunkExpands ==
  ASSUME HeaderSeen, P!DeviceIsExpansion, Chunk(processed + 1).type = "dont_care",
         P!DontCareChunk(Chunk(processed + 1), ParserSees)
  PROVE  P!DeviceIsExpansion'
<1> DEFINE i == processed + 1
<1>1. offset' = offset + P!OutputWords(Chunk(i)) /\ at' = offset' /\ device' = device
  BY DEF P!DontCareChunk
<1>2. i \in 1 .. Chunks /\ OutputAt(processed + 2) = offset + P!OutputWords(Chunk(i))
      /\ processed \in Nat
  BY HeaderSeenFacts
<1>3. ParserInv /\ image' = image /\ offset = OutputAt(i) /\ i + 1 = processed + 2
  BY <1>2 DEF HeaderSeen, LooksForHeader, ParserInv, AtChunk
<1>4. Chunk(i).type \notin {"raw", "fill"}
  OBVIOUS
<1> HIDE DEF i
<1> QED BY <1>1, <1>2, <1>3, <1>4, SeekKeeps

(* Every turn keeps the device the expansion of what has been parsed.      *)
LEMMA TurnExpands == ParserInv /\ P!DeviceIsExpansion /\ P!Turn => P!DeviceIsExpansion'
<1> SUFFICES ASSUME ParserInv, P!DeviceIsExpansion, P!Turn PROVE P!DeviceIsExpansion'
  OBVIOUS
<1>1. CASE P!HeaderTurn \/ P!CompleteTurn
  BY <1>1, DeviceStays DEF P!HeaderTurn, P!CompleteTurn
<1>2. CASE P!RawTurn
  BY <1>2, RawTurnExpands
<1>3. CASE P!ChunkHeaderTurn
  <2>1. LooksForHeader /\ (TurnWaits \/ TurnFails \/ WorksOn(Chunk(processed + 1)))
    BY <1>3, ChunkHeaderTurnCases
  <2>2. CASE TurnWaits \/ TurnFails
    BY <2>1, <2>2, DeviceStays DEF LooksForHeader, TurnWaits, TurnFails
  <2>3. CASE WorksOn(Chunk(processed + 1))
    BY <2>3, RawChunkExpands, FillChunkExpands, DontCareChunkExpands DEF WorksOn
  <2> QED BY <2>1, <2>2, <2>3
<1> QED BY <1>1, <1>2, <1>3 DEF P!Turn

-----------------------------------------------------------------------------
(* The detector.                                                           *)

(* The strengthening of the two properties: while the format is unknown    *)
(* the buffer has room for more than it holds, so that nothing of a piece  *)
(* can be left over; and only the end of the stream makes a short stream   *)
(* regular.                                                                *)
DetectorInv ==
  /\ length \in Nat /\ fed \in Nat /\ ended \in BOOLEAN
  /\ fed <= length /\ (ended => fed = length)
  /\ buffer \in Seq(Nat) /\ Len(buffer) <= MaxBuffer /\ onward \in Seq(Nat)
  /\ format \in {"unknown", "SparseImage", "Regular", "Error"}
  /\ format = "unknown" /\ ~ended => buffer = Units(0, fed) /\ fed < Threshold
  /\ format = "unknown" /\ ended => buffer = <<>> /\ length = 0
  /\ PassedExactlyOnce
  /\ SameAnswerForAllCuts
  /\ length \in StreamLengths /\ begins \in Starts

USE DetectorAssumption

(* The detector starts in its invariant.                                   *)
LEMMA DetectorInit == Init => DetectorInv
<1> SUFFICES ASSUME Init PROVE DetectorInv
  OBVIOUS
<1>1. Units(0, 0) = <<>> /\ <<>> \in Seq(Nat) /\ Len(<<>>) = 0
  BY UnitsTypes
<1>2. length \in Nat /\ 0 <= length /\ 0 < Threshold /\ 0 <= MaxBuffer
  BY DEF Init
<1>3. PassedExactlyOnce
  BY <1>1 DEF Init, PassedExactlyOnce
<1>4. SameAnswerForAllCuts
  BY DEF Init, SameAnswerForAllCuts
<1> QED BY <1>1, <1>2, <1>3, <1>4 DEF Init, DetectorInv

(* A stream has one of the two formats.                                    *)
LEMMA VerdictType ==
  ASSUME begins \in Starts
  PROVE  Verdict \in {"SparseImage", "Regular", "Error"}
BY DEF Verdict

(* What process() takes of a piece into the buffer, and what it then sees. *)
Take(n) == AtMost(n, MaxBuffer - Len(buffer))

Seen(n) == buffer \o Units(fed, Take(n))

(* It sees the front of the stream, with all of the piece if that is still *)
(* too short to tell.                                                      *)
LEMMA SeenByDetect ==
  ASSUME DetectorInv, NEW n \in PieceSizes, format = "unknown", ~ended
  PROVE  /\ Take(n) \in Nat /\ n - Take(n) \in Nat
         /\ Seen(n) = Units(0, fed + Take(n))
         /\ Seen(n) \in Seq(Nat) /\ Len(Seen(n)) = fed + Take(n)
         /\ Len(Seen(n)) <= MaxBuffer
         /\ Len(Seen(n)) < Threshold => Take(n) = n
         /\ Seen(n) \o Units(fed + Take(n), n - Take(n)) = Units(0, fed + n)
<1>1. /\ fed \in Nat /\ n \in Nat /\ fed < Threshold /\ buffer = Units(0, fed)
      /\ Len(buffer) = fed
  BY UnitsTypes DEF DetectorInv
<1>2. Take(n) = IF n < MaxBuffer - fed THEN n ELSE MaxBuffer - fed
  BY <1>1 DEF Take, AtMost
<1>3. Take(n) \in Nat /\ Take(n) <= n /\ fed + Take(n) <= MaxBuffer
  BY <1>1, <1>2
<1>4. fed + Take(n) < Threshold => Take(n) = n
  BY <1>1, <1>2
<1>5. Seen(n) = Units(0, fed + Take(n))
  BY <1>1, <1>3, FrontConcat DEF Seen
<1>6. /\ n - Take(n) \in Nat /\ fed + Take(n) \in Nat
      /\ (fed + Take(n)) + (n - Take(n)) = fed + n
  BY <1>1, <1>3
<1>7. Units(0, fed + Take(n)) \o Units(fed + Take(n), n - Take(n))
        = Units(0, (fed + Take(n)) + (n - Take(n)))
  BY <1>6, FrontConcat
<1>8. Seen(n) \o Units(fed + Take(n), n - Take(n)) = Units(0, fed + n)
  BY <1>5, <1>6, <1>7
<1>9. Seen(n) \in Seq(Nat) /\ Len(Seen(n)) = fed + Take(n)
  BY <1>5, <1>6, UnitsTypes
<1> QED BY <1>3, <1>4, <1>5, <1>6, <1>8, <1>9

(* A piece that comes while the format is unknown.                         *)
LEMMA DetectStep ==
  ASSUME DetectorInv, NEW n \in PieceSizes, Detect(n)
  PROVE  DetectorInv'
<1> DEFINE take == Take(n)
           seen == Seen(n)
<1>1. /\ format = "unknown" /\ ~ended /\ fed + n <= length
      /\ fed' = fed + n /\ buffer' = seen
      /\ length' = length /\ begins' = begins /\ ended' = ended
      /\ IF Len(seen) < Threshold
         THEN format' = format /\ onward' = onward
         ELSE /\ format' = Verdict
              /\ onward' = IF Verdict = "Error" THEN onward
                           ELSE seen \o Units(fed + take, n - take)
  BY DEF Detect, Take, Seen
<1>2. /\ length \in Nat /\ fed \in Nat /\ n \in Nat /\ ended \in BOOLEAN
      /\ length \in StreamLengths /\ begins \in Starts
      /\ onward = <<>> /\ fed < Threshold
  BY <1>1 DEF DetectorInv, PassedExactlyOnce
<1>3. /\ take \in Nat /\ n - take \in Nat
      /\ seen = Units(0, fed + take)
      /\ seen \in Seq(Nat) /\ Len(seen) = fed + take /\ Len(seen) <= MaxBuffer
      /\ Len(seen) < Threshold => take = n
      /\ seen \o Units(fed + take, n - take) = Units(0, fed + n)
  BY <1>1, SeenByDetect
<1> HIDE DEF take, seen
<1>4. fed' \in Nat /\ fed' <= length /\ fed' = fed + n
  BY <1>1, <1>2
<1>5. CASE Len(seen) < Threshold
  <2>1. /\ format' = "unknown" /\ onward' = <<>> /\ take = n
        /\ buffer' = Units(0, fed') /\ fed' < Threshold
    BY <1>1, <1>2, <1>3, <1>4, <1>5
  <2> QED BY <1>1, <1>2, <1>3, <1>4, <2>1
          DEF DetectorInv, PassedExactlyOnce, SameAnswerForAllCuts
<1>6. CASE ~(Len(seen) < Threshold)
  <2>1. /\ format' = Verdict /\ Verdict' = Verdict
        /\ Verdict \in {"SparseImage", "Regular", "Error"}
    BY <1>1, <1>2, <1>6, VerdictType DEF Verdict
  <2>2. onward' = IF Verdict = "Error" THEN <<>> ELSE Units(0, fed')
    BY <1>1, <1>2, <1>3, <1>4, <1>6
  <2>3. fed' >= Threshold
    BY <1>2, <1>3, <1>4, <1>6
  <2>4. onward' \in Seq(Nat)
    BY <1>4, <2>2, UnitsTypes
  <2>5. buffer' \in Seq(Nat) /\ Len(buffer') <= MaxBuffer
    BY <1>1, <1>3
  <2>6. PassedExactlyOnce'
    BY <2>1, <2>2 DEF PassedExactlyOnce
  <2>7. SameAnswerForAllCuts'
    BY <1>1, <2>1, <2>3 DEF SameAnswerForAllCuts
  <2> QED BY <1>1, <1>2, <1>4, <2>1, <2>4, <2>5, <2>6, <2>7 DEF DetectorInv
<1> QED BY <1>5, <1>6

(* A piece that comes when the format is known.                            *)
LEMMA PassOnStep ==
  ASSUME DetectorInv, NEW n \in PieceSizes, PassOn(n)
  PROVE  DetectorInv'
<1>1. /\ format \in {"SparseImage", "Regular"} /\ ~ended /\ fed + n <= length
      /\ fed' = fed + n /\ onward' = onward \o Units(fed, n)
      /\ length' = length /\ begins' = begins /\ ended' = ended
      /\ buffer' = buffer /\ format' = format
  BY DEF PassOn
<1>2. /\ length \in Nat /\ fed \in Nat /\ n \in Nat /\ ended \in BOOLEAN
      /\ length \in StreamLengths /\ begins \in Starts
      /\ buffer \in Seq(Nat) /\ Len(buffer) <= MaxBuffer
      /\ onward = Units(0, fed) /\ fed >= Threshold /\ format = Verdict
  BY <1>1 DEF DetectorInv, PassedExactlyOnce, SameAnswerForAllCuts
<1>3. onward' = Units(0, fed') /\ fed' \in Nat /\ fed' <= length
  <2>1. Units(0, fed) \o Units(fed, n) = Units(0, fed + n)
    BY <1>2, FrontConcat
  <2>2. onward' = Units(0, fed')
    BY <1>1, <1>2, <2>1
  <2> QED BY <1>1, <1>2, <2>2, SMTT(30)
<1>4. onward' \in Seq(Nat)
  BY <1>3, UnitsTypes
<1>5. Verdict' = Verdict
  BY <1>1 DEF Verdict
<1>6. PassedExactlyOnce'
  BY <1>1, <1>3 DEF PassedExactlyOnce
<1>7. SameAnswerForAllCuts'
  BY <1>1, <1>2, <1>5 DEF SameAnswerForAllCuts
<1> QED BY <1>1, <1>2, <1>3, <1>4, <1>6, <1>7 DEF DetectorInv

(* The end of a stream too short to decide on.                             *)
LEMMA FinalizeStep ==
  ASSUME DetectorInv, Finalize
  PROVE  DetectorInv'
<1>1. /\ fed = length /\ ~ended /\ format # "Error" /\ ended' = TRUE
      /\ length' = length /\ begins' = begins /\ fed' = fed
  BY DEF Finalize
<1>2. /\ length \in Nat /\ fed \in Nat
      /\ length \in StreamLengths /\ begins \in Starts
      /\ buffer \in Seq(Nat) /\ Len(buffer) <= MaxBuffer /\ onward \in Seq(Nat)
      /\ PassedExactlyOnce /\ SameAnswerForAllCuts
      /\ format \in {"unknown", "SparseImage", "Regular", "Error"}
  BY DEF DetectorInv
<1>3. Verdict' = Verdict
  BY <1>1 DEF Verdict
<1>4. CASE format = "unknown" /\ buffer # <<>>
  <2>1. format' = "Regular" /\ onward' = buffer /\ buffer' = <<>>
    BY <1>4 DEF Finalize
  <2>2. buffer = Units(0, fed) /\ fed < Threshold
    BY <1>1, <1>4 DEF DetectorInv
  <2>3. fed # 0
    BY <1>2, <1>4, <2>2, UnitsTypes
  <2>4. PassedExactlyOnce'
    BY <1>1, <2>1, <2>2 DEF PassedExactlyOnce
  <2>5. SameAnswerForAllCuts'
    BY <1>1, <1>2, <2>1, <2>2, <2>3 DEF SameAnswerForAllCuts
  <2> QED BY <1>1, <1>2, <2>1, <2>4, <2>5 DEF DetectorInv
<1>5. CASE format # "unknown"
  <2>1. format' = format /\ onward' = onward /\ buffer' = buffer
    BY <1>5 DEF Finalize
  <2>2. fed >= Threshold /\ format = Verdict
    BY <1>1, <1>2, <1>5 DEF SameAnswerForAllCuts
  <2>3. PassedExactlyOnce'
    BY <1>1, <1>2, <2>1 DEF PassedExactlyOnce, Units
  <2>4. SameAnswerForAllCuts'
    BY <1>1, <1>3, <2>1, <2>2 DEF SameAnswerForAllCuts
  <2> QED BY <1>1, <1>2, <1>5, <2>1, <2>3, <2>4 DEF DetectorInv
<1>6. CASE format = "unknown" /\ buffer = <<>>
  <2>1. format' = format /\ onward' = onward /\ buffer' = buffer
    BY <1>6 DEF Finalize
  <2>2. buffer = Units(0, fed)
    BY <1>1, <1>6 DEF DetectorInv
  <2>3. fed = 0 /\ length = 0
    BY <1>1, <1>2, <1>6, <2>2, UnitsTypes
  <2>4. PassedExactlyOnce'
    BY <1>1, <1>2, <2>1 DEF PassedExactlyOnce, Units
  <2>5. SameAnswerForAllCuts'
    BY <1>1, <1>6, <2>1, <2>3 DEF SameAnswerForAllCuts
  <2> QED BY <1>1, <1>2, <1>6, <2>1, <2>3, <2>4, <2>5 DEF DetectorInv
<1> QED BY <1>4, <1>5, <1>6

(* Every step keeps the detector's invariant.                              *)
LEMMA DetectorStep == DetectorInv /\ [Next]_vars => DetectorInv'
<1> SUFFICES ASSUME DetectorInv, [Next]_vars PROVE DetectorInv'
  OBVIOUS
<1>1. CASE UNCHANGED vars
  BY <1>1 DEF vars, DetectorInv, PassedExactlyOnce, SameAnswerForAllCuts, Verdict, Units
<1>2. CASE \E n \in PieceSizes : Detect(n) \/ PassOn(n)
  BY <1>2, DetectStep, PassOnStep
<1>3. CASE Finalize
  BY <1>3, FinalizeStep
<1> QED BY <1>1, <1>2, <1>3 DEF Next

-----------------------------------------------------------------------------
(* The writer task.                                                        *)

(* The writer.                                                             *)

(* Between the two: the parser has been given what the detector let        *)
(* through, and at the end all of it.                                      *)
Linked ==
  /\ format = "SparseImage" => Len(buffer) <= Len(onward) /\ avail <= Len(onward)
  /\ format # "SparseImage" => avail = 0
  /\ ended => /\ P!Remaining = 0 /\ state # "Failed"
              /\ format = "SparseImage" => avail = Len(onward)

(* The inductive invariant of the whole.                                   *)
WriterInv == DetectorInv /\ ParserInv /\ P!DeviceIsExpansion /\ Linked

(* A step that leaves the parser alone.                                    *)
LEMMA ParserStutters ==
  ASSUME ParserInv, UNCHANGED parserVars
  PROVE  ParserInv'
<1>1. UNCHANGED <<image, state, pbuffer, processed, raw, offset, next, avail, at, device>>
  BY DEF parserVars
<1>2. P!TypeOK'
  BY <1>1 DEF ParserInv, P!TypeOK
<1>3. AtHeader' /\ AtChunk' /\ InRawData'
  BY <1>1, SameImage DEF ParserInv, AtHeader, AtChunk, InRawData, Begun, BelowCount
<1>4. AtEnd' /\ Accepting'
  BY <1>1, SameImage DEF ParserInv, AtEnd, Accepting, P!CompleteMeansWhole
<1> QED BY <1>2, <1>3, <1>4 DEF ParserInv

(* A piece reaches the detector, and what it lets through the parser.      *)
LEMMA ReceivePieceKeeps ==
  ASSUME WriterInv, ReceivePiece
  PROVE  DetectorInv' /\ ParserInv' /\ Linked'
<1>1. /\ DetectorInv /\ ParserInv /\ Linked
      /\ format = "SparseImage" => avail = Len(onward)
      /\ UNCHANGED parserVars
      /\ avail' = avail
  BY DEF WriterInv, ReceivePiece, Receiving, parserVars
<1>2. PICK n \in PieceSizes : Detect(n) \/ PassOn(n)
  BY DEF ReceivePiece
<1>3. DetectorInv' /\ ParserInv'
  BY <1>1, <1>2, DetectStep, PassOnStep, ParserStutters
<1>4. /\ n \in Nat /\ fed \in Nat /\ fed' = fed + n /\ ~ended /\ ended' = ended
      /\ avail \in Nat /\ onward \in Seq(Nat) /\ buffer' \in Seq(Nat)
  BY <1>1, <1>2, <1>3 DEF DetectorInv, ParserInv, P!TypeOK, Detect, PassOn
<1>5. CASE Detect(n)
  <2>1. format = "unknown" /\ avail = 0
    BY <1>1, <1>5 DEF Detect, Linked
  <2>2. Len(buffer') <= fed'
    <3>1. /\ Seen(n) = buffer' /\ Len(Seen(n)) = fed + Take(n)
          /\ Take(n) \in Nat /\ n - Take(n) \in Nat
      BY <1>1, <1>4, <1>5, <2>1, SeenByDetect DEF Detect, Seen, Take
    <3> QED BY <1>4, <3>1
  <2>3. format' = "SparseImage" => Len(onward') = fed'
    BY <1>3, <1>4, UnitsTypes DEF DetectorInv, PassedExactlyOnce
  <2> QED BY <1>1, <1>3, <1>4, <2>1, <2>2, <2>3 DEF Linked, DetectorInv
<1>6. CASE PassOn(n)
  <2>1. /\ format' = format /\ buffer' = buffer /\ onward' = onward \o Units(fed, n)
    BY <1>6 DEF PassOn
  <2>2. Units(fed, n) \in Seq(Nat) /\ Len(Units(fed, n)) = n
    BY <1>4, UnitsTypes
  <2>3. Len(onward') = Len(onward) + n
    <3>1. Len(onward \o Units(fed, n)) = Len(onward) + Len(Units(fed, n))
      BY <1>4, <2>2, ConcatElements
    <3> QED BY <2>1, <2>2, <3>1
  <2>4. Len(onward) \in Nat /\ Len(buffer) \in Nat
    BY <1>4, <2>1
  <2>5. /\ format = "SparseImage" => Len(buffer) <= Len(onward) /\ avail <= Len(onward)
        /\ format # "SparseImage" => avail = 0
    BY <1>1 DEF Linked
  <2>6. /\ format = "SparseImage" => Len(buffer') <= Len(onward') /\ avail' <= Len(onward')
        /\ format # "SparseImage" => avail' = 0
    BY <1>1, <1>4, <2>1, <2>3, <2>4, <2>5
  <2> QED BY <1>3, <1>4, <2>1, <2>6 DEF Linked
<1> QED BY <1>2, <1>3, <1>5, <1>6

(* The parser is given the rest of the piece that decided.                 *)
LEMMA ParseMoreKeeps ==
  ASSUME WriterInv, ParseMore
  PROVE  DetectorInv' /\ ParserInv' /\ Linked'
<1> DEFINE n == (IF avail = 0 THEN Len(buffer) ELSE Len(onward)) - avail
<1>1. /\ DetectorInv /\ ParserInv /\ Linked /\ format = "SparseImage" /\ avail < Len(onward)
      /\ P!Feed(n) /\ UNCHANGED vars
  BY DEF WriterInv, ParseMore
<1>2. avail \in Nat /\ buffer \in Seq(Nat) /\ onward \in Seq(Nat) /\ Len(buffer) <= Len(onward)
  BY <1>1 DEF DetectorInv, ParserInv, P!TypeOK, Linked
<1>3. n \in Nat /\ avail + n <= Len(onward)
  BY <1>1, <1>2
<1> HIDE DEF n
<1>4. DetectorInv' /\ ParserInv'
  BY <1>1, <1>3, DetectorStep, FeedKeeps
<1>5. /\ avail' = avail + n /\ UNCHANGED <<format, buffer, onward, ended>>
  BY <1>1 DEF P!Feed, vars
<1>6. ~ended
  BY <1>1, <1>2 DEF Linked
<1>7. Linked'
  BY <1>1, <1>2, <1>3, <1>5, <1>6 DEF Linked
<1> QED BY <1>4, <1>7

(* The parser takes a turn.                                                *)
LEMMA ParserTurnKeeps ==
  ASSUME WriterInv, ParserTurn
  PROVE  DetectorInv' /\ ParserInv' /\ Linked'
<1>1. /\ DetectorInv /\ ParserInv /\ Linked /\ P!Turn /\ UNCHANGED vars
  BY DEF WriterInv, ParserTurn
<1>2. DetectorInv' /\ ParserInv'
  BY <1>1, DetectorStep, TurnKeeps
<1>3. UNCHANGED <<format, buffer, onward, ended>>
  BY <1>1 DEF vars
<1>4. avail' = avail /\ P!Remaining > 0
  BY <1>1 DEF P!Turn, P!HeaderTurn, P!ChunkHeaderTurn, P!RawTurn, P!CompleteTurn
<1>5. Linked'
  BY <1>1, <1>3, <1>4 DEF Linked
<1> QED BY <1>2, <1>5

(* The stream ends.                                                        *)
LEMMA StreamEndsKeeps ==
  ASSUME WriterInv, StreamEnds
  PROVE  DetectorInv' /\ ParserInv' /\ Linked'
<1>1. /\ DetectorInv /\ ParserInv /\ Linked /\ Finalize /\ UNCHANGED parserVars
      /\ state # "Failed" /\ P!Remaining = 0
      /\ format = "SparseImage" => avail = Len(onward)
  BY DEF WriterInv, StreamEnds, Receiving
<1>2. DetectorInv' /\ ParserInv'
  BY <1>1, FinalizeStep, ParserStutters
<1>3. state' = state /\ avail' = avail /\ next' = next
  BY <1>1 DEF parserVars
<1>4. P!Remaining' = 0
  BY <1>1, <1>3 DEF P!Remaining
<1>5. \/ format = "unknown" /\ format' = "Regular"
      \/ UNCHANGED <<format, onward, buffer>>
  BY <1>1 DEF Finalize
<1>6. Linked'
  BY <1>1, <1>3, <1>4, <1>5 DEF Linked
<1> QED BY <1>2, <1>6

(* The writer task starts in its invariant.                                *)
LEMMA WriterInitially == WriterInit => WriterInv
<1> SUFFICES ASSUME WriterInit PROVE WriterInv
  OBVIOUS
<1>1. DetectorInv /\ ParserInv
  BY DetectorInit, ParserInit DEF WriterInit
<1>2. /\ format = "unknown" /\ avail = 0 /\ ended = FALSE
      /\ offset = 0 /\ at = 0 /\ device = <<>> /\ image \in Images
  BY DEF WriterInit, Init, P!Init
<1>3. P!DeviceIsExpansion
  <2>1. DOMAIN device = {}
    BY <1>2
  <2>2. {o \in DOMAIN P!Expanded(image) : o < 0} = {}
    <3>1. SUFFICES ASSUME NEW o \in DOMAIN P!Expanded(image) PROVE ~(o < 0)
      OBVIOUS
    <3>2. PICK i \in 1 .. Chunks : o \in DOMAIN Piece(i)
      BY <1>2, ExpandedFacts
    <3>3. Chunks \in Nat /\ i \in 1 .. Chunks + 1 /\ i + 1 \in 1 .. Chunks + 1
      BY <1>2, PositionFacts
    <3>4. OutputAt(i) \in Nat /\ OutputAt(i + 1) \in Nat
      BY <1>2, <3>3, PositionFacts
    <3>5. o \in OutputAt(i) .. OutputAt(i + 1) - 1
      BY <1>2, <3>2, PieceFacts
    <3> QED BY <3>4, <3>5
  <2> QED BY <1>2, <2>1, <2>2 DEF P!DeviceIsExpansion
<1> QED BY <1>1, <1>2, <1>3 DEF Linked, WriterInv

(* Every step of the writer task keeps its invariant.                      *)
LEMMA WriterStep == WriterInv /\ [WriterNext]_writerVars => WriterInv'
<1> SUFFICES ASSUME WriterInv, [WriterNext]_writerVars PROVE WriterInv'
  OBVIOUS
<1>1. CASE UNCHANGED writerVars
  <2>1. UNCHANGED vars /\ UNCHANGED parserVars
    BY <1>1 DEF writerVars
  <2>2. DetectorInv' /\ ParserInv'
    BY <2>1, DetectorStep, ParserStutters DEF WriterInv
  <2>3. P!DeviceIsExpansion'
    BY <2>1, DeviceStays DEF WriterInv, parserVars
  <2>4. Linked'
    BY <2>1 DEF WriterInv, Linked, P!Remaining, vars, parserVars
  <2> QED BY <2>2, <2>3, <2>4 DEF WriterInv
<1>2. CASE ReceivePiece
  <2>1. P!DeviceIsExpansion'
    BY <1>2, DeviceStays DEF WriterInv, ReceivePiece, parserVars
  <2> QED BY <1>2, <2>1, ReceivePieceKeeps DEF WriterInv
<1>3. CASE ParseMore
  <2>1. P!DeviceIsExpansion'
    BY <1>3, DeviceStays DEF WriterInv, ParseMore, P!Feed
  <2> QED BY <1>3, <2>1, ParseMoreKeeps DEF WriterInv
<1>4. CASE ParserTurn
  <2>1. P!DeviceIsExpansion'
    BY <1>4, TurnExpands DEF WriterInv, ParserTurn
  <2> QED BY <1>4, <2>1, ParserTurnKeeps DEF WriterInv
<1>5. CASE StreamEnds
  <2>1. P!DeviceIsExpansion'
    BY <1>5, DeviceStays DEF WriterInv, StreamEnds, parserVars
  <2> QED BY <1>5, <2>1, StreamEndsKeeps DEF WriterInv
<1> QED BY <1>1, <1>2, <1>3, <1>4, <1>5 DEF WriterNext

(* Nothing waits in the parser once it has been given the last chunk.      *)
LEMMA NothingWaits ==
  ASSUME ParserInv, P!NoEmptyRaw(image), image.chunks \in 1 .. Chunks, state # "Failed",
         next >= ChunkAt(image.chunks + 1)
  PROVE  state = "Complete"
<1>1. /\ image \in Images /\ state \in P!States /\ pbuffer \in Seq(Nat) /\ Chunks \in Nat
      /\ image.chunks \in Nat \ {0} /\ image.chunks <= Chunks
      /\ next \in Nat /\ processed \in Nat /\ raw \in Nat
      /\ Threshold \in Nat /\ ChunkHeaderWords \in Nat
  BY PositionFacts, ImageFacts, WriterAssumption, DetectorAssumption DEF ParserInv, P!TypeOK
<1>2. /\ 1 \in 1 .. Chunks + 1 /\ image.chunks + 1 \in 1 .. Chunks + 1
      /\ 1 <= image.chunks + 1
  BY <1>1
<1>3. ChunkAt(1) = Threshold /\ ChunkAt(1) <= ChunkAt(image.chunks + 1)
      /\ ChunkAt(image.chunks + 1) \in Nat
  BY <1>1, <1>2, PositionFacts
<1>4. CASE state = "WaitingHeader"
  BY <1>1, <1>3, <1>4 DEF ParserInv, AtHeader
<1>5. ASSUME processed < image.chunks
      PROVE  /\ Chunk(processed + 1) \in ChunkSet
             /\ P!FileWords(Chunk(processed + 1)) \in Nat
             /\ ChunkAt(processed + 1) \in Nat
             /\ ChunkAt(processed + 2) = ChunkAt(processed + 1) + P!FileWords(Chunk(processed + 1))
             /\ ChunkAt(processed + 2) <= next
  <2>1. /\ processed + 1 \in 1 .. Chunks /\ processed + 1 \in 1 .. Chunks + 1
        /\ processed + 1 + 1 = processed + 2
        /\ processed + 2 \in 1 .. Chunks + 1 /\ processed + 2 <= image.chunks + 1
    BY <1>1, <1>5
  <2>2. /\ Chunk(processed + 1) \in ChunkSet
        /\ ChunkAt(processed + 1) \in Nat /\ ChunkAt(processed + 2) \in Nat
        /\ ChunkAt(processed + 2) = ChunkAt(processed + 1) + P!FileWords(Chunk(processed + 1))
        /\ ChunkAt(processed + 2) <= ChunkAt(image.chunks + 1)
    BY <1>1, <1>2, <2>1, PositionFacts
  <2> QED BY <1>1, <1>3, <2>2, ChunkFacts
<1>6. CASE state = "WaitingChunkHeader"
  <2>1. /\ processed < image.chunks /\ Len(pbuffer) <= ChunkHeaderWords
        /\ next - Len(pbuffer) = ChunkAt(processed + 1)
        /\ Len(pbuffer) = ChunkHeaderWords => Chunk(processed + 1).type = "fill"
    BY <1>1, <1>6 DEF ParserInv, AtChunk, Begun, BelowCount
  <2> DEFINE c == Chunk(processed + 1)
             here == ChunkAt(processed + 1)
             held == Len(pbuffer)
  <2>2. held \in Nat /\ held <= ChunkHeaderWords /\ next - held = here
    BY <1>1, <2>1
  <2>3. /\ c \in ChunkSet /\ P!FileWords(c) \in Nat /\ here \in Nat
        /\ here + P!FileWords(c) <= next
        /\ held = ChunkHeaderWords => c.type = "fill"
    BY <1>5, <2>1
  <2> HIDE DEF c, here, held
  <2>4. /\ P!FileWords(c) >= ChunkHeaderWords
        /\ c.type = "fill" => P!FileWords(c) = ChunkHeaderWords + 1
    BY <2>3, ChunkFacts
  <2> QED BY <1>1, <2>2, <2>3, <2>4
<1>7. CASE state = "RawData"
  <2>1. processed < image.chunks /\ raw > 0 /\ next + raw = ChunkAt(processed + 2)
    BY <1>1, <1>7 DEF ParserInv, InRawData, BelowCount
  <2>2. ChunkAt(processed + 2) <= next
    BY <1>5, <2>1
  <2> QED BY <1>1, <2>1, <2>2
<1> QED BY <1>1, <1>4, <1>6, <1>7 DEF P!States

(* At the end of a sparse stream the parser has had all of it.             *)
LEMMA EndOfStream ==
  ASSUME WriterInv, ended, format = "SparseImage"
  PROVE  avail = length /\ next = length /\ state # "Failed"
<1>1. /\ onward = Units(0, fed) /\ fed = length /\ length \in Nat
      /\ avail = Len(onward) /\ avail - next = 0 /\ state # "Failed"
      /\ avail \in Nat /\ next \in Nat
  BY DEF WriterInv, DetectorInv, PassedExactlyOnce, Linked, ParserInv, P!TypeOK, P!Remaining
<1>2. Len(Units(0, fed)) = fed
  BY <1>1, UnitsTypes
<1> QED BY <1>1, <1>2

(* A parser that has had all its chunks is done, and then the size is      *)
(* right.                                                                  *)
LEMMA OkMeansWholeFollows == WriterInv => OkMeansWhole
<1> SUFFICES ASSUME WriterInv PROVE OkMeansWhole
  OBVIOUS
<1>1. ParserInv /\ P!CompleteMeansWhole
  BY DEF WriterInv, ParserInv, AtEnd
<1>2. ASSUME ended, format = "SparseImage", Holds
      PROVE  state = "Complete"
  <2>1. next = length /\ state # "Failed"
    BY <1>2, EndOfStream
  <2>2. /\ image.chunks \in 1 .. Chunks /\ P!NoEmptyRaw(image)
        /\ length >= ChunkAt(image.chunks + 1)
    BY <1>2 DEF Holds, Chunks, ChunkAt
  <2> QED BY <1>1, <2>1, <2>2, NothingWaits
<1> QED BY <1>1, <1>2 DEF OkMeansWhole

(* The same for a well-formed image, which holds all its chunks.           *)
LEMMA AcceptsWellFormedFollows == WriterInv => AcceptsWellFormed
<1> SUFFICES ASSUME WriterInv PROVE AcceptsWellFormed
  OBVIOUS
<1>1. ParserInv /\ DetectorInv
  BY DEF WriterInv
<1>2. ASSUME P!WellFormed(image), P!NoEmptyRaw(image)
      PROVE  state # "Failed"
  BY <1>1, <1>2 DEF ParserInv, Accepting
<1>3. ASSUME P!WellFormed(image), P!NoEmptyRaw(image), P!Remaining = 0,
             avail >= P!FileEnd(image) - image.trailing
      PROVE  state = "Complete"
  <2>1. image.chunks = Chunks
    BY <1>3 DEF P!WellFormed, Chunks
  <2>2. /\ image \in Images /\ avail \in Nat /\ next \in Nat /\ avail - next = 0
        /\ Chunks \in Nat
    BY <1>1, <1>3, PositionFacts DEF ParserInv, P!TypeOK, P!Remaining
  <2>3. ChunkAt(Chunks + 1) \in Nat
    <3>1. Chunks + 1 \in 1 .. Chunks + 1
      BY <2>2
    <3> QED BY <2>2, <3>1, PositionFacts
  <2>4. image.trailing \in Nat
    BY <2>2, ImageFacts
  <2>5. P!FileEnd(image) = ChunkAt(Chunks + 1) + image.trailing
    BY DEF P!FileEnd, ChunkAt, Chunks
  <2>6. next >= ChunkAt(image.chunks + 1)
    BY <1>3, <2>1, <2>2, <2>3, <2>4, <2>5
  <2>7. image.chunks \in 1 .. Chunks
    BY <1>3, <2>1, <2>2 DEF P!WellFormed
  <2> QED BY <1>1, <1>2, <1>3, <2>6, <2>7, NothingWaits
<1>4. ASSUME begins = "sparse", ended, length >= Threshold
      PROVE  avail = length
  <2>1. format = "SparseImage"
    BY <1>1, <1>4 DEF DetectorInv, SameAnswerForAllCuts, Verdict
  <2> QED BY <1>4, <2>1, EndOfStream
<1> QED BY <1>2, <1>3, <1>4 DEF AcceptsWellFormed, P!AcceptsWellFormed

-----------------------------------------------------------------------------
(* The theorems.                                                           *)

(* The invariant of the writer task.                                       *)
THEOREM WriterInvariant == WriterSpec => []WriterInv
BY WriterInitially, WriterStep, PTL DEF WriterSpec

(* Every variable keeps its type.                                          *)
THEOREM WriterTypesTheorem == WriterSpec => []WriterTypeOK
<1>1. WriterInv => WriterTypeOK
  BY DEF WriterInv, DetectorInv, ParserInv, WriterTypeOK, TypeOK
<1> QED BY <1>1, WriterInvariant, PTL

(* What detection holds back and lets through adds up to the stream,       *)
(* however it is cut: nothing is lost, repeated or out of order.           *)
THEOREM ExactlyOnceTheorem == WriterSpec => []PassedExactlyOnce
<1>1. WriterInv => PassedExactlyOnce
  BY DEF WriterInv, DetectorInv
<1> QED BY <1>1, WriterInvariant, PTL

(* The format answered is a function of the stream, not of its pieces.     *)
THEOREM SameAnswerTheorem == WriterSpec => []SameAnswerForAllCuts
<1>1. WriterInv => SameAnswerForAllCuts
  BY DEF WriterInv, DetectorInv
<1> QED BY <1>1, WriterInvariant, PTL

(* However the stream of a well-formed image is cut, the device holds at   *)
(* every moment the expansion of the chunks so far, and no more.           *)
THEOREM ExpansionTheorem == WriterSpec => []DeviceIsExpansion
<1>1. WriterInv => DeviceIsExpansion
  BY DEF WriterInv, DeviceIsExpansion
<1> QED BY <1>1, WriterInvariant, PTL

(* A well-formed image is accepted however it is cut, and with its last    *)
(* chunk the parser is done.                                               *)
THEOREM AcceptsTheorem == WriterSpec => []AcceptsWellFormed
BY AcceptsWellFormedFollows, WriterInvariant, PTL

(* The task's Ok for a stream that holds its chunks is the image's.        *)
THEOREM OkTheorem == WriterSpec => []OkMeansWhole
BY OkMeansWholeFollows, WriterInvariant, PTL
=============================================================================
