--------------------------- MODULE BlockWriterProofs ---------------------------
(***************************************************************************)
(* Theorems about BlockWriter, for every block size, alignment, interval   *)
(* and sequence of commands.                                               *)
(***************************************************************************)
EXTENDS BlockWriter, FiniteSetTheorems, TLAPS

(* The inductive invariant.                                                *)

Working == phase \in {"idle", "write"}

(* The loop of write() ends when all is copied, and never before.          *)
LoopInv ==
  /\ phase \in {"opening", "idle", "done"} => pending = 0
  /\ phase = "write" /\ piece = 0 => pending = 0

(* Nothing has been done before the device is open.                        *)
UnopenedInv ==
  /\ phase = "opening" =>
       /\ buffer = <<>> /\ bytesWritten = 0 /\ cursor = 0 /\ wanted = <<>>
       /\ medium = IF target \in {"block", "file"} THEN Before ELSE <<>>
  /\ target = "dev" => phase \in {"opening", "failed"} /\ medium = <<>>

(* What has been asked for: nothing beyond the end of the current command, *)
(* all that the buffer holds, and what the current command has still to    *)
(* write, under its own mark.                                              *)
WantedInv ==
  Working =>
    /\ \A o \in DOMAIN wanted : o < bytesWritten + pending
    /\ \A o \in cursor .. bytesWritten - 1 : o \in DOMAIN wanted
    /\ \A o \in StillToCome : o \in DOMAIN wanted /\ wanted[o] = commands

(* The offsets written since the last sync are counted by bytes_since_sync *)
(* at the most, which stays below the interval.                            *)
SyncInv ==
  ~useDirectIO /\ phase # "failed" =>
    /\ IsFiniteSet(unsynced) /\ Cardinality(unsynced) <= sinceSync
    /\ sinceSync < SyncInterval

WriterInv ==
  /\ TypeOK /\ LoopInv /\ UnopenedInv /\ WantedInv /\ SyncInv
  /\ NothingLostOrMoved /\ OnlyPaddingIsAdded /\ DirectWritesAligned
-----------------------------------------------------------------------------
(* Arithmetic of blocks and of the alignment.                              *)

LEMMA Constants ==
  /\ Alignment \in Nat \ {0} /\ BlockSize \in Nat \ {0} /\ BlockSize % Alignment = 0
  /\ SyncInterval \in Nat \ {0} /\ FillSize \in Nat \ {0}
  /\ Sizes \subseteq Nat /\ Offsets \subseteq Nat /\ DeviceSize \in Nat /\ MaxCommands \in Nat
BY BlockWriterAssumption

LEMMA DivisionUnique ==
  ASSUME NEW a \in Nat \ {0}, NEW k \in Nat, NEW r \in 0 .. a - 1
  PROVE  (a * k + r) % a = r /\ (a * k + r) \div a = k
OBVIOUS

LEMMA Division ==
  ASSUME NEW a \in Nat \ {0}, NEW n \in Nat
  PROVE  /\ n \div a \in Nat /\ a * (n \div a) \in Nat
         /\ a * (n \div a) <= n /\ n < a * (n \div a) + a
         /\ n % a = 0 => n = a * (n \div a)
<1>1. n \div a \in Nat
  OBVIOUS
<1>2. n % a = n - a * (n \div a)
  OBVIOUS
<1>3. n % a \in 0 .. a - 1
  OBVIOUS
<1>4. a * (n \div a) \in Nat
  BY <1>1
<1> QED BY <1>1, <1>2, <1>3, <1>4

(* The next aligned offset.                                                *)
LEMMA RoundUpFacts ==
  ASSUME NEW n \in Nat
  PROVE  /\ RoundUp(n) \in Nat /\ RoundUp(n) >= n /\ RoundUp(n) % Alignment = 0
         /\ n = 0 => RoundUp(n) = 0
<1> DEFINE k == (n + Alignment - 1) \div Alignment
<1>1. n + Alignment - 1 \in Nat /\ Alignment \in Nat \ {0}
  BY Constants
<1>2. k \in Nat /\ Alignment * k \in Nat /\ n + Alignment - 1 < Alignment * k + Alignment
  BY <1>1, Division
<1>3. RoundUp(n) = Alignment * k
  BY <1>1, <1>2 DEF RoundUp
<1>4. n = 0 => k = 0
  <2>1. Alignment - 1 \in 0 .. Alignment - 1 /\ Alignment * 0 + (Alignment - 1) = Alignment - 1
    BY <1>1
  <2>2. (Alignment - 1) \div Alignment = 0
    BY <1>1, <2>1, DivisionUnique
  <2> QED BY <1>1, <2>2
<1> HIDE DEF k
<1>5. (Alignment * k) % Alignment = 0
  BY <1>1, <1>2
<1> QED BY <1>1, <1>2, <1>3, <1>4, <1>5

(* Aligned offsets shift the grid onto itself.                             *)
LEMMA AlignedSum ==
  ASSUME NEW a \in Nat, a % Alignment = 0, NEW n \in Nat
  PROVE  /\ RoundUp(a + n) = a + RoundUp(n)
         /\ n % Alignment = 0 => (a + n) % Alignment = 0
<1> DEFINE j == a \div Alignment
           k == (n + Alignment - 1) \div Alignment
           m == n \div Alignment
<1>1. Alignment \in Nat \ {0} /\ n + Alignment - 1 \in Nat
  BY Constants
<1>2. j \in Nat /\ a = Alignment * j
  BY <1>1, Division
<1>3. /\ k \in Nat /\ Alignment * k \in Nat /\ Alignment * k <= n + Alignment - 1
      /\ n + Alignment - 1 < Alignment * k + Alignment
  BY <1>1, Division
<1>4. m \in Nat /\ (n % Alignment = 0 => n = Alignment * m)
  BY <1>1, Division
<1>5. RoundUp(n) = Alignment * k /\ RoundUp(a + n) = ((a + n + Alignment - 1) \div Alignment) * Alignment
  BY <1>1, <1>3 DEF RoundUp
<1> HIDE DEF j, k, m
<1>6. RoundUp(a + n) = a + RoundUp(n)
  <2> DEFINE r == n + Alignment - 1 - Alignment * k
  <2>1. r \in 0 .. Alignment - 1
    BY <1>1, <1>3
  <2>2. Alignment * (j + k) = Alignment * j + Alignment * k
    BY <1>1, <1>2, <1>3
  <2>3. a + n + Alignment - 1 = Alignment * (j + k) + r
    BY <1>1, <1>2, <1>3, <2>2
  <2> HIDE DEF r
  <2>4. (a + n + Alignment - 1) \div Alignment = j + k
    BY <1>1, <1>2, <1>3, <2>1, <2>3, DivisionUnique
  <2> QED BY <1>1, <1>2, <1>3, <1>5, <2>2, <2>4
<1>7. ASSUME n % Alignment = 0 PROVE (a + n) % Alignment = 0
  <2>1. a + n = Alignment * (j + m) + 0
    BY <1>1, <1>2, <1>4, <1>7
  <2>2. j + m \in Nat /\ 0 \in 0 .. Alignment - 1
    BY <1>1, <1>2, <1>4
  <2>3. (Alignment * (j + m) + 0) % Alignment = 0
    BY <1>1, <2>2, DivisionUnique
  <2> QED BY <2>1, <2>3
<1> QED BY <1>6, <1>7

-----------------------------------------------------------------------------
(* What is where.                                                          *)

LEMMA InvTypes ==
  ASSUME WriterInv
  PROVE  /\ pending \in Nat /\ piece \in 0 .. pending /\ commands \in 0 .. MaxCommands
         /\ buffer \in Seq(Marks) /\ Len(buffer) \in Nat /\ Len(buffer) < BlockSize
         /\ bytesWritten \in Nat /\ sinceSync \in Nat /\ cursor \in Nat
         /\ DOMAIN medium \subseteq Nat /\ DOMAIN wanted \subseteq Nat
         /\ Working => bytesWritten = cursor + Len(buffer)
BY DEF WriterInv, TypeOK, NothingLostOrMoved, PositionTracked, Working

(* The device with data at the position of the file.                       *)
With(data) == Over([o \in cursor .. cursor + Len(data) - 1 |-> data[o - cursor + 1]], medium)

LEMMA WithFacts ==
  ASSUME NEW data \in Seq(Marks), cursor \in Nat
  PROVE  /\ DOMAIN With(data) = cursor .. cursor + Len(data) - 1 \union DOMAIN medium
         /\ \A o \in cursor .. cursor + Len(data) - 1 : With(data)[o] = data[o - cursor + 1]
         /\ \A o \in DOMAIN medium \ cursor .. cursor + Len(data) - 1 : With(data)[o] = medium[o]
<1> DEFINE f == [o \in cursor .. cursor + Len(data) - 1 |-> data[o - cursor + 1]]
<1>1. /\ DOMAIN f = cursor .. cursor + Len(data) - 1
      /\ \A o \in cursor .. cursor + Len(data) - 1 : f[o] = data[o - cursor + 1]
  OBVIOUS
<1>2. With(data) = Over(f, medium)
  BY DEF With
<1> HIDE DEF f
<1>3. /\ DOMAIN Over(f, medium) = cursor .. cursor + Len(data) - 1 \union DOMAIN medium
      /\ \A o \in cursor .. cursor + Len(data) - 1 : Over(f, medium)[o] = f[o]
      /\ \A o \in DOMAIN medium \ cursor .. cursor + Len(data) - 1 : Over(f, medium)[o] = medium[o]
  BY <1>1 DEF Over
<1> QED BY <1>1, <1>2, <1>3

LEMMA OnMediumFacts ==
  ASSUME NEW data \in Seq(Marks), cursor \in Nat, NEW count \in Nat
  PROVE  /\ DOMAIN OnMedium(data, count) = cursor .. cursor + count - 1 \union DOMAIN medium
         /\ \A o \in cursor .. cursor + count - 1 :
              OnMedium(data, count)[o] = IF o - cursor < Len(data) THEN data[o - cursor + 1]
                                         ELSE Padding
         /\ \A o \in DOMAIN medium \ cursor .. cursor + count - 1 :
              OnMedium(data, count)[o] = medium[o]
<1> DEFINE f == [o \in cursor .. cursor + count - 1 |->
                   IF o - cursor < Len(data) THEN data[o - cursor + 1] ELSE Padding]
<1>1. /\ DOMAIN f = cursor .. cursor + count - 1
      /\ \A o \in cursor .. cursor + count - 1 :
           f[o] = IF o - cursor < Len(data) THEN data[o - cursor + 1] ELSE Padding
  OBVIOUS
<1>2. OnMedium(data, count) = Over(f, medium)
  BY DEF OnMedium
<1> HIDE DEF f
<1>3. /\ DOMAIN Over(f, medium) = cursor .. cursor + count - 1 \union DOMAIN medium
      /\ \A o \in cursor .. cursor + count - 1 : Over(f, medium)[o] = f[o]
      /\ \A o \in DOMAIN medium \ cursor .. cursor + count - 1 : Over(f, medium)[o] = medium[o]
  BY <1>1 DEF Over
<1> QED BY <1>1, <1>2, <1>3

(* At least what is in the buffer is written, ...                          *)
LEMMA WriteSizeFacts ==
  ASSUME NEW data \in Seq(Marks)
  PROVE  /\ WriteSize(data) \in Nat /\ WriteSize(data) >= Len(data)
         /\ WriteSize(data) > Len(data) =>
              useDirectIO /\ Len(data) # 0 /\ WriteSize(data) = RoundUp(Len(data))
         /\ ~useDirectIO => WriteSize(data) = Len(data)
<1>1. Len(data) \in Nat
  OBVIOUS
<1> QED BY <1>1, RoundUpFacts DEF WriteSize

(* ... and is then found on the device.                                    *)
LEMMA FlushedFacts ==
  ASSUME WriterInv, NEW data \in Seq(Marks), medium' = OnMedium(data, WriteSize(data)),
         buffer' = <<>>, cursor' \in Nat,
         NEW o \in DOMAIN With(data), o < cursor + Len(data)
  PROVE  o \in DOMAIN Settled' /\ Settled'[o] = With(data)[o]
<1>1. cursor \in Nat /\ Len(data) \in Nat
  BY InvTypes
<1>2. WriteSize(data) \in Nat /\ WriteSize(data) >= Len(data)
  BY WriteSizeFacts
<1>3. o \in cursor .. cursor + Len(data) - 1 \union DOMAIN medium
  BY <1>1, WithFacts
<1>4. o \in DOMAIN medium' /\ medium'[o] = With(data)[o]
  <2>1. CASE o \in cursor .. cursor + Len(data) - 1
    <3>1. o \in cursor .. cursor + WriteSize(data) - 1 /\ o - cursor < Len(data)
      BY <1>1, <1>2, <2>1
    <3>2. With(data)[o] = data[o - cursor + 1]
      BY <1>1, <2>1, WithFacts
    <3> DEFINE count == WriteSize(data)
    <3>3. medium' = OnMedium(data, count) /\ count \in Nat
      BY <1>2
    <3>4. o \in cursor .. cursor + count - 1
      BY <3>1
    <3> HIDE DEF count
    <3>5. o \in DOMAIN medium' /\ medium'[o] = data[o - cursor + 1]
      <4> DEFINE new == OnMedium(data, count)
      <4>1. /\ DOMAIN new = cursor .. cursor + count - 1 \union DOMAIN medium
            /\ \A x \in cursor .. cursor + count - 1 :
                 new[x] = IF x - cursor < Len(data) THEN data[x - cursor + 1] ELSE Padding
        BY <1>1, <3>3, OnMediumFacts
      <4>2. medium' = new
        BY <3>3
      <4> HIDE DEF new
      <4> QED BY <3>1, <3>4, <4>1, <4>2
    <3> QED BY <3>2, <3>5
  <2>2. CASE o \notin cursor .. cursor + Len(data) - 1
    <3>1. o \in DOMAIN medium \ cursor .. cursor + Len(data) - 1
      BY <1>3, <2>2
    <3>2. o \in DOMAIN medium \ cursor .. cursor + WriteSize(data) - 1
      BY <1>1, <1>2, <3>1, InvTypes
    <3> QED BY <1>1, <1>2, <3>1, <3>2, WithFacts, OnMediumFacts
  <2> QED BY <2>1, <2>2
<1> DEFINE f == [x \in cursor' .. cursor' + Len(buffer') - 1 |-> buffer'[x - cursor' + 1]]
<1>5. DOMAIN f = {} /\ Settled' = Over(f, medium')
  <2>1. Len(buffer') = 0
    OBVIOUS
  <2>2. \A x : x \notin cursor' .. cursor' + Len(buffer') - 1
    BY <2>1
  <2>3. DOMAIN f = {}
    BY <2>2
  <2> QED BY <2>3 DEF Settled
<1> HIDE DEF f
<1>6. /\ DOMAIN Over(f, medium') = {} \union DOMAIN medium'
      /\ \A x \in DOMAIN medium' \ {} : Over(f, medium')[x] = medium'[x]
  BY <1>5 DEF Over
<1> QED BY <1>4, <1>5, <1>6

(* What is wanted is found where the buffer goes.                          *)
LEMMA WantedPlaces ==
  ASSUME WriterInv, Working, NEW o \in DOMAIN wanted \ StillToCome
  PROVE  o \in Nat /\ o < bytesWritten /\ o \in DOMAIN With(buffer) /\ With(buffer)[o] = wanted[o]
<1>1. o \in Nat /\ bytesWritten \in Nat /\ pending \in Nat
  BY InvTypes
<1>2. o < bytesWritten + pending
  BY DEF WriterInv, WantedInv
<1>3. o < bytesWritten
  BY <1>1, <1>2 DEF StillToCome
<1>4. phase # "failed"
  BY DEF Working
<1>5. With(buffer) = Settled
  BY DEF With, Settled
<1>6. o \in DOMAIN Settled /\ Settled[o] = wanted[o]
  BY <1>4 DEF WriterInv, NothingLostOrMoved
<1> QED BY <1>1, <1>3, <1>5, <1>6

(* The offsets of the buffer are wanted.                                   *)
LEMMA BufferWanted ==
  ASSUME WriterInv, Working
  PROVE  \A o \in cursor .. cursor + Len(buffer) - 1 : o \in DOMAIN wanted
<1>1. /\ bytesWritten = cursor + Len(buffer)
      /\ bytesWritten \in Nat /\ cursor \in Nat /\ Len(buffer) \in Nat
  BY InvTypes
<1>2. \A o \in cursor .. bytesWritten - 1 : o \in DOMAIN wanted
  BY DEF WriterInv, WantedInv
<1> TAKE o \in cursor .. cursor + Len(buffer) - 1
<1>3. o \in cursor .. bytesWritten - 1
  BY <1>1
<1> QED BY <1>2, <1>3

(* One turn of the loop: what it copies, and the buffer with it.           *)
Count == AtMost(BlockSize - Len(buffer), piece)
Data  == buffer \o [i \in 1 .. Count |-> commands]

LEMMA CountFacts ==
  ASSUME WriterInv, piece > 0
  PROVE  /\ Count \in Nat \ {0} /\ Count <= piece /\ Count <= pending
         /\ Len(buffer) + Count <= BlockSize
         /\ Count < piece => Len(buffer) + Count = BlockSize
BY InvTypes, Constants DEF Count, AtMost

LEMMA DataFacts ==
  ASSUME WriterInv, piece > 0
  PROVE  /\ Data \in Seq(Marks) /\ Len(Data) = Len(buffer) + Count
         /\ \A i \in 1 .. Len(buffer) : Data[i] = buffer[i]
         /\ \A i \in Len(buffer) + 1 .. Len(Data) : Data[i] = commands
<1>1. Count \in Nat
  BY CountFacts
<1>2. commands \in Marks /\ buffer \in Seq(Marks) /\ Len(buffer) \in Nat
  BY InvTypes DEF Marks
<1> DEFINE s == [i \in 1 .. Count |-> commands]
<1>3. s \in Seq(Marks) /\ Len(s) = Count /\ \A i \in 1 .. Count : s[i] = commands
  BY <1>1, <1>2
<1>4. Data = buffer \o s
  BY DEF Data
<1> HIDE DEF s
<1>5. Data \in Seq(Marks) /\ Len(Data) = Len(buffer) + Count
  BY <1>2, <1>3, <1>4
<1>6. \A i \in 1 .. Len(buffer) : Data[i] = buffer[i]
  BY <1>1, <1>2, <1>3, <1>4
<1>7. \A i \in Len(buffer) + 1 .. Len(Data) : Data[i] = commands
  <2> TAKE i \in Len(buffer) + 1 .. Len(Data)
  <2>1. i - Len(buffer) \in 1 .. Count /\ i \in 1 .. Len(buffer) + Count /\ i > Len(buffer)
    BY <1>1, <1>2, <1>5
  <2>2. Data[i] = s[i - Len(buffer)]
    BY <1>1, <1>2, <1>3, <1>4, <2>1
  <2> QED BY <1>3, <2>1, <2>2
<1> QED BY <1>5, <1>6, <1>7

(* After the copy, all but what is still to come is in its place.          *)
LEMMA CopiedPlaces ==
  ASSUME WriterInv, phase = "write", piece > 0,
         NEW o \in DOMAIN wanted, o \notin bytesWritten + Count .. bytesWritten + pending - 1
  PROVE  /\ o \in Nat /\ o < cursor + Len(Data)
         /\ o \in DOMAIN With(Data) /\ With(Data)[o] = wanted[o]
<1>1. Working
  BY DEF Working
<1>2. /\ bytesWritten \in Nat /\ cursor \in Nat /\ pending \in Nat /\ Len(buffer) \in Nat
      /\ buffer \in Seq(Marks) /\ bytesWritten = cursor + Len(buffer) /\ o \in Nat
      /\ DOMAIN medium \subseteq Nat
  BY <1>1, InvTypes
<1>3. Count \in Nat /\ Count <= pending
  BY CountFacts
<1>4. Data \in Seq(Marks) /\ Len(Data) = Len(buffer) + Count
  BY DataFacts
<1>5. o < bytesWritten + pending
  BY <1>1 DEF WriterInv, WantedInv
<1>6. o < cursor + Len(Data)
  BY <1>2, <1>3, <1>4, <1>5
<1>7. CASE o \in StillToCome
  <2>1. o \in cursor .. cursor + Len(Data) - 1 /\ o - cursor + 1 \in Len(buffer) + 1 .. Len(Data)
    BY <1>2, <1>3, <1>4, <1>6, <1>7 DEF StillToCome
  <2>2. With(Data)[o] = commands /\ o \in DOMAIN With(Data)
    BY <1>2, <1>4, <2>1, WithFacts, DataFacts
  <2>3. wanted[o] = commands
    BY <1>1, <1>7 DEF WriterInv, WantedInv
  <2> QED BY <1>2, <1>6, <2>2, <2>3
<1>8. CASE o \notin StillToCome
  <2>1. o < bytesWritten /\ o \in DOMAIN With(buffer) /\ With(buffer)[o] = wanted[o]
    BY <1>1, <1>8, WantedPlaces
  <2>2. CASE o \in cursor .. cursor + Len(buffer) - 1
    <3>1. o \in cursor .. cursor + Len(Data) - 1 /\ o - cursor + 1 \in 1 .. Len(buffer)
      BY <1>2, <1>3, <1>4, <2>2
    <3>2. With(buffer)[o] = buffer[o - cursor + 1]
      BY <1>2, <2>2, WithFacts
    <3>3. With(Data)[o] = Data[o - cursor + 1] /\ o \in DOMAIN With(Data)
      BY <1>2, <1>4, <3>1, WithFacts
    <3> QED BY <1>2, <1>6, <2>1, <3>1, <3>2, <3>3, DataFacts
  <2>3. CASE o \notin cursor .. cursor + Len(buffer) - 1
    <3>1. o \in DOMAIN medium \ cursor .. cursor + Len(buffer) - 1
      BY <1>2, <2>1, <2>3, WithFacts
    <3>2. o \in DOMAIN medium \ cursor .. cursor + Len(Data) - 1
      BY <1>2, <1>3, <1>4, <2>1, <3>1
    <3>3. With(buffer)[o] = medium[o]
      BY <1>2, <3>1, WithFacts
    <3>4. With(Data)[o] = medium[o] /\ o \in DOMAIN With(Data)
      BY <1>2, <1>4, <3>2, WithFacts
    <3> QED BY <1>2, <1>6, <2>1, <3>3, <3>4
  <2> QED BY <2>2, <2>3
<1> QED BY <1>7, <1>8

LEMMA DataWanted ==
  ASSUME WriterInv, phase = "write", piece > 0
  PROVE  \A o \in cursor .. cursor + Len(Data) - 1 : o \in DOMAIN wanted
<1>1. Working
  BY DEF Working
<1>2. /\ bytesWritten \in Nat /\ cursor \in Nat /\ pending \in Nat /\ Len(buffer) \in Nat
      /\ bytesWritten = cursor + Len(buffer)
  BY <1>1, InvTypes
<1>3. Count \in Nat /\ Count <= pending /\ Len(Data) = Len(buffer) + Count
  BY CountFacts, DataFacts
<1> TAKE o \in cursor .. cursor + Len(Data) - 1
<1>4. o \in cursor .. cursor + Len(buffer) - 1 \/ o \in StillToCome
  BY <1>2, <1>3 DEF StillToCome
<1> QED BY <1>1, <1>4, BufferWanted DEF WriterInv, WantedInv

-----------------------------------------------------------------------------
(* A block on its way to the device.                                       *)

Fixed == UNCHANGED <<target, useDirectIO>>

(* Whatever part of it gets there: an offset nobody asked for is left      *)
(* alone, or is padding right after the data.                              *)
LEMMA PaddingKept ==
  ASSUME WriterInv, Working, Fixed, wanted' = wanted,
         NEW data \in Seq(Marks), \A o \in cursor .. cursor + Len(data) - 1 : o \in DOMAIN wanted,
         NEW count \in 0 .. WriteSize(data), medium' = OnMedium(data, count)
  PROVE  OnlyPaddingIsAdded' /\ DOMAIN medium' \subseteq Nat /\ target # "dev"
<1> DEFINE range == cursor .. cursor + count - 1
<1>1. /\ cursor \in Nat /\ Len(data) \in Nat /\ count \in Nat /\ range \subseteq Nat
      /\ DOMAIN medium \subseteq Nat /\ DOMAIN wanted \subseteq Nat
  BY InvTypes, WriteSizeFacts, SMTT(30)
<1>2. target # "dev" /\ target' = target /\ useDirectIO' = useDirectIO
  BY DEF WriterInv, UnopenedInv, Working, Fixed
<1>3. /\ DOMAIN medium' = range \union DOMAIN medium
      /\ \A o \in range : medium'[o] = IF o - cursor < Len(data) THEN data[o - cursor + 1]
                                       ELSE Padding
      /\ \A o \in DOMAIN medium \ range : medium'[o] = medium[o]
  BY <1>1, OnMediumFacts
<1>4. ASSUME NEW o \in range, o \notin DOMAIN wanted PROVE Padded(o)'
  <2>1. o \in Nat /\ o >= cursor + Len(data) /\ o < cursor + count
    BY <1>1, <1>4
  <2>2. medium'[o] = Padding /\ o \in DOMAIN medium'
    BY <1>1, <1>3, <2>1
  <2>3. useDirectIO /\ Len(data) # 0 /\ WriteSize(data) = RoundUp(Len(data))
    BY <1>1, <2>1, WriteSizeFacts
  <2>4. cursor % Alignment = 0
    BY <2>3 DEF WriterInv, DirectWritesAligned
  <2>5. RoundUp(cursor + Len(data)) = cursor + RoundUp(Len(data)) /\ RoundUp(Len(data)) \in Nat
    BY <1>1, <2>4, AlignedSum, RoundUpFacts
  <2> DEFINE e == cursor + Len(data) - 1
  <2>6. e \in DOMAIN wanted /\ e < o /\ e + 1 = cursor + Len(data)
    BY <1>1, <2>1, <2>3
  <2>7. o < RoundUp(e + 1)
    BY <1>1, <2>1, <2>3, <2>5, <2>6
  <2> HIDE DEF e
  <2>8. \E x \in DOMAIN wanted : x < o /\ o < RoundUp(x + 1)
    BY <2>6, <2>7
  <2> QED BY <1>2, <2>2, <2>3, <2>8 DEF Padded, RoundUp
<1>5. ASSUME NEW o \in DOMAIN medium \ range, Untouched(o) \/ Padded(o)
      PROVE  Untouched(o)' \/ Padded(o)'
  BY <1>2, <1>3, <1>5 DEF Untouched, Padded, RoundUp
<1>6. \A o \in (DOMAIN medium \union DOMAIN Before) \ DOMAIN wanted : Untouched(o) \/ Padded(o)
  BY DEF WriterInv, OnlyPaddingIsAdded
<1>7. \A o \in (DOMAIN medium' \union DOMAIN Before) \ DOMAIN wanted : Untouched(o)' \/ Padded(o)'
  <2> TAKE o \in (DOMAIN medium' \union DOMAIN Before) \ DOMAIN wanted
  <2>1. CASE o \in range
    BY <1>4, <2>1
  <2>2. CASE o \in DOMAIN medium \ range
    BY <1>5, <1>6, <2>2
  <2>3. CASE o \notin DOMAIN medium'
    BY <2>3 DEF Untouched
  <2> QED BY <1>3, <2>1, <2>2, <2>3
<1>8. target = "block" => DOMAIN Before \subseteq DOMAIN medium'
  BY <1>3 DEF WriterInv, OnlyPaddingIsAdded
<1>9. target # "block" => \A o \in DOMAIN medium' : medium'[o] # Old
  <2> SUFFICES ASSUME target # "block", NEW o \in DOMAIN medium' PROVE medium'[o] # Old
    OBVIOUS
  <2>1. CASE o \in range /\ o - cursor < Len(data)
    <3>1. o - cursor + 1 \in 1 .. Len(data)
      BY <1>1, <2>1
    <3>2. data[o - cursor + 1] \in Marks
      BY <3>1
    <3> QED BY <1>3, <2>1, <3>2, Constants DEF Marks, Old
  <2>2. CASE o \in range /\ ~(o - cursor < Len(data))
    BY <1>3, <2>2 DEF Padding, Old
  <2>3. CASE o \in DOMAIN medium \ range
    BY <1>3, <2>3 DEF WriterInv, OnlyPaddingIsAdded, Working
  <2> QED BY <1>3, <2>1, <2>2, <2>3
<1>10. OnlyPaddingIsAdded'
  BY <1>2, <1>7, <1>8, <1>9 DEF OnlyPaddingIsAdded, Before
<1>11. DOMAIN medium' \subseteq Nat
  BY <1>1, <1>3
<1> QED BY <1>2, <1>10, <1>11

(* The block is counted, and the interval starts again when it is full.    *)
LEMMA SyncKept ==
  ASSUME WriterInv, Working, Fixed, NEW data \in Seq(Marks), NEW after,
         FlushBuffer(data, after)
  PROVE  SyncInv' /\ sinceSync' \in Nat /\ unsynced' \subseteq Nat
<1> DEFINE due == ~useDirectIO /\ data # <<>> /\ sinceSync + Len(data) >= SyncInterval
           range == cursor .. cursor + WriteSize(data) - 1
<1>1. /\ sinceSync \in Nat /\ cursor \in Nat /\ Len(data) \in Nat /\ WriteSize(data) \in Nat
      /\ SyncInterval \in Nat \ {0}
  BY InvTypes, WriteSizeFacts, Constants
<1>2. /\ sinceSync' = IF due THEN 0 ELSE sinceSync + Len(data)
      /\ unsynced' = IF due THEN {} ELSE unsynced \union range
  BY DEF FlushBuffer
<1>3. range \subseteq Nat /\ unsynced \subseteq Nat
  BY <1>1 DEF WriterInv, TypeOK
<1>4. sinceSync' \in Nat /\ unsynced' \subseteq Nat
  <2>1. sinceSync' \in Nat
    BY <1>1, <1>2
  <2>2. unsynced' \in {{}, unsynced \union range}
    BY <1>2, Zenon
  <2> HIDE DEF range
  <2> QED BY <1>3, <2>1, <2>2
<1>5. ASSUME ~useDirectIO
      PROVE  /\ IsFiniteSet(unsynced') /\ Cardinality(unsynced') <= sinceSync'
             /\ sinceSync' < SyncInterval
  <2>1. CASE due
    BY <1>1, <1>2, <2>1, FS_EmptySet
  <2>2. CASE ~due
    <3>1. IsFiniteSet(unsynced) /\ Cardinality(unsynced) <= sinceSync /\ sinceSync < SyncInterval
      BY <1>5 DEF WriterInv, SyncInv, Working
    <3>2. WriteSize(data) = Len(data)
      BY <1>5, WriteSizeFacts
    <3>3. IsFiniteSet(range) /\ Cardinality(range) = Len(data)
      <4> DEFINE last == cursor + WriteSize(data) - 1
      <4>1. cursor \in Int /\ last \in Int /\ range = cursor .. last
        BY <1>1
      <4>2. Len(data) = last - cursor + 1
        BY <1>1, <3>2
      <4> HIDE DEF last, range
      <4>3. /\ IsFiniteSet(cursor .. last)
            /\ Cardinality(cursor .. last) = IF cursor > last THEN 0 ELSE last - cursor + 1
        BY <4>1, FS_Interval
      <4> QED BY <1>1, <4>1, <4>2, <4>3
    <3> HIDE DEF range
    <3>4. /\ IsFiniteSet(unsynced \union range)
          /\ Cardinality(unsynced \union range)
               = Cardinality(unsynced) + Cardinality(range) - Cardinality(unsynced \intersect range)
      BY <3>1, <3>3, FS_Union
    <3>5. Cardinality(unsynced \intersect range) \in Nat /\ Cardinality(unsynced) \in Nat
      BY <3>1, <3>3, FS_Intersection, FS_CardinalityType
    <3>6. sinceSync + Len(data) < SyncInterval
      <4>1. data = <<>> => Len(data) = 0
        OBVIOUS
      <4> QED BY <1>1, <1>5, <2>2, <3>1, <4>1
    <3> HIDE DEF due
    <3> QED BY <1>1, <1>2, <2>2, <3>1, <3>3, <3>4, <3>5, <3>6
  <2> QED BY <2>1, <2>2
<1>6. useDirectIO' = useDirectIO
  BY DEF Fixed
<1> QED BY <1>4, <1>5, <1>6 DEF SyncInv

-----------------------------------------------------------------------------
(* Every step keeps the invariant.                                         *)

LEMMA InitWriterInv == Init => WriterInv
<1> SUFFICES ASSUME Init PROVE WriterInv
  OBVIOUS
<1>1. /\ DeviceSize \in Nat /\ BlockSize \in Nat \ {0} /\ SyncInterval \in Nat \ {0}
      /\ MaxCommands \in Nat /\ Alignment \in Nat \ {0}
  BY Constants
<1>2. DOMAIN Before \subseteq Nat /\ \A o \in DOMAIN Before : Before[o] = Old
  BY <1>1 DEF Before
<1>3. DOMAIN medium \subseteq Nat /\ \A o \in DOMAIN medium : medium[o] = Old
  BY <1>2 DEF Init
<1>4. TypeOK
  <2>1. buffer \in Seq(Marks) /\ Len(buffer) = 0
    BY DEF Init
  <2>2. piece \in 0 .. pending /\ commands \in 0 .. MaxCommands
    BY <1>1 DEF Init
  <2>3. DOMAIN wanted \subseteq Nat /\ unsynced \subseteq Nat
    BY DEF Init
  <2> QED BY <1>1, <1>3, <2>1, <2>2, <2>3 DEF Init, TypeOK
<1>5. LoopInv /\ UnopenedInv /\ WantedInv /\ NothingLostOrMoved
  <2>1. wanted = <<>> /\ DOMAIN wanted = {} /\ phase = "opening" /\ pending = 0
    BY DEF Init
  <2>2. NothingLostOrMoved
    BY <2>1 DEF NothingLostOrMoved, PositionTracked
  <2> QED BY <2>1, <2>2 DEF Init, LoopInv, UnopenedInv, WantedInv, Working
<1>6. SyncInv
  BY <1>1, FS_EmptySet DEF Init, SyncInv
<1>7. OnlyPaddingIsAdded
  <2>1. target = "block" => DOMAIN Before \subseteq DOMAIN medium
    BY DEF Init
  <2>2. target = "dev" => medium = <<>>
    BY DEF Init
  <2>3. phase = "opening"
    BY DEF Init
  <2>4. \A o \in DOMAIN medium \union DOMAIN Before : Untouched(o)
    BY <1>3 DEF Untouched
  <2> QED BY <2>1, <2>2, <2>3, <2>4 DEF OnlyPaddingIsAdded
<1>8. DirectWritesAligned
  <2>1. cursor = 0 /\ 0 % Alignment = 0
    BY <1>1 DEF Init
  <2> QED BY <2>1 DEF DirectWritesAligned
<1> QED BY <1>4, <1>5, <1>6, <1>7, <1>8 DEF WriterInv

LEMMA OpenKeeps ==
  ASSUME WriterInv, Open, Fixed
  PROVE  WriterInv'
<1>1. /\ phase = "opening" /\ phase' \in {"idle", "failed"} /\ target' = target
      /\ useDirectIO' = useDirectIO
      /\ UNCHANGED <<pending, piece, commands, buffer, bytesWritten, sinceSync, cursor, unsynced, wanted>>
  BY DEF Open, Fixed
<1>2. /\ pending = 0 /\ buffer = <<>> /\ bytesWritten = 0 /\ cursor = 0 /\ wanted = <<>>
      /\ medium = IF target \in {"block", "file"} THEN Before ELSE <<>>
  BY <1>1 DEF WriterInv, UnopenedInv, LoopInv
<1>3. /\ medium' \in {medium, <<>>} /\ (phase' = "idle" /\ target # "block" => medium' = <<>>)
      /\ (target = "block" => medium' = medium)
      /\ (target = "dev" => phase' = "failed" /\ medium' = medium)
  BY DEF Open
<1>4. DOMAIN <<>> = {} /\ Len(<<>>) = 0
  OBVIOUS
<1>5. DOMAIN medium' \subseteq Nat
  BY <1>3, <1>4, InvTypes
<1>6. TypeOK'
  BY <1>1, <1>5 DEF WriterInv, TypeOK, Marks
<1>7. LoopInv' /\ UnopenedInv'
  BY <1>1, <1>2, <1>3 DEF LoopInv, UnopenedInv
<1>8. WantedInv' /\ NothingLostOrMoved'
  <2>1. DOMAIN wanted' = {} /\ cursor' .. bytesWritten' - 1 = {} /\ StillToCome' = {}
    BY <1>1, <1>2 DEF StillToCome
  <2>2. bytesWritten' = cursor' + Len(buffer')
    BY <1>1, <1>2
  <2> QED BY <2>1, <2>2 DEF WantedInv, NothingLostOrMoved, PositionTracked
<1>9. SyncInv'
  BY <1>1 DEF WriterInv, SyncInv
<1>10. OnlyPaddingIsAdded'
  <2>1. \A o \in DOMAIN medium' : medium'[o] = Old
    <3>1. \A o \in DOMAIN Before : Before[o] = Old
      BY DEF Before
    <3> QED BY <1>2, <1>3, <1>4, <3>1
  <2>2. \A o \in DOMAIN medium' \union DOMAIN Before : Untouched(o)'
    BY <2>1 DEF Untouched
  <2>3. target = "block" => DOMAIN Before \subseteq DOMAIN medium'
    BY <1>2, <1>3
  <2>4. target # "block" /\ phase' \notin {"opening", "failed"} => \A o \in DOMAIN medium' : medium'[o] # Old
    BY <1>1, <1>3, <1>4
  <2>5. target = "dev" => medium' = <<>>
    BY <1>2, <1>3
  <2> QED BY <1>1, <2>2, <2>3, <2>4, <2>5 DEF OnlyPaddingIsAdded, Before
<1>11. DirectWritesAligned'
  BY <1>1 DEF WriterInv, DirectWritesAligned
<1> QED BY <1>6, <1>7, <1>8, <1>9, <1>10, <1>11 DEF WriterInv

LEMMA BeginKeeps ==
  ASSUME WriterInv, NEW n \in Sizes, NEW step \in Nat, step # 0 \/ n = 0, Begin(n, step), Fixed
  PROVE  WriterInv'
<1> DEFINE range == bytesWritten .. bytesWritten + n - 1
           new   == [o \in range |-> commands + 1]
<1>1. /\ n \in Nat /\ bytesWritten \in Nat /\ cursor \in Nat /\ commands \in Nat
      /\ Len(buffer) \in Nat /\ bytesWritten = cursor + Len(buffer)
      /\ DOMAIN wanted \subseteq Nat /\ range \subseteq Nat /\ pending = 0 /\ MaxCommands \in Nat
  BY InvTypes, Constants, SMTT(30) DEF Begin, Working, WriterInv, LoopInv
<1>2. /\ phase = "idle" /\ phase' = "write" /\ pending' = n /\ piece' = AtMost(n, step)
      /\ commands < MaxCommands /\ commands' = commands + 1
      /\ UNCHANGED <<buffer, bytesWritten, sinceSync, cursor, medium, unsynced>>
      /\ target' = target /\ useDirectIO' = useDirectIO
  BY DEF Begin, Fixed
<1>3. wanted' = Over(new, wanted)
  BY DEF Begin
<1>4. DOMAIN new = range /\ \A o \in range : new[o] = commands + 1
  OBVIOUS
<1> HIDE DEF new
<1>5. /\ DOMAIN wanted' = range \union DOMAIN wanted
      /\ \A o \in range : wanted'[o] = commands + 1
      /\ \A o \in DOMAIN wanted \ range : wanted'[o] = wanted[o]
  <2> HIDE DEF range
  <2> QED BY <1>3, <1>4 DEF Over
<1>6. StillToCome' = range /\ StillToCome = {} /\ Working
  BY <1>1, <1>2 DEF StillToCome, Working
<1>7. TypeOK'
  <2>1. piece' \in 0 .. n /\ commands' \in 0 .. MaxCommands /\ DOMAIN wanted' \subseteq Nat
    BY <1>1, <1>2, <1>5 DEF AtMost
  <2> QED BY <1>1, <1>2, <2>1 DEF WriterInv, TypeOK, Marks
<1>8. LoopInv' /\ UnopenedInv'
  <2>1. piece' = 0 => n = 0
    BY <1>1, <1>2 DEF AtMost
  <2>2. target # "dev"
    BY <1>2 DEF WriterInv, UnopenedInv
  <2> QED BY <1>2, <2>1, <2>2 DEF LoopInv, UnopenedInv
<1>9. WantedInv'
  <2>1. \A o \in DOMAIN wanted : o \in Nat /\ o < bytesWritten
    BY <1>6, WantedPlaces
  <2>2. \A o \in DOMAIN wanted' : o < bytesWritten' + pending'
    BY <1>1, <1>2, <1>5, <2>1
  <2>3. \A o \in cursor' .. bytesWritten' - 1 : o \in DOMAIN wanted'
    <3>1. \A o \in cursor .. bytesWritten - 1 : o \in DOMAIN wanted
      BY <1>6 DEF WriterInv, WantedInv
    <3> QED BY <1>2, <1>5, <3>1
  <2>4. \A o \in StillToCome' : o \in DOMAIN wanted' /\ wanted'[o] = commands'
    <3> HIDE DEF range
    <3> QED BY <1>2, <1>5, <1>6
  <2> QED BY <2>2, <2>3, <2>4 DEF WantedInv
<1>10. SyncInv'
  BY <1>2 DEF WriterInv, SyncInv
<1>11. NothingLostOrMoved'
  <2>1. Settled' = Settled
    BY <1>2 DEF Settled
  <2>2. ASSUME NEW o \in DOMAIN wanted' \ StillToCome'
        PROVE  o \in DOMAIN Settled' /\ Settled'[o] = wanted'[o]
    <3>1. o \in DOMAIN wanted \ range /\ o \in DOMAIN wanted \ StillToCome
      <4> HIDE DEF range
      <4> QED BY <1>5, <1>6
    <3>2. o \in DOMAIN Settled /\ Settled[o] = wanted[o]
      BY <1>2, <3>1 DEF WriterInv, NothingLostOrMoved
    <3> QED BY <1>5, <2>1, <3>1, <3>2
  <2>3. bytesWritten' = cursor' + Len(buffer')
    BY <1>1, <1>2
  <2> QED BY <2>2, <2>3 DEF NothingLostOrMoved, PositionTracked
<1>12. OnlyPaddingIsAdded'
  <2>1. \A o : Untouched(o) => Untouched(o)'
    BY <1>2 DEF Untouched
  <2>2. \A o : Padded(o) => Padded(o)'
    BY <1>2, <1>5 DEF Padded, RoundUp
  <2>3. \A o \in (DOMAIN medium \union DOMAIN Before) \ DOMAIN wanted : Untouched(o) \/ Padded(o)
    BY DEF WriterInv, OnlyPaddingIsAdded
  <2>4. \A o \in (DOMAIN medium' \union DOMAIN Before) \ DOMAIN wanted' : Untouched(o)' \/ Padded(o)'
    BY <1>2, <1>5, <2>1, <2>2, <2>3
  <2> QED BY <1>2, <2>4 DEF WriterInv, OnlyPaddingIsAdded, Before
<1>13. DirectWritesAligned'
  BY <1>2 DEF WriterInv, DirectWritesAligned
<1> QED BY <1>7, <1>8, <1>9, <1>10, <1>11, <1>12, <1>13 DEF WriterInv

(* A flush that fails leaves a part of the block on the device.            *)
LEMMA FlushFailsKeeps ==
  ASSUME WriterInv, Working, Fixed, wanted' = wanted,
         NEW data \in Seq(Marks), \A o \in cursor .. cursor + Len(data) - 1 : o \in DOMAIN wanted,
         FlushFails(data)
  PROVE  WriterInv'
<1>1. PICK count \in 0 .. WriteSize(data) : medium' = OnMedium(data, count)
  BY DEF FlushFails
<1>2. /\ phase' = "failed" /\ target' = target /\ useDirectIO' = useDirectIO
      /\ UNCHANGED <<pending, piece, commands, buffer, bytesWritten, sinceSync, cursor, unsynced>>
  BY DEF FlushFails, Fixed
<1>3. OnlyPaddingIsAdded' /\ DOMAIN medium' \subseteq Nat /\ target # "dev"
  BY <1>1, PaddingKept
<1>4. TypeOK'
  BY <1>2, <1>3 DEF WriterInv, TypeOK, Marks
<1>5. LoopInv' /\ UnopenedInv' /\ WantedInv' /\ SyncInv' /\ NothingLostOrMoved'
  BY <1>2, <1>3 DEF LoopInv, UnopenedInv, WantedInv, SyncInv, NothingLostOrMoved,
     PositionTracked, Working
<1>6. DirectWritesAligned'
  BY <1>2 DEF WriterInv, DirectWritesAligned
<1> QED BY <1>3, <1>4, <1>5, <1>6 DEF WriterInv

LEMMA CopyTurnKeeps ==
  ASSUME WriterInv, CopyTurn, Fixed
  PROVE  WriterInv'
<1>1. phase = "write" /\ piece > 0 /\ wanted' = wanted /\ Working
  BY DEF CopyTurn, Working
<1>2. /\ bytesWritten \in Nat /\ cursor \in Nat /\ pending \in Nat /\ Len(buffer) \in Nat
      /\ buffer \in Seq(Marks) /\ bytesWritten = cursor + Len(buffer) /\ piece \in 0 .. pending
      /\ commands \in 0 .. MaxCommands /\ DOMAIN medium \subseteq Nat
      /\ DOMAIN wanted \subseteq Nat
      /\ BlockSize \in Nat \ {0} /\ FillSize \in Nat \ {0} /\ BlockSize % Alignment = 0
  BY <1>1, InvTypes, Constants
<1>3. /\ Count \in Nat \ {0} /\ Count <= piece /\ Count <= pending
      /\ Len(buffer) + Count <= BlockSize
  BY <1>1, CountFacts
<1>4. /\ Data \in Seq(Marks) /\ Len(Data) = Len(buffer) + Count
  BY <1>1, DataFacts
<1>5. /\ \A o \in cursor .. cursor + Len(Data) - 1 : o \in DOMAIN wanted
      /\ \A o \in DOMAIN wanted \ (bytesWritten + Count .. bytesWritten + pending - 1) :
           /\ o \in Nat /\ o < cursor + Len(Data)
           /\ o \in DOMAIN With(Data) /\ With(Data)[o] = wanted[o]
  BY <1>1, DataWanted, CopiedPlaces
<1>6. target # "dev" /\ target' = target /\ useDirectIO' = useDirectIO
  BY <1>1 DEF WriterInv, UnopenedInv, Working, Fixed
<1>7. \A o \in DOMAIN wanted : o < bytesWritten + pending
  BY <1>1 DEF WriterInv, WantedInv
<1> DEFINE copied == /\ pending' = pending - Count
                     /\ piece' = IF piece - Count > 0 THEN piece - Count
                                 ELSE AtMost(pending - Count, FillSize)
                     /\ bytesWritten' = bytesWritten + Count
                     /\ UNCHANGED <<phase, commands, wanted>>
<1>8. ASSUME copied
      PROVE  /\ LoopInv' /\ UnopenedInv' /\ pending' \in Nat /\ piece' \in 0 .. pending'
             /\ bytesWritten' \in Nat /\ phase' = "write" /\ commands' = commands
             /\ StillToCome' = bytesWritten + Count .. bytesWritten + pending - 1
             /\ bytesWritten' = cursor + Len(Data)
             /\ bytesWritten' + pending' = bytesWritten + pending
  <2>1. /\ pending' \in Nat /\ piece' \in 0 .. pending' /\ bytesWritten' \in Nat
        /\ bytesWritten' = cursor + Len(Data) /\ bytesWritten' + pending' = bytesWritten + pending
        /\ bytesWritten' + pending' - 1 = bytesWritten + pending - 1
        /\ (piece' = 0 => pending' = 0)
    BY <1>2, <1>3, <1>4, <1>8 DEF AtMost
  <2>2. StillToCome' = bytesWritten + Count .. bytesWritten + pending - 1
    BY <1>8, <2>1 DEF StillToCome
  <2>3. LoopInv' /\ UnopenedInv' /\ phase' = "write" /\ commands' = commands
    BY <1>1, <1>6, <1>8, <2>1 DEF LoopInv, UnopenedInv
  <2> QED BY <2>1, <2>2, <2>3
<1> HIDE DEF copied
<1>9. ASSUME copied, cursor' \in Nat, \A o \in cursor' .. bytesWritten' - 1 : o \in DOMAIN wanted
      PROVE  WantedInv'
  <2>1. \A o \in DOMAIN wanted' : o < bytesWritten' + pending'
    BY <1>1, <1>7, <1>8, <1>9
  <2>2. \A o \in StillToCome' : o \in DOMAIN wanted' /\ wanted'[o] = commands'
    <3>1. \A o \in StillToCome' : o \in StillToCome
      BY <1>2, <1>3, <1>8, <1>9, SMTT(30) DEF StillToCome
    <3> QED BY <1>1, <1>8, <1>9, <3>1 DEF WriterInv, WantedInv
  <2> QED BY <1>1, <1>9, <2>1, <2>2 DEF WantedInv
<1>10. CASE copied /\ Len(Data) = BlockSize /\ FlushBuffer(Data, cursor + BlockSize)
  <2>1. copied
    BY <1>10
  <2>2. /\ medium' = OnMedium(Data, WriteSize(Data)) /\ cursor' = cursor + BlockSize
        /\ buffer' = <<>> /\ cursor' \in Nat /\ Len(buffer') = 0
    BY <1>2, <1>10 DEF FlushBuffer
  <2>3. WriteSize(Data) \in 0 .. WriteSize(Data)
    BY <1>4, WriteSizeFacts
  <2>4. OnlyPaddingIsAdded' /\ DOMAIN medium' \subseteq Nat
    BY <1>1, <1>4, <1>5, <2>2, <2>3, PaddingKept
  <2>5. SyncInv' /\ sinceSync' \in Nat /\ unsynced' \subseteq Nat
    BY <1>1, <1>4, <1>10, SyncKept
  <2>6. TypeOK'
    <3>1. buffer' \in Seq(Marks) /\ Len(buffer') < BlockSize
      BY <1>2, <2>2
    <3> QED BY <1>1, <1>6, <1>8, <2>1, <2>2, <2>4, <2>5, <3>1 DEF WriterInv, TypeOK, Marks
  <2>7. WantedInv'
    <3>1. bytesWritten' = cursor'
      BY <1>8, <1>10, <2>1, <2>2
    <3>2. cursor' .. bytesWritten' - 1 = {}
      BY <2>2, <3>1
    <3> QED BY <1>9, <2>1, <2>2, <3>2
  <2>8. NothingLostOrMoved'
    <3>1. bytesWritten' = cursor' + Len(buffer')
      <4>1. bytesWritten' = cursor' /\ cursor' \in Nat /\ Len(buffer') = 0
        BY <1>8, <1>10, <2>1, <2>2
      <4>2. \A k \in Nat : k = k + 0
        OBVIOUS
      <4> QED BY <4>1, <4>2, Zenon
    <3>2. ASSUME NEW o \in DOMAIN wanted' \ StillToCome'
          PROVE  o \in DOMAIN Settled' /\ Settled'[o] = wanted'[o]
      <4>1. o \in DOMAIN wanted \ (bytesWritten + Count .. bytesWritten + pending - 1)
        BY <1>1, <1>8, <2>1, <3>2, Zenon
      <4>2. o \in DOMAIN With(Data) /\ o < cursor + Len(Data) /\ With(Data)[o] = wanted[o]
        BY <1>5, <4>1
      <4>3. o \in DOMAIN Settled' /\ Settled'[o] = With(Data)[o]
        BY <1>4, <2>2, <4>2, FlushedFacts
      <4> QED BY <1>1, <4>2, <4>3
    <3> QED BY <3>1, <3>2 DEF NothingLostOrMoved, PositionTracked
  <2>9. DirectWritesAligned'
    <3>1. useDirectIO => cursor % Alignment = 0
      BY DEF WriterInv, DirectWritesAligned
    <3>2. useDirectIO => (cursor + BlockSize) % Alignment = 0
      BY <1>2, <3>1, AlignedSum
    <3> QED BY <1>6, <2>2, <3>2 DEF DirectWritesAligned
  <2> QED BY <1>8, <2>1, <2>4, <2>5, <2>6, <2>7, <2>8, <2>9 DEF WriterInv
<1>11. CASE copied /\ Len(Data) # BlockSize /\ buffer' = Data /\ UNCHANGED <<sinceSync, cursor, medium, unsynced>>
  <2>1. copied /\ buffer' = Data /\ UNCHANGED <<sinceSync, cursor, medium, unsynced>>
    BY <1>11
  <2>2. TypeOK'
    <3>1. Len(Data) < BlockSize
      BY <1>2, <1>3, <1>4, <1>11, <2>1
    <3> QED BY <1>1, <1>4, <1>6, <1>8, <2>1, <3>1 DEF WriterInv, TypeOK, Marks
  <2>3. WantedInv'
    <3>1. cursor' = cursor /\ bytesWritten' = cursor + Len(Data)
      BY <1>8, <2>1
    <3>2. \A o \in cursor' .. bytesWritten' - 1 : o \in DOMAIN wanted
      BY <1>2, <1>4, <1>5, <3>1
    <3> QED BY <1>2, <1>9, <2>1, <3>1, <3>2
  <2>4. NothingLostOrMoved'
    <3>1. Settled' = With(Data) /\ bytesWritten' = cursor' + Len(buffer')
      BY <1>8, <2>1 DEF Settled, With
    <3>2. ASSUME NEW o \in DOMAIN wanted' \ StillToCome'
          PROVE  o \in DOMAIN Settled' /\ Settled'[o] = wanted'[o]
      <4>1. o \in DOMAIN wanted \ (bytesWritten + Count .. bytesWritten + pending - 1)
        BY <1>1, <1>8, <2>1, <3>2, Zenon
      <4> QED BY <1>1, <1>5, <3>1, <4>1
    <3> QED BY <3>1, <3>2 DEF NothingLostOrMoved, PositionTracked
  <2>5. SyncInv' /\ DirectWritesAligned'
    BY <1>1, <1>6, <1>8, <2>1 DEF WriterInv, SyncInv, DirectWritesAligned
  <2>6. OnlyPaddingIsAdded'
    <3>1. \A o : (Untouched(o)' <=> Untouched(o)) /\ (Padded(o)' <=> Padded(o))
      BY <1>1, <1>6, <2>1 DEF Untouched, Padded, RoundUp
    <3> QED BY <1>1, <1>6, <1>8, <2>1, <3>1 DEF WriterInv, OnlyPaddingIsAdded, Before
  <2> QED BY <1>8, <2>1, <2>2, <2>3, <2>4, <2>5, <2>6 DEF WriterInv
<1>12. CASE FlushFails(Data)
  BY <1>1, <1>4, <1>5, <1>12, FlushFailsKeeps
<1>13. \/ copied /\ Len(Data) = BlockSize /\ FlushBuffer(Data, cursor + BlockSize)
       \/ copied /\ Len(Data) # BlockSize /\ buffer' = Data /\ UNCHANGED <<sinceSync, cursor, medium, unsynced>>
       \/ FlushFails(Data)
  BY DEF CopyTurn, Count, Data, copied
<1> QED BY <1>10, <1>11, <1>12, <1>13

LEMMA EndWriteKeeps ==
  ASSUME WriterInv, EndWrite, Fixed
  PROVE  WriterInv'
<1>1. /\ phase = "write" /\ piece = 0 /\ phase' = "idle" /\ target' = target
      /\ useDirectIO' = useDirectIO
      /\ UNCHANGED <<pending, piece, commands, buffer, bytesWritten, sinceSync, cursor, medium, unsynced,
                     wanted>>
  BY DEF EndWrite, Fixed
<1>2. pending = 0 /\ Working
  BY <1>1 DEF WriterInv, LoopInv, Working
<1>3. TypeOK' /\ LoopInv' /\ UnopenedInv'
  BY <1>1, <1>2 DEF WriterInv, TypeOK, LoopInv, UnopenedInv, Marks
<1>4. WantedInv' /\ SyncInv' /\ DirectWritesAligned'
  BY <1>1, <1>2 DEF WriterInv, WantedInv, Working, StillToCome, SyncInv, DirectWritesAligned
<1>5. NothingLostOrMoved'
  <2>1. Settled' = Settled /\ StillToCome' = StillToCome
    BY <1>1 DEF Settled, StillToCome
  <2> QED BY <1>1, <2>1 DEF WriterInv, NothingLostOrMoved, PositionTracked
<1>6. OnlyPaddingIsAdded'
  <2>1. \A o : (Untouched(o)' <=> Untouched(o)) /\ (Padded(o)' <=> Padded(o))
    BY <1>1 DEF Untouched, Padded, RoundUp
  <2> QED BY <1>1, <2>1 DEF WriterInv, OnlyPaddingIsAdded, Before
<1> QED BY <1>3, <1>4, <1>5, <1>6 DEF WriterInv

(* A flush between commands leaves all that is wanted on the device.       *)
LEMMA IdleFlush ==
  ASSUME WriterInv, phase = "idle", Fixed, wanted' = wanted, pending' = pending,
         medium' = OnMedium(buffer, WriteSize(buffer)), buffer' = <<>>, cursor' \in Nat
  PROVE  /\ pending = 0 /\ buffer' \in Seq(Marks) /\ Len(buffer') = 0
         /\ OnlyPaddingIsAdded' /\ DOMAIN medium' \subseteq Nat /\ target # "dev"
         /\ \A o \in DOMAIN wanted : /\ o < bytesWritten
                                     /\ o \in DOMAIN Settled' /\ Settled'[o] = wanted[o]
<1>1. pending = 0 /\ Working
  BY DEF WriterInv, LoopInv, Working
<1>2. /\ buffer \in Seq(Marks) /\ Len(buffer) \in Nat /\ bytesWritten \in Nat
      /\ cursor \in Nat /\ bytesWritten = cursor + Len(buffer)
  BY <1>1, InvTypes
<1>3. \A o \in cursor .. cursor + Len(buffer) - 1 : o \in DOMAIN wanted
  BY <1>1, BufferWanted
<1>4. WriteSize(buffer) \in 0 .. WriteSize(buffer)
  BY <1>2, WriteSizeFacts
<1>5. OnlyPaddingIsAdded' /\ DOMAIN medium' \subseteq Nat /\ target # "dev"
  BY <1>1, <1>2, <1>3, <1>4, PaddingKept
<1>6. StillToCome = {}
  BY <1>1, <1>2 DEF StillToCome
<1>7. ASSUME NEW o \in DOMAIN wanted
      PROVE  o < bytesWritten /\ o \in DOMAIN Settled' /\ Settled'[o] = wanted[o]
  <2>1. o < bytesWritten /\ o \in DOMAIN With(buffer) /\ With(buffer)[o] = wanted[o]
    BY <1>1, <1>6, WantedPlaces
  <2>2. o \in DOMAIN Settled' /\ Settled'[o] = With(buffer)[o]
    BY <1>2, <2>1, FlushedFacts
  <2> QED BY <2>1, <2>2
<1>8. buffer' \in Seq(Marks) /\ Len(buffer') = 0
  OBVIOUS
<1> QED BY <1>1, <1>5, <1>7, <1>8

LEMMA SeekKeeps ==
  ASSUME WriterInv, NEW offset \in Offsets, Seek(offset), Fixed
  PROVE  WriterInv'
<1>1. /\ phase = "idle" /\ commands < MaxCommands /\ offset >= bytesWritten
      /\ ~(useDirectIO /\ offset % Alignment # 0) /\ wanted' = wanted /\ Working
  BY DEF Seek, Working
<1>2. /\ offset \in Nat /\ buffer \in Seq(Marks) /\ bytesWritten \in Nat
      /\ commands \in 0 .. MaxCommands
      /\ MaxCommands \in Nat /\ BlockSize \in Nat \ {0} /\ DOMAIN wanted \subseteq Nat
  BY InvTypes, Constants
<1>3. target' = target /\ useDirectIO' = useDirectIO
  BY DEF Fixed
<1>4. CASE /\ commands' = commands + 1 /\ FlushBuffer(buffer, offset)
           /\ bytesWritten' = offset /\ UNCHANGED <<phase, pending, piece>>
  <2>1. /\ medium' = OnMedium(buffer, WriteSize(buffer)) /\ buffer' = <<>> /\ cursor' = offset
        /\ commands' = commands + 1 /\ bytesWritten' = offset
        /\ phase' = phase /\ pending' = pending /\ piece' = piece
    BY <1>4 DEF FlushBuffer
  <2>2. /\ pending = 0 /\ buffer' \in Seq(Marks) /\ Len(buffer') = 0
        /\ OnlyPaddingIsAdded' /\ DOMAIN medium' \subseteq Nat /\ target # "dev"
        /\ \A o \in DOMAIN wanted : /\ o < bytesWritten
                                    /\ o \in DOMAIN Settled' /\ Settled'[o] = wanted[o]
    BY <1>1, <1>2, <2>1, IdleFlush
  <2>3. SyncInv' /\ sinceSync' \in Nat /\ unsynced' \subseteq Nat
    BY <1>1, <1>2, <1>4, SyncKept
  <2>4. TypeOK'
    <3>1. commands' \in 0 .. MaxCommands
      BY <1>1, <1>2, <2>1
    <3>2. Len(buffer') < BlockSize
      BY <1>2, <2>2
    <3> QED BY <1>1, <1>2, <1>3, <2>1, <2>2, <2>3, <3>1, <3>2 DEF WriterInv, TypeOK, Marks
  <2>5. LoopInv' /\ UnopenedInv'
    BY <1>1, <1>3, <2>1, <2>2 DEF LoopInv, UnopenedInv
  <2>6. WantedInv'
    <3>1. cursor' .. bytesWritten' - 1 = {} /\ StillToCome' = {}
      BY <1>2, <2>1, <2>2 DEF StillToCome
    <3>2. \A o \in DOMAIN wanted' : o < bytesWritten' + pending'
      BY <1>1, <1>2, <2>1, <2>2
    <3> QED BY <3>1, <3>2 DEF WantedInv
  <2>7. NothingLostOrMoved'
    <3>1. offset = offset + 0
      BY <1>2
    <3>2. bytesWritten' = cursor' + Len(buffer')
      BY <2>1, <2>2, <3>1, Zenon
    <3> QED BY <1>1, <2>2, <3>2 DEF NothingLostOrMoved, PositionTracked
  <2>8. DirectWritesAligned'
    BY <1>1, <1>3, <2>1 DEF DirectWritesAligned
  <2> QED BY <2>2, <2>3, <2>4, <2>5, <2>6, <2>7, <2>8 DEF WriterInv
<1>5. CASE FlushFails(buffer)
  BY <1>1, <1>2, <1>5, BufferWanted, FlushFailsKeeps
<1> QED BY <1>4, <1>5 DEF Seek

LEMMA SeekRefusedKeeps ==
  ASSUME WriterInv, NEW offset \in Offsets, SeekRefused(offset), Fixed
  PROVE  WriterInv'
<1>1. /\ phase = "idle" /\ phase' = "failed" /\ target' = target /\ useDirectIO' = useDirectIO
      /\ UNCHANGED <<pending, piece, commands, buffer, bytesWritten, sinceSync, cursor, medium, unsynced,
                     wanted>>
  BY DEF SeekRefused, Fixed
<1>2. TypeOK' /\ LoopInv' /\ UnopenedInv' /\ WantedInv' /\ SyncInv' /\ DirectWritesAligned'
  BY <1>1 DEF WriterInv, TypeOK, LoopInv, UnopenedInv, WantedInv, Working, SyncInv,
              DirectWritesAligned, Marks
<1>3. NothingLostOrMoved'
  BY <1>1 DEF NothingLostOrMoved, PositionTracked
<1>4. OnlyPaddingIsAdded'
  <2>1. \A o : (Untouched(o)' <=> Untouched(o)) /\ (Padded(o)' <=> Padded(o))
    BY <1>1 DEF Untouched, Padded, RoundUp
  <2> QED BY <1>1, <2>1 DEF WriterInv, OnlyPaddingIsAdded, Before
<1> QED BY <1>2, <1>3, <1>4 DEF WriterInv

LEMMA FlushKeeps ==
  ASSUME WriterInv, Flush, Fixed
  PROVE  WriterInv'
<1>1. phase = "idle" /\ wanted' = wanted /\ Working
  BY DEF Flush, Working
<1>2. /\ buffer \in Seq(Marks) /\ Len(buffer) \in Nat /\ Len(buffer) < BlockSize
      /\ cursor \in Nat /\ WriteSize(buffer) \in Nat
      /\ BlockSize \in Nat \ {0} /\ SyncInterval \in Nat \ {0}
  BY InvTypes, Constants, WriteSizeFacts
<1>3. target' = target /\ useDirectIO' = useDirectIO
  BY DEF Fixed
<1>4. CASE /\ medium' = OnMedium(buffer, WriteSize(buffer))
           /\ cursor' = cursor + WriteSize(buffer)
           /\ buffer' = <<>> /\ sinceSync' = 0 /\ unsynced' = {} /\ phase' = "done"
           /\ UNCHANGED <<pending, piece, commands, bytesWritten>>
  <2>1. cursor' \in Nat
    BY <1>2, <1>4
  <2>2. /\ pending = 0 /\ buffer' \in Seq(Marks) /\ Len(buffer') = 0
        /\ OnlyPaddingIsAdded' /\ DOMAIN medium' \subseteq Nat /\ target # "dev"
        /\ \A o \in DOMAIN wanted : /\ o < bytesWritten
                                    /\ o \in DOMAIN Settled' /\ Settled'[o] = wanted[o]
    BY <1>1, <1>2, <1>4, <2>1, IdleFlush
  <2>3. TypeOK'
    <3>1. Len(buffer') < BlockSize
      BY <1>2, <2>2
    <3> QED BY <1>1, <1>3, <1>4, <2>1, <2>2, <3>1 DEF WriterInv, TypeOK, Marks
  <2>4. LoopInv' /\ UnopenedInv' /\ WantedInv'
    BY <1>3, <1>4, <2>2 DEF LoopInv, UnopenedInv, WantedInv, Working
  <2>5. SyncInv'
    BY <1>2, <1>4, FS_EmptySet DEF SyncInv
  <2>6. NothingLostOrMoved'
    BY <1>1, <1>4, <2>2 DEF NothingLostOrMoved, PositionTracked
  <2>7. DirectWritesAligned'
    <3>1. ASSUME useDirectIO PROVE (cursor + WriteSize(buffer)) % Alignment = 0
      <4>1. WriteSize(buffer) = RoundUp(Len(buffer)) /\ WriteSize(buffer) % Alignment = 0
        BY <1>2, <3>1, RoundUpFacts DEF WriteSize
      <4>2. cursor % Alignment = 0
        BY <3>1 DEF WriterInv, DirectWritesAligned
      <4> QED BY <1>2, <4>1, <4>2, AlignedSum
    <3> QED BY <1>3, <1>4, <3>1 DEF DirectWritesAligned
  <2> QED BY <2>2, <2>3, <2>4, <2>5, <2>6, <2>7 DEF WriterInv
<1>5. CASE FlushFails(buffer)
  BY <1>1, <1>2, <1>5, BufferWanted, FlushFailsKeeps
<1> QED BY <1>4, <1>5 DEF Flush

LEMMA NextKeeps ==
  ASSUME WriterInv, [Next]_vars
  PROVE  WriterInv'
<1>1. CASE Next
  <2>1. Fixed
    BY <1>1 DEF Next, Fixed
  <2>2. CASE Open
    BY <2>1, <2>2, OpenKeeps
  <2>3. ASSUME NEW n \in Sizes, BeginWrite(n) \/ BeginFill(n)
        PROVE  WriterInv'
    <3>1. n \in Nat /\ FillSize \in Nat \ {0}
      BY Constants
    <3>2. CASE BeginWrite(n)
      BY <2>1, <3>1, <3>2, BeginKeeps DEF BeginWrite
    <3>3. CASE BeginFill(n)
      BY <2>1, <3>1, <3>3, BeginKeeps DEF BeginFill
    <3> QED BY <2>3, <3>2, <3>3
  <2>4. CASE CopyTurn
    BY <2>1, <2>4, CopyTurnKeeps
  <2>5. CASE EndWrite
    BY <2>1, <2>5, EndWriteKeeps
  <2>6. ASSUME NEW offset \in Offsets, Seek(offset) \/ SeekRefused(offset)
        PROVE  WriterInv'
    BY <2>1, <2>6, SeekKeeps, SeekRefusedKeeps
  <2>7. CASE Flush
    BY <2>1, <2>7, FlushKeeps
  <2> QED BY <1>1, <2>2, <2>3, <2>4, <2>5, <2>6, <2>7 DEF Next
<1>2. CASE UNCHANGED vars
  <2>1. /\ UNCHANGED <<target, useDirectIO, phase, pending, piece, commands, buffer, bytesWritten, sinceSync>>
        /\ UNCHANGED <<cursor, medium, unsynced, wanted>>
    BY <1>2 DEF vars
  <2>2. TypeOK' /\ LoopInv' /\ UnopenedInv' /\ SyncInv' /\ DirectWritesAligned'
    BY <2>1 DEF WriterInv, TypeOK, LoopInv, UnopenedInv, SyncInv, DirectWritesAligned, Marks
  <2>3. WantedInv' /\ NothingLostOrMoved'
    BY <2>1 DEF WriterInv, WantedInv, Working, NothingLostOrMoved, PositionTracked, Settled,
       StillToCome
  <2>4. OnlyPaddingIsAdded'
    <3>1. \A o : (Untouched(o)' <=> Untouched(o)) /\ (Padded(o)' <=> Padded(o))
      BY <2>1 DEF Untouched, Padded, RoundUp
    <3> QED BY <2>1, <3>1 DEF WriterInv, OnlyPaddingIsAdded, Before
  <2> QED BY <2>2, <2>3, <2>4 DEF WriterInv
<1> QED BY <1>1, <1>2

-----------------------------------------------------------------------------

(* The strengthened invariant: the wanted map, the position and the buffer *)
(* agree after every write(), fill, seek() and flush() of the code, and    *)
(* after any of them that fails.                                           *)
THEOREM WriterInvariant == Spec => []WriterInv
<1>1. Init => WriterInv
  BY InitWriterInv
<1>2. WriterInv /\ [Next]_vars => WriterInv'
  BY NextKeeps
<1> QED BY <1>1, <1>2, PTL DEF Spec

(* The writer's variables keep their types; the buffer is never full       *)
(* between two turns of the loop of write().                               *)
THEOREM TypeTheorem == Spec => []TypeOK
<1>1. WriterInv => TypeOK
  BY DEF WriterInv
<1> QED BY <1>1, WriterInvariant, PTL

(* Every offset written to by write() or fill holds what was last written  *)
(* to it, on the device or in the buffer where the next flush puts it, and *)
(* bytes_written is where the next unit goes.                              *)
THEOREM NothingLostTheorem == Spec => []NothingLostOrMoved
<1>1. WriterInv => NothingLostOrMoved
  BY DEF WriterInv
<1> QED BY <1>1, WriterInvariant, PTL

(* An offset nobody asked to write keeps what it had, but for the zeros    *)
(* that flush_buffer pads a partial block with up to the alignment.        *)
THEOREM PaddingTheorem == Spec => []OnlyPaddingIsAdded
<1>1. WriterInv => OnlyPaddingIsAdded
  BY DEF WriterInv
<1> QED BY <1>1, WriterInvariant, PTL

(* With O_DIRECT the file is at an aligned position before every block.    *)
THEOREM AlignedTheorem == Spec => []DirectWritesAligned
<1>1. WriterInv => DirectWritesAligned
  BY DEF WriterInv
<1> QED BY <1>1, WriterInvariant, PTL

(* Less than SYNC_INTERVAL is ever on the device without a sync after it.  *)
THEOREM UnsyncedTheorem == Spec => []UnsyncedBounded
<1>1. WriterInv => UnsyncedBounded
  <2> SUFFICES ASSUME WriterInv, ~useDirectIO, phase # "failed"
               PROVE  Cardinality(unsynced) < SyncInterval
    BY DEF UnsyncedBounded
  <2>1. /\ IsFiniteSet(unsynced) /\ Cardinality(unsynced) <= sinceSync
        /\ sinceSync < SyncInterval
    BY DEF WriterInv, SyncInv
  <2>2. Cardinality(unsynced) \in Nat /\ sinceSync \in Nat /\ SyncInterval \in Nat
    BY <2>1, FS_CardinalityType, InvTypes, Constants
  <2> QED BY <2>1, <2>2
<1> QED BY <1>1, WriterInvariant, PTL
=============================================================================
