-------------------------- MODULE ByteChannelProofs --------------------------
(***************************************************************************)
(* Proofs about ByteChannel, for every budget, slot count and set of chunk *)
(* sizes.                                                                  *)
(***************************************************************************)
EXTENDS ByteChannel, MpscProofs

USE ChannelAssumption

(* A chunk never costs more than the budget, nor more than its size.       *)
LEMMA NeedBounds ==
  ASSUME NEW size \in Nat
  PROVE  /\ Need(size) \in Nat
         /\ Need(size) <= MaxBytes
         /\ Need(size) <= size
         /\ size <= MaxBytes => Need(size) = size
         /\ size >= MaxBytes => Need(size) = MaxBytes
BY DEF Need

(* "Comes after" is transitive.                                            *)
LEMMA FollowsTransitive ==
  ASSUME NEW a \in Chunk, NEW b \in Chunk, NEW c \in Chunk,
         Follows(a, b), Follows(b, c)
  PROVE  Follows(a, c)
<1>1. /\ a.at \in Nat /\ a.size \in Nat /\ a.paid \in Nat
      /\ b.at \in Nat /\ b.size \in Nat /\ b.paid \in Nat
      /\ c.at \in Nat /\ c.size \in Nat /\ c.paid \in Nat
  BY DEF Chunk
<1>2. Need(b.size) \in Nat /\ Need(c.size) \in Nat
  BY <1>1, NeedBounds
<1> QED BY <1>1, <1>2 DEF Follows

(* A chunk within the budget that continues after b is as far from a in    *)
(* bytes as in permits if b is.                                            *)
LEMMA SameDistanceStep ==
  ASSUME NEW a \in Chunk, NEW b \in Chunk, NEW c \in Chunk,
         SameDistance(a, b), c.size <= MaxBytes,
         c.at = b.at + b.size, c.paid = b.paid + Need(c.size)
  PROVE  SameDistance(a, c)
<1>1. /\ a.at \in Nat /\ a.size \in Nat /\ a.paid \in Nat
      /\ b.at \in Nat /\ b.size \in Nat /\ b.paid \in Nat
      /\ c.at \in Nat /\ c.size \in Nat /\ c.paid \in Nat
  BY DEF Chunk
<1>2. Need(c.size) = c.size /\ Need(a.size) \in Nat
  BY <1>1, NeedBounds
<1> QED BY <1>1, <1>2 DEF SameDistance

(* Appending the chunk that continues the stream keeps a queue chained.    *)
LEMMA ChainedAppend ==
  ASSUME NEW q \in Seq(Chunk), NEW c \in Chunk, Chained(q),
         q # <<>> => /\ c.at = q[Len(q)].at + q[Len(q)].size
                     /\ c.paid = q[Len(q)].paid + Need(c.size)
  PROVE  Chained(Append(q, c))
<1> DEFINE r == Append(q, c)
           n == Len(q)
<1>1. /\ r \in Seq(Chunk) /\ n \in Nat /\ Len(r) = n + 1
      /\ \A i \in 1 .. n : r[i] = q[i]
      /\ r[n + 1] = c
  OBVIOUS
<1>2. \A i \in 1 .. n : q[i] \in Chunk
  OBVIOUS
<1>3. \A d \in Chunk : d.size \in Nat /\ d.at \in Nat /\ d.paid \in Nat
                       /\ Need(d.size) \in Nat
  BY NeedBounds DEF Chunk
<1>4. n > 0 => q # <<>>
  OBVIOUS
<1> HIDE DEF r, n
<1>5. \A i \in 1 .. Len(r) - 1 :
        /\ r[i + 1].at = r[i].at + r[i].size
        /\ r[i + 1].paid = r[i].paid + Need(r[i + 1].size)
  <2> TAKE i \in 1 .. Len(r) - 1
  <2>1. CASE i < n
    BY <2>1, <1>1 DEF Chained, n
  <2>2. CASE i = n
    BY <2>2, <1>1, <1>4 DEF n
  <2> QED BY <2>1, <2>2, <1>1
<1>6. \A i, j \in 1 .. Len(r) : i < j => Follows(r[i], r[j])
  <2> SUFFICES ASSUME NEW i \in 1 .. Len(r), NEW j \in 1 .. Len(r), i < j
               PROVE  Follows(r[i], r[j])
    OBVIOUS
  <2>1. CASE j <= n
    BY <2>1, <1>1 DEF Chained, n
  <2>2. CASE j = n + 1
    <3>1. i \in 1 .. n /\ n > 0 /\ r[i] = q[i] /\ r[j] = c
      BY <2>2, <1>1
    <3>2. Follows(q[n], c)
      BY <3>1, <1>4, <1>2, <1>3, SMTT(30) DEF Follows, n
    <3>3. CASE i = n
      BY <3>1, <3>2, <3>3
    <3>4. CASE i < n
      <4>1. Follows(q[i], q[n])
        BY <3>1, <3>4 DEF Chained, n
      <4>2. q[i] \in Chunk /\ q[n] \in Chunk
        BY <3>1, <1>2, <1>1
      <4>3. Follows(q[i], c)
        BY <3>2, <4>1, <4>2, FollowsTransitive
      <4> QED BY <3>1, <4>3
    <3> QED BY <3>1, <3>3, <3>4, <1>1
  <2> QED BY <2>1, <2>2, <1>1
<1>7. \A i, j \in 1 .. Len(r) :
        i <= j /\ (\A k \in i .. j : r[k].size <= MaxBytes)
          => SameDistance(r[i], r[j])
  <2> SUFFICES ASSUME NEW i \in 1 .. Len(r), NEW j \in 1 .. Len(r), i <= j,
                      \A k \in i .. j : r[k].size <= MaxBytes
               PROVE  SameDistance(r[i], r[j])
    OBVIOUS
  <2>1. CASE j <= n
    <3>1. i \in 1 .. n /\ j \in 1 .. n /\ r[i] = q[i] /\ r[j] = q[j]
      BY <2>1, <1>1
    <3>2. \A k \in i .. j : q[k].size <= MaxBytes
      BY <2>1, <1>1
    <3> QED BY <3>1, <3>2 DEF Chained, n
  <2>2. CASE j = n + 1 /\ i = n + 1
    <3>1. r[i] = c /\ r[j] = c /\ c.size <= MaxBytes
      BY <2>2, <1>1
    <3>2. /\ c.at \in Nat /\ c.size \in Nat /\ c.paid \in Nat
          /\ Need(c.size) = c.size
      BY <3>1, <1>3, NeedBounds
    <3>3. SameDistance(c, c)
      BY <3>2 DEF SameDistance
    <3> QED BY <3>1, <3>3
  <2>3. CASE j = n + 1 /\ i <= n
    <3>1. /\ i \in 1 .. n /\ n \in 1 .. n
          /\ r[i] = q[i] /\ r[j] = c /\ c.size <= MaxBytes
      BY <2>3, <1>1
    <3>2. \A k \in i .. n : q[k].size <= MaxBytes
      BY <2>3, <1>1
    <3>3. SameDistance(q[i], q[n])
      BY <3>1, <3>2 DEF Chained, n
    <3>4. c.at = q[n].at + q[n].size /\ c.paid = q[n].paid + Need(c.size)
      BY <3>1, <1>4 DEF n
    <3>5. q[i] \in Chunk /\ q[n] \in Chunk
      BY <3>1, <1>2
    <3> QED BY <3>1, <3>3, <3>4, <3>5, SameDistanceStep
  <2> QED BY <2>1, <2>2, <2>3, <1>1
<1> QED BY <1>5, <1>6, <1>7 DEF Chained, r

(* So does taking the first chunk out.                                     *)
LEMMA ChainedTail ==
  ASSUME NEW q \in Seq(Chunk), q # <<>>, Chained(q)
  PROVE  Chained(Tail(q))
<1> DEFINE r == Tail(q)
           n == Len(q)
<1>1. /\ r \in Seq(Chunk) /\ n \in Nat /\ n > 0 /\ Len(r) = n - 1
      /\ \A i \in 1 .. Len(r) : i + 1 \in 1 .. n /\ r[i] = q[i + 1]
  OBVIOUS
<1> HIDE DEF r, n
<1>2. \A i \in 1 .. Len(r) - 1 :
        /\ r[i + 1].at = r[i].at + r[i].size
        /\ r[i + 1].paid = r[i].paid + Need(r[i + 1].size)
  <2> TAKE i \in 1 .. Len(r) - 1
  <2>1. i + 1 \in 1 .. Len(q) - 1 /\ r[i] = q[i + 1] /\ r[i + 1] = q[(i + 1) + 1]
    BY <1>1 DEF n
  <2>2. /\ q[(i + 1) + 1].at = q[i + 1].at + q[i + 1].size
        /\ q[(i + 1) + 1].paid = q[i + 1].paid + Need(q[(i + 1) + 1].size)
    BY <2>1 DEF Chained
  <2> QED BY <2>1, <2>2
<1>3. \A i, j \in 1 .. Len(r) : i < j => Follows(r[i], r[j])
  <2> SUFFICES ASSUME NEW i \in 1 .. Len(r), NEW j \in 1 .. Len(r), i < j
               PROVE  Follows(r[i], r[j])
    OBVIOUS
  <2>1. /\ i + 1 \in 1 .. Len(q) /\ j + 1 \in 1 .. Len(q) /\ i + 1 < j + 1
        /\ r[i] = q[i + 1] /\ r[j] = q[j + 1]
    BY <1>1 DEF n
  <2>2. Follows(q[i + 1], q[j + 1])
    BY <2>1 DEF Chained
  <2> QED BY <2>1, <2>2
<1>4. \A i, j \in 1 .. Len(r) :
        i <= j /\ (\A k \in i .. j : r[k].size <= MaxBytes)
          => SameDistance(r[i], r[j])
  <2> SUFFICES ASSUME NEW i \in 1 .. Len(r), NEW j \in 1 .. Len(r), i <= j,
                      \A k \in i .. j : r[k].size <= MaxBytes
               PROVE  SameDistance(r[i], r[j])
    OBVIOUS
  <2>1. \A k \in i + 1 .. j + 1 : q[k].size <= MaxBytes
    <3> TAKE k \in i + 1 .. j + 1
    <3>1. k - 1 \in i .. j /\ k - 1 \in 1 .. Len(r) /\ r[k - 1] = q[k]
      BY <1>1
    <3> QED BY <3>1
  <2>2. /\ i + 1 \in 1 .. Len(q) /\ j + 1 \in 1 .. Len(q)
        /\ r[i] = q[i + 1] /\ r[j] = q[j + 1]
    BY <1>1 DEF n
  <2> QED BY <2>1, <2>2 DEF Chained
<1> QED BY <1>2, <1>3, <1>4 DEF Chained, r

-----------------------------------------------------------------------------
LEMMA InvInit == Init => IInv
<1> SUFFICES ASSUME Init PROVE IInv
  OBVIOUS
<1>1. TypeOK
  BY DEF Init, TypeOK, NewChannel, Channels
<1>2. chan.q = <<>> /\ Len(chan.q) = 0
  BY DEF Init, NewChannel
<1>3. QueueIsTheStream
  BY <1>2 DEF Init, QueueIsTheStream
<1>4. PermitsConserved
  BY <1>2 DEF Init, PermitsConserved, HeldCost, PaidCost
<1>5. Chained(chan.q)
  BY <1>2 DEF Chained
<1> QED BY <1>1, <1>3, <1>4, <1>5 DEF Init, IInv, NewChannel

(* The types an invariant state gives its parts.                           *)
LEMMA InvTypes ==
  ASSUME IInv
  PROVE  /\ chan \in Channels(Chunk) /\ chan.q \in Seq(Chunk)
         /\ permits \in Nat /\ taken \in Nat /\ returned \in Nat
         /\ sent \in Nat /\ accepted \in Nat /\ got \in Nat
         /\ chunk.size \in Nat /\ chunk.at \in Nat /\ chunk.paid \in Nat
         /\ Need(chunk.size) \in Nat
         /\ held.size \in Nat /\ Need(held.size) \in Nat
         /\ HeldCost \in Nat /\ PaidCost \in Nat
         /\ sender # "idle" => chunk \in Chunk
<1>1. TypeOK
  BY DEF IInv
<1>2. chan \in Channels(Chunk) /\ chan.q \in Seq(Chunk)
  BY <1>1, ChannelFields DEF TypeOK
<1>3. /\ chunk.size \in Nat /\ chunk.at \in Nat /\ chunk.paid \in Nat
      /\ held.size \in Nat
  <2>1. ChunkSizes \union {0} \subseteq Nat
    OBVIOUS
  <2>2. chunk.size \in ChunkSizes \union {0} /\ held.size \in ChunkSizes \union {0}
    BY <1>1 DEF TypeOK
  <2> QED BY <1>1, <2>1, <2>2 DEF TypeOK
<1>4. Need(chunk.size) \in Nat /\ Need(held.size) \in Nat
  BY <1>3, NeedBounds
<1>5. HeldCost \in Nat /\ PaidCost \in Nat
  BY <1>4 DEF HeldCost, PaidCost
<1>6. sender # "idle" => chunk \in Chunk
  <2>1. sender # "idle" => chunk.size \in ChunkSizes
    BY DEF IInv
  <2> QED BY <1>1, <2>1 DEF TypeOK, Chunk
<1> QED BY <1>1, <1>2, <1>3, <1>4, <1>5, <1>6 DEF TypeOK

(* The sender's steps before the chunk reaches the queue.                  *)
LEMMA InvBeginSend ==
  ASSUME NEW size \in ChunkSizes, IInv, BeginSend(size)
  PROVE  IInv'
<1>1. /\ size \in Nat /\ sent \in Nat /\ sent' = sent + size
      /\ sender = "idle" /\ sender' = "acquire"
      /\ chunk' = [size |-> size, at |-> sent, paid |-> 0]
      /\ UNCHANGED <<chan, permits, receiver, held, accepted, got, taken,
                     returned>>
  BY InvTypes DEF BeginSend
<1>2. TypeOK'
  BY <1>1 DEF TypeOK, IInv
<1>3. QueueIsTheStream'
  BY <1>1 DEF QueueIsTheStream, IInv
<1>4. PermitsConserved'
  BY <1>1 DEF PermitsConserved, HeldCost, PaidCost, IInv
<1>5. sent' <= StreamLen /\ chan.tx
  BY DEF BeginSend
<1>6. Chained(chan'.q) /\ (chan'.rx = FALSE => chan'.q = <<>>)
  BY <1>1 DEF IInv
<1> QED BY <1>1, <1>2, <1>3, <1>4, <1>5, <1>6 DEF IInv

LEMMA InvAcquire == IInv /\ Acquire => IInv'
<1> SUFFICES ASSUME IInv, Acquire PROVE IInv'
  OBVIOUS
<1> DEFINE need == Need(chunk.size)
<1>1. /\ chunk.size \in Nat /\ chunk.at \in Nat /\ need \in Nat
      /\ permits \in Nat /\ taken \in Nat /\ returned \in Nat
      /\ HeldCost \in Nat /\ chan.q \in Seq(Chunk)
  BY InvTypes
<1>2. /\ chunk' = [size |-> chunk.size, at |-> chunk.at, paid |-> taken + need]
      /\ chunk.size \in ChunkSizes /\ chunk.at + chunk.size = sent
  BY DEF IInv, TypeOK, Acquire
<1>3. /\ sender = "acquire" /\ sender' = "enqueue"
      /\ permits >= need /\ permits' = permits - need /\ taken' = taken + need
      /\ UNCHANGED <<chan, receiver, held, sent, accepted, got, returned>>
  BY DEF Acquire
<1>4. TypeOK'
  BY <1>1, <1>2, <1>3, SMTT(30) DEF TypeOK, IInv
<1>5. QueueIsTheStream'
  BY <1>2, <1>3 DEF QueueIsTheStream, IInv
<1>6. PermitsConserved'
  <2>1. PaidCost = 0 /\ PaidCost' = need /\ HeldCost' = HeldCost
    BY <1>2, <1>3 DEF PaidCost, HeldCost
  <2>2. permits' + taken' = MaxBytes + returned'
    <3>1. permits + taken = MaxBytes + returned
      BY DEF IInv, PermitsConserved
    <3> HIDE DEF need
    <3> QED BY <1>1, <1>3, <3>1
  <2>3. ASSUME chan.rx, chan.q = <<>>
        PROVE  taken' = returned' + HeldCost' + PaidCost'
    <3>1. taken = returned + HeldCost
      BY <1>1, <2>1, <2>3 DEF IInv, PermitsConserved
    <3> QED BY <1>1, <1>3, <2>1, <3>1
  <2>4. ASSUME chan.rx, chan.q # <<>>
        PROVE  /\ chan.q[1].paid = returned' + HeldCost' + Need(chan.q[1].size)
               /\ chan.q[Len(chan.q)].paid + PaidCost' = taken'
    <3>1. chan.q[Len(chan.q)] \in Chunk
      BY <1>1, <2>4, NonEmptyFacts
    <3>2. chan.q[Len(chan.q)].paid \in Nat
      BY <3>1 DEF Chunk
    <3>3. chan.q[Len(chan.q)].paid = taken
      BY <2>1, <2>4, <3>2 DEF IInv, PermitsConserved
    <3> QED BY <1>3, <2>1, <2>4, <3>3 DEF IInv, PermitsConserved
  <2> QED BY <1>3, <2>2, <2>3, <2>4 DEF PermitsConserved
<1> HIDE DEF need
<1> QED BY <1>2, <1>3, <1>4, <1>5, <1>6 DEF IInv

LEMMA InvEnqueue == IInv /\ Enqueue => IInv'
<1> SUFFICES ASSUME IInv, Enqueue PROVE IInv'
  OBVIOUS
<1> DEFINE q == chan.q
           n == Len(chan.q)
<1>1. /\ chunk \in Chunk /\ q \in Seq(Chunk) /\ n \in Nat
      /\ chunk.size \in Nat /\ chunk.at \in Nat /\ chunk.paid \in Nat
      /\ Need(chunk.size) \in Nat
  BY InvTypes, SMTT(30) DEF Enqueue
<1>2. /\ chan'.q = Append(q, chunk) /\ chan'.tx = chan.tx /\ chan'.rx = chan.rx
      /\ chan' \in Channels(Chunk) /\ chan.rx
  BY <1>1, InvTypes, SentFacts DEF Enqueue, CanSend
<1>3. /\ Len(chan'.q) = n + 1 /\ chan'.q # <<>>
      /\ chan'.q[n + 1] = chunk
      /\ \A i \in 1 .. n : chan'.q[i] = q[i]
  <2>1. /\ Len(Append(q, chunk)) = n + 1 /\ Append(q, chunk) # <<>>
        /\ Append(q, chunk)[n + 1] = chunk
        /\ \A i \in 1 .. n : Append(q, chunk)[i] = q[i]
    BY <1>1
  <2> QED BY <1>2, <2>1
<1> USE DEF IInv, Enqueue, CanSend
<1>4. q # <<>> => /\ n \in 1 .. n /\ n - 1 \in Nat
                  /\ q[n] \in Chunk /\ q[1] \in Chunk /\ chan'.q[1] = q[1]
  BY <1>1, <1>3, SMTT(30)
<1>5. q = <<>> => n = 0 /\ chan'.q[1] = chunk
  BY <1>1, <1>3
<1>6. q # <<>> => /\ chunk.at = q[n].at + q[n].size
                  /\ chunk.paid = q[n].paid + Need(chunk.size)
  BY <1>2 DEF QueueIsTheStream, PermitsConserved, PaidCost
<1>7. Chained(chan'.q)
  BY <1>1, <1>2, <1>6, ChainedAppend
<1>8. TypeOK'
  BY <1>1, <1>2 DEF TypeOK
<1>9. QueueIsTheStream'
  <2>1. accepted' = sent'
    BY <1>2 DEF QueueIsTheStream
  <2>2. chan'.q[1].at = got'
    BY <1>2, <1>4, <1>5 DEF QueueIsTheStream
  <2>3. chan'.q[Len(chan'.q)].at + chan'.q[Len(chan'.q)].size = accepted'
    BY <1>1, <1>2, <1>3 DEF QueueIsTheStream
  <2> QED BY <1>3, <1>7, <2>1, <2>2, <2>3 DEF QueueIsTheStream, Chained
<1>10. PermitsConserved'
  <2>1. HeldCost' = HeldCost /\ PaidCost = Need(chunk.size) /\ PaidCost' = 0
    BY DEF HeldCost, PaidCost
  <2>2. chan'.q[1].paid = returned' + HeldCost' + Need(chan'.q[1].size)
    BY <1>2, <1>4, <1>5, <2>1 DEF PermitsConserved
  <2>3. chan'.q[Len(chan'.q)].paid + PaidCost' = taken'
    BY <1>1, <1>3, <2>1
  <2> QED BY <1>3, <2>2, <2>3 DEF PermitsConserved
<1> QED BY <1>2, <1>7, <1>8, <1>9, <1>10

LEMMA InvSendError == IInv /\ SendError => IInv'
BY DEF IInv, SendError, SendFails, TypeOK, QueueIsTheStream,
       PermitsConserved, HeldCost

LEMMA InvDropSender == IInv /\ DropSender => IInv'
<1> SUFFICES ASSUME IInv, DropSender PROVE IInv'
  OBVIOUS
<1>1. /\ chan' \in Channels(Chunk) /\ chan'.q = chan.q /\ chan'.rx = chan.rx
      /\ chan'.tx = FALSE
  BY TxDroppedFacts DEF IInv, DropSender, TypeOK
<1> USE DEF IInv, DropSender
<1>2. TypeOK'
  BY <1>1 DEF TypeOK
<1>3. QueueIsTheStream' /\ PermitsConserved'
  BY <1>1 DEF QueueIsTheStream, PermitsConserved, HeldCost, PaidCost
<1> QED BY <1>1, <1>2, <1>3

(* The receiver's steps.                                                   *)
LEMMA InvPop == IInv /\ Pop => IInv'
<1> SUFFICES ASSUME IInv, Pop PROVE IInv'
  OBVIOUS
<1> USE DEF IInv, Pop, CanRecv
<1> DEFINE q == chan.q
           n == Len(chan.q)
<1>1. /\ q \in Seq(Chunk) /\ q # <<>> /\ n \in Nat /\ n >= 1
      /\ Head(q) = q[1] /\ q[1] \in Chunk /\ q[n] \in Chunk
  BY ChannelFields, NonEmptyFacts DEF TypeOK
<1>2. /\ q[1].size \in Nat /\ q[1].at \in Nat /\ q[1].paid \in Nat
      /\ Need(q[1].size) \in Nat
  BY <1>1, NeedBounds DEF Chunk
<1>3. /\ chan'.q = Tail(q) /\ chan'.tx = chan.tx /\ chan'.rx = chan.rx
      /\ chan' \in Channels(Chunk) /\ chan.rx
  BY <1>1, ReceivedFacts DEF TypeOK
<1>4. Chained(chan'.q)
  BY <1>1, <1>3, ChainedTail
<1>5. TypeOK'
  BY <1>1, <1>2, <1>3, SMTT(30) DEF TypeOK, Chunk
<1>6. HeldCost = 0 /\ HeldCost' = Need(q[1].size) /\ PaidCost' = PaidCost
  BY <1>1 DEF HeldCost, PaidCost
<1>7. CASE n = 1
  <2>1. chan'.q = <<>> /\ Len(chan'.q) = 0
    BY <1>1, <1>3, <1>7, TailOfOne
  <2>2. QueueIsTheStream'
    BY <1>1, <1>3, <1>7, <2>1 DEF QueueIsTheStream
  <2>3. taken' = returned' + HeldCost' + PaidCost'
    BY <1>1, <1>2, <1>3, <1>6, <1>7 DEF PermitsConserved, TypeOK
  <2>4. PermitsConserved'
    BY <2>1, <2>3 DEF PermitsConserved
  <2> QED BY <1>3, <1>4, <1>5, <2>2, <2>4
<1>8. CASE n > 1
  <2>1. /\ Len(chan'.q) = n - 1 /\ chan'.q # <<>>
        /\ chan'.q[1] = q[2] /\ chan'.q[n - 1] = q[n]
    BY <1>1, <1>3, <1>8, NonEmptyFacts, TailOfMore
  <2>2. /\ 1 \in 1 .. n - 1
        /\ q[1 + 1].at = q[1].at + q[1].size
        /\ q[1 + 1].paid = q[1].paid + Need(q[1 + 1].size)
    BY <1>1, <1>8 DEF Chained
  <2>3. QueueIsTheStream'
    <3>1. chan'.q[1].at = got'
      BY <1>1, <1>3, <2>1, <2>2 DEF QueueIsTheStream
    <3>2. chan'.q[Len(chan'.q)].at + chan'.q[Len(chan'.q)].size = accepted'
      BY <1>1, <1>3, <2>1 DEF QueueIsTheStream
    <3> QED BY <1>3, <1>4, <2>1, <3>1, <3>2 DEF QueueIsTheStream, Chained
  <2>4. PermitsConserved'
    <3>1. chan'.q[1].paid = returned' + HeldCost' + Need(chan'.q[1].size)
      BY <1>1, <1>2, <1>3, <1>6, <2>1, <2>2 DEF PermitsConserved, TypeOK
    <3>2. chan'.q[Len(chan'.q)].paid + PaidCost' = taken'
      BY <1>1, <1>3, <1>6, <2>1 DEF PermitsConserved
    <3> QED BY <2>1, <3>1, <3>2 DEF PermitsConserved
  <2> QED BY <1>3, <1>4, <1>5, <2>3, <2>4
<1> HIDE DEF IInv, Pop, CanRecv, n
<1>9. n = 1 \/ n > 1
  BY <1>1
<1> QED BY <1>7, <1>8, <1>9

LEMMA InvRelease == IInv /\ Release => IInv'
<1> SUFFICES ASSUME IInv, Release PROVE IInv'
  OBVIOUS
<1>1. /\ held.size \in Nat /\ Need(held.size) \in Nat
      /\ permits \in Nat /\ taken \in Nat /\ returned \in Nat
  BY InvTypes
<1> USE DEF IInv, Release
<1>2. TypeOK'
  BY <1>1 DEF TypeOK
<1>3. QueueIsTheStream'
  BY DEF QueueIsTheStream
<1>4. returned' + HeldCost' = returned + HeldCost /\ PaidCost' = PaidCost
  BY <1>1 DEF HeldCost, PaidCost
<1>5. PermitsConserved'
  BY <1>1, <1>4 DEF PermitsConserved
<1> QED BY <1>2, <1>3, <1>5

LEMMA InvDropReceiver == IInv /\ DropReceiver => IInv'
<1> SUFFICES ASSUME IInv, DropReceiver PROVE IInv'
  OBVIOUS
<1>1. /\ chan' \in Channels(Chunk) /\ chan'.q = <<>> /\ chan'.rx = FALSE
      /\ chan'.tx = chan.tx /\ Len(chan'.q) = 0
  BY RxDroppedFacts, InvTypes DEF DropReceiver
<1> USE DEF IInv, DropReceiver
<1>2. TypeOK'
  BY <1>1 DEF TypeOK
<1>3. QueueIsTheStream' /\ PermitsConserved'
  BY <1>1 DEF QueueIsTheStream, PermitsConserved
<1>4. Chained(chan'.q)
  BY <1>1 DEF Chained
<1> QED BY <1>1, <1>2, <1>3, <1>4

LEMMA InvStep == IInv /\ [Next]_vars => IInv'
<1> SUFFICES ASSUME IInv, [Next]_vars PROVE IInv'
  OBVIOUS
<1>1. CASE UNCHANGED vars
  BY <1>1 DEF vars, IInv, TypeOK, QueueIsTheStream, PermitsConserved,
              HeldCost, PaidCost, Chained
<1> QED BY <1>1, InvBeginSend, InvAcquire, InvEnqueue, InvSendError,
           InvDropSender, InvPop, InvRelease, InvDropReceiver DEF Next

(* The invariant of the byte-bounded channel.                              *)
THEOREM ChannelInvariant == Spec => []IInv
BY InvInit, InvStep, PTL DEF Spec

-----------------------------------------------------------------------------
(* The properties that follow from the invariant in every state.           *)

(* The channel's variables keep their types; in particular the semaphore   *)
(* is never overdrawn, whatever the sizes of the chunks.                   *)
THEOREM TypeTheorem == Spec => []TypeOK
<1>1. IInv => TypeOK
  BY DEF IInv
<1> QED
  BY <1>1, ChannelInvariant, PTL

(* recv() answers None only after it has returned every byte.              *)
THEOREM EofTheorem == Spec => []EofMeansEverythingReceived
<1>1. IInv => EofMeansEverythingReceived
  BY DEF IInv, QueueIsTheStream, EofMeansEverythingReceived, AtEof
<1> QED BY <1>1, ChannelInvariant, PTL

(* The ends of a non-empty queue, and the permits that are out.            *)
LEMMA QueueEnds ==
  ASSUME IInv, chan.rx, chan.q # <<>>,
         NEW n \in Nat, n = Len(chan.q)
  PROVE  /\ n >= 1 /\ chan.q[1] \in Chunk /\ chan.q[n] \in Chunk
         /\ chan.q[1].at = got
         /\ chan.q[n].at + chan.q[n].size = accepted
         /\ chan.q[1].paid = returned + HeldCost + Need(chan.q[1].size)
         /\ chan.q[n].paid + PaidCost = taken
         /\ taken <= MaxBytes + returned
<1>1. n >= 1 /\ chan.q[1] \in Chunk /\ chan.q[n] \in Chunk
  BY InvTypes, NonEmptyFacts
<1>2. QueueIsTheStream /\ PermitsConserved
  BY DEF IInv
<1>3. taken <= MaxBytes + returned
  BY <1>2, InvTypes DEF PermitsConserved
<1> QED BY <1>1, <1>2, <1>3 DEF QueueIsTheStream, PermitsConserved

LEMMA InvBytesBounded == IInv => BytesBounded
<1> SUFFICES ASSUME IInv, chan.rx,
                    \A i \in 1 .. Len(chan.q) : chan.q[i].size <= MaxBytes
             PROVE  Buffered + HeldCost + PaidCost <= MaxBytes
  BY DEF BytesBounded
<1>1. CASE chan.q = <<>>
  <2>1. got = accepted /\ taken = returned + HeldCost + PaidCost
    BY <1>1 DEF IInv, QueueIsTheStream, PermitsConserved
  <2>2. permits + taken = MaxBytes + returned
    BY DEF IInv, PermitsConserved
  <2> QED BY <2>1, <2>2, InvTypes, SMTT(30) DEF Buffered
<1>2. CASE chan.q # <<>>
  <2> DEFINE n == Len(chan.q)
  <2>1. n \in Nat
    BY InvTypes, NonEmptyFacts, <1>2
  <2> HIDE DEF n
  <2>2. /\ n >= 1 /\ chan.q[1] \in Chunk /\ chan.q[n] \in Chunk
        /\ chan.q[1].at = got
        /\ chan.q[n].at + chan.q[n].size = accepted
        /\ chan.q[1].paid = returned + HeldCost + Need(chan.q[1].size)
        /\ chan.q[n].paid + PaidCost = taken
        /\ taken <= MaxBytes + returned
    BY <1>2, <2>1, QueueEnds DEF n
  <2>3. SameDistance(chan.q[1], chan.q[n])
    BY <2>1, <2>2 DEF IInv, Chained, n
  <2>4. /\ chan.q[n].at \in Nat /\ chan.q[n].size \in Nat /\ chan.q[n].paid \in Nat
        /\ chan.q[1].paid \in Nat /\ Need(chan.q[1].size) \in Nat
    BY <2>2, NeedBounds DEF Chunk
  <2>5. accepted + chan.q[1].paid = got + chan.q[n].paid + Need(chan.q[1].size)
    BY <2>2, <2>3 DEF SameDistance
  <2> DEFINE first == chan.q[1].paid
             last == chan.q[n].paid
             need == Need(chan.q[1].size)
  <2>6. /\ first \in Nat /\ last \in Nat /\ need \in Nat
        /\ first = returned + HeldCost + need
        /\ last + PaidCost = taken
        /\ accepted + first = got + last + need
    BY <2>2, <2>4, <2>5
  <2>7. /\ taken <= MaxBytes + returned
        /\ taken \in Nat /\ returned \in Nat /\ accepted \in Nat /\ got \in Nat
        /\ HeldCost \in Nat /\ PaidCost \in Nat
    BY <2>2, InvTypes
  <2> HIDE DEF first, last, need
  <2> QED BY <2>6, <2>7 DEF Buffered
<1> QED BY <1>1, <1>2

(* The byte budget: total buffered bytes stay within max_bytes as long as  *)
(* no single chunk exceeds it (byte_channel.rs 22-23).                     *)
THEOREM BudgetTheorem == Spec => []BytesBounded
BY InvBytesBounded, ChannelInvariant, PTL

(* What two chunks in the queue cost together is within the budget.        *)
LEMMA PaidOrder ==
  ASSUME IInv, NEW i \in 1 .. Len(chan.q), NEW j \in 1 .. Len(chan.q), i < j
  PROVE  chan.q[i].paid + Need(chan.q[j].size) <= chan.q[j].paid
BY DEF IInv, Chained, Follows

LEMMA TwoChunksFit ==
  ASSUME IInv, chan.rx, NEW i \in 1 .. Len(chan.q), NEW j \in 1 .. Len(chan.q),
         i < j
  PROVE  Need(chan.q[i].size) + Need(chan.q[j].size) + PaidCost <= MaxBytes
<1> DEFINE n == Len(chan.q)
           paid(k) == chan.q[k].paid
           need(k) == Need(chan.q[k].size)
<1>1. chan.q \in Seq(Chunk) /\ chan.q # <<>> /\ n \in Nat
  BY InvTypes, SMTT(30)
<1>2. 1 \in 1 .. n /\ n \in 1 .. n /\ i \in 1 .. n /\ j \in 1 .. n
  BY <1>1
<1>3. \A k \in 1 .. n : paid(k) \in Nat /\ need(k) \in Nat
  <2> TAKE k \in 1 .. n
  <2>1. chan.q[k] \in Chunk
    BY <1>1, ElementOfSeq
  <2>2. chan.q[k].paid \in Nat /\ chan.q[k].size \in Nat
    BY <2>1 DEF Chunk
  <2> QED BY <2>2, NeedBounds
<1>4. \A k, l \in 1 .. n : k < l => paid(k) + need(l) <= paid(l)
  BY PaidOrder
<1>5. /\ paid(1) = returned + HeldCost + need(1)
      /\ paid(n) + PaidCost = taken
      /\ taken <= MaxBytes + returned
  BY <1>1, QueueEnds
<1> HIDE DEF n, paid, need
<1>6. /\ paid(1) \in Nat /\ paid(n) \in Nat /\ paid(i) \in Nat /\ paid(j) \in Nat
      /\ need(1) \in Nat /\ need(n) \in Nat /\ need(i) \in Nat /\ need(j) \in Nat
      /\ taken \in Nat /\ returned \in Nat
      /\ HeldCost \in Nat /\ PaidCost \in Nat /\ MaxBytes \in Nat
  BY <1>2, <1>3, InvTypes, ChannelAssumption
<1>7. paid(j) <= paid(n)
  <2>1. CASE j = n
    BY <2>1, <1>6
  <2>2. CASE j < n
    <3>1. paid(j) + need(n) <= paid(n)
      BY <1>2, <1>4, <2>2
    <3> QED BY <1>6, <3>1
  <2> QED BY <2>1, <2>2, <1>1, <1>2
<1>8. returned + HeldCost + need(i) <= paid(i)
  <2>1. CASE i = 1
    BY <2>1, <1>5, <1>6
  <2>2. CASE 1 < i
    <3>1. paid(1) + need(i) <= paid(i)
      BY <1>2, <1>4, <2>2
    <3> QED BY <1>5, <1>6, <3>1, SMTT(30)
  <2> QED BY <2>1, <2>2, <1>2
<1>9. paid(i) + need(j) <= paid(j)
  BY <1>2, <1>4
<1>10. need(i) + need(j) + PaidCost <= MaxBytes
  <2>1. returned + HeldCost + need(i) + need(j) <= paid(n)
    BY <1>6, <1>7, <1>8, <1>9
  <2>2. paid(n) + PaidCost <= MaxBytes + returned
    BY <1>5
  <2> QED BY <1>6, <2>1, <2>2, SMTT(30)
<1> QED BY <1>10 DEF need

(* A chunk as large as the budget has the channel for itself.              *)
THEOREM OversizedTheorem == Spec => []OversizedTravelsAlone
<1>1. IInv => OversizedTravelsAlone
  <2> SUFFICES ASSUME IInv, MaxBytes > 0,
                      NEW i \in 1 .. Len(chan.q), NEW j \in 1 .. Len(chan.q),
                      chan.q[i].size >= MaxBytes, i # j
               PROVE  chan.q[j].size = 0
    BY DEF OversizedTravelsAlone
  <2> DEFINE a == chan.q[i].size
             b == chan.q[j].size
  <2>1. a \in Nat /\ b \in Nat
    <3>1. chan.q[i] \in Chunk /\ chan.q[j] \in Chunk
      BY InvTypes, ElementOfSeq
    <3> QED BY <3>1 DEF Chunk
  <2>2. Need(a) = MaxBytes /\ Need(b) \in Nat
    BY <2>1, NeedBounds
  <2>3. chan.rx
    <3>1. chan.q # <<>>
      OBVIOUS
    <3> QED BY <3>1 DEF IInv, TypeOK, Channels
  <2>4. Need(a) + Need(b) + PaidCost <= MaxBytes
    <3>1. CASE i < j
      BY <3>1, <2>3, TwoChunksFit
    <3>2. CASE j < i
      <4>1. Need(b) + Need(a) + PaidCost <= MaxBytes
        BY <3>2, <2>3, TwoChunksFit
      <4> HIDE DEF a, b
      <4> QED BY <4>1, <2>2, InvTypes
    <3> QED BY <3>1, <3>2
  <2> HIDE DEF a, b
  <2>5. Need(b) = 0
    BY <2>2, <2>4, InvTypes
  <2>6. b = 0
    BY <2>1, <2>5 DEF Need
  <2> QED BY <2>6 DEF b
<1> QED BY <1>1, ChannelInvariant, PTL

-----------------------------------------------------------------------------
(* The channel implements the abstract pipe.                               *)

(* One queued chunk and the paid one about to follow it fit the budget.    *)
LEMMA OneChunkFits ==
  ASSUME IInv, chan.rx, NEW i \in 1 .. Len(chan.q)
  PROVE  Need(chan.q[i].size) + PaidCost <= MaxBytes
<1> DEFINE n == Len(chan.q)
<1>1. chan.q \in Seq(Chunk) /\ chan.q # <<>> /\ n \in Nat
  BY InvTypes, SMTT(30)
<1>2. CASE n = 1
  <2> DEFINE paid == chan.q[1].paid
             need == Need(chan.q[1].size)
  <2>1. /\ i = 1
        /\ paid = returned + HeldCost + need
        /\ paid + PaidCost = taken
        /\ taken <= MaxBytes + returned
    BY <1>1, <1>2, QueueEnds
  <2>2. paid \in Nat /\ need \in Nat
    <3>1. chan.q[1] \in Chunk
      BY <1>1, NonEmptyFacts
    <3>2. chan.q[1].paid \in Nat /\ chan.q[1].size \in Nat
      BY <3>1 DEF Chunk
    <3> QED BY <3>2, NeedBounds
  <2>3. returned \in Nat /\ HeldCost \in Nat /\ PaidCost \in Nat /\ taken \in Nat
    BY InvTypes
  <2> HIDE DEF paid, need
  <2>4. need + PaidCost <= MaxBytes
    BY <2>1, <2>2, <2>3
  <2> QED BY <2>1, <2>4 DEF need
<1>3. CASE n > 1
  <2>1. PICK j \in 1 .. n : j # i
    <3>1. 1 \in 1 .. n /\ 2 \in 1 .. n
      BY <1>1, <1>3
    <3> QED BY <3>1
  <2> DEFINE a == Need(chan.q[i].size)
             b == Need(chan.q[j].size)
  <2>2. a \in Nat /\ b \in Nat
    <3>1. chan.q[i] \in Chunk /\ chan.q[j] \in Chunk
      BY <1>1, <2>1, ElementOfSeq
    <3>2. chan.q[i].size \in Nat /\ chan.q[j].size \in Nat
      BY <3>1 DEF Chunk
    <3> QED BY <3>2, NeedBounds
  <2>3. a + b + PaidCost <= MaxBytes \/ b + a + PaidCost <= MaxBytes
    BY <2>1, TwoChunksFit
  <2>4. PaidCost \in Nat
    BY InvTypes
  <2> HIDE DEF a, b
  <2>5. a + PaidCost <= MaxBytes
    BY <2>2, <2>3, <2>4
  <2> QED BY <2>5 DEF a
<1>4. n >= 1
  BY <1>1, NonEmptyFacts
<1> HIDE DEF n
<1> QED BY <1>1, <1>2, <1>3, <1>4

(* The first chunk of a non-empty queue is part of what the pipe holds,    *)
(* and the pipe never holds a byte that was not sent.                      *)
LEMMA FirstChunkInPipe ==
  ASSUME IInv, chan.rx, chan.q # <<>>
  PROVE  got + chan.q[1].size <= accepted
<1> DEFINE n == Len(chan.q)
<1>1. n \in Nat
  BY InvTypes, NonEmptyFacts
<1> HIDE DEF n
<1>2. /\ n >= 1 /\ chan.q[1] \in Chunk /\ chan.q[n] \in Chunk
      /\ chan.q[1].at = got
      /\ chan.q[n].at + chan.q[n].size = accepted
  BY <1>1, QueueEnds DEF n
<1>3. CASE n = 1
  <2>1. chan.q[1].at + chan.q[1].size = accepted /\ chan.q[1].at = got
    BY <1>2, <1>3
  <2> DEFINE s == chan.q[1].size
  <2>2. s \in Nat /\ got + s = accepted
    BY <1>2, <2>1 DEF Chunk
  <2>3. got + s <= accepted
    <3> HIDE DEF s
    <3> QED BY <2>2, InvTypes
  <2> QED BY <2>3
<1>4. CASE n > 1
  <2>1. chan.q[1].at + chan.q[1].size <= chan.q[n].at
    BY <1>1, <1>4 DEF IInv, Chained, Follows, n
  <2> DEFINE s == chan.q[1].size
             a == chan.q[n].at
             z == chan.q[n].size
  <2>2. s \in Nat /\ a \in Nat /\ z \in Nat /\ got + s <= a /\ a + z = accepted
    BY <1>2, <2>1 DEF Chunk
  <2>3. got \in Nat
    BY InvTypes
  <2> HIDE DEF s, a, z
  <2>4. got + s <= accepted
    BY <2>2, <2>3
  <2> QED BY <2>4 DEF s
<1> QED BY <1>1, <1>2, <1>3, <1>4

LEMMA PipeBounds ==
  ASSUME IInv, chan.rx
  PROVE  got <= accepted /\ accepted <= sent
<1>1. got <= accepted
  <2>1. CASE chan.q = <<>>
    BY <2>1, InvTypes DEF IInv, QueueIsTheStream
  <2>2. CASE chan.q # <<>>
    <3>1. got + chan.q[1].size <= accepted
      BY <2>2, FirstChunkInPipe
    <3>2. chan.q[1] \in Chunk
      BY <2>2, InvTypes, NonEmptyFacts
    <3> DEFINE s == chan.q[1].size
    <3>3. s \in Nat /\ got \in Nat /\ accepted \in Nat /\ got + s <= accepted
      BY <3>1, <3>2, InvTypes DEF Chunk
    <3> HIDE DEF s
    <3> QED BY <3>3
  <2> QED BY <2>1, <2>2
<1>2. accepted <= sent
  <2>1. CASE sender = "idle"
    BY <2>1, InvTypes DEF IInv, QueueIsTheStream
  <2>2. CASE sender # "idle"
    <3>1. accepted = chunk.at /\ chunk.at + chunk.size = sent
      BY <2>2 DEF IInv, QueueIsTheStream
    <3> QED BY <3>1, InvTypes, SMTT(30)
  <2> QED BY <2>1, <2>2
<1> QED BY <1>1, <1>2

(* A chunk that has paid either fits with what the pipe holds, or the pipe *)
(* is empty.                                                               *)
LEMMA PaidChunkFits ==
  ASSUME IInv, MaxBytes > 0, chan.rx, sender = "enqueue", chunk.size > 0
  PROVE  accepted + chunk.size - got <= MaxBytes \/ accepted = got
<1> SUFFICES ASSUME accepted # got
             PROVE  accepted + chunk.size - got <= MaxBytes
  OBVIOUS
<1> DEFINE s == chunk.size
<1>1. /\ s \in Nat /\ s > 0 /\ PaidCost = Need(s)
      /\ accepted \in Nat /\ got \in Nat /\ got <= accepted
      /\ HeldCost \in Nat
  BY InvTypes, PipeBounds DEF PaidCost
<1>2. Need(s) \in Nat /\ Need(s) > 0 /\ (Need(s) < MaxBytes => Need(s) = s)
  BY <1>1 DEF Need
<1>3. \A i \in 1 .. Len(chan.q) : chan.q[i].size <= MaxBytes
  <2> SUFFICES ASSUME NEW i \in 1 .. Len(chan.q), ~(chan.q[i].size <= MaxBytes)
               PROVE  FALSE
    OBVIOUS
  <2>1. chan.q[i] \in Chunk
    BY InvTypes, ElementOfSeq
  <2>2. chan.q[i].size \in Nat
    BY <2>1 DEF Chunk
  <2>3. Need(chan.q[i].size) = MaxBytes
    BY <2>2 DEF Need
  <2>4. MaxBytes + Need(s) <= MaxBytes
    BY <1>1, <2>3, OneChunkFits
  <2> QED BY <1>2, <2>4
<1>4. accepted - got + HeldCost + Need(s) <= MaxBytes
  <2>1. accepted - got + HeldCost + PaidCost <= MaxBytes
    BY <1>3, InvBytesBounded DEF BytesBounded, Buffered
  <2> QED BY <1>1, <2>1
<1> HIDE DEF s
<1>5. Need(s) < MaxBytes
  BY <1>1, <1>2, <1>4
<1>6. accepted + s - got <= MaxBytes
  <2>1. Need(s) = s
    BY <1>2, <1>5
  <2> QED BY <1>1, <1>4, <2>1
<1> QED BY <1>6 DEF s

LEMMA PipeStep ==
  ASSUME MaxBytes > 0, IInv, [Next]_vars
  PROVE  [APipe!Next]_(APipe!vars)
<1> USE DEF APipe!vars
<1>1. ASSUME NEW size \in ChunkSizes, BeginSend(size)
      PROVE  UNCHANGED APipe!vars
  BY <1>1 DEF BeginSend
<1>2. CASE Acquire
  BY <1>2 DEF Acquire
<1>3. CASE Enqueue
  <2>1. /\ chan' = Sent(chan, chunk) /\ chunk \in Chunk /\ chan.rx
        /\ accepted' = accepted + chunk.size /\ got' = got
    BY <1>3, InvTypes DEF Enqueue, CanSend
  <2>2. chan'.tx = chan.tx /\ chan'.rx = chan.rx
    BY <2>1, InvTypes, SentFacts
  <2>3. CASE chunk.size = 0
    BY <2>1, <2>2, <2>3, InvTypes
  <2>4. CASE chunk.size # 0
    <3>1. chunk.size \in Nat /\ chunk.size > 0 /\ sender = "enqueue"
      BY <1>3, <2>4, InvTypes, SMTT(30) DEF Enqueue
    <3>2. accepted + chunk.size - got <= MaxBytes \/ accepted = got
      BY <2>1, <3>1, PaidChunkFits
    <3>3. chunk.size \in 1 .. StreamLen
      <4>1. chunk.at + chunk.size = sent /\ sent <= StreamLen
        BY <3>1 DEF IInv
      <4>2. chunk.at \in Nat /\ sent \in Nat
        BY InvTypes
      <4> QED BY <3>1, <4>1, <4>2
    <3>4. chan.tx
      BY <3>1 DEF IInv, TypeOK, Channels
    <3>5. APipe!Write(chunk.size)
      BY <2>1, <2>2, <3>2, <3>4 DEF APipe!Write
    <3> QED BY <3>3, <3>5 DEF APipe!Next
  <2> QED BY <2>3, <2>4
<1>4. CASE SendError
  BY <1>4 DEF SendError
<1>5. CASE DropSender
  <2>1. chan'.tx = FALSE /\ chan'.rx = chan.rx
    BY <1>5, InvTypes, TxDroppedFacts DEF DropSender
  <2> QED BY <1>5, <2>1 DEF DropSender, APipe!Next, APipe!CloseWrite
<1>6. CASE Pop
  <2> DEFINE s == chan.q[1].size
  <2>1. /\ chan.rx /\ chan.q # <<>> /\ chan' = Received(chan)
        /\ got' = got + Head(chan.q).size /\ accepted' = accepted
    BY <1>6 DEF Pop, CanRecv
  <2>2. chan'.tx = chan.tx /\ chan'.rx = chan.rx
    BY <2>1, InvTypes, ReceivedFacts
  <2>3. chan.q[1] \in Chunk /\ Head(chan.q) = chan.q[1]
    BY <2>1, InvTypes, NonEmptyFacts
  <2>4. s \in Nat /\ got + s <= accepted /\ got' = got + s
    BY <2>1, <2>3, FirstChunkInPipe DEF Chunk
  <2>5. got \in Nat /\ accepted \in Nat /\ sent \in Nat /\ accepted <= sent
        /\ sent <= StreamLen
    BY <2>1, InvTypes, PipeBounds DEF IInv
  <2> HIDE DEF s
  <2>6. CASE s = 0
    BY <2>1, <2>2, <2>4, <2>5, <2>6
  <2>7. CASE s # 0
    <3>1. s \in 1 .. StreamLen
      BY <2>4, <2>5, <2>7
    <3>2. APipe!Read(s)
      BY <2>1, <2>2, <2>4 DEF APipe!Read
    <3> QED BY <3>1, <3>2 DEF APipe!Next
  <2> QED BY <2>6, <2>7
<1>7. CASE Release
  BY <1>7 DEF Release
<1>8. CASE DropReceiver
  <2>1. chan'.tx = chan.tx /\ chan'.rx = FALSE
    BY <1>8, InvTypes, RxDroppedFacts DEF DropReceiver
  <2> QED BY <1>8, <2>1 DEF DropReceiver, APipe!Next, APipe!CloseRead
<1>9. CASE UNCHANGED vars
  BY <1>9 DEF vars
<1> QED BY <1>1, <1>2, <1>3, <1>4, <1>5, <1>6, <1>7, <1>8, <1>9 DEF Next

(* For every budget of at least one byte, the semaphore, the inner channel *)
(* and the two threads together behave as the abstract pipe: lossless,     *)
(* ordered, bounded by the budget but for a chunk alone in the pipe.       *)
THEOREM PipeTheorem ==
  ASSUME MaxBytes > 0
  PROVE  Spec => PipeSpec
<1>1. Init => APipe!Init
  BY DEF Init, APipe!Init, NewChannel
<1>2. IInv /\ [Next]_vars => [APipe!Next]_(APipe!vars)
  BY PipeStep
<1> QED BY <1>1, <1>2, ChannelInvariant, PTL DEF Spec, PipeSpec, APipe!Spec
=============================================================================
