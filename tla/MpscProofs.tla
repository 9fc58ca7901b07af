----------------------------- MODULE MpscProofs -----------------------------
(***************************************************************************)
(* What the channel operators of Mpsc do to a channel of the right type,   *)
(* for the proofs about the modules that are built from them.              *)
(***************************************************************************)
EXTENDS Mpsc, SequenceTheorems, TLAPS

(* Is q a stretch of the stream of numbered items, the one after the first *)
(* `from` of them?                                                         *)
Run(q, from) == \A i \in 1 .. Len(q) : q[i] = from + i

LEMMA ChannelFields ==
  ASSUME NEW S, NEW ch \in Channels(S)
  PROVE  ch.q \in Seq(S) /\ ch.tx \in BOOLEAN /\ ch.rx \in BOOLEAN
BY DEF Channels

LEMMA NewChannelFacts ==
  ASSUME NEW S
  PROVE  /\ NewChannel \in Channels(S) /\ NewChannel.q = <<>> /\ Len(NewChannel.q) = 0
         /\ NewChannel.tx /\ NewChannel.rx
<1>1. <<>> \in Seq(S) /\ Len(<<>>) = 0
  OBVIOUS
<1> QED BY <1>1 DEF Channels, NewChannel

LEMMA SentFacts ==
  ASSUME NEW S, NEW ch \in Channels(S), NEW item \in S
  PROVE  /\ Sent(ch, item) \in Channels(S)
         /\ Sent(ch, item).q = Append(ch.q, item)
         /\ Sent(ch, item).tx = ch.tx
         /\ Sent(ch, item).rx = ch.rx
<1>1. Append(ch.q, item) \in Seq(S)
  BY ChannelFields
<1> QED BY <1>1 DEF Channels, Sent

(* The ends of a channel are given as values and as formulas: the provers  *)
(* tell x = FALSE from ~x.                                                 *)
LEMMA SentEnds ==
  ASSUME NEW S, NEW ch \in Channels(S), NEW item \in S
  PROVE  (Sent(ch, item).tx <=> ch.tx) /\ (Sent(ch, item).rx <=> ch.rx)
BY SentFacts

LEMMA ReceivedFacts ==
  ASSUME NEW S, NEW ch \in Channels(S), ch.q # <<>>
  PROVE  /\ Received(ch) \in Channels(S)
         /\ Received(ch).q = Tail(ch.q)
         /\ Received(ch).tx = ch.tx /\ (Received(ch).tx <=> ch.tx)
         /\ Received(ch).rx = ch.rx /\ (Received(ch).rx <=> ch.rx)
<1>1. Tail(ch.q) \in Seq(S)
  BY ChannelFields
<1> QED BY <1>1 DEF Channels, Received

LEMMA TxDroppedFacts ==
  ASSUME NEW S, NEW ch \in Channels(S)
  PROVE  /\ TxDropped(ch) \in Channels(S)
         /\ TxDropped(ch).q = ch.q
         /\ TxDropped(ch).tx = FALSE /\ ~TxDropped(ch).tx
         /\ TxDropped(ch).rx = ch.rx /\ (TxDropped(ch).rx <=> ch.rx)
BY DEF Channels, TxDropped

LEMMA RxDroppedFacts ==
  ASSUME NEW S, NEW ch \in Channels(S)
  PROVE  /\ RxDropped(ch) \in Channels(S)
         /\ RxDropped(ch).q = <<>> /\ Len(RxDropped(ch).q) = 0
         /\ RxDropped(ch).tx = ch.tx /\ (RxDropped(ch).tx <=> ch.tx)
         /\ RxDropped(ch).rx = FALSE /\ ~RxDropped(ch).rx
<1>1. <<>> \in Seq(S)
  OBVIOUS
<1> QED BY <1>1 DEF Channels, RxDropped

LEMMA NonEmptyFacts ==
  ASSUME NEW S, NEW q \in Seq(S), q # <<>>
  PROVE  /\ Len(q) \in Nat /\ Len(q) >= 1
         /\ Head(q) = q[1] /\ q[1] \in S
         /\ q[Len(q)] \in S
         /\ Tail(q) \in Seq(S) /\ Len(Tail(q)) = Len(q) - 1
OBVIOUS

LEMMA TailOfOne ==
  ASSUME NEW S, NEW q \in Seq(S), Len(q) = 1
  PROVE  Tail(q) = <<>>
<1>1. q # <<>> /\ Tail(q) \in Seq(S) /\ Len(Tail(q)) = 0
  BY NonEmptyFacts
<1> QED BY <1>1, EmptySeq

LEMMA TailOfMore ==
  ASSUME NEW S, NEW q \in Seq(S), Len(q) > 1
  PROVE  Tail(q) # <<>> /\ Tail(q)[1] = q[2] /\ Tail(q)[Len(q) - 1] = q[Len(q)]
OBVIOUS

-----------------------------------------------------------------------------
(* Stretches of the stream, as the queues of a pipeline hold them.         *)

(* Nothing is a stretch from anywhere.                                     *)
LEMMA EmptyRun == ASSUME NEW from PROVE Run(<<>>, from)
BY DEF Run

(* The next item joins at the end, ...                                     *)
LEMMA RunAppend ==
  ASSUME NEW S, NEW q \in Seq(S), NEW from \in Nat, NEW item \in S,
         Run(q, from), item = from + Len(q) + 1
  PROVE  Run(Append(q, item), from)
BY DEF Run

(* ... and the first one leaves at the front.                              *)
LEMMA RunTail ==
  ASSUME NEW S, NEW q \in Seq(S), NEW from \in Nat, Run(q, from), q # <<>>
  PROVE  /\ Head(q) = from + 1 /\ Run(Tail(q), from + 1)
         /\ Tail(q) \in Seq(S) /\ Len(Tail(q)) = Len(q) - 1 /\ Len(q) \in Nat \ {0}
BY DEF Run

(* Neighbouring stretches make one.                                        *)
LEMMA RunConcat ==
  ASSUME NEW S, NEW a \in Seq(S), NEW b \in Seq(S), NEW from \in Nat,
         Run(a, from), Run(b, from + Len(a))
  PROVE  a \o b \in Seq(S) /\ Len(a \o b) = Len(a) + Len(b) /\ Run(a \o b, from)
<1>1. \A i \in 1 .. Len(a) + Len(b) : (a \o b)[i] = IF i <= Len(a) THEN a[i] ELSE b[i - Len(a)]
  OBVIOUS
<1>2. a \o b \in Seq(S) /\ Len(a \o b) = Len(a) + Len(b) /\ Len(a) \in Nat /\ Len(b) \in Nat
  OBVIOUS
<1>3. ASSUME NEW i \in 1 .. Len(a) + Len(b) PROVE (a \o b)[i] = from + i
  <2>1. CASE i <= Len(a)
    BY <1>1, <1>2, <2>1 DEF Run
  <2>2. CASE i > Len(a)
    <3>1. i - Len(a) \in 1 .. Len(b)
      BY <1>2, <2>2
    <3>2. b[i - Len(a)] = from + Len(a) + (i - Len(a))
      BY <3>1 DEF Run
    <3> QED BY <1>1, <1>2, <2>2, <3>2
  <2> QED BY <1>2, <2>1, <2>2
<1> QED BY <1>2, <1>3 DEF Run

(* ..., and so do those from the start of the stream.                      *)
LEMMA RunJoin ==
  ASSUME NEW S, NEW a \in Seq(S), NEW b \in Seq(S), NEW at, at = Len(a),
         Run(a, 0), Run(b, at)
  PROVE  a \o b \in Seq(S) /\ Len(a \o b) = at + Len(b) /\ Run(a \o b, 0)
<1>1. Len(a) \in Nat /\ 0 + Len(a) = at
  OBVIOUS
<1> QED BY <1>1, RunConcat

(* The same for a place that has a name: the next stretch begins there.    *)
LEMMA RunJoinTo ==
  ASSUME NEW S, NEW a \in Seq(S), NEW b \in Seq(S), NEW at, NEW next,
         at = Len(a), at + Len(b) = next, Run(a, 0), Run(b, at)
  PROVE  a \o b \in Seq(S) /\ next = Len(a \o b) /\ Run(a \o b, 0)
BY RunJoin

LEMMA SeqOfMore ==
  ASSUME NEW S, NEW T, S \subseteq T, NEW q \in Seq(S)
  PROVE  q \in Seq(T)
OBVIOUS

(* A stretch from the start is the stream itself, up to its length.        *)
LEMMA RunFromStart ==
  ASSUME NEW S, NEW q \in Seq(S), Run(q, 0)
  PROVE  q = [k \in 1 .. Len(q) |-> k]
<1>1. \A k \in 1 .. Len(q) : q[k] = k
  BY DEF Run
<1>2. q = [k \in 1 .. Len(q) |-> q[k]] /\ Len(q) \in Nat
  OBVIOUS
<1> QED BY <1>1, <1>2
=============================================================================
