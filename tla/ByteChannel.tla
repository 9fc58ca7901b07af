----------------------------- MODULE ByteChannel -----------------------------
(***************************************************************************)
(* The byte-bounded channel of byte_channel.rs: an mpsc channel of chunks  *)
(* together with a semaphore of one permit per byte.  The sender pays      *)
(* min(size, MaxBytes) permits before it may queue a chunk; the receiver   *)
(* gives the same number back after it has taken the chunk out.  The two   *)
(* ends run on different threads, so every semaphore operation and every   *)
(* queue operation is a step of its own.                                   *)
(*                                                                         *)
(* A chunk is known by its place in the byte stream.  `at` (the position   *)
(* of its first byte) and `paid` (the permits taken from the semaphore up  *)
(* to and including its own) are not in the code: they let the invariants  *)
(* speak of loss, order and the number of buffered bytes without a sum.    *)
(***************************************************************************)
EXTENDS Mpsc

CONSTANTS MaxBytes,     (* max_bytes: the semaphore's initial permits      *)
          MaxItems,     (* max_items: capacity of the inner mpsc channel   *)
          ChunkSizes,   (* the byte sizes a chunk may have                 *)
          StreamLen     (* bytes in the stream; bounds what is sent        *)

ASSUME ChannelAssumption ==
  /\ MaxBytes \in Nat
  /\ MaxItems \in Nat \ {0}
  /\ ChunkSizes \subseteq Nat
  /\ StreamLen \in Nat

VARIABLES
  chan,       (* inner: the mpsc channel                                   *)
  permits,    (* semaphore: the permits now available                      *)
  sender,     (* where send() is: "idle", "acquire", "enqueue"             *)
  chunk,      (* the argument of the send() in progress                    *)
  receiver,   (* where recv() is: "ready", or "release" after the pop      *)
  held,       (* the chunk recv() has popped                               *)
  sent,       (* bytes of all chunks send() was called with                *)
  accepted,   (* bytes of all chunks the inner channel has taken           *)
  got,        (* bytes of all chunks recv() has popped                     *)
  taken,      (* permits acquired so far                                   *)
  returned    (* permits given back so far                                 *)

vars == <<chan, permits, sender, chunk, receiver, held, sent, accepted, got, taken,
          returned>>

Chunk == [size : ChunkSizes, at : Nat, paid : Nat]

(* Mutants of Need: the min with max_bytes is left out; a cast to an       *)
(* integer no wider than the budget takes its place.                       *)
NeedUncapped(size) == size
NeedWrapped(size)  == size % (MaxBytes + 1)

(* The permits a chunk costs, on both sides: min(byte_size, max_bytes). *)
Need(size) == IF size <= MaxBytes THEN size ELSE MaxBytes

Init ==
  /\ chan = NewChannel
  /\ permits = MaxBytes
  /\ sender = "idle" /\ chunk = [size |-> 0, at |-> 0, paid |-> 0]
  /\ receiver = "ready" /\ held = [size |-> 0, at |-> 0, paid |-> 0]
  /\ sent = 0 /\ accepted = 0 /\ got = 0 /\ taken = 0 /\ returned = 0

-----------------------------------------------------------------------------
(* ByteBoundedSender::send.  The call starts with the next chunk of the    *)
(* stream.                                                                 *)
BeginSend(size) ==
  /\ chan.tx /\ sender = "idle"
  /\ sent + size <= StreamLen
  /\ sender' = "acquire"
  /\ chunk' = [size |-> size, at |-> sent, paid |-> 0]
  /\ sent' = sent + size
  /\ UNCHANGED <<chan, permits, receiver, held, accepted, got, taken, returned>>

(* Mutants of Acquire: the permit is not waited for; it is not forgotten,  *)
(* so that it goes back to the semaphore when the statement ends.          *)
AcquireUnpaid ==
  /\ sender = "acquire"
  /\ permits' = permits - Need(chunk.size)
  /\ taken' = taken + Need(chunk.size)
  /\ chunk' = [chunk EXCEPT !.paid = taken + Need(chunk.size)]
  /\ sender' = "enqueue"
  /\ UNCHANGED <<chan, receiver, held, sent, accepted, got, returned>>

AcquireUnforgotten ==
  /\ sender = "acquire"
  /\ permits >= Need(chunk.size)
  /\ sender' = "enqueue"
  /\ UNCHANGED <<chan, permits, chunk, receiver, held, sent, accepted, got, taken,
                 returned>>

(* acquire_many(..).await and permit.forget().  Nothing closes the         *)
(* semaphore, so this wait knows nothing of the receiver.                  *)
Acquire ==
  /\ sender = "acquire"
  /\ permits >= Need(chunk.size)
  /\ permits' = permits - Need(chunk.size)
  /\ taken' = taken + Need(chunk.size)
  /\ chunk' = [chunk EXCEPT !.paid = taken + Need(chunk.size)]
  /\ sender' = "enqueue"
  /\ UNCHANGED <<chan, receiver, held, sent, accepted, got, returned>>

(* inner.send(item).await, which waits for a free slot ... *)
Enqueue ==
  /\ sender = "enqueue"
  /\ CanSend(chan, MaxItems)
  /\ chan' = Sent(chan, chunk)
  /\ sender' = "idle"
  /\ accepted' = accepted + chunk.size
  /\ UNCHANGED <<permits, chunk, receiver, held, sent, got, taken, returned>>

(* ... or fails because the receiver is gone: the permits stay forgotten.  *)
SendError ==
  /\ sender = "enqueue"
  /\ SendFails(chan)
  /\ sender' = "idle"
  /\ UNCHANGED <<chan, permits, chunk, receiver, held, sent, accepted, got, taken,
                 returned>>

(* Mutant of DropSender: the sender goes while a send() is under way.      *)
DropSenderEarly ==
  /\ chan.tx
  /\ chan' = TxDropped(chan)
  /\ UNCHANGED <<permits, sender, chunk, receiver, held, sent, accepted, got, taken,
                 returned>>

DropSender ==
  /\ chan.tx /\ sender = "idle"
  /\ chan' = TxDropped(chan)
  /\ UNCHANGED <<permits, sender, chunk, receiver, held, sent, accepted, got, taken,
                 returned>>

-----------------------------------------------------------------------------
(* ByteBoundedReceiver::recv and blocking_recv: the pop ...                *)
Pop ==
  /\ receiver = "ready"
  /\ CanRecv(chan)
  /\ held' = Head(chan.q)
  /\ chan' = Received(chan)
  /\ got' = got + Head(chan.q).size
  /\ receiver' = "release"
  /\ UNCHANGED <<permits, sender, chunk, sent, accepted, taken, returned>>

(* ... and, later, add_permits with the same min as the sender's.          *)
Release ==
  /\ receiver = "release"
  /\ permits' = permits + Need(held.size)
  /\ returned' = returned + Need(held.size)
  /\ receiver' = "ready"
  /\ UNCHANGED <<chan, sender, chunk, held, sent, accepted, got, taken>>

(* The receiver is dropped between two calls of recv: what is queued is    *)
(* discarded with it, and so are the permits those chunks paid.            *)
DropReceiver ==
  /\ chan.rx /\ receiver = "ready"
  /\ chan' = RxDropped(chan)
  /\ UNCHANGED <<permits, sender, chunk, receiver, held, sent, accepted, got, taken,
                 returned>>

Next ==
  \/ \E size \in ChunkSizes : BeginSend(size)
  \/ Acquire
  \/ Enqueue
  \/ SendError
  \/ DropSender
  \/ Pop
  \/ Release
  \/ DropReceiver

Spec == Init /\ [][Next]_vars

(* A send() that was called is polled until it returns, and a consumer     *)
(* that still holds its receiver calls recv() again and again.  Nobody is  *)
(* obliged to start a send or to drop an end.                              *)
Fairness ==
  /\ WF_vars(Acquire)
  /\ WF_vars(Enqueue)
  /\ WF_vars(SendError)
  /\ WF_vars(Pop)
  /\ WF_vars(Release)

FairSpec == Spec /\ Fairness

-----------------------------------------------------------------------------
(* Properties.                                                             *)

TypeOK ==
  /\ chan \in Channels(Chunk)
  /\ permits \in Nat
  /\ sender \in {"idle", "acquire", "enqueue"}
  /\ chunk \in [size : ChunkSizes \union {0}, at : Nat, paid : Nat]
  /\ receiver \in {"ready", "release"}
  /\ held \in [size : ChunkSizes \union {0}, at : Nat, paid : Nat]
  /\ sent \in Nat /\ accepted \in Nat /\ got \in Nat /\ taken \in Nat /\ returned \in Nat

(* Permits that belong to the chunk recv() has popped but not paid back.   *)
HeldCost == IF receiver = "release" THEN Need(held.size) ELSE 0

(* Permits of the chunk that has paid but is not in the queue yet.         *)
PaidCost == IF sender = "enqueue" THEN Need(chunk.size) ELSE 0

(* The queue is the stream from `got` to `accepted`, and the chunk being   *)
(* sent follows it, with nothing lost, repeated or out of order            *)
(* (byte_channel.rs 35-80).                                                *)
QueueIsTheStream ==
  chan.rx =>
    /\ accepted = IF sender = "idle" THEN sent ELSE chunk.at
    /\ chan.q = <<>> => got = accepted
    /\ chan.q # <<>> =>
         /\ chan.q[1].at = got
         /\ chan.q[Len(chan.q)].at + chan.q[Len(chan.q)].size = accepted
    /\ \A i \in 1 .. Len(chan.q) - 1 :
         chan.q[i + 1].at = chan.q[i].at + chan.q[i].size

(* recv() answers None ("no more") only when it has returned every byte    *)
(* that was ever handed to send().                                         *)
EofMeansEverythingReceived == AtEof(chan) => got = sent

(* Permits are neither leaked nor minted while the receiver lives: what is *)
(* missing from the semaphore was paid by the chunk just popped, by those  *)
(* in the queue, or by the one about to enter it.                          *)
PermitsConserved ==
  /\ permits + taken = MaxBytes + returned
  /\ chan.rx =>
       /\ chan.q = <<>> => taken = returned + HeldCost + PaidCost
       /\ chan.q # <<>> =>
            /\ chan.q[1].paid = returned + HeldCost + Need(chan.q[1].size)
            /\ chan.q[Len(chan.q)].paid + PaidCost = taken

(* Bytes that have left the sender and that recv() has not returned.       *)
Buffered == accepted - got

(* "Total buffered bytes never exceeds max_bytes" (byte_channel.rs 22-23)  *)
(* holds as long as no queued chunk is larger than the whole budget; a     *)
(* popped chunk whose permits are still out is within the budget too.      *)
BytesBounded ==
  chan.rx /\ (\A i \in 1 .. Len(chan.q) : chan.q[i].size <= MaxBytes)
    => Buffered + HeldCost + PaidCost <= MaxBytes

(* A chunk that needs the whole budget shares the channel with no other    *)
(* byte: all the other queued chunks are empty.                            *)
OversizedTravelsAlone ==
  MaxBytes > 0 =>
    \A i, j \in 1 .. Len(chan.q) :
      chan.q[i].size >= MaxBytes /\ i # j => chan.q[j].size = 0

(* The inductive strengthening of the above.  Any two queued chunks are    *)
(* apart by what lies between them, in bytes and in permits, and over a    *)
(* stretch without an oversized chunk the two distances are the same.      *)
Follows(c, d) ==
  /\ c.at + c.size <= d.at
  /\ c.paid + Need(d.size) <= d.paid

SameDistance(c, d) ==
  d.at + d.size + c.paid = c.at + d.paid + Need(c.size)

Chained(q) ==
  /\ \A i \in 1 .. Len(q) - 1 :
       /\ q[i + 1].at = q[i].at + q[i].size
       /\ q[i + 1].paid = q[i].paid + Need(q[i + 1].size)
  /\ \A i, j \in 1 .. Len(q) : i < j => Follows(q[i], q[j])
  /\ \A i, j \in 1 .. Len(q) :
       i <= j /\ (\A k \in i .. j : q[k].size <= MaxBytes)
         => SameDistance(q[i], q[j])

IInv ==
  /\ TypeOK
  /\ QueueIsTheStream
  /\ PermitsConserved
  /\ sender # "idle" => chunk.size \in ChunkSizes /\ chunk.at + chunk.size = sent
  /\ sender = "enqueue" => chunk.paid = taken
  /\ sent <= StreamLen
  /\ Chained(chan.q)
  /\ ~chan.tx => sender = "idle"
  /\ ~chan.rx => chan.q = <<>>

(* As long as the receiver lives, a send() returns: also one of a chunk    *)
(* larger than the budget ("can still pass through without deadlocking",   *)
(* byte_channel.rs 33-34).                                                 *)
SendReturns ==
  (sender # "idle" /\ chan.rx) ~> (sender = "idle" \/ ~chan.rx)

(* The channel implements the abstract pipe (for a budget of at least one  *)
(* byte).                                                                  *)
APipe == INSTANCE Pipe WITH put <- accepted, got <- got,
                            writing <- chan.tx, reading <- chan.rx
PipeSpec == APipe!Spec
=============================================================================
