---------------------------- MODULE DownloadBuffer ----------------------------
(***************************************************************************)
(* The download buffer as the pipelines use it: a ByteChannel whose chunks *)
(* cost one permit each and whose item limit (4096) is never what is       *)
(* reached first.  Taking a chunk out and giving its permit back is one    *)
(* step here; module ByteChannel has the two apart.                        *)
(***************************************************************************)
EXTENDS Mpsc

CONSTANT BufBytes    (* the budget of the buffer, in chunks                *)

VARIABLES
  buf,        (* the inner channel                                         *)
  permits     (* the semaphore                                             *)

BufferInit == buf = NewChannel /\ permits = BufBytes

(* send(): wait for a permit, which nobody returns once the receiver is    *)
(* gone; then queue the chunk, which fails if the receiver is gone.        *)
TakePermit      == permits > 0 /\ permits' = permits - 1 /\ UNCHANGED buf
QueueChunk(c)   == CanSend(buf, BufBytes) /\ buf' = Sent(buf, c) /\ UNCHANGED permits
QueueFails      == SendFails(buf) /\ UNCHANGED <<buf, permits>>

(* Mutant of TakeChunk: the permit is not given back.                      *)
TakeChunkUnpaid == buf' = Received(buf) /\ UNCHANGED permits

(* recv(), and its end.                                                    *)
ChunkReady == CanRecv(buf)
NextChunk  == Head(buf.q)
TakeChunk  == buf' = Received(buf) /\ permits' = permits + 1
NoMore     == AtEof(buf)

(* Either end is dropped.  The permits of chunks still queued are lost.    *)
DropTx == buf' = TxDropped(buf) /\ UNCHANGED permits
DropRx == buf' = RxDropped(buf) /\ UNCHANGED permits

(* The wait nobody ends: the buffer is full and its reader is gone.        *)
NeverAcquires == permits = 0 /\ ~buf.rx

(* A queued chunk holds a permit; `paid` says if the one about to be       *)
(* queued does.                                                            *)
PaidFor(paid) ==
  buf.rx => permits + Len(buf.q) + (IF paid THEN 1 ELSE 0) = BufBytes
=============================================================================
