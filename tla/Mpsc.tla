-------------------------------- MODULE Mpsc --------------------------------
(***************************************************************************)
(* A bounded tokio::sync::mpsc channel with one sender and one receiver,   *)
(* as the flasher uses it.  The library is not part of the repository; the *)
(* operators below are what its callers rely on:                           *)
(*   - send waits while the channel is full, fails once the receiver is    *)
(*     gone, and never reorders;                                           *)
(*   - recv returns the queued items, then None once the sender is gone;   *)
(*   - dropping the receiver discards what is queued.                      *)
(* A channel is a record, so that a module with several channels gives     *)
(* each a variable and every step writes the channel it touches.           *)
(***************************************************************************)
EXTENDS Naturals, Sequences

(* q: the queued items; tx, rx: whether that end is still held by someone. *)
Channels(Items) == [q : Seq(Items), tx : BOOLEAN, rx : BOOLEAN]

NewChannel == [q |-> <<>>, tx |-> TRUE, rx |-> TRUE]

CanSend(ch, capacity) == ch.rx /\ Len(ch.q) < capacity
SendFails(ch)         == ~ch.rx
Sent(ch, item)        == [ch EXCEPT !.q = Append(ch.q, item)]

CanRecv(ch)  == ch.rx /\ ch.q # <<>>
AtEof(ch)    == ch.rx /\ ch.q = <<>> /\ ~ch.tx
Received(ch) == [ch EXCEPT !.q = Tail(ch.q)]

TxDropped(ch) == [ch EXCEPT !.tx = FALSE]
RxDropped(ch) == [ch EXCEPT !.rx = FALSE, !.q = <<>>]
=============================================================================
