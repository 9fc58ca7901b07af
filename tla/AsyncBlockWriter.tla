--------------------------- MODULE AsyncBlockWriter ---------------------------
(***************************************************************************)
(* AsyncBlockWriter of block_writer.rs: a bounded channel of commands      *)
(* (Write, Seek, Fill) and a blocking thread that executes them on the     *)
(* device in order, flushes at the end and returns.  A command is a value  *)
(* of the composing module; what one command does to the device is         *)
(* BlockWriter's business (module BlockWriter).                            *)
(***************************************************************************)
EXTENDS Mpsc

CONSTANTS WrCap,          (* channel_capacity                              *)
          DeviceMayFail   (* may opening, an I/O operation or fsync fail?  *)

VARIABLES
  wchan,      (* writer_tx, writer_rx                                      *)
  bpc,        (* the thread: "opening", "running", "ok", "err"             *)
  device,     (* the commands executed on the device so far                *)
  synced      (* has flush() put all of them on the medium?                *)

blockWriterVars == <<wchan, bpc, device, synced>>

BlockWriterInit ==
  /\ wchan = NewChannel
  /\ bpc = "opening"
  /\ device = <<>>
  /\ synced = FALSE

(* An error ends the thread, and its receiver goes with it.                *)
ThreadFails ==
  /\ DeviceMayFail
  /\ bpc' = "err"
  /\ wchan' = RxDropped(wchan)
  /\ UNCHANGED <<device, synced>>

Open ==
  /\ bpc = "opening"
  /\ \/ bpc' = "running" /\ UNCHANGED <<wchan, device, synced>>
     \/ ThreadFails

(* One turn of `while let Some(cmd) = writer_rx.blocking_recv()`.          *)
Execute ==
  /\ bpc = "running"
  /\ CanRecv(wchan)
  /\ \/ /\ device' = Append(device, Head(wchan.q))
        /\ wchan' = Received(wchan)
        /\ synced' = FALSE
        /\ UNCHANGED bpc
     \/ ThreadFails

(* writer.flush()? and the return, once the channel has ended.             *)
FinishWriting ==
  /\ bpc = "running"
  /\ AtEof(wchan)
  /\ \/ bpc' = "ok" /\ synced' = TRUE /\ wchan' = RxDropped(wchan) /\ UNCHANGED device
     \/ ThreadFails

BlockWriterNext == Open \/ Execute \/ FinishWriting

(* The caller's side: write(), seek() and fill() are one send each, close()*)
(* drops the sender and then waits for WriterDone.                         *)
CanSubmit    == CanSend(wchan, WrCap)
SubmitFails  == SendFails(wchan)
Submit(cmd)  == wchan' = Sent(wchan, cmd) /\ UNCHANGED <<bpc, device, synced>>
LetGo        == wchan' = TxDropped(wchan) /\ UNCHANGED <<bpc, device, synced>>
WriterDone   == bpc \in {"ok", "err"}
=============================================================================
