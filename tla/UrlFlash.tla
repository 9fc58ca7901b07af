------------------------------- MODULE UrlFlash -------------------------------
(***************************************************************************)
(* flash_from_url (from_url.rs) end to end: the downloader with its retry  *)
(* loop, the decompressor thread (InprocessDecoder), the writer task with  *)
(* its format detection, and the block writer thread (AsyncBlockWriter).   *)
(*                                                                         *)
(*   HTTP -> buf (byte bounded) -> decoder -> dchan -> writer task         *)
(*        -> wchan -> block writer -> device                               *)
(*                                                                         *)
(* The file is chunks 1 .. N.  Every await of the downloader that another  *)
(* party can act in is a step boundary.  Time is not modelled: a 30 s      *)
(* timeout is one of the ways a read from the connection may end, and the  *)
(* sleep between two attempts is a step that may take as long as it likes. *)
(***************************************************************************)
EXTENDS AsyncBlockWriter, InprocessDecoder

CONSTANTS
  MaxRetries,     (* options.max_retries                                   *)
  DetectLen       (* blocks the format detector needs                      *)

ASSUME UrlFlashAssumption ==
  /\ MaxRetries \in Nat /\ DetectLen \in Nat \ {0}
  /\ BufBytes \in Nat \ {0} /\ DecCap \in Nat \ {0} /\ WrCap \in Nat \ {0}
  /\ DeviceMayFail \in BOOLEAN
  /\ \A s \in Sources :
       /\ s.length \in Nat \ {0} /\ s.end \in 1 .. s.length
       /\ s.format \in {"none", "gzip", "xz"} /\ (s.format = "none" => s.end = s.length)
       /\ s.undecodable \subseteq 1 .. s.length /\ s.unparsable \subseteq 0 .. s.length
       /\ {s.honoursRange, s.framed} \subseteq BOOLEAN /\ s.faultLimit \in Nat

(* Chunks in the file the URL names.                                       *)
N == source.length

(* Does the server answer a Range request with 206?                        *)
HonoursRange == source.honoursRange

(* Does the server say where the body ends?  A body that is not framed     *)
(* ends where the connection is closed.                                    *)
Framed == source.framed

(* Blocks at which the detector or the sparse parser gives up.             *)
Unparsable == source.unparsable

VARIABLES
  pc,           (* where flash_from_url is                                 *)
  result,       (* what it returned: "none" yet, "ok" or "err"             *)
  conn,         (* chunks of the file this connection has delivered        *)
  received,     (* progress.bytes_received                                 *)
  retries,      (* retry_count                                             *)
  wpc,          (* the writer task: "running", "closing", "ok", "err"      *)
  determined,   (* format_determined                                       *)
  detecting,    (* detector.buffer                                         *)
  toWrite       (* blocks the writer task has still to hand over           *)

(* A connection may be refused or break at any time.  The bound is for a    *)
(* server that ignores Range: a download from it may never be done.        *)
MayBreak == HonoursRange \/ received <= source.faultLimit

downloaderVars == <<pc, result, conn, received, retries>>
writerTaskVars == <<wpc, determined, detecting, toWrite>>
vars == <<source, downloaderVars, writerTaskVars, decoderVars, blockWriterVars>>

Image == [k \in 1 .. StreamEnd |-> k]

Init ==
  /\ BlockWriterInit /\ DecoderInit
  /\ pc = "check" /\ result = "none" /\ conn = 0 /\ received = 0 /\ retries = 0
  /\ wpc = "running" /\ determined = FALSE /\ detecting = <<>> /\ toWrite = <<>>

WriterFinished == wpc \in {"ok", "err"}

-----------------------------------------------------------------------------
(* The downloader.                                                         *)

Goto(label) == pc' = label /\ UNCHANGED <<result, buf, permits>>

(* Every return drops buffer_tx.                                           *)
Return(how) == pc' = "returned" /\ result' = how /\ DropTx

(* Mutants of RetryOrGiveUp: one retry too many; retries not counted.      *)
RetryOnceMore ==
  IF retries <= MaxRetries
  THEN retries' = retries + 1 /\ Goto("check")
  ELSE Return("err") /\ UNCHANGED retries

RetryForever == UNCHANGED retries /\ Goto("check")

(* handle_download_retry for a retryable error.                            *)
RetryOrGiveUp ==
  IF retries < MaxRetries
  THEN retries' = retries + 1 /\ Goto("check")
  ELSE Return("err") /\ UNCHANGED retries

DownloaderOnly == UNCHANGED <<writerTaskVars, blockWriterVars, dpc, input, decoded,
                              derailed, dchan>>

(* The top of the retry loop.                                              *)
CheckWriter ==
  /\ pc = "check"
  /\ IF WriterFinished THEN Return("err") ELSE Goto("connect")
  /\ UNCHANGED <<conn, received, retries>> /\ DownloaderOnly

(* Mutant of ConnectOk: resumes at the decoder's position.                 *)
ConnectAtDecoded ==
  /\ pc = "connect"
  /\ ~(HonoursRange /\ received = N)
  /\ conn' = IF HonoursRange THEN decoded ELSE 0
  /\ Goto("stream")
  /\ UNCHANGED <<received, retries>> /\ DownloaderOnly

(* start_download, resuming at bytes_received.  A Range that starts at the *)
(* end of the file is answered 416, which is not retried.                  *)
ConnectOk ==
  /\ pc = "connect"
  /\ ~(HonoursRange /\ received = N)
  /\ conn' = IF HonoursRange THEN received ELSE 0
  /\ Goto("stream")
  /\ UNCHANGED <<received, retries>> /\ DownloaderOnly

ConnectRetryable ==
  /\ pc = "connect" /\ MayBreak
  /\ RetryOrGiveUp
  /\ UNCHANGED <<conn, received>> /\ DownloaderOnly

ConnectFatal ==
  /\ pc = "connect"
  /\ Return("err")
  /\ UNCHANGED <<conn, received, retries>> /\ DownloaderOnly

(* stream.next() within 30 s: a chunk ...                                  *)
StreamChunk ==
  /\ pc = "stream" /\ conn < N
  /\ conn' = conn + 1
  /\ Goto("acquire")
  /\ UNCHANGED <<received, retries>> /\ DownloaderOnly

(* ... the end of the body ...                                             *)
StreamEnds ==
  /\ pc = "stream" /\ (conn = N \/ ~Framed)
  /\ pc' = "join" /\ DropTx
  /\ UNCHANGED <<result, conn, received, retries>> /\ DownloaderOnly

(* ... or an error or a timeout.                                           *)
StreamBreaks ==
  /\ pc = "stream" /\ MayBreak
  /\ Goto("broken")
  /\ UNCHANGED <<conn, received, retries>> /\ DownloaderOnly

(* buffer_tx.send(chunk): the permit, and then the queue.                  *)
Acquire ==
  /\ pc = "acquire" /\ TakePermit
  /\ pc' = "enqueue"
  /\ UNCHANGED <<result, conn, received, retries>> /\ DownloaderOnly

Enqueue ==
  /\ pc = "enqueue" /\ QueueChunk(conn)
  /\ received' = received + 1 /\ retries' = 0
  /\ pc' = "stream"
  /\ UNCHANGED <<result, conn>> /\ DownloaderOnly

EnqueueFails ==
  /\ pc = "enqueue" /\ QueueFails
  /\ pc' = "broken"
  /\ UNCHANGED <<result, conn, received, retries>> /\ DownloaderOnly

ConnectionBroken ==
  /\ pc = "broken"
  /\ IF WriterFinished THEN Return("err") /\ UNCHANGED retries ELSE RetryOrGiveUp
  /\ UNCHANGED <<conn, received>> /\ DownloaderOnly

(* Mutant of JoinDecoder: the decoder's error is ignored.                  *)
JoinDecoderUnchecked ==
  /\ pc = "join" /\ dpc # "running"
  /\ Goto("await")
  /\ UNCHANGED <<conn, received, retries>> /\ DownloaderOnly

(* decompressor_handle.join().                                             *)
JoinDecoder ==
  /\ pc = "join" /\ dpc # "running"
  /\ IF dpc = "ok" THEN Goto("await") ELSE Return("err")
  /\ UNCHANGED <<conn, received, retries>> /\ DownloaderOnly

(* The wait for the writer, and its result as the result of it all.        *)
AwaitWriter ==
  /\ pc = "await" /\ WriterFinished
  /\ Return(wpc)
  /\ UNCHANGED <<conn, received, retries>> /\ DownloaderOnly

DownloaderNext ==
  \/ CheckWriter
  \/ ConnectOk \/ ConnectRetryable \/ ConnectFatal
  \/ StreamChunk \/ StreamEnds \/ StreamBreaks
  \/ Acquire \/ Enqueue \/ EnqueueFails
  \/ ConnectionBroken
  \/ JoinDecoder
  \/ AwaitWriter

-----------------------------------------------------------------------------
(* The writer task.                                                        *)

WriterTaskOnly == UNCHANGED <<downloaderVars, buf, permits, dpc, input, decoded, derailed>>

(* Returning early drops the decoded channel's receiver and the            *)
(* AsyncBlockWriter, whose thread is then on its own.                      *)
TaskFails ==
  /\ wpc' = "err"
  /\ dchan' = RxDropped(dchan)
  /\ LetGo
  /\ UNCHANGED <<determined, detecting, toWrite>>

(* A decoded block while flash_from_url is waiting: the progress message   *)
(* goes through, then detection or the parser gets the block.              *)
ReceiveBlock ==
  /\ wpc = "running" /\ toWrite = <<>>
  /\ CanRecv(dchan) /\ result = "none"
  /\ Head(dchan.q) \notin Unparsable
  /\ dchan' = Received(dchan)
  /\ LET seen == Append(detecting, Head(dchan.q))
     IN  IF determined \/ Len(seen) >= DetectLen
         THEN determined' = TRUE /\ detecting' = <<>> /\ toWrite' = seen
         ELSE detecting' = seen /\ UNCHANGED <<determined, toWrite>>
  /\ UNCHANGED wpc
  /\ UNCHANGED blockWriterVars /\ WriterTaskOnly

(* A corrupt sparse header or chunk.                                       *)
ReceiveUnparsable ==
  /\ wpc = "running" /\ toWrite = <<>>
  /\ CanRecv(dchan) /\ result = "none"
  /\ Head(dchan.q) \in Unparsable
  /\ TaskFails
  /\ WriterTaskOnly

(* Nobody takes the progress message any more: stop, and close as if done. *)
ReceiveAbandoned ==
  /\ wpc = "running" /\ toWrite = <<>>
  /\ CanRecv(dchan) /\ result # "none"
  /\ dchan' = Received(dchan)
  /\ wpc' = "closing" /\ LetGo
  /\ UNCHANGED <<determined, detecting, toWrite>> /\ WriterTaskOnly

(* recv() returned None with too little seen to tell the format.           *)
FinalizeDetection ==
  /\ wpc = "running" /\ toWrite = <<>>
  /\ AtEof(dchan) /\ ~determined /\ detecting # <<>>
  /\ determined' = TRUE /\ toWrite' = detecting /\ detecting' = <<>>
  /\ UNCHANGED <<wpc, dchan, blockWriterVars>> /\ WriterTaskOnly

HandOver ==
  /\ wpc = "running" /\ toWrite # <<>>
  /\ CanSubmit /\ Submit(Head(toWrite))
  /\ toWrite' = Tail(toWrite)
  /\ UNCHANGED <<wpc, dchan, determined, detecting>> /\ WriterTaskOnly

HandOverFails ==
  /\ wpc = "running" /\ toWrite # <<>>
  /\ SubmitFails
  /\ TaskFails /\ WriterTaskOnly

(* recv() returned None, all is handed over: writer.close().await ...      *)
CloseWriter ==
  /\ wpc = "running" /\ toWrite = <<>>
  /\ AtEof(dchan) /\ detecting = <<>>
  /\ wpc' = "closing" /\ LetGo
  /\ UNCHANGED <<dchan, determined, detecting, toWrite>> /\ WriterTaskOnly

(* Mutant of WriterClosed: the thread's answer is ignored.                 *)
WriterClosedUnchecked ==
  /\ wpc = "closing" /\ WriterDone
  /\ wpc' = "ok" /\ dchan' = RxDropped(dchan)
  /\ UNCHANGED <<determined, detecting, toWrite, blockWriterVars>> /\ WriterTaskOnly

(* ... and its answer, the task's result.                                  *)
WriterClosed ==
  /\ wpc = "closing" /\ WriterDone
  /\ wpc' = bpc /\ dchan' = RxDropped(dchan)
  /\ UNCHANGED <<determined, detecting, toWrite, blockWriterVars>> /\ WriterTaskOnly

WriterTaskNext ==
  \/ ReceiveBlock \/ ReceiveUnparsable \/ ReceiveAbandoned \/ FinalizeDetection
  \/ HandOver \/ HandOverFails
  \/ CloseWriter \/ WriterClosed

-----------------------------------------------------------------------------
DecoderStep == DecoderNext /\ UNCHANGED <<downloaderVars, writerTaskVars, blockWriterVars>>
BlockWriterStep == BlockWriterNext /\ UNCHANGED <<downloaderVars, writerTaskVars, decoderVars>>

Next ==
  /\ DownloaderNext \/ WriterTaskNext \/ DecoderStep \/ BlockWriterStep
  /\ UNCHANGED source

Spec == Init /\ [][Next]_vars

(* Each party runs on a thread or task of its own and is scheduled again   *)
(* and again; reads from the network end within 30 s, requests within the  *)
(* client's own timeouts, so a party with a step to take takes one.        *)
Fairness ==
  /\ WF_vars(DownloaderNext /\ UNCHANGED source)
  /\ WF_vars(WriterTaskNext /\ UNCHANGED source)
  /\ WF_vars(DecoderStep /\ UNCHANGED source)
  /\ WF_vars(BlockWriterStep /\ UNCHANGED source)

FairSpec == Spec /\ Fairness

-----------------------------------------------------------------------------
(* Properties.                                                             *)

Blocks == 0 .. N

TypeOK ==
  /\ source \in Sources
  /\ pc \in {"check", "connect", "stream", "acquire", "enqueue", "broken", "join",
             "await", "returned"}
  /\ result \in {"none", "ok", "err"}
  /\ conn \in 0 .. N /\ received \in Nat /\ retries \in 0 .. MaxRetries
  /\ wpc \in {"running", "closing", "ok", "err"} /\ determined \in BOOLEAN
  /\ detecting \in Seq(Blocks) /\ toWrite \in Seq(Blocks)
  /\ buf \in Channels(1 .. N) /\ permits \in 0 .. BufBytes
  /\ dpc \in {"running", "ok", "err"} /\ input \in Seq(1 .. N) /\ decoded \in Nat
  /\ derailed \in BOOLEAN /\ dchan \in Channels(Blocks)
  /\ wchan \in Channels(Blocks) /\ bpc \in {"opening", "running", "ok", "err"}
  /\ device \in Seq(Blocks) /\ synced \in BOOLEAN

(* flash_from_url answers Ok only if the device holds the whole image, in  *)
(* order and once, and has been synced (from_url.rs 433-585): whatever     *)
(* the connection, the decoder and the device did before.                  *)
SuccessMeansFlashed == result = "ok" => device = Image /\ synced

(* Everything between the device and the connection, oldest first.         *)
InFlight == device \o wchan.q \o toWrite \o detecting \o dchan.q \o input \o buf.q

NoStageFailed ==
  bpc # "err" /\ wpc # "err" /\ dpc # "err" /\ ~derailed /\ result # "err"

(* "Resume from the HTTP download position, not the decompressor write     *)
(* position" (from_url.rs 317): what lies between the connection and the   *)
(* device is the file up to bytes_received, across every reconnect.        *)
NothingLost ==
  HonoursRange /\ StreamEnd = N /\ NoStageFailed
    => InFlight = [k \in 1 .. received |-> k]

(* Memory stays bounded while the receiver lives: a queued chunk holds a   *)
(* permit, and so does the one about to enter (byte_channel.rs 22-23).     *)
BufferPaidFor == PaidFor(pc = "enqueue")

(* The one wait nobody ends.                                               *)
Stuck == pc = "acquire" /\ NeverAcquires

(* With a server that resumes, flash_from_url returns, however often the   *)
(* connection breaks ("Built-in retry logic for network failures",         *)
(* README.md 11) and whoever fails, unless it is stuck in that wait.       *)
FlashReturns == <>(result # "none" \/ Stuck \/ ~HonoursRange)

(* What from_url.rs 311-315 and 374-378 are for ("Writer task has          *)
(* terminated, stopping download"): a failed writer ends the flash.        *)
WriterFailureEndsFlash == wpc = "err" ~> result # "none"

(* A source that gives the decoder and the parser what they expect.        *)
Sound ==
  /\ HonoursRange
  /\ Unparsable \cap 1 .. StreamEnd = {}
  /\ Format # "none" => Undecodable \cap 1 .. StreamEnd = {}

(* The user's view: from a sound source the device gets the image front to *)
(* back, and success is announced when all of it is there; an image that   *)
(* the decoder or the sparse parser refuses is never announced as flashed  *)
(* (decompress.rs 163-170, from_url.rs 97-101, 279-282).  The server that  *)
(* does not resume is left to SuccessMeansFlashed.                         *)
AFlash == INSTANCE Flash WITH image  <- Image,
                              device <- IF Sound THEN device ELSE <<>>,
                              synced <- Sound /\ synced,
                              result <- IF HonoursRange THEN result ELSE "none"
FlashSpec == AFlash!Spec
=============================================================================
