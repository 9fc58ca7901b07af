--------------------------- MODULE OciBlobPipeline ---------------------------
(***************************************************************************)
(* The blob pipeline of oci/from_oci.rs: fetch_blob_with_detection,        *)
(* retry_download_loop and run_blob_pipeline, with the two consumers they  *)
(* serve, stream_blob_to_file and stream_blob_to_tar_files.                *)
(*                                                                         *)
(*   registry -> buf (byte bounded) -> feeder task -> stdin pipe           *)
(*      -> decompressor process -> stdout pipe -> consumer -> out          *)
(*                                                                         *)
(* The blob is chunks 1 .. N, and chunk k decompresses to block k.  An OS  *)
(* pipe behaves as an Mpsc channel does: it ends when its writer closes    *)
(* and breaks when its reader does.                                        *)
(***************************************************************************)
EXTENDS DownloadBuffer

CONSTANTS
  Jobs,           (* what the pipeline is asked to do, and the world it    *)
                  (* does it in                                            *)
  MaxRetries,     (* options.max_retries                                   *)
  PipeCap         (* what an OS pipe holds, in chunks                      *)

ASSUME OciBlobAssumption ==
  /\ MaxRetries \in Nat /\ BufBytes \in Nat \ {0} /\ PipeCap \in Nat \ {0}
  /\ \A j \in Jobs :
       /\ j.length \in Nat \ {0} /\ j.detect \in Nat \ {0}
       /\ j.wanted \in 1 .. j.length /\ (~j.tar => j.wanted = j.length)
       /\ {j.tar, j.compressed, j.honoursRange, j.consumerMayFail,
           j.childMayFail} \subseteq BOOLEAN

VARIABLES
  job,        (* the member of Jobs at hand                                *)
  pc,         (* where the caller's task is                                *)
  result,     (* what run_blob_pipeline (or the fetch) returned            *)
  conn,       (* chunks this connection has delivered                      *)
  initial,    (* initial_chunks, not yet fed to the buffer                 *)
  chunk,      (* the argument of the send in progress                      *)
  received,   (* bytes_received                                            *)
  retries,    (* retry_count                                               *)
  download,   (* download_result: "none" yet, "ok" or "err"                *)
  fpc,        (* decompressor_writer_handle: "running", "ok", "err"        *)
  feeding,    (* the chunk it is writing to the child's stdin              *)
  stdin,      (* that pipe                                                 *)
  child,      (* the decompressor: "running", "exit0", "failed"            *)
  input,      (* chunks it has read and not yet decompressed               *)
  eaten,      (* how many it has read                                      *)
  stdout,     (* its output pipe                                           *)
  cpc,        (* writer_handle: "running", "ok", "err"                     *)
  out         (* blocks written to the output                              *)

(* Chunks of the blob.                                                     *)
N == job.length

(* Blocks after which the consumer has all it wants: N for a file, perhaps *)
(* fewer for the files of a tar.                                           *)
Wanted == job.wanted

(* Is the consumer stream_blob_to_tar_files (or stream_blob_to_file)?      *)
Tar == job.tar

(* Does the child decompress, or is it cat?  It may give up on its input.  *)
Compressed   == job.compressed
ChildMayFail == job.childMayFail

(* May creating or writing an output file fail?                            *)
ConsumerMayFail == job.consumerMayFail

(* Chunks that hold the first 6 bytes, more than N if there are not so many*)
DetectChunks == job.detect

(* Does the registry answer a Range request with 206?                      *)
HonoursRange == job.honoursRange

callerVars   == <<pc, result, conn, initial, chunk, received, retries, download>>
feederVars   == <<fpc, feeding>>
childVars    == <<child, input, eaten>>
consumerVars == <<cpc, out>>
bufferVars   == <<buf, permits>>
vars == <<job, callerVars, feederVars, childVars, consumerVars, bufferVars, stdin, stdout>>

FirstN(n) == [k \in 1 .. n |-> k]

Init ==
  /\ job \in Jobs
  /\ BufferInit
  /\ pc = "fetch" /\ result = "none" /\ conn = 0 /\ initial = <<>> /\ chunk = 0
  /\ received = 0 /\ retries = 0 /\ download = "none"
  /\ fpc = "running" /\ feeding = <<>> /\ stdin = NewChannel
  /\ child = "running" /\ input = <<>> /\ eaten = 0 /\ stdout = NewChannel
  /\ cpc = "running" /\ out = <<>>

PipelineIdle == UNCHANGED <<feederVars, childVars, consumerVars, stdin, stdout>>

-----------------------------------------------------------------------------
(* fetch_blob_with_detection.  The child is started when it has returned;  *)
(* until then the pipeline has nothing to do.                              *)

(* Mutant of FetchRetryOrGiveUp: one retry too many.                       *)
FetchRetryOnceMore ==
  IF retries <= MaxRetries
  THEN retries' = retries + 1 /\ pc' = "fetch" /\ UNCHANGED result
  ELSE pc' = "returned" /\ result' = "err" /\ UNCHANGED retries

FetchRetryOrGiveUp ==
  IF retries < MaxRetries
  THEN retries' = retries + 1 /\ pc' = "fetch" /\ UNCHANGED result
  ELSE pc' = "returned" /\ result' = "err" /\ UNCHANGED retries

(* Mutant of FetchOk: the chunks of the attempt before are kept.           *)
FetchOkKeepingChunks ==
  /\ pc = "fetch"
  /\ pc' = "detect" /\ conn' = 0
  /\ UNCHANGED <<result, initial, chunk, received, retries, download, bufferVars>>
  /\ PipelineIdle

(* get_blob_stream answers: a new stream, a new prefix, new chunks.        *)
FetchOk ==
  /\ pc = "fetch"
  /\ pc' = "detect" /\ conn' = 0 /\ initial' = <<>>
  /\ UNCHANGED <<result, chunk, received, retries, download, bufferVars>> /\ PipelineIdle

FetchRetryable ==
  /\ pc = "fetch"
  /\ FetchRetryOrGiveUp
  /\ UNCHANGED <<conn, initial, chunk, received, download, bufferVars>> /\ PipelineIdle

FetchFatal ==
  /\ pc = "fetch"
  /\ pc' = "returned" /\ result' = "err"
  /\ UNCHANGED <<conn, initial, chunk, received, retries, download, bufferVars>>
  /\ PipelineIdle

(* `while prefix.len() < 6`: one more chunk, and perhaps that is enough;   *)
(* retry_download_loop counts its retries from 0.                          *)
DetectChunk ==
  /\ pc = "detect" /\ conn < N
  /\ conn' = conn + 1 /\ initial' = Append(initial, conn + 1)
  /\ IF conn + 1 >= DetectChunks
     THEN pc' = "seed" /\ retries' = 0
     ELSE UNCHANGED <<pc, retries>>
  /\ UNCHANGED <<result, chunk, received, download, bufferVars>> /\ PipelineIdle

DetectEnds ==
  /\ pc = "detect" /\ conn = N
  /\ pc' = "seed" /\ retries' = 0
  /\ UNCHANGED <<result, conn, initial, chunk, received, download, bufferVars>>
  /\ PipelineIdle

DetectBreaks ==
  /\ pc = "detect"
  /\ FetchRetryOrGiveUp
  /\ UNCHANGED <<conn, initial, chunk, received, download, bufferVars>> /\ PipelineIdle

-----------------------------------------------------------------------------
(* retry_download_loop.  It returns to run_blob_pipeline, which drops      *)
(* buffer_tx and goes on to join! the consumer and the feeder.             *)

LoopReturns(how) == download' = how /\ pc' = "drain" /\ DropTx

(* The chunks of the detection are counted before they are sent.           *)
Seed ==
  /\ pc = "seed"
  /\ IF initial = <<>>
     THEN pc' = "stream" /\ UNCHANGED <<initial, chunk, received>>
     ELSE /\ pc' = "seed-acquire"
          /\ chunk' = Head(initial) /\ initial' = Tail(initial)
          /\ received' = received + 1
  /\ UNCHANGED <<result, conn, retries, download, bufferVars>> /\ PipelineIdle

(* The two halves of buffer_tx.send(chunk), in either of its places.       *)
Acquire ==
  /\ pc \in {"seed-acquire", "acquire"} /\ TakePermit
  /\ pc' = IF pc = "acquire" THEN "enqueue" ELSE "seed-enqueue"
  /\ UNCHANGED <<result, conn, initial, chunk, received, retries, download>>
  /\ PipelineIdle

Enqueue ==
  /\ pc \in {"seed-enqueue", "enqueue"} /\ QueueChunk(chunk)
  /\ IF pc = "enqueue"
     THEN pc' = "stream" /\ received' = received + 1 /\ retries' = 0
     ELSE pc' = "seed" /\ UNCHANGED <<received, retries>>
  /\ UNCHANGED <<result, conn, initial, chunk, download>> /\ PipelineIdle

(* "Consumer is done (e.g., tar found all target files).  Not an error."   *)
EnqueueRefused ==
  /\ pc \in {"seed-enqueue", "enqueue"} /\ SendFails(buf)
  /\ LoopReturns("ok")
  /\ UNCHANGED <<result, conn, initial, chunk, received, retries>> /\ PipelineIdle

StreamChunk ==
  /\ pc = "stream" /\ conn < N
  /\ conn' = conn + 1 /\ chunk' = conn + 1 /\ pc' = "acquire"
  /\ UNCHANGED <<result, initial, received, retries, download, bufferVars>>
  /\ PipelineIdle

StreamEnds ==
  /\ pc = "stream" /\ conn = N
  /\ LoopReturns("ok")
  /\ UNCHANGED <<result, conn, initial, chunk, received, retries>> /\ PipelineIdle

(* Mutant of StreamBreaks: the retry is not counted.                       *)
StreamBreaksUncounted ==
  /\ pc = "stream"
  /\ pc' = "resume"
  /\ UNCHANGED <<result, conn, initial, chunk, received, retries, download, bufferVars>>
  /\ PipelineIdle

(* An error or 30 s of silence, and handle_download_retry.                 *)
StreamBreaks ==
  /\ pc = "stream"
  /\ IF retries < MaxRetries
     THEN retries' = retries + 1 /\ pc' = "resume" /\ UNCHANGED <<download, bufferVars>>
     ELSE LoopReturns("err") /\ UNCHANGED retries
  /\ UNCHANGED <<result, conn, initial, chunk, received>> /\ PipelineIdle

(* Mutant of Resume: a 200 is taken for the rest of the blob.              *)
ResumeUnchecked ==
  /\ pc = "resume" /\ received < N
  /\ conn' = (IF HonoursRange THEN received ELSE 0) /\ pc' = "stream"
  /\ UNCHANGED <<result, initial, chunk, received, retries, download, bufferVars>>
  /\ PipelineIdle

(* The Range request: only a 206 will do; anything else ends the download, *)
(* as does an error of the request itself.                                 *)
Resume ==
  /\ pc = "resume" /\ HonoursRange /\ received < N
  /\ conn' = received /\ pc' = "stream"
  /\ UNCHANGED <<result, initial, chunk, received, retries, download, bufferVars>>
  /\ PipelineIdle

ResumeFails ==
  /\ pc = "resume"
  /\ LoopReturns("err")
  /\ UNCHANGED <<result, conn, initial, chunk, received, retries>> /\ PipelineIdle

-----------------------------------------------------------------------------
(* run_blob_pipeline after the download: join! of consumer and feeder,     *)
(* then the consumer's Ok overrides everything upstream.                   *)

(* Mutant of Joined: the feeder's broken pipe counts.                      *)
JoinedStrictly ==
  /\ pc = "drain" /\ cpc # "running" /\ fpc # "running"
  /\ IF cpc = "ok" /\ fpc = "ok"
     THEN pc' = "reap" /\ UNCHANGED result
     ELSE pc' = "returned" /\ result' = "err"
  /\ UNCHANGED <<conn, initial, chunk, received, retries, download, bufferVars>>
  /\ PipelineIdle

Joined ==
  /\ pc = "drain" /\ cpc # "running" /\ fpc # "running"
  /\ IF cpc = "ok"
     THEN pc' = "reap" /\ UNCHANGED result
     ELSE pc' = "returned" /\ result' = "err"
  /\ UNCHANGED <<conn, initial, chunk, received, retries, download, bufferVars>>
  /\ PipelineIdle

(* `let _ = decompressor.wait().await` and Ok.                             *)
Reap ==
  /\ pc = "reap" /\ child # "running"
  /\ pc' = "returned" /\ result' = "ok"
  /\ UNCHANGED <<conn, initial, chunk, received, retries, download, bufferVars>>
  /\ PipelineIdle

CallerNext ==
  \/ FetchOk \/ FetchRetryable \/ FetchFatal \/ DetectChunk \/ DetectEnds
  \/ DetectBreaks
  \/ Seed \/ Acquire \/ Enqueue \/ EnqueueRefused
  \/ StreamChunk \/ StreamEnds \/ StreamBreaks \/ Resume \/ ResumeFails
  \/ Joined \/ Reap

-----------------------------------------------------------------------------
(* The feeder task: chunks from the buffer to the child's stdin.           *)

FeedNext ==
  /\ fpc = "running" /\ feeding = <<>> /\ ChunkReady
  /\ feeding' = <<NextChunk>> /\ TakeChunk
  /\ UNCHANGED <<callerVars, fpc, childVars, consumerVars, stdin, stdout>>

FeedWrite ==
  /\ fpc = "running" /\ feeding # <<>> /\ CanSend(stdin, PipeCap)
  /\ stdin' = Sent(stdin, Head(feeding)) /\ feeding' = <<>>
  /\ UNCHANGED <<callerVars, bufferVars, fpc, childVars, consumerVars, stdout>>

(* Its return drops the buffer's receiver and closes stdin: an error when  *)
(* the child no longer reads, Ok when the buffer has ended.                *)
FeedEnds ==
  /\ fpc = "running"
  /\ \/ feeding # <<>> /\ SendFails(stdin) /\ fpc' = "err"
     \/ feeding = <<>> /\ NoMore /\ fpc' = "ok"
  /\ stdin' = TxDropped(stdin) /\ DropRx
  /\ UNCHANGED <<callerVars, feeding, childVars, consumerVars, stdout>>

-----------------------------------------------------------------------------
(* The decompressor, a process of its own (xzcat, zcat, cat).              *)

ChildOnly == UNCHANGED <<callerVars, bufferVars, feederVars, consumerVars>>

ChildReads ==
  /\ child = "running" /\ CanRecv(stdin)
  /\ Compressed \/ input = <<>>
  /\ input' = Append(input, Head(stdin.q)) /\ eaten' = eaten + 1
  /\ stdin' = Received(stdin)
  /\ UNCHANGED <<child, stdout>> /\ ChildOnly

ChildWrites ==
  /\ child = "running" /\ input # <<>> /\ CanSend(stdout, PipeCap)
  /\ stdout' = Sent(stdout, Head(input)) /\ input' = Tail(input)
  /\ UNCHANGED <<child, eaten, stdin>> /\ ChildOnly

(* End of input: a decompressor that has not seen the whole stream exits   *)
(* with an error.  A broken stdout (SIGPIPE) is one too.                   *)
ChildExits ==
  /\ child = "running"
  /\ \/ input = <<>> /\ AtEof(stdin)
        /\ child' = IF Compressed /\ eaten < N THEN "failed" ELSE "exit0"
     \/ input # <<>> /\ SendFails(stdout) /\ child' = "failed"
     \/ ChildMayFail /\ input # <<>> /\ child' = "failed"
  /\ stdin' = RxDropped(stdin) /\ stdout' = TxDropped(stdout)
  /\ UNCHANGED <<input, eaten>> /\ ChildOnly

-----------------------------------------------------------------------------
(* The consumer of the child's stdout: it writes what it reads, and a tar  *)
(* extraction stops, closing the pipe, when it has all its files.          *)

ConsumerOnly == UNCHANGED <<callerVars, bufferVars, feederVars, childVars, stdin>>

ConsumerReturns(how) == cpc' = how /\ stdout' = RxDropped(stdout)

Consume ==
  /\ cpc = "running" /\ CanRecv(stdout)
  /\ out' = Append(out, Head(stdout.q))
  /\ IF Tar /\ Len(out') = Wanted
     THEN ConsumerReturns("ok")
     ELSE stdout' = Received(stdout) /\ UNCHANGED cpc
  /\ ConsumerOnly

(* Mutant of ConsumeFails: a failed write ends the output quietly.         *)
ConsumeFailsQuietly ==
  /\ ConsumerMayFail
  /\ cpc = "running" /\ CanRecv(stdout)
  /\ ConsumerReturns("ok")
  /\ UNCHANGED out /\ ConsumerOnly

ConsumeFails ==
  /\ ConsumerMayFail
  /\ cpc = "running" /\ CanRecv(stdout)
  /\ ConsumerReturns("err")
  /\ UNCHANGED out /\ ConsumerOnly

(* End of output: for a file the end of the work; for a tar an error, but  *)
(* not if it comes inside the last file wanted, which is then taken to end *)
(* here.                                                                   *)
ConsumerEof ==
  /\ cpc = "running" /\ AtEof(stdout)
  /\ ConsumerReturns("ok") \/ (Tar /\ ConsumerReturns("err"))
  /\ UNCHANGED out /\ ConsumerOnly

FeederNext   == FeedNext \/ FeedWrite \/ FeedEnds
ChildNext    == ChildReads \/ ChildWrites \/ ChildExits
ConsumerNext == Consume \/ ConsumeFails \/ ConsumerEof

Next ==
  /\ CallerNext \/ FeederNext \/ ChildNext \/ ConsumerNext
  /\ UNCHANGED job

Spec == Init /\ [][Next]_vars

(* Tasks, threads and processes of their own; every wait for the network   *)
(* ends, by the 30 s timeout or by the client's own.                       *)
Fairness ==
  /\ WF_vars(CallerNext /\ UNCHANGED job)
  /\ WF_vars(FeederNext /\ UNCHANGED job)
  /\ WF_vars(ChildNext /\ UNCHANGED job)
  /\ WF_vars(ConsumerNext /\ UNCHANGED job)

FairSpec == Spec /\ Fairness

-----------------------------------------------------------------------------
(* Properties.                                                             *)

Chunks == 1 .. N

TypeOK ==
  /\ job \in Jobs
  /\ pc \in {"fetch", "detect", "seed", "seed-acquire", "seed-enqueue", "stream",
             "acquire", "enqueue", "resume", "drain", "reap", "returned"}
  /\ result \in {"none", "ok", "err"} /\ download \in {"none", "ok", "err"}
  /\ conn \in 0 .. N /\ received \in 0 .. N /\ retries \in 0 .. MaxRetries
  /\ initial \in Seq(Chunks) /\ chunk \in 0 .. N
  /\ buf \in Channels(Chunks) /\ permits \in 0 .. BufBytes
  /\ fpc \in {"running", "ok", "err"} /\ feeding \in Seq(Chunks)
  /\ stdin \in Channels(Chunks) /\ stdout \in Channels(Chunks)
  /\ child \in {"running", "exit0", "failed"} /\ input \in Seq(Chunks)
  /\ eaten \in 0 .. N
  /\ cpc \in {"running", "ok", "err"} /\ out \in Seq(Chunks)

(* Chunks the buffer has taken: bytes_received, but for the chunk of the   *)
(* detection that is counted and not yet sent (from_oci.rs 223-224).       *)
Accepted == IF pc \in {"seed-acquire", "seed-enqueue"} THEN received - 1 ELSE received

(* Across the hand-over from detection to download and every resume, the   *)
(* pipeline holds the blob up to what was received: nothing is skipped,    *)
(* fed twice or reordered (from_oci.rs 222-309, 335-342).                  *)
NothingLost ==
  buf.rx /\ stdin.rx /\ stdout.rx
    => out \o stdout.q \o input \o stdin.q \o feeding \o buf.q = FirstN(Accepted)

(* What is on disk is the front of the blob, also after a failure.         *)
OutputIsPrefix == out = FirstN(Len(out)) /\ Len(out) <= Wanted

(* The consumer's Ok overrides the others' errors (from_oci.rs 352-358).   *)
(* It is right to do so if the child ended well, and with cat, which       *)
(* cannot tell a short stream from a whole one, the download did too.      *)
OkNeedsAnHonestUpstream ==
  result = "ok" /\ child = "exit0" /\ (Compressed \/ download = "ok")
    => Len(out) = Wanted

(* A consumer that has all it wants makes the pipeline succeed, whatever   *)
(* its leaving did to those upstream ("teardown errors (broken pipe,       *)
(* SIGPIPE) are expected", from_oci.rs 352-354).                           *)
TeardownIsNotAnError == cpc = "ok" => result # "err"

Stuck == pc \in {"acquire", "seed-acquire"} /\ NeverAcquires

(* The pipeline returns, whoever fails and however often the connection    *)
(* breaks, unless the download waits for permits nobody gives back.        *)
PipelineReturns == <>(result # "none" \/ Stuck)

(* "handles buffer setup, download with retry/resume, pipeline drain, and  *)
(* decompressor exit status check" (from_oci.rs 312-313): Ok is answered   *)
(* for all of what was asked for.                                          *)
OkMeansComplete == result = "ok" => Len(out) = Wanted
=============================================================================
