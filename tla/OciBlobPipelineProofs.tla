-------------------------- MODULE OciBlobPipelineProofs --------------------------
(***************************************************************************)
(* Theorems about OciBlobPipeline, for every job, retry limit, budget of   *)
(* the download buffer and capacity of the pipes.                          *)
(***************************************************************************)
EXTENDS OciBlobPipeline, MpscProofs

(* Where, in the blob, the content of each queue begins.  What the child   *)
(* has read is counted, because it may be lost behind a consumer that left.*)
AtStdout  == Len(out)
AtInput   == AtStdout + Len(stdout.q)
AtFeeding == eaten + Len(stdin.q)
AtBuf     == AtFeeding + Len(feeding)

-----------------------------------------------------------------------------
(* The inductive invariant.                                                *)

(* Who holds which end of which channel.                                   *)
EndsHeld ==
  /\ buf.tx <=> download = "none"
  /\ (buf.rx <=> fpc = "running") /\ (stdin.tx <=> fpc = "running")
  /\ (stdin.rx <=> child = "running") /\ (stdout.tx <=> child = "running")
  /\ stdout.rx <=> cpc = "running"
  /\ ~buf.rx => buf.q = <<>>
  /\ ~stdin.rx => stdin.q = <<>>
  /\ ~stdout.rx => stdout.q = <<>>

(* No download has begun, and none will if the fetch gave up.              *)
Idle == pc \in {"fetch", "detect"} \/ (pc = "returned" /\ download = "none")

(* The connection, counted in chunks, and the chunks of the detection.     *)
Counted ==
  /\ pc \in {"seed", "seed-acquire", "seed-enqueue", "stream", "acquire", "enqueue", "resume"}
       => download = "none"
  /\ pc \in {"fetch", "detect"} => download = "none"
  /\ Idle => received = 0 /\ fpc = "running" /\ child = "running" /\ cpc = "running"
  /\ pc = "detect" => Run(initial, 0) /\ Len(initial) = conn
  /\ pc \in {"seed", "seed-acquire", "seed-enqueue"} =>
       Run(initial, received) /\ received + Len(initial) = conn
  /\ pc \in {"seed-acquire", "seed-enqueue"} => chunk = received /\ received >= 1
  /\ pc \in {"stream", "resume"} => conn = received
  /\ pc \in {"acquire", "enqueue"} => conn = received + 1 /\ chunk = conn

(* Every chunk in the buffer holds a permit.                               *)
BufferPaidFor == PaidFor(pc \in {"seed-enqueue", "enqueue"})

(* What each verdict says of the parties before it.                        *)
Verdicts ==
  /\ pc = "returned" <=> result # "none"
  /\ pc \in {"drain", "reap"} => download # "none"
  /\ fpc = "ok" => download # "none" /\ feeding = <<>>
  /\ fpc = "err" => child = "failed"
  /\ download = "ok" => received = N \/ fpc = "err"
  /\ child = "exit0" =>
       /\ fpc = "ok" /\ eaten = received /\ input = <<>>
       /\ Compressed => eaten = N
  /\ cpc = "ok" =>
       Len(out) = Wanted \/ child = "failed" \/ (child = "exit0" /\ Len(out) = eaten)
  /\ pc = "reap" \/ result = "ok" => cpc = "ok"
  /\ result = "ok" => child # "running"
  /\ result = "err" => cpc = "err" \/ download = "none"

(* The output, and what the consumer and the child still hold of the blob. *)
DownstreamInOrder ==
  /\ Run(out, 0) /\ Len(out) <= Wanted
  /\ Tar /\ cpc = "running" => Len(out) < Wanted
  /\ stdout.rx =>
       Run(stdout.q, AtStdout) /\ Run(input, AtInput) /\ AtInput + Len(input) = eaten

(* What is on its way to the child: the front of the blob, up to what the  *)
(* buffer has accepted.                                                    *)
UpstreamInOrder ==
  /\ Len(feeding) <= 1
  /\ stdin.rx => Run(stdin.q, eaten) /\ Run(feeding, AtFeeding) /\ AtBuf <= N
  /\ stdin.rx /\ buf.rx => Run(buf.q, AtBuf) /\ AtBuf + Len(buf.q) = Accepted
  /\ stdin.rx /\ fpc = "ok" => AtFeeding = received

BlobInv ==
  /\ TypeOK /\ BufferPaidFor /\ EndsHeld /\ Counted /\ Verdicts
  /\ DownstreamInOrder /\ UpstreamInOrder

-----------------------------------------------------------------------------
(* What is known of the job, of the types, and of a pipeline that idles.   *)

LEMMA JobFacts ==
  ASSUME job \in Jobs
  PROVE  /\ N \in Nat \ {0} /\ Wanted \in 1 .. N /\ (~Tar => Wanted = N)
         /\ DetectChunks \in Nat \ {0} /\ Tar \in BOOLEAN /\ Compressed \in BOOLEAN
         /\ MaxRetries \in Nat /\ BufBytes \in Nat \ {0} /\ PipeCap \in Nat \ {0}
BY OciBlobAssumption DEF N, Wanted, Tar, Compressed, DetectChunks

LEMMA SameJob ==
  ASSUME UNCHANGED job
  PROVE  /\ N' = N /\ Wanted' = Wanted /\ Chunks' = Chunks
         /\ (Tar' <=> Tar) /\ (Compressed' <=> Compressed)
BY DEF N, Wanted, Chunks, Tar, Compressed

LEMMA QueueTypes ==
  ASSUME TypeOK
  PROVE  /\ buf \in Channels(Chunks) /\ buf.q \in Seq(Chunks)
         /\ stdin \in Channels(Chunks) /\ stdin.q \in Seq(Chunks)
         /\ stdout \in Channels(Chunks) /\ stdout.q \in Seq(Chunks)
<1>1. buf \in Channels(Chunks) /\ stdin \in Channels(Chunks) /\ stdout \in Channels(Chunks)
  BY DEF TypeOK
<1> QED BY <1>1, ChannelFields

LEMMA SeqTypes ==
  ASSUME TypeOK
  PROVE  /\ initial \in Seq(Chunks) /\ feeding \in Seq(Chunks) /\ input \in Seq(Chunks)
         /\ out \in Seq(Chunks)
BY DEF TypeOK

(* The numbers.                                                            *)
LEMMA Numbers ==
  ASSUME TypeOK
  PROVE  /\ N \in Nat \ {0} /\ Wanted \in Nat \ {0} /\ Wanted <= N /\ MaxRetries \in Nat
         /\ BufBytes \in Nat \ {0} /\ DetectChunks \in Nat \ {0}
         /\ conn \in Nat /\ conn <= N /\ received \in Nat /\ received <= N
         /\ retries \in Nat /\ retries <= MaxRetries /\ eaten \in Nat /\ eaten <= N
         /\ permits \in Nat /\ permits <= BufBytes
<1>1. /\ conn \in 0 .. N /\ received \in 0 .. N /\ retries \in 0 .. MaxRetries
      /\ permits \in 0 .. BufBytes /\ eaten \in 0 .. N /\ job \in Jobs
  BY DEF TypeOK
<1>2. /\ N \in Nat \ {0} /\ Wanted \in 1 .. N /\ DetectChunks \in Nat \ {0}
      /\ MaxRetries \in Nat /\ BufBytes \in Nat \ {0}
  BY <1>1, JobFacts
<1> QED BY <1>1, <1>2

LEMMA Lengths ==
  ASSUME TypeOK
  PROVE  /\ Len(initial) \in Nat /\ Len(feeding) \in Nat /\ Len(input) \in Nat
         /\ Len(out) \in Nat /\ Len(buf.q) \in Nat /\ Len(stdin.q) \in Nat
         /\ Len(stdout.q) \in Nat
BY QueueTypes, SeqTypes, LenProperties

LEMMA Positions ==
  ASSUME TypeOK
  PROVE  AtStdout \in Nat /\ AtInput \in Nat /\ AtFeeding \in Nat /\ AtBuf \in Nat
<1>1. /\ Len(out) \in Nat /\ Len(stdout.q) \in Nat /\ eaten \in Nat /\ Len(stdin.q) \in Nat
      /\ Len(feeding) \in Nat
  BY Numbers, Lengths
<1>2. AtStdout \in Nat
  BY <1>1 DEF AtStdout
<1>3. AtInput \in Nat
  BY <1>1, <1>2 DEF AtInput
<1>4. AtFeeding \in Nat
  BY <1>1 DEF AtFeeding
<1>5. AtBuf \in Nat
  BY <1>1, <1>4 DEF AtBuf
<1> QED BY <1>2, <1>3, <1>4, <1>5

(* What adds up to nothing is nothing.                                     *)
LEMMA NothingInSum ==
  ASSUME NEW a \in Nat, NEW b \in Nat, NEW c \in Nat, NEW d \in Nat, a + b + c + d = 0
  PROVE  a = 0 /\ b = 0 /\ c = 0 /\ d = 0
OBVIOUS

(* Until the download begins, nothing is in the pipeline, and nobody has   *)
(* left it.                                                                *)
LEMMA IdlePipeline ==
  ASSUME BlobInv, Idle
  PROVE  /\ buf.tx /\ buf.rx /\ stdin.tx /\ stdin.rx /\ stdout.tx /\ stdout.rx
         /\ buf.q = <<>> /\ feeding = <<>> /\ stdin.q = <<>> /\ input = <<>> /\ stdout.q = <<>>
<1>1. /\ received = 0 /\ fpc = "running" /\ child = "running" /\ cpc = "running"
      /\ download = "none"
  BY DEF BlobInv, Counted, Idle
<1>2. buf.tx /\ buf.rx /\ stdin.tx /\ stdin.rx /\ stdout.tx /\ stdout.rx
  BY <1>1 DEF BlobInv, EndsHeld
<1>3. Accepted = 0
  BY <1>1 DEF Accepted, Idle
<1>4. AtBuf + Len(buf.q) = 0 /\ AtInput + Len(input) = eaten
  BY <1>2, <1>3 DEF BlobInv, UpstreamInOrder, DownstreamInOrder
<1>5. TypeOK
  BY DEF BlobInv
<1>6. eaten = 0 /\ Len(stdin.q) = 0 /\ Len(feeding) = 0 /\ Len(buf.q) = 0
  <2>1. eaten + Len(stdin.q) + Len(feeding) + Len(buf.q) = 0
    BY <1>4 DEF AtBuf, AtFeeding
  <2>2. eaten \in Nat /\ Len(stdin.q) \in Nat /\ Len(feeding) \in Nat /\ Len(buf.q) \in Nat
    BY <1>5, Numbers, Lengths
  <2> QED BY <2>1, <2>2, NothingInSum
<1>7. Len(stdout.q) = 0 /\ Len(input) = 0
  <2>1. 0 + Len(out) + Len(stdout.q) + Len(input) = 0
    <3>1. Len(out) + Len(stdout.q) + Len(input) = 0 /\ Len(out) \in Nat
      BY <1>4, <1>5, <1>6, Lengths DEF AtInput, AtStdout
    <3> QED BY <3>1
  <2>2. Len(out) \in Nat /\ Len(stdout.q) \in Nat /\ Len(input) \in Nat
    BY <1>5, Lengths
  <2> QED BY <2>1, <2>2, NothingInSum
<1> QED BY <1>2, <1>5, <1>6, <1>7, QueueTypes, SeqTypes, EmptySeq

-----------------------------------------------------------------------------
(* Steps of the caller.  They touch the pipeline at the tail of the buffer *)
(* only.                                                                   *)

LEMMA DownstreamSame ==
  ASSUME DownstreamInOrder, UNCHANGED <<job, cpc, out, stdout, input, eaten>>
  PROVE  DownstreamInOrder'
BY SameJob DEF DownstreamInOrder, AtStdout, AtInput

LEMMA UpstreamSame ==
  ASSUME UpstreamInOrder, UNCHANGED <<job, feeding, stdin, eaten, fpc>>,
         buf'.q = buf.q, buf'.rx <=> buf.rx, buf.rx => Accepted' = Accepted,
         fpc = "ok" => received' = received
  PROVE  UpstreamInOrder'
BY SameJob DEF UpstreamInOrder, AtFeeding, AtBuf

(* The caller's own part of the invariant, where the buffer keeps its      *)
(* chunks: the rest follows.                                               *)
LEMMA CallerKeeps ==
  ASSUME BlobInv, PipelineIdle, UNCHANGED job,
         buf' \in Channels(Chunks), buf'.q = buf.q, buf'.rx <=> buf.rx,
         buf'.tx <=> download' = "none", permits' \in 0 .. BufBytes,
         buf.rx => Accepted' = Accepted, fpc = "ok" => received' = received,
         pc' \in {"fetch", "detect", "seed", "seed-acquire", "seed-enqueue", "stream",
                  "acquire", "enqueue", "resume", "drain", "reap", "returned"},
         result' \in {"none", "ok", "err"}, download' \in {"none", "ok", "err"},
         conn' \in 0 .. N, received' \in 0 .. N, retries' \in 0 .. MaxRetries,
         initial' \in Seq(Chunks), chunk' \in 0 .. N,
         BufferPaidFor', Counted', Verdicts'
  PROVE  BlobInv'
<1>1. UNCHANGED <<fpc, feeding, child, input, eaten, cpc, out, stdin, stdout>>
  BY DEF PipelineIdle, feederVars, childVars, consumerVars
<1>2. TypeOK'
  BY <1>1, SameJob DEF BlobInv, TypeOK
<1>3. EndsHeld'
  BY <1>1 DEF BlobInv, EndsHeld
<1>4. DownstreamInOrder' /\ UpstreamInOrder'
  BY <1>1, DownstreamSame, UpstreamSame DEF BlobInv
<1> QED BY <1>2, <1>3, <1>4 DEF BlobInv


LEMMA NoBufferYet ==
  ASSUME TypeOK, UNCHANGED bufferVars
  PROVE  /\ buf' \in Channels(Chunks) /\ buf'.q = buf.q /\ (buf'.rx <=> buf.rx)
         /\ (buf'.tx <=> buf.tx) /\ permits' \in 0 .. BufBytes
BY DEF TypeOK, bufferVars

(* One step of the fetch, which the whole pipeline waits for.              *)
LEMMA FetchKeeps ==
  ASSUME BlobInv, PipelineIdle, UNCHANGED <<job, chunk, received, download, bufferVars>>,
         pc \in {"fetch", "detect"},
         retries' \in 0 .. MaxRetries, conn' \in 0 .. N, initial' \in Seq(Chunks),
         \/ pc' = "fetch" /\ UNCHANGED result
         \/ pc' = "returned" /\ result' = "err"
         \/ pc' \in {"detect", "seed"} /\ UNCHANGED result /\ Run(initial', 0) /\ Len(initial') = conn'
  PROVE  BlobInv'
<1>1. Idle
  BY DEF Idle
<1>2. TypeOK
  BY DEF BlobInv
<1>3. /\ received = 0 /\ fpc = "running" /\ child = "running" /\ cpc = "running"
      /\ download = "none"
  BY <1>1 DEF BlobInv, Counted, Idle
<1>4. UNCHANGED <<fpc, feeding, child, input, eaten, cpc, out, stdin, stdout, buf, permits>>
  BY DEF PipelineIdle, feederVars, childVars, consumerVars, bufferVars
<1>5. result = "none"
  BY DEF BlobInv, Verdicts, TypeOK
<1>6. chunk \in 0 .. N /\ received \in 0 .. N
  BY <1>2 DEF TypeOK
<1>7. BufferPaidFor'
  BY <1>4 DEF BlobInv, BufferPaidFor, PaidFor
<1>8. Counted'
  BY <1>3, <1>4 DEF Counted, Idle
<1>9. Verdicts'
  BY <1>3, <1>4, <1>5, SameJob DEF BlobInv, Verdicts
<1>10. Accepted' = Accepted
  BY <1>3 DEF Accepted
<1>11. buf'.tx <=> download' = "none"
  BY <1>3, <1>4 DEF BlobInv, EndsHeld
<1> QED BY <1>2, <1>3, <1>5, <1>6, <1>7, <1>8, <1>9, <1>10, <1>11, NoBufferYet, CallerKeeps

(* get_blob_stream and the detection, retried or given up.                 *)
LEMMA FetchStepKeeps ==
  ASSUME BlobInv, UNCHANGED job,
         FetchOk \/ FetchRetryable \/ FetchFatal \/ DetectChunk \/ DetectEnds \/ DetectBreaks
  PROVE  BlobInv'
<1>1. TypeOK
  BY DEF BlobInv
<1>2. /\ N \in Nat \ {0} /\ conn \in 0 .. N /\ MaxRetries \in Nat /\ retries \in 0 .. MaxRetries
      /\ initial \in Seq(Chunks) /\ 0 \in 0 .. N /\ 0 \in 0 .. MaxRetries
  BY <1>1, Numbers DEF TypeOK
<1>3. pc = "detect" => Run(initial, 0) /\ Len(initial) = conn
  BY DEF BlobInv, Counted
<1>4. CASE FetchOk
  <2>1. <<>> \in Seq(Chunks) /\ Len(<<>>) = 0
    OBVIOUS
  <2> QED BY <1>2, <1>4, <2>1, EmptyRun, FetchKeeps DEF FetchOk
<1>5. CASE FetchRetryable \/ DetectBreaks
  <2>1. retries' \in 0 .. MaxRetries
    BY <1>2, <1>5 DEF FetchRetryable, DetectBreaks, FetchRetryOrGiveUp
  <2> QED BY <1>2, <1>5, <2>1, FetchKeeps DEF FetchRetryable, DetectBreaks, FetchRetryOrGiveUp
<1>6. CASE FetchFatal
  BY <1>2, <1>6, FetchKeeps DEF FetchFatal
<1>7. CASE DetectChunk
  <2>1. conn + 1 \in Chunks /\ conn' = conn + 1 /\ initial' = Append(initial, conn + 1)
    BY <1>2, <1>7 DEF DetectChunk, Chunks
  <2>2. conn' \in 0 .. N
    BY <1>2, <1>7, <2>1 DEF DetectChunk
  <2>3. Run(initial', 0) /\ Len(initial') = conn' /\ initial' \in Seq(Chunks)
    <3>1. Run(initial, 0) /\ Len(initial) = conn /\ conn + 1 = 0 + Len(initial) + 1
      BY <1>2, <1>3, <1>7 DEF DetectChunk
    <3> QED BY <1>2, <2>1, <3>1, RunAppend
  <2>4. pc' \in {"detect", "seed"} /\ retries' \in 0 .. MaxRetries
    BY <1>2, <1>7 DEF DetectChunk
  <2> QED BY <1>7, <2>2, <2>3, <2>4, FetchKeeps DEF DetectChunk
<1>8. CASE DetectEnds
  BY <1>2, <1>3, <1>8, FetchKeeps DEF DetectEnds
<1> QED BY <1>4, <1>5, <1>6, <1>7, <1>8

(* The places of retry_download_loop.                                      *)
InLoop == pc \in {"seed", "seed-acquire", "seed-enqueue", "stream", "acquire", "enqueue", "resume"}

LEMMA LoopFacts ==
  ASSUME BlobInv, InLoop
  PROVE  /\ download = "none" /\ result = "none" /\ buf.tx
         /\ fpc # "ok" /\ child # "exit0"
<1>1. download = "none"
  BY DEF BlobInv, Counted, InLoop
<1> QED BY <1>1 DEF BlobInv, Verdicts, EndsHeld, InLoop, TypeOK

(* A step within the loop that leaves the buffer's chunks alone.           *)
LEMMA LoopKeeps ==
  ASSUME BlobInv, InLoop, InLoop', PipelineIdle, UNCHANGED <<job, result, download, buf>>,
         permits' \in 0 .. BufBytes, buf.rx => Accepted' = Accepted,
         conn' \in 0 .. N, received' \in 0 .. N, retries' \in 0 .. MaxRetries,
         initial' \in Seq(Chunks), chunk' \in 0 .. N,
         BufferPaidFor', Counted'
  PROVE  BlobInv'
<1>1. UNCHANGED <<fpc, feeding, child, input, eaten, cpc, out, stdin, stdout>>
  BY DEF PipelineIdle, feederVars, childVars, consumerVars
<1>2. /\ download = "none" /\ result = "none" /\ buf.tx /\ fpc # "ok" /\ child # "exit0"
  BY LoopFacts
<1>3. Verdicts'
  BY <1>1, <1>2, SameJob DEF BlobInv, Verdicts, InLoop
<1>4. buf' \in Channels(Chunks) /\ buf'.q = buf.q /\ (buf'.rx <=> buf.rx)
  BY DEF BlobInv, TypeOK
<1>5. buf'.tx <=> download' = "none"
  BY <1>2
<1> QED BY <1>2, <1>3, <1>4, <1>5, CallerKeeps DEF InLoop

(* The loop returns, and buffer_tx goes.                                   *)
LEMMA LoopReturnsKeeps ==
  ASSUME BlobInv, InLoop, PipelineIdle, NEW how \in {"ok", "err"}, LoopReturns(how),
         UNCHANGED <<job, result, conn, initial, chunk, received>>,
         retries' \in 0 .. MaxRetries,
         how = "ok" => received = N \/ fpc = "err",
         buf.rx => pc \in {"stream", "resume"}
  PROVE  BlobInv'
<1>1. UNCHANGED <<fpc, feeding, child, input, eaten, cpc, out, stdin, stdout>>
  BY DEF PipelineIdle, feederVars, childVars, consumerVars
<1>2. /\ download = "none" /\ result = "none" /\ fpc # "ok" /\ child # "exit0"
  BY LoopFacts
<1>3. buf \in Channels(Chunks)
  BY DEF BlobInv, TypeOK
<1>4. /\ buf' \in Channels(Chunks) /\ buf'.q = buf.q /\ (buf'.rx <=> buf.rx) /\ ~buf'.tx
      /\ permits' = permits
  BY <1>3, TxDroppedFacts DEF LoopReturns, DropTx
<1>5. pc' = "drain" /\ download' = how
  BY DEF LoopReturns
<1>6. BufferPaidFor'
  BY <1>4, <1>5 DEF BlobInv, BufferPaidFor, PaidFor
<1>7. Counted'
  BY <1>1, <1>5 DEF BlobInv, Counted, Idle
<1>8. Verdicts'
  BY <1>1, <1>2, <1>5, SameJob DEF BlobInv, Verdicts
<1>9. buf.rx => Accepted' = Accepted
  BY <1>5 DEF Accepted
<1>10. /\ conn' \in 0 .. N /\ received' \in 0 .. N /\ initial' \in Seq(Chunks)
       /\ chunk' \in 0 .. N
       /\ permits' \in 0 .. BufBytes
  BY <1>4 DEF BlobInv, TypeOK
<1> QED BY <1>2, <1>4, <1>5, <1>6, <1>7, <1>8, <1>9, <1>10, CallerKeeps

LEMMA LoopTypes ==
  ASSUME BlobInv
  PROVE  /\ conn \in 0 .. N /\ received \in 0 .. N /\ retries \in 0 .. MaxRetries
         /\ initial \in Seq(Chunks) /\ chunk \in 0 .. N /\ permits \in 0 .. BufBytes
         /\ N \in Nat \ {0} /\ MaxRetries \in Nat /\ 0 \in 0 .. MaxRetries
         /\ BufBytes \in Nat \ {0}
<1>1. TypeOK
  BY DEF BlobInv
<1> QED BY <1>1, Numbers DEF TypeOK

LEMMA SeedKeeps ==
  ASSUME BlobInv, Seed, UNCHANGED job
  PROVE  BlobInv'
<1>1. InLoop /\ UNCHANGED <<result, download, buf, permits, conn, retries>> /\ PipelineIdle
  BY DEF Seed, InLoop, bufferVars
<1>2. Run(initial, received) /\ received + Len(initial) = conn
  BY DEF BlobInv, Counted, Seed
<1>3. CASE initial = <<>>
  <2>1. pc' = "stream" /\ UNCHANGED <<initial, chunk, received>>
    BY <1>3 DEF Seed
  <2>2. conn = received
    BY <1>2, <1>3, LoopTypes
  <2>3. Counted'
    BY <1>1, <2>1, <2>2, LoopFacts DEF Counted, Idle
  <2>4. BufferPaidFor'
    BY <1>1, <2>1 DEF BlobInv, BufferPaidFor, PaidFor, Seed
  <2>5. Accepted' = Accepted
    BY <2>1 DEF Accepted, Seed
  <2>6. InLoop'
    BY <2>1 DEF InLoop
  <2> QED BY <1>1, <2>1, <2>3, <2>4, <2>5, <2>6, LoopTypes, LoopKeeps
<1>4. CASE initial # <<>>
  <2>1. /\ pc' = "seed-acquire" /\ chunk' = Head(initial) /\ initial' = Tail(initial)
        /\ received' = received + 1
    BY <1>4 DEF Seed
  <2>2. /\ Head(initial) = received + 1 /\ Run(Tail(initial), received + 1)
        /\ Tail(initial) \in Seq(Chunks) /\ Len(Tail(initial)) = Len(initial) - 1
        /\ Len(initial) \in Nat \ {0}
    <3>1. received \in Nat
      BY LoopTypes
    <3> QED BY <1>2, <1>4, <3>1, LoopTypes, RunTail
  <2>3. received + 1 \in 0 .. N /\ received' + Len(initial') = conn
    <3> DEFINE before == Len(initial)
               after == Len(initial')
    <3>1. after = before - 1 /\ before \in Nat \ {0} /\ received + before = conn
      BY <1>2, <2>1, <2>2
    <3> HIDE DEF before, after
    <3>2. received \in Nat /\ conn \in Nat /\ conn <= N /\ N \in Nat /\ received' = received + 1
      BY <2>1, LoopTypes
    <3>3. received + 1 \in 0 .. N /\ received' + after = conn
      BY <3>1, <3>2
    <3> QED BY <3>3 DEF after
  <2>4. chunk' = received' /\ received' >= 1
    BY <2>1, <2>2, LoopTypes
  <2>5. Counted'
    BY <1>1, <2>1, <2>2, <2>3, <2>4, LoopFacts DEF Counted, Idle
  <2>6. BufferPaidFor'
    BY <1>1, <2>1 DEF BlobInv, BufferPaidFor, PaidFor, Seed
  <2>7. Accepted' = Accepted
    BY <2>1, LoopTypes DEF Accepted, Seed
  <2>8. InLoop'
    BY <2>1 DEF InLoop
  <2>9. chunk' \in 0 .. N /\ received' \in 0 .. N /\ initial' \in Seq(Chunks)
    BY <2>1, <2>2, <2>3
  <2> QED BY <1>1, <2>5, <2>6, <2>7, <2>8, <2>9, LoopTypes, LoopKeeps
<1> QED BY <1>3, <1>4

LEMMA AcquireKeeps ==
  ASSUME BlobInv, Acquire, UNCHANGED job
  PROVE  BlobInv'
<1>1. /\ InLoop /\ InLoop' /\ PipelineIdle
      /\ UNCHANGED <<result, conn, initial, chunk, received, retries, download, buf>>
  BY DEF Acquire, InLoop, TakePermit
<1>2. /\ permits > 0 /\ permits' = permits - 1
      /\ pc = "acquire" => pc' = "enqueue"
      /\ pc # "acquire" => pc = "seed-acquire" /\ pc' = "seed-enqueue"
  BY DEF Acquire, TakePermit
<1>3. permits' \in 0 .. BufBytes
  BY <1>2, LoopTypes
<1>4. BufferPaidFor'
  <2> SUFFICES ASSUME buf.rx
               PROVE  permits' + Len(buf.q) + 1 = BufBytes
    BY <1>1, <1>2 DEF BufferPaidFor, PaidFor
  <2> DEFINE queued == Len(buf.q)
  <2>1. permits + queued + 0 = BufBytes
    BY <1>2 DEF BlobInv, BufferPaidFor, PaidFor
  <2>2. queued \in Nat
    BY Lengths DEF BlobInv
  <2>3. permits \in Nat /\ BufBytes \in Nat /\ permits' = permits - 1
    BY <1>2, LoopTypes
  <2> HIDE DEF queued
  <2>4. permits' + queued + 1 = BufBytes
    BY <2>1, <2>2, <2>3
  <2> QED BY <2>4 DEF queued
<1>5. Counted'
  BY <1>1, <1>2 DEF BlobInv, Counted, Idle
<1>6. Accepted' = Accepted
  BY <1>1, <1>2 DEF Accepted
<1> QED BY <1>1, <1>3, <1>4, <1>5, <1>6, LoopTypes, LoopKeeps

LEMMA StreamChunkKeeps ==
  ASSUME BlobInv, StreamChunk, UNCHANGED job
  PROVE  BlobInv'
<1>1. /\ InLoop /\ InLoop' /\ PipelineIdle /\ pc = "stream" /\ pc' = "acquire"
      /\ UNCHANGED <<result, initial, received, retries, download, buf, permits>>
      /\ conn' = conn + 1 /\ chunk' = conn + 1 /\ conn < N
  BY DEF StreamChunk, InLoop, bufferVars
<1>2. conn' \in 0 .. N /\ chunk' \in 0 .. N
  BY <1>1, LoopTypes
<1>3. BufferPaidFor'
  BY <1>1 DEF BlobInv, BufferPaidFor, PaidFor
<1>4. Counted'
  BY <1>1, LoopFacts DEF BlobInv, Counted, Idle
<1>5. Accepted' = Accepted
  BY <1>1 DEF Accepted
<1> QED BY <1>1, <1>2, <1>3, <1>4, <1>5, LoopTypes, LoopKeeps

(* A break that is retried, and the Range request that follows.            *)
LEMMA RetryKeeps ==
  ASSUME BlobInv, PipelineIdle, pc \in {"stream", "resume"}, pc' \in {"stream", "resume"},
         UNCHANGED <<job, result, initial, chunk, received, download, bufferVars>>,
         conn' = received, retries' \in 0 .. MaxRetries
  PROVE  BlobInv'
<1>1. InLoop /\ InLoop' /\ UNCHANGED <<buf, permits>>
  BY DEF InLoop, bufferVars
<1>2. BufferPaidFor'
  BY <1>1 DEF BlobInv, BufferPaidFor, PaidFor
<1>3. Counted'
  BY LoopFacts, <1>1 DEF Counted, Idle
<1>4. Accepted' = Accepted
  BY DEF Accepted
<1> QED BY <1>1, <1>2, <1>3, <1>4, LoopTypes, LoopKeeps

LEMMA LoopStepKeeps ==
  ASSUME BlobInv, UNCHANGED job,
         EnqueueRefused \/ StreamEnds \/ StreamBreaks \/ Resume \/ ResumeFails
  PROVE  BlobInv'
<1>1. CASE EnqueueRefused
  <2>1. InLoop /\ ~buf.rx
    BY <1>1 DEF EnqueueRefused, SendFails, InLoop
  <2>2. fpc = "err"
    BY <2>1, LoopFacts DEF BlobInv, EndsHeld, TypeOK
  <2>3. retries' \in 0 .. MaxRetries
    BY <1>1, LoopTypes DEF EnqueueRefused
  <2> QED BY <1>1, <2>1, <2>2, <2>3, LoopReturnsKeeps DEF EnqueueRefused
<1>2. CASE StreamEnds
  <2>1. received = N
    BY <1>2 DEF StreamEnds, BlobInv, Counted
  <2> QED BY <1>2, <2>1, LoopTypes, LoopReturnsKeeps DEF StreamEnds, InLoop
<1>3. CASE StreamBreaks
  <2>1. pc = "stream" /\ conn = received /\ retries \in 0 .. MaxRetries /\ MaxRetries \in Nat
    BY <1>3, LoopTypes DEF StreamBreaks, BlobInv, Counted
  <2>2. CASE retries < MaxRetries
    <3>1. retries' \in 0 .. MaxRetries
      BY <1>3, <2>1, <2>2 DEF StreamBreaks
    <3> QED BY <1>3, <2>1, <2>2, <3>1, RetryKeeps DEF StreamBreaks
  <2>3. CASE ~(retries < MaxRetries)
    BY <1>3, <2>1, <2>3, LoopReturnsKeeps DEF StreamBreaks, InLoop
  <2> QED BY <2>2, <2>3
<1>4. CASE Resume
  BY <1>4, LoopTypes, RetryKeeps DEF Resume
<1>5. CASE ResumeFails
  BY <1>5, LoopTypes, LoopReturnsKeeps DEF ResumeFails, InLoop
<1> QED BY <1>1, <1>2, <1>3, <1>4, <1>5

(* A chunk enters the buffer: what was received is now accepted.           *)
LEMMA EnqueueKeeps ==
  ASSUME BlobInv, Enqueue, UNCHANGED job
  PROVE  BlobInv'
<1>1. /\ InLoop /\ InLoop' /\ PipelineIdle /\ permits' = permits /\ buf.rx
      /\ UNCHANGED <<result, conn, initial, chunk, download>>
      /\ buf' = Sent(buf, chunk)
  BY DEF Enqueue, InLoop, QueueChunk, CanSend
<1>2. UNCHANGED <<fpc, feeding, child, input, eaten, cpc, out, stdin, stdout>>
  BY <1>1 DEF PipelineIdle, feederVars, childVars, consumerVars
<1>3. /\ pc = "enqueue" => pc' = "stream" /\ received' = received + 1 /\ retries' = 0
      /\ pc # "enqueue" => pc = "seed-enqueue" /\ pc' = "seed" /\ UNCHANGED <<received, retries>>
  BY DEF Enqueue
<1>4. chunk = Accepted + 1 /\ Accepted' = Accepted + 1 /\ chunk \in Chunks /\ received' \in 0 .. N
  <2>1. CASE pc = "enqueue"
    BY <1>3, <2>1, LoopTypes DEF BlobInv, Counted, Accepted, Chunks
  <2>2. CASE pc # "enqueue"
    BY <1>3, <2>2, LoopTypes DEF BlobInv, Counted, Accepted, Chunks
  <2> QED BY <2>1, <2>2
<1>5. /\ buf' \in Channels(Chunks) /\ buf'.q = Append(buf.q, chunk)
      /\ (buf'.tx <=> buf.tx) /\ (buf'.rx <=> buf.rx)
  <2>1. buf \in Channels(Chunks)
    BY DEF BlobInv, TypeOK
  <2> QED BY <1>1, <1>4, <2>1, SentFacts, SentEnds
<1>6. Len(buf'.q) = Len(buf.q) + 1 /\ Len(buf.q) \in Nat /\ buf.q \in Seq(Chunks)
  BY <1>4, <1>5, QueueTypes DEF BlobInv
<1>7. TypeOK'
  <2>1. /\ retries' \in 0 .. MaxRetries
        /\ pc' \in {"seed", "stream"} /\ chunk' \in 0 .. N /\ conn' \in 0 .. N
        /\ initial' \in Seq(Chunks) /\ permits' \in 0 .. BufBytes
    BY <1>1, <1>3, LoopTypes
  <2> QED BY <1>1, <1>2, <1>4, <1>5, <2>1, SameJob DEF BlobInv, TypeOK
<1>8. BufferPaidFor'
  <2> DEFINE before == Len(buf.q)
             after == Len(buf'.q)
  <2>1. permits + before + 1 = BufBytes
    BY <1>1 DEF BlobInv, BufferPaidFor, PaidFor, Enqueue
  <2>2. after = before + 1 /\ before \in Nat
    BY <1>6
  <2> HIDE DEF before, after
  <2>3. permits' + after + 0 = BufBytes
    BY <1>1, <2>1, <2>2, LoopTypes
  <2> QED BY <1>3, <2>3 DEF after, BufferPaidFor, PaidFor
<1>9. EndsHeld'
  BY <1>1, <1>2, <1>5 DEF BlobInv, EndsHeld
<1>10. Counted'
  BY <1>1, <1>3, LoopFacts, LoopTypes DEF BlobInv, Counted, Idle
<1>11. Verdicts'
  BY <1>1, <1>2, <1>3, LoopFacts, SameJob DEF BlobInv, Verdicts, InLoop
<1>12. DownstreamInOrder'
  BY <1>2, DownstreamSame DEF BlobInv
<1>13. UpstreamInOrder'
  <2>1. AtFeeding' = AtFeeding /\ AtBuf' = AtBuf
    BY <1>2 DEF AtFeeding, AtBuf
  <2>2. ASSUME stdin.rx
        PROVE  Run(buf'.q, AtBuf) /\ AtBuf + Len(buf'.q) = Accepted'
    <3>1. Run(buf.q, AtBuf) /\ AtBuf + Len(buf.q) = Accepted
      BY <1>1, <2>2 DEF BlobInv, UpstreamInOrder
    <3>2. AtBuf \in Nat /\ Accepted \in Int
      BY Positions, LoopTypes DEF BlobInv, Accepted
    <3>3. Run(buf'.q, AtBuf)
      BY <1>4, <1>5, <1>6, <3>1, <3>2, RunAppend
    <3> DEFINE before == Len(buf.q)
               after == Len(buf'.q)
    <3>4. after = before + 1 /\ before \in Nat /\ AtBuf + before = Accepted
      BY <1>6, <3>1
    <3> HIDE DEF before, after
    <3>5. AtBuf + after = Accepted'
      BY <1>4, <3>2, <3>4
    <3> QED BY <3>3, <3>5 DEF after
  <2> QED BY <1>2, <2>1, <2>2, LoopFacts, <1>1, SameJob DEF BlobInv, UpstreamInOrder
<1> QED BY <1>7, <1>8, <1>9, <1>10, <1>11, <1>12, <1>13 DEF BlobInv

(* join!, and the child's exit.                                            *)
LEMMA DrainKeeps ==
  ASSUME BlobInv, UNCHANGED job, Joined \/ Reap
  PROVE  BlobInv'
<1>1. /\ PipelineIdle /\ pc \in {"drain", "reap"}
      /\ UNCHANGED <<conn, initial, chunk, received, retries, download, buf, permits>>
  BY DEF Joined, Reap, bufferVars
<1>2. UNCHANGED <<fpc, feeding, child, input, eaten, cpc, out, stdin, stdout>>
  BY <1>1 DEF PipelineIdle, feederVars, childVars, consumerVars
<1>3. /\ \/ pc' = "reap" /\ UNCHANGED result /\ cpc = "ok"
         \/ pc' = "returned" /\ result' = "err" /\ cpc = "err"
         \/ pc' = "returned" /\ result' = "ok" /\ child # "running" /\ cpc = "ok"
      /\ download # "none"
  BY <1>1 DEF Joined, Reap, BlobInv, Verdicts, TypeOK
<1>4. BufferPaidFor'
  BY <1>1, <1>3 DEF BlobInv, BufferPaidFor, PaidFor
<1>5. Counted'
  BY <1>1, <1>2, <1>3 DEF Counted, Idle
<1>6. Verdicts'
  BY <1>1, <1>2, <1>3, SameJob DEF BlobInv, Verdicts
<1>7. Accepted' = Accepted
  BY <1>1, <1>3 DEF Accepted
<1>8. /\ buf' \in Channels(Chunks) /\ buf'.q = buf.q /\ (buf'.rx <=> buf.rx)
      /\ buf'.tx <=> download' = "none"
  BY <1>1 DEF BlobInv, TypeOK, EndsHeld
<1>9. result' \in {"none", "ok", "err"} /\ download' \in {"none", "ok", "err"}
  BY <1>1, <1>3 DEF BlobInv, TypeOK
<1> QED BY <1>1, <1>3, <1>4, <1>5, <1>6, <1>7, <1>8, <1>9, LoopTypes, CallerKeeps

LEMMA CallerStepKeeps ==
  ASSUME BlobInv, CallerNext, UNCHANGED job
  PROVE  BlobInv'
BY FetchStepKeeps, SeedKeeps, AcquireKeeps, EnqueueKeeps, StreamChunkKeeps, LoopStepKeeps,
   DrainKeeps DEF CallerNext

-----------------------------------------------------------------------------
(* Steps of the others.                                                    *)

LEMMA CallerSame ==
  ASSUME UNCHANGED <<job, callerVars>>
  PROVE  /\ UNCHANGED <<pc, result, conn, initial, chunk, received, retries, download>>
         /\ Accepted' = Accepted /\ N' = N /\ Wanted' = Wanted /\ Chunks' = Chunks
         /\ (Tar' <=> Tar) /\ (Compressed' <=> Compressed)
BY SameJob DEF callerVars, Accepted

LEMMA CountedSame ==
  ASSUME BlobInv, UNCHANGED <<job, callerVars>>, UNCHANGED <<fpc, child, cpc>> \/ ~Idle
  PROVE  Counted'
BY CallerSame DEF BlobInv, Counted, Idle

(* What the buffer has accepted the caller has received.                   *)
LEMMA AcceptedFacts ==
  ASSUME BlobInv
  PROVE  Accepted \in Nat /\ Accepted <= N /\ (download # "none" => Accepted = received)
<1>1. received \in Nat /\ received <= N /\ N \in Nat
  BY LoopTypes
<1>2. /\ pc \in {"seed-acquire", "seed-enqueue"} => received >= 1 /\ download = "none"
  BY DEF BlobInv, Counted
<1> QED BY <1>1, <1>2 DEF Accepted

LEMMA FeedNextKeeps ==
  ASSUME BlobInv, FeedNext, UNCHANGED job
  PROVE  BlobInv'
<1>1. /\ fpc = "running" /\ feeding = <<>> /\ buf.rx /\ buf.q # <<>>
      /\ feeding' = <<Head(buf.q)>> /\ buf' = Received(buf) /\ permits' = permits + 1
      /\ UNCHANGED <<callerVars, fpc, child, input, eaten, cpc, out, stdin, stdout>>
  BY DEF FeedNext, ChunkReady, CanRecv, NextChunk, TakeChunk, childVars, consumerVars
<1>2. /\ buf \in Channels(Chunks) /\ buf.q \in Seq(Chunks) /\ AtBuf \in Nat
  BY QueueTypes, Positions DEF BlobInv
<1>3. /\ buf' \in Channels(Chunks) /\ buf'.q = Tail(buf.q)
      /\ (buf'.tx <=> buf.tx) /\ (buf'.rx <=> buf.rx)
  BY <1>1, <1>2, ReceivedFacts
<1>4. /\ Head(buf.q) \in Chunks /\ Len(buf'.q) = Len(buf.q) - 1 /\ Len(buf.q) \in Nat \ {0}
  BY <1>1, <1>2, <1>3, NonEmptyFacts
<1>5. feeding' \in Seq(Chunks) /\ Len(feeding') = 1 /\ feeding'[1] = Head(buf.q)
  BY <1>1, <1>4
<1> DEFINE before == Len(buf.q)
           after == Len(buf'.q)
           paid == IF pc \in {"seed-enqueue", "enqueue"} THEN 1 ELSE 0
<1>6. after = before - 1 /\ before \in Nat \ {0} /\ permits + before + paid = BufBytes
  BY <1>1, <1>4 DEF BlobInv, BufferPaidFor, PaidFor
<1>7. permits' + after + paid = BufBytes /\ permits' \in 0 .. BufBytes
  <2>1. paid \in Nat /\ permits \in Nat /\ BufBytes \in Nat
    BY LoopTypes
  <2> HIDE DEF before, after, paid
  <2> QED BY <1>1, <1>6, <2>1
<1>8. TypeOK'
  BY <1>1, <1>3, <1>5, <1>7, CallerSame DEF BlobInv, TypeOK
<1>9. BufferPaidFor'
  BY <1>7, CallerSame, <1>1 DEF BufferPaidFor, PaidFor
<1>10. EndsHeld'
  BY <1>1, <1>3, CallerSame DEF BlobInv, EndsHeld
<1>11. Counted'
  BY <1>1, CountedSame
<1>12. Verdicts'
  BY <1>1, CallerSame DEF BlobInv, Verdicts
<1>13. DownstreamInOrder'
  BY <1>1, DownstreamSame DEF BlobInv
<1>14. UpstreamInOrder'
  <2>1. AtFeeding' = AtFeeding /\ AtFeeding \in Nat /\ AtBuf = AtFeeding
    <3>1. Len(feeding) = 0 /\ AtFeeding \in Nat
      BY <1>1, Positions DEF BlobInv
    <3> QED BY <1>1, <3>1 DEF AtFeeding, AtBuf
  <2>2. AtBuf' = AtBuf + 1
    BY <1>5, <2>1 DEF AtBuf
  <2>3. ASSUME stdin.rx
        PROVE  /\ Run(stdin.q, eaten) /\ Run(feeding', AtFeeding) /\ AtBuf + 1 <= N
               /\ Run(buf'.q, AtBuf + 1) /\ AtBuf + 1 + after = Accepted
    <3>1. Run(stdin.q, eaten) /\ Run(buf.q, AtBuf) /\ AtBuf + before = Accepted
      BY <1>1, <2>3 DEF BlobInv, UpstreamInOrder
    <3>2. Head(buf.q) = AtBuf + 1 /\ Run(Tail(buf.q), AtBuf + 1)
      BY <1>1, <1>2, <3>1, RunTail
    <3>3. Run(feeding', AtFeeding)
      BY <1>5, <2>1, <3>2 DEF Run
    <3>4. AtBuf + 1 <= N /\ AtBuf + 1 + after = Accepted
      <4>1. Accepted \in Nat /\ Accepted <= N /\ N \in Nat
        BY AcceptedFacts, LoopTypes
      <4> HIDE DEF before, after
      <4> QED BY <1>2, <1>6, <3>1, <4>1
    <3> QED BY <1>3, <3>1, <3>2, <3>3, <3>4
  <2>4. /\ UNCHANGED <<eaten, stdin, fpc>> /\ Accepted' = Accepted /\ N' = N
        /\ received' = received
    BY <1>1, CallerSame
  <2>5. ASSUME stdin.rx
        PROVE  /\ Run(stdin.q, eaten) /\ Run(feeding', AtFeeding') /\ AtBuf' <= N
               /\ Run(buf'.q, AtBuf') /\ AtBuf' + Len(buf'.q) = Accepted
    BY <2>1, <2>2, <2>3, <2>5
  <2>6. fpc' # "ok" /\ Len(feeding') <= 1
    BY <1>1, <1>5
  <2> HIDE DEF before, after
  <2> QED BY <2>4, <2>5, <2>6 DEF UpstreamInOrder
<1> QED BY <1>8, <1>9, <1>10, <1>11, <1>12, <1>13, <1>14 DEF BlobInv

LEMMA FeedWriteKeeps ==
  ASSUME BlobInv, FeedWrite, UNCHANGED job
  PROVE  BlobInv'
<1>1. /\ fpc = "running" /\ feeding # <<>> /\ stdin.rx
      /\ feeding' = <<>> /\ stdin' = Sent(stdin, Head(feeding))
      /\ UNCHANGED <<callerVars, buf, permits, fpc, child, input, eaten, cpc, out, stdout>>
  BY DEF FeedWrite, CanSend, childVars, consumerVars, bufferVars
<1>2. /\ stdin \in Channels(Chunks) /\ stdin.q \in Seq(Chunks) /\ feeding \in Seq(Chunks)
      /\ AtFeeding \in Nat /\ AtBuf \in Nat /\ eaten \in Nat
  BY QueueTypes, SeqTypes, Positions, Numbers DEF BlobInv
<1>3. Head(feeding) \in Chunks /\ Head(feeding) = feeding[1] /\ Len(feeding) = 1
  <2>1. Len(feeding) <= 1
    BY DEF BlobInv, UpstreamInOrder
  <2>2. /\ Head(feeding) \in Chunks /\ Head(feeding) = feeding[1]
        /\ Len(feeding) \in Nat /\ Len(feeding) >= 1
    BY <1>1, <1>2, NonEmptyFacts
  <2> QED BY <2>1, <2>2
<1>4. /\ stdin' \in Channels(Chunks) /\ stdin'.q = Append(stdin.q, Head(feeding))
      /\ (stdin'.tx <=> stdin.tx) /\ (stdin'.rx <=> stdin.rx)
  BY <1>1, <1>2, <1>3, SentFacts, SentEnds
<1>5. Len(stdin'.q) = Len(stdin.q) + 1 /\ Len(stdin.q) \in Nat /\ Len(feeding') = 0
  BY <1>1, <1>2, <1>3, <1>4
<1>6. TypeOK'
  <2>1. feeding' \in Seq(Chunks)
    BY <1>1
  <2> QED BY <1>1, <1>4, <2>1, CallerSame DEF BlobInv, TypeOK
<1>7. BufferPaidFor'
  BY <1>1, CallerSame DEF BlobInv, BufferPaidFor, PaidFor
<1>8. EndsHeld'
  BY <1>1, <1>4, CallerSame DEF BlobInv, EndsHeld
<1>9. Counted'
  BY <1>1, CountedSame
<1>10. Verdicts'
  BY <1>1, CallerSame DEF BlobInv, Verdicts
<1>11. DownstreamInOrder'
  BY <1>1, DownstreamSame DEF BlobInv
<1>12. UpstreamInOrder'
  <2>1. AtFeeding' = AtFeeding + 1 /\ AtBuf = AtFeeding + 1 /\ AtBuf' = AtBuf
    <3> DEFINE before == Len(stdin.q)
               after == Len(stdin'.q)
    <3>1. after = before + 1 /\ before \in Nat /\ AtFeeding = eaten + before
          /\ AtFeeding' = eaten + after
      BY <1>1, <1>5 DEF AtFeeding
    <3> HIDE DEF before, after
    <3>2. AtFeeding' = AtFeeding + 1
      BY <1>2, <3>1
    <3>3. AtBuf = AtFeeding + 1 /\ AtBuf' = AtFeeding' + 0
      BY <1>3, <1>5 DEF AtBuf
    <3> QED BY <1>2, <3>2, <3>3
  <2>2. /\ Run(stdin.q, eaten) /\ Run(feeding, AtFeeding) /\ AtBuf <= N
        /\ buf.rx => Run(buf.q, AtBuf) /\ AtBuf + Len(buf.q) = Accepted
    BY <1>1 DEF BlobInv, UpstreamInOrder
  <2>3. Head(feeding) = eaten + Len(stdin.q) + 1
    BY <1>3, <2>2 DEF Run, AtFeeding
  <2>4. Run(stdin'.q, eaten)
    BY <1>2, <1>3, <1>4, <2>2, <2>3, RunAppend
  <2>5. Run(feeding', AtFeeding')
    BY <1>1, EmptyRun
  <2> QED BY <1>1, <1>5, <2>1, <2>2, <2>4, <2>5, CallerSame DEF UpstreamInOrder
<1> QED BY <1>6, <1>7, <1>8, <1>9, <1>10, <1>11, <1>12 DEF BlobInv

LEMMA FeedEndsKeeps ==
  ASSUME BlobInv, FeedEnds, UNCHANGED job
  PROVE  BlobInv'
<1>1. /\ fpc = "running" /\ stdin' = TxDropped(stdin) /\ buf' = RxDropped(buf)
      /\ UNCHANGED <<callerVars, permits, feeding, child, input, eaten, cpc, out, stdout>>
  BY DEF FeedEnds, DropRx, childVars, consumerVars
<1>2. \/ feeding # <<>> /\ ~stdin.rx /\ fpc' = "err"
      \/ feeding = <<>> /\ buf.rx /\ buf.q = <<>> /\ ~buf.tx /\ fpc' = "ok"
  BY DEF FeedEnds, SendFails, NoMore, AtEof
<1>3. /\ stdin' \in Channels(Chunks) /\ stdin'.q = stdin.q /\ ~stdin'.tx
      /\ (stdin'.rx <=> stdin.rx)
  <2>1. stdin \in Channels(Chunks)
    BY DEF BlobInv, TypeOK
  <2> QED BY <1>1, <2>1, TxDroppedFacts
<1>4. buf' \in Channels(Chunks) /\ buf'.q = <<>> /\ (buf'.tx <=> buf.tx) /\ ~buf'.rx
  <2>1. buf \in Channels(Chunks)
    BY DEF BlobInv, TypeOK
  <2> QED BY <1>1, <2>1, RxDroppedFacts
<1>5. ~Idle
  BY <1>2, IdlePipeline
<1>6. fpc' = "err" => child = "failed"
  BY <1>1, <1>2 DEF BlobInv, EndsHeld, Verdicts, TypeOK
<1>7. fpc' = "ok" => download # "none"
  BY <1>2 DEF BlobInv, EndsHeld
<1>8. TypeOK'
  BY <1>1, <1>2, <1>3, <1>4, CallerSame DEF BlobInv, TypeOK
<1>9. BufferPaidFor'
  BY <1>4 DEF BufferPaidFor, PaidFor
<1>10. EndsHeld'
  BY <1>1, <1>2, <1>3, <1>4, CallerSame DEF BlobInv, EndsHeld
<1>11. Counted'
  BY <1>1, <1>5, CountedSame
<1>12. Verdicts'
  BY <1>1, <1>2, <1>6, <1>7, CallerSame DEF BlobInv, Verdicts
<1>13. DownstreamInOrder'
  BY <1>1, DownstreamSame DEF BlobInv
<1>14. UpstreamInOrder'
  <2>1. AtFeeding' = AtFeeding /\ AtBuf' = AtBuf
    BY <1>1, <1>3 DEF AtFeeding, AtBuf
  <2>2. stdin.rx /\ fpc' = "ok" => AtFeeding = received
    <3> SUFFICES ASSUME stdin.rx, fpc' = "ok" PROVE AtFeeding = received
      OBVIOUS
    <3>1. AtBuf + Len(buf.q) = Accepted /\ Accepted = received
      BY <1>2, <1>7, AcceptedFacts DEF BlobInv, UpstreamInOrder
    <3>2. Len(buf.q) = 0 /\ Len(feeding) = 0 /\ AtFeeding \in Nat
      BY <1>2, Positions DEF BlobInv
    <3> QED BY <3>1, <3>2 DEF AtBuf
  <2> QED BY <1>1, <1>3, <1>4, <2>1, <2>2, CallerSame DEF BlobInv, UpstreamInOrder
<1> QED BY <1>8, <1>9, <1>10, <1>11, <1>12, <1>13, <1>14 DEF BlobInv

LEMMA ChildReadsKeeps ==
  ASSUME BlobInv, ChildReads, UNCHANGED job
  PROVE  BlobInv'
<1>1. /\ child = "running" /\ stdin.rx /\ stdin.q # <<>>
      /\ input' = Append(input, Head(stdin.q)) /\ eaten' = eaten + 1 /\ stdin' = Received(stdin)
      /\ UNCHANGED <<callerVars, buf, permits, fpc, feeding, child, cpc, out, stdout>>
  BY DEF ChildReads, CanRecv, ChildOnly, feederVars, consumerVars, bufferVars
<1>2. /\ stdin \in Channels(Chunks) /\ stdin.q \in Seq(Chunks) /\ input \in Seq(Chunks)
      /\ AtInput \in Nat /\ AtFeeding \in Nat /\ AtBuf \in Nat /\ eaten \in Nat /\ N \in Nat
      /\ Len(feeding) \in Nat /\ Len(input) \in Nat
  BY QueueTypes, SeqTypes, Positions, Numbers, Lengths DEF BlobInv
<1>3. /\ stdin' \in Channels(Chunks) /\ stdin'.q = Tail(stdin.q)
      /\ (stdin'.tx <=> stdin.tx) /\ (stdin'.rx <=> stdin.rx)
  BY <1>1, <1>2, ReceivedFacts
<1>4. /\ Run(stdin.q, eaten) /\ Run(feeding, AtFeeding) /\ AtBuf <= N
      /\ buf.rx => Run(buf.q, AtBuf) /\ AtBuf + Len(buf.q) = Accepted
      /\ fpc = "ok" => AtFeeding = received
  BY <1>1 DEF BlobInv, UpstreamInOrder
<1>5. /\ Head(stdin.q) = eaten + 1 /\ Run(stdin'.q, eaten + 1)
      /\ Len(stdin'.q) = Len(stdin.q) - 1 /\ Len(stdin.q) \in Nat \ {0}
  BY <1>1, <1>2, <1>3, <1>4, RunTail
<1>6. Head(stdin.q) \in Chunks
  BY <1>1, <1>2, NonEmptyFacts
<1>7. AtFeeding' = AtFeeding /\ AtBuf' = AtBuf /\ eaten' \in 0 .. N
  <2> DEFINE before == Len(stdin.q)
             after == Len(stdin'.q)
             held == Len(feeding)
  <2>1. /\ after = before - 1 /\ before \in Nat \ {0} /\ AtFeeding = eaten + before
        /\ AtFeeding' = eaten' + after /\ AtBuf = AtFeeding + held /\ held \in Nat
    BY <1>2, <1>5 DEF AtFeeding, AtBuf
  <2> HIDE DEF before, after, held
  <2>2. AtFeeding' = AtFeeding /\ eaten' \in 0 .. N
    BY <1>1, <1>2, <1>4, <2>1
  <2>3. AtBuf' = AtBuf
    BY <1>1, <2>2 DEF AtBuf
  <2> QED BY <2>2, <2>3
<1>8. TypeOK'
  <2>1. input' \in Seq(Chunks)
    BY <1>1, <1>2, <1>6
  <2> QED BY <1>1, <1>3, <1>7, <2>1, CallerSame DEF BlobInv, TypeOK
<1>9. BufferPaidFor'
  BY <1>1, CallerSame DEF BlobInv, BufferPaidFor, PaidFor
<1>10. EndsHeld'
  BY <1>1, <1>3, CallerSame DEF BlobInv, EndsHeld
<1>11. Counted'
  BY <1>1, CountedSame
<1>12. Verdicts'
  BY <1>1, CallerSame DEF BlobInv, Verdicts
<1>13. DownstreamInOrder'
  <2>1. AtStdout' = AtStdout /\ AtInput' = AtInput
    BY <1>1 DEF AtStdout, AtInput
  <2>2. ASSUME stdout.rx
        PROVE  Run(input', AtInput) /\ AtInput + Len(input') = eaten'
    <3>1. Run(input, AtInput) /\ AtInput + Len(input) = eaten
      BY <2>2 DEF BlobInv, DownstreamInOrder
    <3>2. Run(input', AtInput)
      BY <1>1, <1>2, <1>5, <1>6, <3>1, RunAppend
    <3> DEFINE before == Len(input)
               after == Len(input')
    <3>3. after = before + 1 /\ before \in Nat /\ AtInput + before = eaten
      BY <1>1, <1>2, <1>6, <3>1
    <3> HIDE DEF before, after
    <3>4. AtInput + after = eaten'
      BY <1>1, <1>2, <3>3
    <3> QED BY <3>2, <3>4 DEF after
  <2> QED BY <1>1, <2>1, <2>2, CallerSame DEF BlobInv, DownstreamInOrder
<1>14. UpstreamInOrder'
  BY <1>1, <1>3, <1>4, <1>5, <1>7, CallerSame DEF BlobInv, UpstreamInOrder
<1> QED BY <1>8, <1>9, <1>10, <1>11, <1>12, <1>13, <1>14 DEF BlobInv

LEMMA ChildWritesKeeps ==
  ASSUME BlobInv, ChildWrites, UNCHANGED job
  PROVE  BlobInv'
<1>1. /\ child = "running" /\ input # <<>> /\ stdout.rx
      /\ stdout' = Sent(stdout, Head(input)) /\ input' = Tail(input)
      /\ UNCHANGED <<callerVars, buf, permits, fpc, feeding, child, eaten, cpc, out, stdin>>
  BY DEF ChildWrites, CanSend, ChildOnly, feederVars, consumerVars, bufferVars
<1>2. /\ stdout \in Channels(Chunks) /\ stdout.q \in Seq(Chunks) /\ input \in Seq(Chunks)
      /\ AtStdout \in Nat /\ AtInput \in Nat /\ eaten \in Nat
  BY QueueTypes, SeqTypes, Positions, Numbers DEF BlobInv
<1>3. Run(stdout.q, AtStdout) /\ Run(input, AtInput) /\ AtInput + Len(input) = eaten
  BY <1>1 DEF BlobInv, DownstreamInOrder
<1>4. /\ Head(input) = AtInput + 1 /\ Run(input', AtInput + 1) /\ input' \in Seq(Chunks)
      /\ Len(input') = Len(input) - 1 /\ Len(input) \in Nat \ {0}
  BY <1>1, <1>2, <1>3, RunTail
<1>5. Head(input) \in Chunks
  BY <1>1, <1>2, NonEmptyFacts
<1>6. /\ stdout' \in Channels(Chunks) /\ stdout'.q = Append(stdout.q, Head(input))
      /\ (stdout'.tx <=> stdout.tx) /\ (stdout'.rx <=> stdout.rx)
  BY <1>1, <1>2, <1>5, SentFacts, SentEnds
<1>7. Len(stdout'.q) = Len(stdout.q) + 1 /\ Len(stdout.q) \in Nat
  BY <1>2, <1>5, <1>6
<1>8. AtStdout' = AtStdout /\ AtInput' = AtInput + 1 /\ AtInput' + Len(input') = eaten
  <2> DEFINE before == Len(stdout.q)
             after == Len(stdout'.q)
             had == Len(input)
             has == Len(input')
  <2>1. /\ after = before + 1 /\ before \in Nat /\ AtInput = AtStdout + before
        /\ AtInput' = AtStdout + after /\ AtStdout' = AtStdout
        /\ has = had - 1 /\ had \in Nat \ {0} /\ AtInput + had = eaten
    BY <1>1, <1>3, <1>4, <1>7 DEF AtStdout, AtInput
  <2> HIDE DEF before, after, had, has
  <2>2. AtInput' = AtInput + 1
    BY <1>2, <2>1
  <2>3. AtInput' + has = eaten
    BY <1>2, <2>1, <2>2
  <2> QED BY <2>1, <2>2, <2>3 DEF has
<1>9. TypeOK'
  BY <1>1, <1>4, <1>6, CallerSame DEF BlobInv, TypeOK
<1>10. BufferPaidFor'
  BY <1>1, CallerSame DEF BlobInv, BufferPaidFor, PaidFor
<1>11. EndsHeld'
  BY <1>1, <1>6, CallerSame DEF BlobInv, EndsHeld
<1>12. Counted'
  BY <1>1, CountedSame
<1>13. Verdicts'
  BY <1>1, CallerSame DEF BlobInv, Verdicts
<1>14. DownstreamInOrder'
  <2>1. Run(stdout'.q, AtStdout)
    <3>1. Head(input) = AtStdout + Len(stdout.q) + 1
      BY <1>4 DEF AtInput
    <3> QED BY <1>2, <1>3, <1>5, <1>6, <3>1, RunAppend
  <2> QED BY <1>1, <1>4, <1>6, <1>8, <2>1, CallerSame DEF BlobInv, DownstreamInOrder
<1>15. UpstreamInOrder'
  BY <1>1, CallerSame, UpstreamSame DEF BlobInv
<1> QED BY <1>9, <1>10, <1>11, <1>12, <1>13, <1>14, <1>15 DEF BlobInv

LEMMA ChildExitsKeeps ==
  ASSUME BlobInv, ChildExits, UNCHANGED job
  PROVE  BlobInv'
<1>1. /\ child = "running" /\ stdin' = RxDropped(stdin) /\ stdout' = TxDropped(stdout)
      /\ UNCHANGED <<callerVars, buf, permits, fpc, feeding, input, eaten, cpc, out>>
  BY DEF ChildExits, ChildOnly, feederVars, consumerVars, bufferVars
<1>2. \/ input = <<>> /\ AtEof(stdin)
         /\ child' = IF Compressed /\ eaten < N THEN "failed" ELSE "exit0"
      \/ input # <<>> /\ child' = "failed"
  BY DEF ChildExits
<1>3. /\ stdin' \in Channels(Chunks) /\ stdin'.q = <<>> /\ ~stdin'.rx
      /\ (stdin'.tx <=> stdin.tx)
  <2>1. stdin \in Channels(Chunks)
    BY DEF BlobInv, TypeOK
  <2> QED BY <1>1, <2>1, RxDroppedFacts
<1>4. /\ stdout' \in Channels(Chunks) /\ stdout'.q = stdout.q /\ ~stdout'.tx
      /\ (stdout'.rx <=> stdout.rx)
  <2>1. stdout \in Channels(Chunks)
    BY DEF BlobInv, TypeOK
  <2> QED BY <1>1, <2>1, TxDroppedFacts
<1>5. ~Idle
  BY <1>2, IdlePipeline DEF AtEof
<1>6. child' \in {"exit0", "failed"}
  BY <1>2
<1>7. child' = "exit0" => /\ fpc = "ok" /\ eaten = received /\ input = <<>>
                          /\ Compressed => eaten = N
  <2> SUFFICES ASSUME child' = "exit0"
               PROVE  /\ fpc = "ok" /\ eaten = received /\ input = <<>>
                      /\ Compressed => eaten = N
    OBVIOUS
  <2>1. input = <<>> /\ stdin.rx /\ stdin.q = <<>> /\ ~stdin.tx /\ ~(Compressed /\ eaten < N)
    BY <1>2 DEF AtEof
  <2>2. fpc = "ok"
    BY <1>1, <2>1 DEF BlobInv, EndsHeld, Verdicts, TypeOK
  <2>3. AtFeeding = received
    BY <2>1, <2>2 DEF BlobInv, UpstreamInOrder
  <2>4. Len(stdin.q) = 0 /\ eaten \in Nat /\ eaten <= N /\ N \in Nat
    BY <2>1, Numbers DEF BlobInv
  <2> QED BY <2>1, <2>2, <2>3, <2>4 DEF AtFeeding
<1>8. TypeOK'
  BY <1>1, <1>3, <1>4, <1>6, CallerSame DEF BlobInv, TypeOK
<1>9. BufferPaidFor'
  BY <1>1, CallerSame DEF BlobInv, BufferPaidFor, PaidFor
<1>10. EndsHeld'
  BY <1>1, <1>3, <1>4, <1>6, CallerSame DEF BlobInv, EndsHeld
<1>11. Counted'
  BY <1>1, <1>5, CountedSame
<1>12. Verdicts'
  BY <1>1, <1>6, <1>7, CallerSame DEF BlobInv, Verdicts
<1>13. DownstreamInOrder'
  BY <1>1, <1>4, CallerSame DEF BlobInv, DownstreamInOrder, AtStdout, AtInput
<1>14. UpstreamInOrder'
  BY <1>1, <1>3, CallerSame DEF BlobInv, UpstreamInOrder
<1> QED BY <1>8, <1>9, <1>10, <1>11, <1>12, <1>13, <1>14 DEF BlobInv

-----------------------------------------------------------------------------
(* The consumer.                                                           *)

(* It returns, which nobody upstream sees before its next write.           *)
LEMMA ConsumerReturnsKeeps ==
  ASSUME BlobInv, NEW how \in {"ok", "err"}, ConsumerReturns(how), ConsumerOnly,
         UNCHANGED job, cpc = "running", ~Idle,
         out' \in Seq(Chunks), Run(out', 0), Len(out') <= Wanted,
         how = "ok" => \/ Len(out') = Wanted \/ child = "failed"
                       \/ child = "exit0" /\ Len(out') = eaten
  PROVE  BlobInv'
<1>1. /\ cpc' = how /\ stdout' = RxDropped(stdout)
      /\ UNCHANGED <<callerVars, buf, permits, fpc, feeding, child, input, eaten, stdin>>
  BY DEF ConsumerReturns, ConsumerOnly, feederVars, childVars, bufferVars
<1>2. /\ stdout' \in Channels(Chunks) /\ stdout'.q = <<>> /\ ~stdout'.rx
      /\ (stdout'.tx <=> stdout.tx)
  <2>1. stdout \in Channels(Chunks)
    BY DEF BlobInv, TypeOK
  <2> QED BY <1>1, <2>1, RxDroppedFacts
<1>3. TypeOK'
  BY <1>1, <1>2, CallerSame DEF BlobInv, TypeOK
<1>4. BufferPaidFor'
  BY <1>1, CallerSame DEF BlobInv, BufferPaidFor, PaidFor
<1>5. EndsHeld'
  BY <1>1, <1>2, CallerSame DEF BlobInv, EndsHeld
<1>6. Counted'
  BY <1>1, CountedSame
<1>7. Verdicts'
  <2>1. pc # "reap" /\ result # "ok"
    BY DEF BlobInv, Verdicts
  <2>2. result = "err" => download = "none"
    BY DEF BlobInv, Verdicts
  <2> QED BY <1>1, <2>1, <2>2, CallerSame DEF BlobInv, Verdicts
<1>8. DownstreamInOrder'
  BY <1>1, <1>2, CallerSame DEF BlobInv, DownstreamInOrder
<1>9. UpstreamInOrder'
  BY <1>1, CallerSame, UpstreamSame DEF BlobInv
<1> QED BY <1>3, <1>4, <1>5, <1>6, <1>7, <1>8, <1>9 DEF BlobInv

LEMMA ConsumeKeeps ==
  ASSUME BlobInv, Consume, UNCHANGED job
  PROVE  BlobInv'
<1>1. /\ cpc = "running" /\ stdout.rx /\ stdout.q # <<>> /\ out' = Append(out, Head(stdout.q))
      /\ ConsumerOnly
      /\ UNCHANGED <<callerVars, buf, permits, fpc, feeding, child, input, eaten, stdin>>
  BY DEF Consume, CanRecv, ConsumerOnly, feederVars, childVars, bufferVars
<1>2. ~Idle
  BY <1>1, IdlePipeline
<1>3. /\ stdout \in Channels(Chunks) /\ stdout.q \in Seq(Chunks) /\ out \in Seq(Chunks)
      /\ AtStdout \in Nat /\ AtInput \in Nat /\ Len(out) \in Nat /\ Len(input) \in Nat
      /\ eaten \in Nat /\ eaten <= N /\ N \in Nat /\ Wanted \in Nat
  BY QueueTypes, SeqTypes, Positions, Numbers, Lengths DEF BlobInv
<1>4. /\ Run(out, 0) /\ Run(stdout.q, AtStdout) /\ Run(input, AtInput)
      /\ AtInput + Len(input) = eaten
      /\ Tar => Len(out) < Wanted
  BY <1>1 DEF BlobInv, DownstreamInOrder
<1>5. /\ Head(stdout.q) = Len(out) + 1 /\ Run(Tail(stdout.q), AtStdout + 1)
      /\ Len(Tail(stdout.q)) = Len(stdout.q) - 1 /\ Len(stdout.q) \in Nat \ {0}
  <2>1. Head(stdout.q) = AtStdout + 1
    BY <1>1, <1>3, <1>4, RunTail
  <2>2. /\ Run(Tail(stdout.q), AtStdout + 1)
        /\ Len(Tail(stdout.q)) = Len(stdout.q) - 1 /\ Len(stdout.q) \in Nat \ {0}
    BY <1>1, <1>3, <1>4, RunTail
  <2> QED BY <2>1, <2>2 DEF AtStdout
<1>6. Head(stdout.q) \in Chunks
  BY <1>1, <1>3, NonEmptyFacts
<1>7. out' \in Seq(Chunks) /\ Len(out') = Len(out) + 1
  BY <1>1, <1>3, <1>6
<1>8. Run(out', 0)
  <2>1. Head(stdout.q) = 0 + Len(out) + 1
    BY <1>3, <1>5
  <2> QED BY <1>1, <1>3, <1>4, <1>6, <2>1, RunAppend
<1>9. Len(out') <= Wanted
  <2> DEFINE before == Len(out)
             after == Len(out')
             queued == Len(stdout.q)
             held == Len(input)
  <2>1. /\ after = before + 1 /\ before \in Nat /\ held \in Nat /\ queued \in Nat \ {0}
        /\ before + queued + held = eaten /\ (Tar => before < Wanted)
    BY <1>3, <1>4, <1>5, <1>7 DEF AtStdout, AtInput
  <2>2. ~Tar => Wanted = N
    BY JobFacts DEF BlobInv, TypeOK
  <2>3. eaten \in Nat /\ eaten <= N /\ N \in Nat /\ Wanted \in Nat
    BY <1>3
  <2> HIDE DEF before, after, queued, held
  <2>4. ASSUME Tar PROVE after <= Wanted
    BY <2>1, <2>3, <2>4
  <2>5. ASSUME ~Tar PROVE after <= Wanted
    BY <2>1, <2>2, <2>3, <2>5
  <2>6. after <= Wanted
    BY <2>4, <2>5
  <2> QED BY <2>6 DEF after
<1>10. CASE Tar /\ Len(out') = Wanted
  <2>1. ConsumerReturns("ok")
    BY <1>10 DEF Consume
  <2> QED BY <1>1, <1>2, <1>7, <1>8, <1>9, <1>10, <2>1, ConsumerReturnsKeeps
<1>11. CASE ~(Tar /\ Len(out') = Wanted)
  <2>1. stdout' = Received(stdout) /\ cpc' = cpc
    BY <1>11 DEF Consume
  <2>2. /\ stdout' \in Channels(Chunks) /\ stdout'.q = Tail(stdout.q)
        /\ (stdout'.tx <=> stdout.tx) /\ (stdout'.rx <=> stdout.rx)
    BY <1>1, <1>3, <2>1, ReceivedFacts
  <2>3. AtStdout' = AtStdout + 1 /\ AtInput' = AtInput
    <3> DEFINE before == Len(out)
               after == Len(out')
               had == Len(stdout.q)
               has == Len(stdout'.q)
    <3>1. /\ AtStdout = before /\ AtStdout' = after /\ after = before + 1 /\ before \in Nat
          /\ AtInput = AtStdout + had /\ AtInput' = AtStdout' + has
          /\ has = had - 1 /\ had \in Nat \ {0}
      BY <1>3, <1>5, <1>7, <2>2 DEF AtStdout, AtInput
    <3> HIDE DEF before, after, had, has
    <3> QED BY <3>1
  <2>4. TypeOK'
    BY <1>1, <1>7, <2>1, <2>2, CallerSame DEF BlobInv, TypeOK
  <2>5. BufferPaidFor'
    BY <1>1, CallerSame DEF BlobInv, BufferPaidFor, PaidFor
  <2>6. EndsHeld'
    BY <1>1, <2>1, <2>2, CallerSame DEF BlobInv, EndsHeld
  <2>7. Counted'
    BY <1>1, <2>1, CountedSame
  <2>8. Verdicts'
    BY <1>1, <2>1, CallerSame DEF BlobInv, Verdicts
  <2>9. DownstreamInOrder'
    <3>1. Tar => Len(out') < Wanted
      <4> DEFINE after == Len(out')
      <4>1. after \in Nat /\ after <= Wanted /\ (Tar => after # Wanted)
        BY <1>3, <1>7, <1>9, <1>11
      <4> HIDE DEF after
      <4>2. Tar => after < Wanted
        BY <1>3, <4>1
      <4> QED BY <4>2 DEF after
    <3> QED BY <1>1, <1>4, <1>5, <1>8, <1>9, <2>2, <2>3, <3>1, CallerSame DEF DownstreamInOrder
  <2>10. UpstreamInOrder'
    BY <1>1, CallerSame, UpstreamSame DEF BlobInv
  <2> QED BY <2>4, <2>5, <2>6, <2>7, <2>8, <2>9, <2>10 DEF BlobInv
<1> QED BY <1>10, <1>11

LEMMA ConsumerLeavesKeeps ==
  ASSUME BlobInv, ConsumeFails \/ ConsumerEof, UNCHANGED job
  PROVE  BlobInv'
<1>1. out \in Seq(Chunks) /\ Run(out, 0) /\ Len(out) <= Wanted
  BY SeqTypes DEF BlobInv, DownstreamInOrder
<1>2. CASE ConsumeFails
  <2>1. ~Idle
    BY <1>2, IdlePipeline DEF ConsumeFails, CanRecv
  <2> QED BY <1>1, <1>2, <2>1, ConsumerReturnsKeeps DEF ConsumeFails
<1>3. CASE ConsumerEof
  <2>1. /\ cpc = "running" /\ stdout.rx /\ stdout.q = <<>> /\ ~stdout.tx /\ ConsumerOnly
        /\ out' = out
    BY <1>3 DEF ConsumerEof, AtEof
  <2>2. ~Idle
    BY <2>1, IdlePipeline
  <2>3. child = "failed" \/ (child = "exit0" /\ Len(out) = eaten)
    <3>1. child \in {"exit0", "failed"}
      BY <2>1 DEF BlobInv, EndsHeld, TypeOK
    <3>2. CASE child = "exit0"
      <4>1. input = <<>> /\ AtInput + Len(input) = eaten
        BY <2>1, <3>2 DEF BlobInv, Verdicts, DownstreamInOrder
      <4>2. Len(input) = 0 /\ Len(stdout.q) = 0 /\ Len(out) \in Nat
        BY <2>1, <4>1, Lengths DEF BlobInv
      <4> QED BY <3>2, <4>1, <4>2 DEF AtInput, AtStdout
    <3> QED BY <3>1, <3>2
  <2>4. ConsumerReturns("ok") \/ ConsumerReturns("err")
    BY <1>3 DEF ConsumerEof
  <2> QED BY <1>1, <2>1, <2>2, <2>3, <2>4, ConsumerReturnsKeeps
<1> QED BY <1>2, <1>3

-----------------------------------------------------------------------------
(* The invariant holds.                                                    *)

LEMMA InitHolds == Init => BlobInv
<1> SUFFICES ASSUME Init PROVE BlobInv
  OBVIOUS
<1> USE DEF Init, BufferInit
<1>1. /\ buf = NewChannel /\ stdin = NewChannel /\ stdout = NewChannel
      /\ permits = BufBytes /\ pc = "fetch" /\ job \in Jobs
  OBVIOUS
<1>2. /\ buf \in Channels(Chunks) /\ stdin \in Channels(Chunks) /\ stdout \in Channels(Chunks)
      /\ buf.q = <<>> /\ stdin.q = <<>> /\ stdout.q = <<>>
      /\ buf.tx /\ buf.rx /\ stdin.tx /\ stdin.rx /\ stdout.tx /\ stdout.rx
  BY <1>1, NewChannelFacts
<1>3. N \in Nat \ {0} /\ Wanted \in 1 .. N /\ BufBytes \in Nat \ {0} /\ MaxRetries \in Nat
  BY JobFacts
<1>4. <<>> \in Seq(Chunks) /\ Len(<<>>) = 0
  OBVIOUS
<1>5. 0 \in 0 .. N /\ 0 \in 0 .. MaxRetries /\ BufBytes \in 0 .. BufBytes
  BY <1>3
<1>6. TypeOK
  BY <1>2, <1>4, <1>5 DEF TypeOK
<1>7. BufferPaidFor
  <2>1. Len(buf.q) = 0
    BY <1>2, <1>4
  <2>2. BufBytes + 0 + 0 = BufBytes
    BY <1>3
  <2> QED BY <1>1, <2>1, <2>2 DEF BufferPaidFor, PaidFor
<1>8. EndsHeld
  BY <1>2 DEF EndsHeld
<1>9. Counted /\ Verdicts
  BY DEF Counted, Verdicts
<1>10. AtStdout = 0 /\ AtInput = 0 /\ AtFeeding = 0 /\ AtBuf = 0 /\ Accepted = 0
  BY <1>2, <1>4 DEF AtStdout, AtInput, AtFeeding, AtBuf, Accepted
<1>11. DownstreamInOrder
  BY <1>2, <1>3, <1>4, <1>10, EmptyRun DEF DownstreamInOrder
<1>12. UpstreamInOrder
  BY <1>2, <1>3, <1>4, <1>10, EmptyRun DEF UpstreamInOrder
<1> QED BY <1>6, <1>7, <1>8, <1>9, <1>11, <1>12 DEF BlobInv

LEMMA StutterKeeps == ASSUME BlobInv, UNCHANGED vars PROVE BlobInv'
<1>1. UNCHANGED <<job, callerVars, fpc, feeding, child, input, eaten, cpc, out, buf, permits,
                  stdin, stdout>>
  BY DEF vars, feederVars, childVars, consumerVars, bufferVars
<1>2. TypeOK'
  BY <1>1, CallerSame DEF BlobInv, TypeOK
<1>3. BufferPaidFor' /\ EndsHeld'
  BY <1>1, CallerSame DEF BlobInv, BufferPaidFor, PaidFor, EndsHeld
<1>4. Counted'
  BY <1>1, CountedSame
<1>5. Verdicts'
  BY <1>1, CallerSame DEF BlobInv, Verdicts
<1>6. DownstreamInOrder' /\ UpstreamInOrder'
  BY <1>1, CallerSame, DownstreamSame, UpstreamSame DEF BlobInv
<1> QED BY <1>2, <1>3, <1>4, <1>5, <1>6 DEF BlobInv

(* In every reachable state each party's queue is the stretch of the blob  *)
(* that its neighbours make it be (from_oci.rs 217-372).                   *)
THEOREM BlobInvariant == Spec => []BlobInv
<1>1. BlobInv /\ [Next]_vars => BlobInv'
  <2> SUFFICES ASSUME BlobInv, [Next]_vars PROVE BlobInv'
    OBVIOUS
  <2>1. CASE UNCHANGED vars
    BY <2>1, StutterKeeps
  <2>2. CASE Next
    <3>1. UNCHANGED job
      BY <2>2 DEF Next
    <3>2. CASE CallerNext
      BY <3>1, <3>2, CallerStepKeeps
    <3>3. CASE FeederNext
      BY <3>1, <3>3, FeedNextKeeps, FeedWriteKeeps, FeedEndsKeeps DEF FeederNext
    <3>4. CASE ChildNext
      BY <3>1, <3>4, ChildReadsKeeps, ChildWritesKeeps, ChildExitsKeeps DEF ChildNext
    <3>5. CASE ConsumerNext
      BY <3>1, <3>5, ConsumeKeeps, ConsumerLeavesKeeps DEF ConsumerNext
    <3> QED BY <2>2, <3>2, <3>3, <3>4, <3>5 DEF Next
  <2> QED BY <2>1, <2>2
<1> QED BY InitHolds, <1>1, PTL DEF Spec

(* Every variable keeps its type: no retry beyond max_retries, no more     *)
(* permits than the buffer began with, no chunk beyond the blob's end.     *)
THEOREM BlobTypeTheorem == Spec => []TypeOK
<1>1. BlobInv => TypeOK
  BY DEF BlobInv
<1> QED BY <1>1, BlobInvariant, PTL

-----------------------------------------------------------------------------
(* What it says of the blob.                                               *)

LEMMA PipelineHoldsTheBlob == BlobInv => NothingLost
<1> SUFFICES ASSUME BlobInv, buf.rx, stdin.rx, stdout.rx
             PROVE  out \o stdout.q \o input \o stdin.q \o feeding \o buf.q = FirstN(Accepted)
  BY DEF NothingLost
<1>1. /\ Run(out, 0) /\ Run(stdout.q, AtStdout) /\ Run(input, AtInput)
      /\ AtInput + Len(input) = eaten
  BY DEF BlobInv, DownstreamInOrder
<1>2. /\ Run(stdin.q, eaten) /\ Run(feeding, AtFeeding) /\ Run(buf.q, AtBuf)
      /\ AtBuf + Len(buf.q) = Accepted
  BY DEF BlobInv, UpstreamInOrder
<1>3. /\ out \in Seq(Chunks) /\ stdout.q \in Seq(Chunks) /\ input \in Seq(Chunks)
      /\ stdin.q \in Seq(Chunks) /\ feeding \in Seq(Chunks) /\ buf.q \in Seq(Chunks)
  BY QueueTypes, SeqTypes DEF BlobInv
<1>4. /\ AtStdout = Len(out) /\ AtStdout + Len(stdout.q) = AtInput
      /\ eaten + Len(stdin.q) = AtFeeding /\ AtFeeding + Len(feeding) = AtBuf
  BY DEF AtStdout, AtInput, AtFeeding, AtBuf
<1> DEFINE a == out \o stdout.q
           b == a \o input
           c == b \o stdin.q
           d == c \o feeding
           e == d \o buf.q
<1>5. a \in Seq(Chunks) /\ AtInput = Len(a) /\ Run(a, 0)
  BY <1>1, <1>3, <1>4, RunJoinTo
<1> HIDE DEF a
<1>6. b \in Seq(Chunks) /\ eaten = Len(b) /\ Run(b, 0)
  BY <1>1, <1>3, <1>5, RunJoinTo
<1> HIDE DEF b
<1>7. c \in Seq(Chunks) /\ AtFeeding = Len(c) /\ Run(c, 0)
  BY <1>2, <1>3, <1>4, <1>6, RunJoinTo
<1> HIDE DEF c
<1>8. d \in Seq(Chunks) /\ AtBuf = Len(d) /\ Run(d, 0)
  BY <1>2, <1>3, <1>4, <1>7, RunJoinTo
<1> HIDE DEF d
<1>9. e \in Seq(Chunks) /\ Accepted = Len(e) /\ Run(e, 0)
  BY <1>2, <1>3, <1>8, RunJoinTo
<1> HIDE DEF e
<1>10. e = FirstN(Accepted)
  BY <1>9, RunFromStart DEF FirstN
<1> QED BY <1>10 DEF a, b, c, d, e

(* Across the hand-over from detection to download and every resume, the   *)
(* pipeline holds the blob up to what was received, each chunk once and in *)
(* order (from_oci.rs 222-309, 335-342), however many connections it took. *)
THEOREM BlobNothingLostTheorem == Spec => []NothingLost
<1> QED BY PipelineHoldsTheBlob, BlobInvariant, PTL

(* What the consumer has written is the front of the blob, also after a    *)
(* failure of any of the parties (from_oci.rs 344-358).                    *)
THEOREM OutputTheorem == Spec => []OutputIsPrefix
<1>1. BlobInv => OutputIsPrefix
  <2> SUFFICES ASSUME BlobInv PROVE out = FirstN(Len(out)) /\ Len(out) <= Wanted
    BY DEF OutputIsPrefix
  <2>1. out \in Seq(Chunks) /\ Run(out, 0) /\ Len(out) <= Wanted
    BY SeqTypes DEF BlobInv, DownstreamInOrder
  <2> QED BY <2>1, RunFromStart DEF FirstN
<1> QED BY <1>1, BlobInvariant, PTL

(* run_blob_pipeline's Ok is right if the child ended well and the child   *)
(* or the download would have noticed a short stream (from_oci.rs 352-369).*)
THEOREM HonestTheorem == Spec => []OkNeedsAnHonestUpstream
<1>1. BlobInv => OkNeedsAnHonestUpstream
  <2> SUFFICES ASSUME BlobInv, result = "ok", child = "exit0", Compressed \/ download = "ok"
               PROVE  Len(out) = Wanted
    BY DEF OkNeedsAnHonestUpstream
  <2>1. cpc = "ok" /\ fpc = "ok" /\ eaten = received /\ (Compressed => eaten = N)
    BY DEF BlobInv, Verdicts
  <2>2. eaten = N
    BY <2>1 DEF BlobInv, Verdicts
  <2>3. Len(out) = Wanted \/ Len(out) = N
    BY <2>1, <2>2 DEF BlobInv, Verdicts
  <2>4. Len(out) <= Wanted /\ Wanted <= N /\ N \in Nat /\ Wanted \in Nat /\ Len(out) \in Nat
    BY Numbers, Lengths DEF BlobInv, DownstreamInOrder
  <2> DEFINE written == Len(out)
  <2>5. (written = Wanted \/ written = N) /\ written <= Wanted /\ Wanted <= N
        /\ N \in Nat /\ Wanted \in Nat
    BY <2>3, <2>4
  <2> HIDE DEF written
  <2>6. written = Wanted
    BY <2>5
  <2> QED BY <2>6 DEF written
<1> QED BY <1>1, BlobInvariant, PTL

(* Whatever a satisfied consumer's leaving does to those upstream, the     *)
(* pipeline does not answer with an error (from_oci.rs 352-354).           *)
THEOREM TeardownTheorem == Spec => []TeardownIsNotAnError
<1>1. BlobInv => TeardownIsNotAnError
  <2> SUFFICES ASSUME BlobInv, cpc = "ok", result = "err" PROVE FALSE
    BY DEF TeardownIsNotAnError
  <2>1. download = "none" /\ pc = "returned"
    BY DEF BlobInv, Verdicts
  <2> QED BY <2>1 DEF BlobInv, Counted, Idle
<1> QED BY <1>1, BlobInvariant, PTL
=============================================================================
