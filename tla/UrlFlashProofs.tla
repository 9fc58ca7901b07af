---------------------------- MODULE UrlFlashProofs ----------------------------
(***************************************************************************)
(* Theorems about UrlFlash, for every file, server, buffer size, retry     *)
(* limit and detection length.                                             *)
(***************************************************************************)
EXTENDS UrlFlash, MpscProofs

(* Where, in the image, the content of each queue begins.                  *)
AtWchan     == Len(device)
AtToWrite   == AtWchan + Len(wchan.q)
AtDetecting == AtToWrite + Len(toWrite)
AtDchan     == AtDetecting + Len(detecting)
AtInput     == AtDchan + Len(dchan.q)

(* The numbers of the chunks.                                              *)
Chunks == 1 .. N

-----------------------------------------------------------------------------
(* The inductive invariant.                                                *)

(* Who holds which end of which channel.                                   *)
EndsHeld ==
  /\ buf.tx <=> (pc \notin {"join", "await", "returned"})
  /\ (buf.rx <=> dpc = "running") /\ (dchan.tx <=> dpc = "running")
  /\ dchan.rx <=> (wpc \in {"running", "closing"})
  /\ wchan.tx <=> wpc = "running"
  /\ wchan.rx <=> (bpc \in {"opening", "running"})
  /\ ~buf.rx => buf.q = <<>>
  /\ ~dchan.rx => dchan.q = <<>>
  /\ ~wchan.rx => wchan.q = <<>>

(* What each verdict says of the parties before it.                        *)
Verdicts ==
  /\ pc = "returned" <=> result # "none"
  /\ bpc = "ok" => ~wchan.tx /\ synced
  /\ wpc = "ok" => bpc = "ok"
  /\ pc = "await" \/ result = "ok" => dpc = "ok"
  /\ result = "ok" => wpc = "ok"
  /\ dpc = "ok" /\ Format # "gzip" => ~buf.tx /\ input = <<>>
  /\ dpc = "ok" /\ Format # "none" => decoded = StreamEnd /\ ~derailed
  /\ Format = "none" => ~derailed
  /\ wpc \in {"closing", "ok"} /\ result # "err" =>
       dpc # "running" /\ toWrite = <<>> /\ detecting = <<>> /\ dchan.q = <<>>

(* The connection, counted in chunks.                                      *)
Counted ==
  /\ pc \in {"acquire", "enqueue"} => conn >= 1
  /\ HonoursRange =>
       /\ received <= N
       /\ pc \in {"acquire", "enqueue"} => conn = received + 1
       /\ pc = "stream" => conn = received
       /\ Framed /\ (pc \in {"join", "await"} \/ result = "ok") => received = N

(* Before the decoder: the front of the file up to bytes_received.         *)
UpstreamInOrder ==
  HonoursRange /\ ~derailed /\ (dpc = "running" \/ (dpc = "ok" /\ StreamEnd = N)) =>
    /\ Run(input, decoded)
    /\ Run(buf.q, decoded + Len(input))
    /\ decoded + Len(input) + Len(buf.q) = received

(* What the decoder sends is the image, block by block.                    *)
Trusted == ~derailed /\ (Format = "none" => HonoursRange)

DecodedIsImage ==
  Trusted =>
    /\ decoded <= StreamEnd
    /\ Format # "none" => \A k \in 1 .. decoded : k \notin Undecodable

(* The device, and what is on its way in the writer's channel: this also   *)
(* after a failure.                                                        *)
WrittenInOrder ==
  Trusted => Run(device, 0) /\ Run(wchan.q, AtWchan) /\ AtToWrite <= StreamEnd

(* Is the writer task still to pass on, or has it passed on, everything?   *)
Delivering == bpc # "err" /\ (wpc = "running" \/ (wpc # "err" /\ result # "err"))

DownstreamInOrder ==
  Trusted /\ Delivering =>
    /\ Run(toWrite, AtToWrite) /\ Run(detecting, AtDetecting) /\ Run(dchan.q, AtDchan)
    /\ AtInput = decoded
    /\ \A k \in 1 .. AtDchan : k \notin Unparsable

FlashInv ==
  /\ TypeOK /\ BufferPaidFor /\ EndsHeld /\ Verdicts /\ Counted
  /\ UpstreamInOrder /\ DecodedIsImage /\ WrittenInOrder /\ DownstreamInOrder

-----------------------------------------------------------------------------
(* Steps preserve the invariant.  What a party does to its own end of a    *)
(* channel is stated first in each proof, from the lemmas of MpscProofs.   *)

USE DEF Format, StreamEnd, Undecodable, Unparsable, N, HonoursRange, Framed

(* What is known of the source.                                            *)
LEMMA SourceFacts ==
  ASSUME TypeOK
  PROVE  /\ N \in Nat \ {0} /\ StreamEnd \in 1 .. N
         /\ Format \in {"none", "gzip", "xz"} /\ (Format = "none" => StreamEnd = N)
         /\ HonoursRange \in BOOLEAN /\ Framed \in BOOLEAN
         /\ MaxRetries \in Nat /\ BufBytes \in Nat \ {0}
BY UrlFlashAssumption DEF TypeOK

(* What the invariant says of the types of what a step works with.         *)
LEMMA InvTypes ==
  ASSUME FlashInv
  PROVE  /\ buf \in Channels(Chunks) /\ buf.q \in Seq(Chunks) /\ input \in Seq(Chunks)
         /\ dchan \in Channels(Blocks) /\ dchan.q \in Seq(Blocks)
         /\ wchan \in Channels(Blocks) /\ wchan.q \in Seq(Blocks)
         /\ toWrite \in Seq(Blocks) /\ detecting \in Seq(Blocks) /\ device \in Seq(Blocks)
         /\ Len(input) \in Nat /\ Len(dchan.q) \in Nat /\ Len(toWrite) \in Nat
         /\ Len(detecting) \in Nat
         /\ decoded \in Nat /\ received \in Nat /\ conn \in Nat /\ permits \in Nat
         /\ decoded + Len(input) \in Nat /\ StreamEnd \in Nat
         /\ AtWchan \in Nat /\ AtToWrite \in Nat /\ AtDetecting \in Nat /\ AtDchan \in Nat
         /\ AtInput \in Nat
<1>1. /\ buf \in Channels(Chunks) /\ input \in Seq(Chunks)
      /\ dchan \in Channels(Blocks) /\ wchan \in Channels(Blocks)
      /\ toWrite \in Seq(Blocks) /\ detecting \in Seq(Blocks) /\ device \in Seq(Blocks)
      /\ decoded \in Nat /\ received \in Nat /\ conn \in Nat /\ permits \in Nat
  BY SourceFacts DEF FlashInv, TypeOK, Blocks, Chunks
<1>2. /\ buf.q \in Seq(Chunks) /\ dchan.q \in Seq(Blocks) /\ wchan.q \in Seq(Blocks)
  BY <1>1, ChannelFields
<1>3. /\ Len(input) \in Nat /\ Len(dchan.q) \in Nat /\ Len(toWrite) \in Nat
      /\ Len(detecting) \in Nat
      /\ Len(device) \in Nat /\ Len(wchan.q) \in Nat
  BY <1>1, <1>2, LenProperties
<1>4. AtWchan \in Nat /\ AtToWrite \in Nat
  BY <1>3 DEF AtWchan, AtToWrite
<1>5. AtDetecting \in Nat
  BY <1>3, <1>4 DEF AtDetecting
<1>6. AtDchan \in Nat
  BY <1>3, <1>5 DEF AtDchan
<1>7. AtInput \in Nat
  BY <1>3, <1>6 DEF AtInput
<1>8. decoded + Len(input) \in Nat
  BY <1>1, <1>3
<1>9. StreamEnd \in Nat
  BY SourceFacts DEF FlashInv
<1> QED BY <1>1, <1>2, <1>3, <1>4, <1>5, <1>6, <1>7, <1>8, <1>9

(* The numbers among them alone, which the provers find sooner.            *)
LEMMA InvNumbers ==
  ASSUME FlashInv
  PROVE  /\ AtWchan \in Nat /\ AtToWrite \in Nat /\ AtDetecting \in Nat /\ AtDchan \in Nat
         /\ AtInput \in Nat /\ decoded \in Nat /\ Len(input) \in Nat /\ received \in Nat
         /\ decoded + Len(input) \in Nat /\ StreamEnd \in Nat
BY InvTypes, SMTT(30)

LEMMA InitHolds == Init => FlashInv
<1> SUFFICES ASSUME Init PROVE FlashInv
  OBVIOUS
<1> USE DEF Init, BlockWriterInit, DecoderInit, BufferInit
<1> USE NewChannelFacts
<1>1. TypeOK
  <2>1. /\ N \in Nat \ {0} /\ MaxRetries \in Nat /\ BufBytes \in Nat
        /\ <<>> \in Seq(Blocks) /\ <<>> \in Seq(Chunks)
    BY UrlFlashAssumption
  <2>2. /\ buf \in Channels(Chunks) /\ dchan \in Channels(Blocks) /\ wchan \in Channels(Blocks)
    OBVIOUS
  <2>3. 0 \in 0 .. N /\ 0 \in 0 .. MaxRetries /\ BufBytes \in 0 .. BufBytes
    BY <2>1
  <2> QED BY <2>1, <2>2, <2>3 DEF TypeOK, Chunks
<1>2. BufferPaidFor /\ EndsHeld /\ Verdicts /\ Counted
  BY <1>1 DEF BufferPaidFor, PaidFor, EndsHeld, Verdicts, Counted, TypeOK
<1>3. UpstreamInOrder /\ DecodedIsImage /\ WrittenInOrder /\ DownstreamInOrder
  <2>1. Len(<<>>) = 0 /\ StreamEnd \in Nat
    BY <1>1, SourceFacts
  <2>2. AtWchan = 0 /\ AtToWrite = 0 /\ AtDetecting = 0 /\ AtDchan = 0 /\ AtInput = 0
    BY <2>1 DEF AtWchan, AtToWrite, AtDetecting, AtDchan, AtInput
  <2> QED BY <2>1, <2>2, EmptyRun DEF UpstreamInOrder, DecodedIsImage, WrittenInOrder,
         DownstreamInOrder
<1> QED BY <1>1, <1>2, <1>3 DEF FlashInv

(* flash_from_url returns an error: buffer_tx goes.                        *)
LEMMA GiveUpKeeps ==
  ASSUME FlashInv, pc \in {"check", "connect", "broken", "join", "await"}, Return("err"),
         UNCHANGED <<source, conn, received, retries>>,
         DownloaderOnly
  PROVE  FlashInv'
<1> USE DEF FlashInv, Return, DownloaderOnly, writerTaskVars, blockWriterVars
<1>1. /\ buf' \in Channels(Chunks) /\ buf'.q = buf.q /\ ~buf'.tx /\ (buf'.rx <=> buf.rx)
      /\ permits' = permits
  BY InvTypes, TxDroppedFacts DEF DropTx
<1>2. TypeOK'
  BY <1>1, SourceFacts DEF TypeOK, Counted, Blocks, Chunks
<1>3. BufferPaidFor'
  BY <1>1 DEF BufferPaidFor, PaidFor, TypeOK
<1>4. EndsHeld'
  BY <1>1 DEF EndsHeld
<1>5. Verdicts'
  BY <1>1 DEF Verdicts, EndsHeld
<1>6. Counted'
  BY <1>1 DEF Counted
<1>7. UpstreamInOrder'
  BY <1>1 DEF UpstreamInOrder
<1>8. DecodedIsImage'
  BY <1>1 DEF DecodedIsImage, Trusted
<1>9. WrittenInOrder'
  BY <1>1 DEF WrittenInOrder, Trusted, AtWchan, AtToWrite
<1>10. DownstreamInOrder'
  BY <1>1 DEF DownstreamInOrder, Trusted, Delivering, AtWchan, AtToWrite, AtDetecting, AtDchan,
     AtInput
<1> QED BY <1>2, <1>3, <1>4, <1>5, <1>6, <1>7, <1>8, <1>9, <1>10

(* A step between the places of the retry loop.                            *)
LEMMA MoveOnKeeps ==
  ASSUME FlashInv, NEW label \in {"check", "connect", "broken"}, Goto(label),
         pc \in {"check", "connect", "stream", "broken"}, retries' \in 0 .. MaxRetries,
         UNCHANGED <<source, conn, received>>, DownloaderOnly
  PROVE  FlashInv'
<1> USE DEF FlashInv, Goto, DownloaderOnly, writerTaskVars, blockWriterVars
<1>1. TypeOK'
  BY SourceFacts DEF TypeOK, Counted, Blocks, Chunks
<1>2. BufferPaidFor'
  BY DEF BufferPaidFor, PaidFor, TypeOK
<1>3. EndsHeld'
  BY DEF EndsHeld
<1>4. Verdicts'
  BY DEF Verdicts, EndsHeld
<1>5. Counted'
  BY DEF Counted
<1>6. UpstreamInOrder'
  BY DEF UpstreamInOrder
<1>7. DecodedIsImage'
  BY DEF DecodedIsImage, Trusted
<1>8. WrittenInOrder'
  BY DEF WrittenInOrder, Trusted, AtWchan, AtToWrite
<1>9. DownstreamInOrder'
  BY DEF DownstreamInOrder, Trusted, Delivering, AtWchan, AtToWrite, AtDetecting, AtDchan, AtInput
<1> QED BY <1>1, <1>2, <1>3, <1>4, <1>5, <1>6, <1>7, <1>8, <1>9

LEMMA ConnectOkKeeps ==
  ASSUME FlashInv, ConnectOk, UNCHANGED source
  PROVE  FlashInv'
<1> USE DEF FlashInv, ConnectOk, Goto, DownloaderOnly, writerTaskVars, blockWriterVars
<1>1. TypeOK'
  BY SourceFacts DEF TypeOK, Counted, Blocks, Chunks
<1>2. BufferPaidFor'
  BY DEF BufferPaidFor, PaidFor, TypeOK
<1>3. EndsHeld'
  BY DEF EndsHeld
<1>4. Verdicts'
  BY DEF Verdicts, EndsHeld
<1>5. Counted'
  BY DEF Counted
<1>6. UpstreamInOrder'
  BY DEF UpstreamInOrder
<1>7. DecodedIsImage'
  BY DEF DecodedIsImage, Trusted
<1>8. WrittenInOrder'
  BY DEF WrittenInOrder, Trusted, AtWchan, AtToWrite
<1>9. DownstreamInOrder'
  BY DEF DownstreamInOrder, Trusted, Delivering, AtWchan, AtToWrite, AtDetecting, AtDchan, AtInput
<1> QED BY <1>1, <1>2, <1>3, <1>4, <1>5, <1>6, <1>7, <1>8, <1>9

LEMMA StreamChunkKeeps ==
  ASSUME FlashInv, StreamChunk, UNCHANGED source
  PROVE  FlashInv'
<1> USE DEF FlashInv, StreamChunk, Goto, DownloaderOnly, writerTaskVars, blockWriterVars
<1>1. TypeOK'
  BY SourceFacts DEF TypeOK, Counted, Blocks, Chunks
<1>2. BufferPaidFor'
  BY DEF BufferPaidFor, PaidFor, TypeOK
<1>3. EndsHeld'
  BY DEF EndsHeld
<1>4. Verdicts'
  BY DEF Verdicts, EndsHeld
<1>5. Counted'
  BY SourceFacts DEF Counted, TypeOK
<1>6. UpstreamInOrder'
  BY DEF UpstreamInOrder
<1>7. DecodedIsImage'
  BY DEF DecodedIsImage, Trusted
<1>8. WrittenInOrder'
  BY DEF WrittenInOrder, Trusted, AtWchan, AtToWrite
<1>9. DownstreamInOrder'
  BY DEF DownstreamInOrder, Trusted, Delivering, AtWchan, AtToWrite, AtDetecting, AtDchan, AtInput
<1> QED BY <1>1, <1>2, <1>3, <1>4, <1>5, <1>6, <1>7, <1>8, <1>9

LEMMA StreamEndsKeeps ==
  ASSUME FlashInv, StreamEnds, UNCHANGED source
  PROVE  FlashInv'
<1> USE DEF FlashInv, StreamEnds, DownloaderOnly, writerTaskVars, blockWriterVars
<1>1. /\ buf' \in Channels(Chunks) /\ buf'.q = buf.q /\ ~buf'.tx /\ (buf'.rx <=> buf.rx)
      /\ permits' = permits
  BY InvTypes, TxDroppedFacts DEF DropTx
<1>2. TypeOK'
  BY <1>1, SourceFacts DEF TypeOK, Counted, Blocks, Chunks
<1>3. BufferPaidFor'
  BY <1>1 DEF BufferPaidFor, PaidFor, TypeOK
<1>4. EndsHeld'
  BY <1>1 DEF EndsHeld
<1>5. Verdicts'
  BY <1>1 DEF Verdicts, EndsHeld
<1>6. Counted'
  BY <1>1 DEF Counted
<1>7. UpstreamInOrder'
  BY <1>1 DEF UpstreamInOrder
<1>8. DecodedIsImage'
  BY <1>1 DEF DecodedIsImage, Trusted
<1>9. WrittenInOrder'
  BY <1>1 DEF WrittenInOrder, Trusted, AtWchan, AtToWrite
<1>10. DownstreamInOrder'
  BY <1>1 DEF DownstreamInOrder, Trusted, Delivering, AtWchan, AtToWrite, AtDetecting, AtDchan,
     AtInput
<1> QED BY <1>2, <1>3, <1>4, <1>5, <1>6, <1>7, <1>8, <1>9, <1>10

LEMMA AcquireKeeps ==
  ASSUME FlashInv, Acquire, UNCHANGED source
  PROVE  FlashInv'
<1> USE DEF FlashInv, Acquire, TakePermit, DownloaderOnly, writerTaskVars, blockWriterVars
<1>1. TypeOK'
  BY SourceFacts DEF TypeOK, Counted, Blocks, Chunks
<1>2. BufferPaidFor'
  BY DEF BufferPaidFor, PaidFor, TypeOK
<1>3. EndsHeld'
  BY DEF EndsHeld
<1>4. Verdicts'
  BY DEF Verdicts, EndsHeld
<1>5. Counted'
  BY DEF Counted
<1>6. UpstreamInOrder'
  BY DEF UpstreamInOrder
<1>7. DecodedIsImage'
  BY DEF DecodedIsImage, Trusted
<1>8. WrittenInOrder'
  BY DEF WrittenInOrder, Trusted, AtWchan, AtToWrite
<1>9. DownstreamInOrder'
  BY DEF DownstreamInOrder, Trusted, Delivering, AtWchan, AtToWrite, AtDetecting, AtDchan, AtInput
<1> QED BY <1>1, <1>2, <1>3, <1>4, <1>5, <1>6, <1>7, <1>8, <1>9

LEMMA EnqueueKeeps ==
  ASSUME FlashInv, Enqueue, UNCHANGED source
  PROVE  FlashInv'
<1>types. /\ decoded \in Nat /\ Len(input) \in Nat
          /\ decoded + Len(input) \in Nat /\ received \in Nat
  BY InvNumbers
<1> USE DEF FlashInv, Enqueue, DownloaderOnly, writerTaskVars, blockWriterVars
<1>1. conn \in Chunks /\ buf \in Channels(Chunks) /\ buf.q \in Seq(Chunks)
  BY InvTypes DEF Counted, TypeOK, Chunks
<1>2. buf' = Sent(buf, conn) /\ permits' = permits /\ buf.rx
  BY DEF QueueChunk, CanSend
<1>3. buf' \in Channels(Chunks) /\ buf'.q = Append(buf.q, conn)
  BY <1>1, <1>2, SentFacts
<1>4. Len(buf'.q) = Len(buf.q) + 1 /\ Len(buf.q) \in Nat
  BY <1>1, <1>3
<1>5. (buf'.tx <=> buf.tx) /\ (buf'.rx <=> buf.rx)
  BY <1>1, <1>2, SentEnds
<1>6. TypeOK'
  BY <1>1, <1>2, <1>3, <1>4, <1>5, SourceFacts DEF TypeOK, Counted, Blocks, Chunks
<1>7. BufferPaidFor'
  BY <1>1, <1>2, <1>3, <1>4, <1>5 DEF BufferPaidFor, PaidFor, TypeOK
<1>8. EndsHeld'
  BY <1>1, <1>2, <1>3, <1>4, <1>5 DEF EndsHeld
<1>9. Verdicts'
  BY <1>1, <1>2, <1>3, <1>4, <1>5 DEF Verdicts, EndsHeld
<1>10. Counted'
  BY <1>1, <1>2, <1>3, <1>4, <1>5, SourceFacts DEF Counted, TypeOK
<1>11. UpstreamInOrder'
  <2> SUFFICES ASSUME HonoursRange, ~derailed, dpc = "running" \/ (dpc = "ok" /\ StreamEnd = N)
                PROVE  /\ Run(input, decoded)
                       /\ Run(buf'.q, decoded + Len(input))
                       /\ decoded + Len(input) + Len(buf'.q) = received'
    BY DEF UpstreamInOrder
  <2>1. /\ Run(input, decoded) /\ Run(buf.q, decoded + Len(input))
        /\ decoded + Len(input) + Len(buf.q) = received
    BY DEF UpstreamInOrder
  <2>2. conn = received + 1 /\ received' = received + 1
    BY DEF Counted
  <2>3. decoded \in Nat /\ Len(input) \in Nat /\ decoded + Len(input) \in Nat /\ received \in Nat
    BY <1>types
  <2>4. Run(buf'.q, decoded + Len(input))
    BY <1>1, <1>3, <1>4, <2>1, <2>2, <2>3, RunAppend
  <2>5. decoded + Len(input) + Len(buf'.q) = received'
    <3> DEFINE before == Len(buf.q)
               after == Len(buf'.q)
    <3>1. after = before + 1 /\ before \in Nat /\ decoded + Len(input) + before = received
      BY <1>4, <2>1
    <3> HIDE DEF before, after
    <3>2. decoded + Len(input) + after = received'
      BY <2>2, <2>3, <3>1
    <3> QED BY <3>2 DEF after
  <2> QED BY <2>1, <2>4, <2>5
<1>12. DecodedIsImage'
  BY <1>1, <1>2, <1>3, <1>4, <1>5 DEF DecodedIsImage, Trusted
<1>13. WrittenInOrder'
  BY <1>1, <1>2, <1>3, <1>4, <1>5 DEF WrittenInOrder, Trusted, AtWchan, AtToWrite
<1>14. DownstreamInOrder'
  BY <1>1, <1>2, <1>3, <1>4, <1>5 DEF DownstreamInOrder, Trusted, Delivering, AtWchan, AtToWrite,
     AtDetecting, AtDchan, AtInput
<1> QED BY <1>6, <1>7, <1>8, <1>9, <1>10, <1>11, <1>12, <1>13, <1>14

LEMMA EnqueueFailsKeeps ==
  ASSUME FlashInv, EnqueueFails, UNCHANGED source
  PROVE  FlashInv'
<1> USE DEF FlashInv, EnqueueFails, QueueFails, SendFails, DownloaderOnly, writerTaskVars, blockWriterVars
<1>1. TypeOK'
  BY SourceFacts DEF TypeOK, Counted, Blocks, Chunks
<1>2. BufferPaidFor'
  BY DEF BufferPaidFor, PaidFor, TypeOK, EndsHeld
<1>3. EndsHeld'
  BY DEF EndsHeld
<1>4. Verdicts'
  BY DEF Verdicts, EndsHeld
<1>5. Counted'
  BY DEF Counted
<1>6. UpstreamInOrder'
  BY DEF UpstreamInOrder
<1>7. DecodedIsImage'
  BY DEF DecodedIsImage, Trusted
<1>8. WrittenInOrder'
  BY DEF WrittenInOrder, Trusted, AtWchan, AtToWrite
<1>9. DownstreamInOrder'
  BY DEF DownstreamInOrder, Trusted, Delivering, AtWchan, AtToWrite, AtDetecting, AtDchan, AtInput
<1> QED BY <1>1, <1>2, <1>3, <1>4, <1>5, <1>6, <1>7, <1>8, <1>9

(* The decoder has ended well.                                             *)
LEMMA JoinedKeeps ==
  ASSUME FlashInv, pc = "join", dpc = "ok", Goto("await"),
         UNCHANGED <<source, conn, received, retries>>, DownloaderOnly
  PROVE  FlashInv'
<1> USE DEF FlashInv, Goto, DownloaderOnly, writerTaskVars, blockWriterVars
<1>1. TypeOK'
  BY SourceFacts DEF TypeOK, Counted, Blocks, Chunks
<1>2. BufferPaidFor'
  BY DEF BufferPaidFor, PaidFor, TypeOK
<1>3. EndsHeld'
  BY DEF EndsHeld
<1>4. Verdicts'
  BY DEF Verdicts, EndsHeld
<1>5. Counted'
  BY DEF Counted
<1>6. UpstreamInOrder'
  BY DEF UpstreamInOrder
<1>7. DecodedIsImage'
  BY DEF DecodedIsImage, Trusted
<1>8. WrittenInOrder'
  BY DEF WrittenInOrder, Trusted, AtWchan, AtToWrite
<1>9. DownstreamInOrder'
  BY DEF DownstreamInOrder, Trusted, Delivering, AtWchan, AtToWrite, AtDetecting, AtDchan, AtInput
<1> QED BY <1>1, <1>2, <1>3, <1>4, <1>5, <1>6, <1>7, <1>8, <1>9

(* The writer task has ended well, too.                                    *)
LEMMA SucceedKeeps ==
  ASSUME FlashInv, pc = "await", wpc = "ok", Return("ok"),
         UNCHANGED <<source, conn, received, retries>>, DownloaderOnly
  PROVE  FlashInv'
<1> USE DEF FlashInv, Return, DownloaderOnly, writerTaskVars, blockWriterVars
<1>1. /\ buf' \in Channels(Chunks) /\ buf'.q = buf.q /\ ~buf'.tx /\ (buf'.rx <=> buf.rx)
      /\ permits' = permits
  BY InvTypes, TxDroppedFacts DEF DropTx
<1>2. result = "none"
  BY DEF Verdicts, TypeOK
<1>3. TypeOK'
  BY <1>1, <1>2, SourceFacts DEF TypeOK, Counted, Blocks, Chunks
<1>4. BufferPaidFor'
  BY <1>1, <1>2 DEF BufferPaidFor, PaidFor, TypeOK
<1>5. EndsHeld'
  BY <1>1, <1>2 DEF EndsHeld
<1>6. Verdicts'
  BY <1>1, <1>2 DEF Verdicts, EndsHeld
<1>7. Counted'
  BY <1>1, <1>2 DEF Counted
<1>8. UpstreamInOrder'
  BY <1>1, <1>2 DEF UpstreamInOrder
<1>9. DecodedIsImage'
  BY <1>1, <1>2 DEF DecodedIsImage, Trusted
<1>10. WrittenInOrder'
  BY <1>1, <1>2 DEF WrittenInOrder, Trusted, AtWchan, AtToWrite
<1>11. DownstreamInOrder'
  BY <1>1, <1>2 DEF DownstreamInOrder, Trusted, Delivering, AtWchan, AtToWrite, AtDetecting,
     AtDchan, AtInput
<1> QED BY <1>3, <1>4, <1>5, <1>6, <1>7, <1>8, <1>9, <1>10, <1>11

(* The writer task returns an error.                                       *)
LEMMA TaskFailsKeeps ==
  ASSUME FlashInv, wpc = "running", TaskFails, WriterTaskOnly, UNCHANGED source
  PROVE  FlashInv'
<1> USE DEF FlashInv, TaskFails, WriterTaskOnly, downloaderVars
<1>1. /\ dchan' \in Channels(Blocks) /\ dchan'.q = <<>> /\ (dchan'.tx <=> dchan.tx) /\ ~dchan'.rx
  BY InvTypes, RxDroppedFacts
<1>2. /\ wchan' \in Channels(Blocks) /\ wchan'.q = wchan.q /\ ~wchan'.tx
      /\ (wchan'.rx <=> wchan.rx) /\ UNCHANGED <<bpc, device, synced>>
  BY InvTypes, TxDroppedFacts DEF LetGo
<1>3. TypeOK'
  BY <1>1, <1>2, SourceFacts DEF TypeOK, Counted, Blocks, Chunks
<1>4. BufferPaidFor'
  BY <1>1, <1>2 DEF BufferPaidFor, PaidFor, TypeOK
<1>5. EndsHeld'
  BY <1>1, <1>2 DEF EndsHeld
<1>6. Verdicts'
  BY <1>1, <1>2 DEF Verdicts, EndsHeld
<1>7. Counted'
  BY <1>1, <1>2 DEF Counted
<1>8. UpstreamInOrder'
  BY <1>1, <1>2 DEF UpstreamInOrder
<1>9. DecodedIsImage'
  BY <1>1, <1>2 DEF DecodedIsImage, Trusted
<1>10. WrittenInOrder'
  BY <1>1, <1>2 DEF WrittenInOrder, Trusted, AtWchan, AtToWrite
<1>11. DownstreamInOrder'
  BY <1>1, <1>2 DEF DownstreamInOrder, Trusted, Delivering, AtWchan, AtToWrite, AtDetecting,
     AtDchan, AtInput
<1> QED BY <1>3, <1>4, <1>5, <1>6, <1>7, <1>8, <1>9, <1>10, <1>11

LEMMA ReceiveBlockKeeps ==
  ASSUME FlashInv, ReceiveBlock, UNCHANGED source
  PROVE  FlashInv'
<1> USE DEF FlashInv, ReceiveBlock, blockWriterVars, WriterTaskOnly, downloaderVars
<1>1. dchan \in Channels(Blocks) /\ dchan.q \in Seq(Blocks) /\ dchan.q # <<>> /\ dchan.rx
  BY InvTypes DEF CanRecv
<1>2. /\ dchan' \in Channels(Blocks) /\ dchan'.q = Tail(dchan.q)
      /\ (dchan'.tx <=> dchan.tx) /\ (dchan'.rx <=> dchan.rx)
  BY <1>1, ReceivedFacts
<1>3. /\ Head(dchan.q) \in Blocks /\ Len(dchan.q) \in Nat \ {0}
      /\ Len(dchan'.q) = Len(dchan.q) - 1 /\ dchan'.q \in Seq(Blocks)
  BY <1>1, <1>2, NonEmptyFacts
<1>4. /\ Append(detecting, Head(dchan.q)) \in Seq(Blocks)
      /\ Len(Append(detecting, Head(dchan.q))) = Len(detecting) + 1
      /\ Len(detecting) \in Nat /\ AtToWrite \in Nat /\ AtDetecting \in Nat /\ AtDchan \in Nat
  BY <1>3, InvTypes
<1>5. Len(toWrite) = 0 /\ AtDetecting = AtToWrite
  BY <1>4, InvTypes DEF AtDetecting
<1>6. /\ \/ toWrite' = <<>> /\ detecting' = Append(detecting, Head(dchan.q))
         \/ detecting' = <<>> /\ toWrite' = Append(detecting, Head(dchan.q))
      /\ <<>> \in Seq(Blocks)
  OBVIOUS
<1>7. TypeOK'
  <2>1. toWrite' \in Seq(Blocks) /\ detecting' \in Seq(Blocks) /\ determined' \in BOOLEAN
    BY <1>4, <1>6 DEF TypeOK
  <2> QED BY <1>2, <2>1 DEF TypeOK, Blocks
<1>8. BufferPaidFor'
  BY <1>1, <1>2, <1>3, <1>4, <1>5, <1>6 DEF BufferPaidFor, PaidFor, TypeOK
<1>9. EndsHeld'
  BY <1>1, <1>2, <1>3, <1>4, <1>5, <1>6 DEF EndsHeld
<1>10. Verdicts'
  BY <1>1, <1>2, <1>3, <1>4, <1>5, <1>6 DEF Verdicts, EndsHeld
<1>11. Counted'
  BY <1>1, <1>2, <1>3, <1>4, <1>5, <1>6 DEF Counted
<1>12. UpstreamInOrder'
  BY <1>1, <1>2, <1>3, <1>4, <1>5, <1>6 DEF UpstreamInOrder
<1>13. DecodedIsImage'
  BY <1>1, <1>2, <1>3, <1>4, <1>5, <1>6 DEF DecodedIsImage, Trusted
<1>14. WrittenInOrder'
  BY <1>1, <1>2, <1>3, <1>4, <1>5, <1>6 DEF WrittenInOrder, Trusted, AtWchan, AtToWrite
<1>15. DownstreamInOrder'
  <2> SUFFICES ASSUME Trusted, Delivering
                PROVE  DownstreamInOrder'
    BY DEF DownstreamInOrder, Trusted, Delivering
  <2>1. /\ Run(detecting, AtDetecting) /\ Run(dchan.q, AtDchan)
        /\ AtInput = decoded /\ \A k \in 1 .. AtDchan : k \notin Unparsable
    BY DEF DownstreamInOrder
  <2>2. Head(dchan.q) = AtDchan + 1 /\ Run(dchan'.q, AtDchan + 1)
    BY <1>1, <1>2, <1>4, <2>1, RunTail
  <2>3. AtDchan = AtDetecting + Len(detecting)
    BY DEF AtDchan
  <2>4. Run(Append(detecting, Head(dchan.q)), AtToWrite)
    BY <1>3, <1>4, <1>5, <2>1, <2>2, <2>3, RunAppend, InvTypes
  <2>5. AtToWrite' = AtToWrite
    BY DEF AtToWrite, AtWchan
  <2>6. /\ Run(toWrite', AtToWrite') /\ Run(detecting', AtDetecting')
        /\ AtDchan' = AtDchan + 1
    <3>1. CASE toWrite' = <<>> /\ detecting' = Append(detecting, Head(dchan.q))
      <4>1. AtDetecting' = AtToWrite
        BY <1>4, <2>5, <3>1 DEF AtDetecting
      <4> QED BY <1>4, <1>5, <2>3, <2>4, <2>5, <3>1, <4>1, EmptyRun DEF AtDchan
    <3>2. CASE detecting' = <<>> /\ toWrite' = Append(detecting, Head(dchan.q))
      <4>1. AtDetecting' = AtToWrite + Len(detecting) + 1 /\ Len(detecting') = 0
        BY <1>4, <2>5, <3>2 DEF AtDetecting
      <4> QED BY <1>4, <1>5, <2>3, <2>4, <2>5, <3>2, <4>1, EmptyRun DEF AtDchan
    <3> QED BY <1>6, <3>1, <3>2
  <2>7. AtInput' = decoded
    <3>1. AtDchan + Len(dchan.q) = decoded
      BY <2>1 DEF AtInput
    <3> QED BY <1>1, <1>2, <1>3, <1>4, <2>6, <3>1 DEF AtInput, Channels
  <2>8. \A k \in 1 .. AtDchan' : k \notin Unparsable
    BY <1>4, <2>1, <2>2, <2>6
  <2> QED BY <2>2, <2>6, <2>7, <2>8 DEF DownstreamInOrder
<1> QED BY <1>7, <1>8, <1>9, <1>10, <1>11, <1>12, <1>13, <1>14, <1>15

LEMMA ReceiveAbandonedKeeps ==
  ASSUME FlashInv, ReceiveAbandoned, UNCHANGED source
  PROVE  FlashInv'
<1> USE DEF FlashInv, ReceiveAbandoned, WriterTaskOnly, downloaderVars
<1>1. dchan \in Channels(Blocks) /\ dchan.q \in Seq(Blocks) /\ dchan.q # <<>> /\ dchan.rx
  BY InvTypes DEF CanRecv
<1>2. /\ dchan' \in Channels(Blocks) /\ dchan'.q = Tail(dchan.q)
      /\ (dchan'.tx <=> dchan.tx) /\ (dchan'.rx <=> dchan.rx)
  BY <1>1, ReceivedFacts
<1>3. /\ wchan' \in Channels(Blocks) /\ wchan'.q = wchan.q /\ ~wchan'.tx
      /\ (wchan'.rx <=> wchan.rx) /\ UNCHANGED <<bpc, device, synced>>
  BY InvTypes, TxDroppedFacts DEF LetGo
<1>4. result = "err" /\ Tail(dchan.q) \in Seq(Blocks)
  BY <1>1, NonEmptyFacts DEF Verdicts, TypeOK
<1>5. TypeOK'
  BY <1>1, <1>2, <1>3, <1>4, SourceFacts DEF TypeOK, Counted, Blocks, Chunks
<1>6. BufferPaidFor'
  BY <1>1, <1>2, <1>3, <1>4 DEF BufferPaidFor, PaidFor, TypeOK
<1>7. EndsHeld'
  BY <1>1, <1>2, <1>3, <1>4 DEF EndsHeld
<1>8. Verdicts'
  BY <1>1, <1>2, <1>3, <1>4 DEF Verdicts, EndsHeld
<1>9. Counted'
  BY <1>1, <1>2, <1>3, <1>4 DEF Counted
<1>10. UpstreamInOrder'
  BY <1>1, <1>2, <1>3, <1>4 DEF UpstreamInOrder
<1>11. DecodedIsImage'
  BY <1>1, <1>2, <1>3, <1>4 DEF DecodedIsImage, Trusted
<1>12. WrittenInOrder'
  BY <1>1, <1>2, <1>3, <1>4 DEF WrittenInOrder, Trusted, AtWchan, AtToWrite
<1>13. DownstreamInOrder'
  BY <1>1, <1>2, <1>3, <1>4 DEF DownstreamInOrder, Trusted, Delivering, AtWchan, AtToWrite,
     AtDetecting, AtDchan, AtInput
<1> QED BY <1>5, <1>6, <1>7, <1>8, <1>9, <1>10, <1>11, <1>12, <1>13

LEMMA FinalizeDetectionKeeps ==
  ASSUME FlashInv, FinalizeDetection, UNCHANGED source
  PROVE  FlashInv'
<1> USE DEF FlashInv, FinalizeDetection, blockWriterVars, WriterTaskOnly, downloaderVars
<1>1. toWrite = <<>> /\ toWrite' = detecting /\ detecting' = <<>> /\ Len(<<>>) = 0
  OBVIOUS
<1>2. AtToWrite \in Nat /\ Len(detecting) \in Nat
  BY InvTypes
<1>3. /\ AtToWrite' = AtToWrite /\ AtDetecting = AtToWrite /\ AtDetecting' = AtDchan
      /\ AtDchan' = AtDchan /\ AtInput' = AtInput
  BY <1>1, <1>2 DEF AtWchan, AtToWrite, AtDetecting, AtDchan, AtInput
<1>4. TypeOK'
  BY <1>1, <1>2, <1>3, SourceFacts DEF TypeOK, Counted, Blocks, Chunks
<1>5. BufferPaidFor'
  BY <1>1, <1>2, <1>3 DEF BufferPaidFor, PaidFor, TypeOK
<1>6. EndsHeld'
  BY <1>1, <1>2, <1>3 DEF EndsHeld
<1>7. Verdicts'
  BY <1>1, <1>2, <1>3 DEF Verdicts, EndsHeld
<1>8. Counted'
  BY <1>1, <1>2, <1>3 DEF Counted
<1>9. UpstreamInOrder'
  BY <1>1, <1>2, <1>3 DEF UpstreamInOrder
<1>10. DecodedIsImage'
  BY <1>1, <1>2, <1>3 DEF DecodedIsImage, Trusted
<1>11. WrittenInOrder'
  BY <1>1, <1>2, <1>3 DEF WrittenInOrder, Trusted, AtWchan, AtToWrite
<1>12. DownstreamInOrder'
  BY <1>1, <1>3, EmptyRun DEF DownstreamInOrder, Trusted, Delivering
<1> QED BY <1>4, <1>5, <1>6, <1>7, <1>8, <1>9, <1>10, <1>11, <1>12

LEMMA HandOverKeeps ==
  ASSUME FlashInv, HandOver, UNCHANGED source
  PROVE  FlashInv'
<1>types. wchan \in Channels(Blocks) /\ wchan.q \in Seq(Blocks) /\ Len(wchan.q) \in Nat
  <2>1. wchan \in Channels(Blocks)
    BY DEF FlashInv, TypeOK
  <2>2. wchan.q \in Seq(Blocks)
    BY <2>1, ChannelFields
  <2>3. Len(wchan.q) \in Nat
    BY <2>2, LenProperties
  <2> QED BY <2>1, <2>2, <2>3
<1>nats. /\ AtWchan \in Nat /\ AtToWrite \in Nat /\ AtDetecting \in Nat /\ AtDchan \in Nat
         /\ AtInput \in Nat /\ decoded \in Nat /\ StreamEnd \in Nat
  BY InvNumbers
<1> USE DEF FlashInv, HandOver, WriterTaskOnly, downloaderVars
<1>1. /\ toWrite \in Seq(Blocks) /\ Head(toWrite) \in Blocks /\ Tail(toWrite) \in Seq(Blocks)
      /\ Len(Tail(toWrite)) = Len(toWrite) - 1 /\ Len(toWrite) \in Nat \ {0}
  BY InvTypes, NonEmptyFacts
<1>2. /\ wchan' = Sent(wchan, Head(toWrite)) /\ wchan.rx /\ UNCHANGED <<bpc, device, synced>>
  BY DEF Submit, CanSubmit, CanSend
<1>3. wchan \in Channels(Blocks) /\ wchan.q \in Seq(Blocks) /\ Len(wchan.q) \in Nat
  BY <1>types
<1>4. wchan' \in Channels(Blocks) /\ wchan'.q = Append(wchan.q, Head(toWrite))
  BY <1>1, <1>2, <1>3, SentFacts
<1>5. /\ Len(wchan'.q) = Len(wchan.q) + 1
      /\ (wchan'.tx <=> wchan.tx) /\ (wchan'.rx <=> wchan.rx)
  BY <1>1, <1>2, <1>3, <1>4, SentEnds
<1>6. /\ AtWchan \in Nat /\ AtToWrite \in Nat /\ AtDetecting \in Nat /\ AtDchan \in Nat
      /\ AtInput \in Nat /\ decoded \in Nat /\ StreamEnd \in Nat
  BY <1>nats
<1>7. /\ AtWchan' = AtWchan /\ AtToWrite' = AtToWrite + 1 /\ AtDetecting' = AtDetecting
      /\ AtDchan' = AtDchan /\ AtInput' = AtInput
  <2>1. AtWchan' = AtWchan /\ AtToWrite = AtWchan + Len(wchan.q)
    BY <1>2 DEF AtWchan, AtToWrite
  <2>2. AtToWrite' = AtToWrite + 1
    BY <1>3, <1>5, <1>6, <2>1 DEF AtToWrite
  <2>3. AtDetecting' = AtDetecting
    BY <1>1, <1>6, <2>2 DEF AtDetecting
  <2> QED BY <2>1, <2>2, <2>3 DEF AtDchan, AtInput
<1>8. ASSUME Trusted
      PROVE  /\ Delivering /\ Head(toWrite) = AtToWrite + 1 /\ Run(Tail(toWrite), AtToWrite + 1)
             /\ AtToWrite + Len(toWrite) <= StreamEnd
  <2>1. Delivering
    BY <1>2 DEF EndsHeld, Delivering
  <2>2. Run(toWrite, AtToWrite) /\ AtInput = decoded /\ decoded <= StreamEnd
    BY <1>8, <2>1 DEF DownstreamInOrder, DecodedIsImage
  <2>3. AtToWrite + Len(toWrite) <= AtInput
    <3>1. Len(toWrite) \in Nat /\ Len(detecting) \in Nat /\ Len(dchan.q) \in Nat /\ AtToWrite \in Nat
      BY InvTypes
    <3>2. AtInput = AtToWrite + Len(toWrite) + Len(detecting) + Len(dchan.q)
      BY DEF AtInput, AtDchan, AtDetecting
    <3> QED BY <3>1, <3>2, InvTypes DEF Channels
  <2> QED BY <1>1, <1>6, <2>1, <2>2, <2>3, RunTail
<1>9. TypeOK'
  BY <1>1, <1>2, <1>3, <1>4, <1>5, <1>6, <1>7, <1>8, SourceFacts
     DEF TypeOK, Counted, Blocks, Chunks
<1>10. BufferPaidFor'
  BY <1>1, <1>2, <1>3, <1>4, <1>5, <1>6, <1>7, <1>8 DEF BufferPaidFor, PaidFor, TypeOK
<1>11. EndsHeld'
  BY <1>1, <1>2, <1>3, <1>4, <1>5, <1>6, <1>7, <1>8 DEF EndsHeld
<1>12. Verdicts'
  BY <1>1, <1>2, <1>3, <1>4, <1>5, <1>6, <1>7, <1>8 DEF Verdicts, EndsHeld
<1>13. Counted'
  BY <1>1, <1>2, <1>3, <1>4, <1>5, <1>6, <1>7, <1>8 DEF Counted
<1>14. UpstreamInOrder'
  BY <1>1, <1>2, <1>3, <1>4, <1>5, <1>6, <1>7, <1>8 DEF UpstreamInOrder
<1>15. DecodedIsImage'
  BY <1>1, <1>2, <1>3, <1>4, <1>5, <1>6, <1>7, <1>8 DEF DecodedIsImage, Trusted
<1>16. WrittenInOrder'
  <2>1. SUFFICES ASSUME Trusted PROVE WrittenInOrder'
    BY DEF WrittenInOrder, Trusted
  <2>2. Head(toWrite) = AtWchan + Len(wchan.q) + 1
    BY <1>8, <2>1 DEF AtToWrite
  <2>3. Run(wchan'.q, AtWchan)
    BY <1>1, <1>3, <1>4, <1>6, <2>1, <2>2, RunAppend DEF WrittenInOrder
  <2> QED BY <1>1, <1>2, <1>6, <1>7, <1>8, <2>1, <2>3 DEF WrittenInOrder
<1>17. DownstreamInOrder'
  <2>1. SUFFICES ASSUME Trusted PROVE DownstreamInOrder'
    BY DEF DownstreamInOrder, Trusted
  <2> QED BY <1>7, <1>8, <2>1 DEF DownstreamInOrder
<1> QED BY <1>9, <1>10, <1>11, <1>12, <1>13, <1>14, <1>15, <1>16, <1>17

LEMMA CloseWriterKeeps ==
  ASSUME FlashInv, CloseWriter, UNCHANGED source
  PROVE  FlashInv'
<1> USE DEF FlashInv, CloseWriter, AtEof, WriterTaskOnly, downloaderVars
<1>1. /\ wchan' \in Channels(Blocks) /\ wchan'.q = wchan.q /\ ~wchan'.tx
      /\ (wchan'.rx <=> wchan.rx) /\ UNCHANGED <<bpc, device, synced>>
  BY InvTypes, TxDroppedFacts DEF LetGo
<1>2. TypeOK'
  BY <1>1, SourceFacts DEF TypeOK, Counted, Blocks, Chunks
<1>3. BufferPaidFor'
  BY <1>1 DEF BufferPaidFor, PaidFor, TypeOK
<1>4. EndsHeld'
  BY <1>1 DEF EndsHeld
<1>5. Verdicts'
  BY <1>1 DEF Verdicts, EndsHeld
<1>6. Counted'
  BY <1>1 DEF Counted
<1>7. UpstreamInOrder'
  BY <1>1 DEF UpstreamInOrder
<1>8. DecodedIsImage'
  BY <1>1 DEF DecodedIsImage, Trusted
<1>9. WrittenInOrder'
  BY <1>1 DEF WrittenInOrder, Trusted, AtWchan, AtToWrite
<1>10. DownstreamInOrder'
  BY <1>1 DEF DownstreamInOrder, Trusted, Delivering, AtWchan, AtToWrite, AtDetecting, AtDchan,
     AtInput
<1> QED BY <1>2, <1>3, <1>4, <1>5, <1>6, <1>7, <1>8, <1>9, <1>10

LEMMA WriterClosedKeeps ==
  ASSUME FlashInv, WriterClosed, UNCHANGED source
  PROVE  FlashInv'
<1> USE DEF FlashInv, WriterClosed, WriterDone, blockWriterVars, WriterTaskOnly, downloaderVars
<1>1. /\ dchan' \in Channels(Blocks) /\ dchan'.q = <<>> /\ (dchan'.tx <=> dchan.tx) /\ ~dchan'.rx
  BY InvTypes, RxDroppedFacts
<1>2. ASSUME Delivering' PROVE Delivering /\ dchan.q = <<>>
  BY <1>2 DEF Delivering, Verdicts
<1>3. TypeOK'
  BY <1>1, <1>2, SourceFacts DEF TypeOK, Counted, Blocks, Chunks
<1>4. BufferPaidFor'
  BY <1>1, <1>2 DEF BufferPaidFor, PaidFor, TypeOK
<1>5. EndsHeld'
  BY <1>1, <1>2 DEF EndsHeld
<1>6. Verdicts'
  BY <1>1, <1>2 DEF Verdicts, EndsHeld
<1>7. Counted'
  BY <1>1, <1>2 DEF Counted
<1>8. UpstreamInOrder'
  BY <1>1, <1>2 DEF UpstreamInOrder
<1>9. DecodedIsImage'
  BY <1>1, <1>2 DEF DecodedIsImage, Trusted
<1>10. WrittenInOrder'
  BY <1>1, <1>2 DEF WrittenInOrder, Trusted, AtWchan, AtToWrite
<1>11. DownstreamInOrder'
  BY <1>1, <1>2 DEF DownstreamInOrder, Trusted, AtWchan, AtToWrite, AtDetecting, AtDchan, AtInput
<1> QED BY <1>3, <1>4, <1>5, <1>6, <1>7, <1>8, <1>9, <1>10, <1>11

LEMMA ReadChunkKeeps ==
  ASSUME FlashInv, ReadChunk,
         UNCHANGED <<source, downloaderVars, writerTaskVars, blockWriterVars>>
  PROVE  FlashInv'
<1>types. /\ decoded \in Nat /\ Len(input) \in Nat /\ decoded + Len(input) \in Nat
          /\ received \in Nat /\ input \in Seq(Chunks)
  BY InvTypes
<1> USE DEF FlashInv, ReadChunk, downloaderVars, writerTaskVars, blockWriterVars
<1>1. buf \in Channels(Chunks) /\ buf.q \in Seq(Chunks) /\ buf.q # <<>> /\ buf.rx
  BY InvTypes DEF ChunkReady, CanRecv
<1>2. /\ buf' \in Channels(Chunks) /\ buf'.q = Tail(buf.q)
      /\ (buf'.tx <=> buf.tx) /\ (buf'.rx <=> buf.rx) /\ permits' = permits + 1
  BY <1>1, ReceivedFacts DEF TakeChunk
<1>3. /\ NextChunk \in Chunks /\ Len(buf'.q) = Len(buf.q) - 1 /\ buf'.q \in Seq(Chunks)
      /\ Len(buf.q) \in Nat \ {0}
  BY <1>1, <1>2, NonEmptyFacts DEF NextChunk
<1>4. permits + Len(buf.q) + (IF pc = "enqueue" THEN 1 ELSE 0) = BufBytes
  BY <1>1 DEF BufferPaidFor, PaidFor
<1>5. permits \in Nat /\ permits' \in 0 .. BufBytes
  <2> DEFINE queued == Len(buf.q)
  <2>1. queued \in Nat \ {0} /\ permits + queued + (IF pc = "enqueue" THEN 1 ELSE 0) = BufBytes
    BY <1>3, <1>4
  <2>2. permits \in Nat /\ permits' = permits + 1 /\ BufBytes \in Nat
    BY <1>2, InvTypes, SourceFacts
  <2> HIDE DEF queued
  <2> QED BY <2>1, <2>2
<1>6. input' \in Seq(Chunks) /\ Len(input') = Len(input) + 1
  BY <1>3, InvTypes
<1>7. TypeOK'
  BY <1>1, <1>2, <1>3, <1>4, <1>5, <1>6, SourceFacts DEF TypeOK, Counted, Blocks, Chunks
<1>8. BufferPaidFor'
  <2>1. permits' + Len(buf'.q) = permits + Len(buf.q)
    BY <1>1, <1>2, <1>3, <1>5 DEF Channels
  <2> QED BY <1>4, <2>1 DEF BufferPaidFor, PaidFor
<1>9. EndsHeld'
  BY <1>1, <1>2, <1>3, <1>4, <1>5, <1>6 DEF EndsHeld
<1>10. Verdicts'
  BY <1>1, <1>2, <1>3, <1>4, <1>5, <1>6 DEF Verdicts, EndsHeld
<1>11. Counted'
  BY <1>1, <1>2, <1>3, <1>4, <1>5, <1>6 DEF Counted
<1>12. UpstreamInOrder'
  <2> SUFFICES ASSUME HonoursRange, ~derailed
                PROVE  UpstreamInOrder'
    BY DEF UpstreamInOrder
  <2>1. /\ Run(input, decoded) /\ Run(buf.q, decoded + Len(input))
        /\ decoded + Len(input) + Len(buf.q) = received
    BY DEF UpstreamInOrder
  <2>2. decoded \in Nat /\ Len(input) \in Nat /\ decoded + Len(input) \in Nat /\ received \in Nat /\ input \in Seq(Chunks)
    BY <1>types
  <2>3. NextChunk = decoded + Len(input) + 1 /\ Run(buf'.q, decoded + Len(input) + 1)
    BY <1>1, <1>2, <2>1, <2>2, RunTail DEF NextChunk
  <2>4. Run(input', decoded)
    BY <1>3, <2>1, <2>2, <2>3, RunAppend
  <2>5. decoded + Len(input') = decoded + Len(input) + 1
    BY <1>6, <2>2
  <2>6. decoded + Len(input') + Len(buf'.q) = received
    <3> DEFINE before == Len(buf.q)
               after == Len(buf'.q)
    <3>1. after = before - 1 /\ before \in Nat /\ decoded + Len(input) + before = received
      BY <1>3, <2>1
    <3> HIDE DEF before, after
    <3>2. decoded + Len(input') + after = received
      BY <2>2, <2>5, <3>1
    <3> QED BY <3>2 DEF after
  <2> QED BY <2>3, <2>4, <2>5, <2>6 DEF UpstreamInOrder
<1>13. DecodedIsImage'
  BY <1>1, <1>2, <1>3, <1>4, <1>5, <1>6 DEF DecodedIsImage, Trusted
<1>14. WrittenInOrder'
  BY <1>1, <1>2, <1>3, <1>4, <1>5, <1>6 DEF WrittenInOrder, Trusted, AtWchan, AtToWrite
<1>15. DownstreamInOrder'
  BY <1>1, <1>2, <1>3, <1>4, <1>5, <1>6 DEF DownstreamInOrder, Trusted, Delivering, AtWchan,
     AtToWrite, AtDetecting, AtDchan, AtInput
<1> QED BY <1>7, <1>8, <1>9, <1>10, <1>11, <1>12, <1>13, <1>14, <1>15

LEMMA DecodeKeeps ==
  ASSUME FlashInv, Decode, UNCHANGED <<source, downloaderVars, writerTaskVars, blockWriterVars>>
  PROVE  FlashInv'
<1> USE DEF FlashInv, Decode, downloaderVars, writerTaskVars, blockWriterVars
<1>1. /\ input \in Seq(Chunks) /\ Head(input) \in Chunks /\ Tail(input) \in Seq(Chunks)
      /\ Len(Tail(input)) = Len(input) - 1 /\ Len(input) \in Nat \ {0}
  BY InvTypes, NonEmptyFacts
<1>2. /\ dchan \in Channels(Blocks) /\ dchan.q \in Seq(Blocks) /\ dchan.rx
      /\ decoded \in Nat /\ received \in Nat /\ Len(dchan.q) \in Nat /\ AtDchan \in Nat
      /\ AtInput \in Nat
  BY InvTypes DEF CanSend
<1>3. PICK item \in Blocks : dchan' = Sent(dchan, item) /\ (~derailed' => item = Head(input))
  <2>1. Head(input) \in Blocks /\ Garbage \in Blocks
    BY <1>1, SourceFacts DEF Chunks, Blocks, Garbage
  <2>2. CASE Format = "none" \/ IsNext(Head(input))
    BY <2>1, <2>2
  <2>3. CASE ~(Format = "none" \/ IsNext(Head(input)))
    BY <2>1, <2>3
  <2> QED BY <2>2, <2>3
<1>4. dchan' \in Channels(Blocks) /\ dchan'.q = Append(dchan.q, item)
  BY <1>2, <1>3, SentFacts
<1>5. /\ Len(dchan'.q) = Len(dchan.q) + 1 /\ decoded' \in Nat /\ derailed' \in BOOLEAN
      /\ (dchan'.tx <=> dchan.tx) /\ (dchan'.rx <=> dchan.rx)
  BY <1>2, <1>3, <1>4, SentEnds
<1>6. ASSUME HonoursRange, ~derailed'
      PROVE  /\ ~derailed /\ decoded' = decoded + 1
             /\ Run(buf.q, decoded + Len(input)) /\ decoded + Len(input) + Len(buf.q) = received
             /\ Head(input) = decoded + 1 /\ Run(Tail(input), decoded + 1)
  <2>1. ~derailed /\ decoded' = decoded + 1
    BY <1>6 DEF IsNext, Verdicts
  <2>2. /\ Run(input, decoded)
        /\ Run(buf.q, decoded + Len(input)) /\ decoded + Len(input) + Len(buf.q) = received
    BY <1>6, <2>1 DEF UpstreamInOrder
  <2> QED BY <1>1, <1>2, <2>1, <2>2, RunTail
<1>7. ASSUME Trusted'
      PROVE  /\ Trusted /\ decoded' = decoded + 1 /\ item = decoded + 1 /\ decoded + 1 <= StreamEnd
             /\ Format # "none" => decoded + 1 \notin Undecodable
  <2>1. CASE Format # "none"
    BY <1>3, <1>7, <2>1 DEF Trusted, IsNext
  <2>2. CASE Format = "none"
    <3>1. HonoursRange /\ ~derailed' /\ StreamEnd = N
      BY <1>7, <2>2, SourceFacts DEF Trusted
    <3> QED BY <1>1, <1>3, <1>6, <2>2, <3>1 DEF Trusted, Chunks
  <2> QED BY <2>1, <2>2
<1>8. TypeOK'
  BY <1>1, <1>4, <1>5 DEF TypeOK, Blocks, Chunks
<1>9. BufferPaidFor'
  BY <1>1, <1>2, <1>3, <1>4, <1>5, <1>6, <1>7 DEF BufferPaidFor, PaidFor, TypeOK
<1>10. EndsHeld'
  BY <1>2, <1>4, <1>5 DEF EndsHeld
<1>11. Verdicts'
  BY <1>1, <1>2, <1>3, <1>4, <1>5, <1>6, <1>7 DEF Verdicts, EndsHeld
<1>12. Counted'
  BY <1>1, <1>2, <1>3, <1>4, <1>5, <1>6, <1>7 DEF Counted
<1>13. UpstreamInOrder'
  <2>1. SUFFICES ASSUME HonoursRange, ~derailed' PROVE UpstreamInOrder'
    BY DEF UpstreamInOrder
  <2>2. decoded' + Len(input') = decoded + Len(input)
    BY <1>1, <1>2, <1>6, <2>1
  <2> QED BY <1>2, <1>6, <2>1, <2>2 DEF UpstreamInOrder
<1>14. DecodedIsImage'
  BY <1>2, <1>7 DEF DecodedIsImage
<1>15. WrittenInOrder'
  BY <1>7 DEF WrittenInOrder, AtToWrite, AtWchan
<1>16. DownstreamInOrder'
  <2>1. SUFFICES ASSUME Trusted', Delivering PROVE DownstreamInOrder'
    BY DEF DownstreamInOrder, Delivering
  <2>2. /\ AtToWrite' = AtToWrite /\ AtDetecting' = AtDetecting /\ AtDchan' = AtDchan
        /\ AtInput' = AtInput + 1
    <3>1. /\ AtToWrite' = AtToWrite /\ AtDetecting' = AtDetecting /\ AtDchan' = AtDchan
      BY DEF AtWchan, AtToWrite, AtDetecting, AtDchan
    <3>2. Len(dchan'.q) = Len(dchan.q) + 1
      BY <1>5
    <3> HIDE DEF FlashInv, Decode
    <3> QED BY <1>2, <3>1, <3>2 DEF AtInput
  <2>3. /\ Run(toWrite, AtToWrite) /\ Run(detecting, AtDetecting) /\ Run(dchan.q, AtDchan)
        /\ AtDchan + Len(dchan.q) = decoded /\ \A k \in 1 .. AtDchan : k \notin Unparsable
    BY <1>7, <2>1 DEF DownstreamInOrder, AtInput
  <2>4. Run(dchan'.q, AtDchan)
    BY <1>2, <1>3, <1>4, <1>7, <2>1, <2>3, RunAppend
  <2> QED BY <1>2, <1>7, <2>1, <2>2, <2>3, <2>4 DEF DownstreamInOrder, AtInput
<1> QED BY <1>8, <1>9, <1>10, <1>11, <1>12, <1>13, <1>14, <1>15, <1>16

LEMMA DecoderFailsKeeps ==
  ASSUME FlashInv, dpc = "running", ThreadReturns("err"),
         UNCHANGED <<source, downloaderVars, writerTaskVars, blockWriterVars>>
  PROVE  FlashInv'
<1> USE DEF FlashInv, ThreadReturns, downloaderVars, writerTaskVars, blockWriterVars
<1>1. /\ buf' \in Channels(Chunks) /\ buf'.q = <<>> /\ (buf'.tx <=> buf.tx) /\ ~buf'.rx
      /\ permits' = permits
  BY InvTypes, RxDroppedFacts DEF DropRx
<1>2. /\ dchan' \in Channels(Blocks) /\ dchan'.q = dchan.q /\ ~dchan'.tx
      /\ (dchan'.rx <=> dchan.rx)
  BY InvTypes, TxDroppedFacts
<1>3. TypeOK'
  BY <1>1, <1>2, SourceFacts DEF TypeOK, Counted, Blocks, Chunks
<1>4. BufferPaidFor'
  BY <1>1, <1>2 DEF BufferPaidFor, PaidFor, TypeOK
<1>5. EndsHeld'
  BY <1>1, <1>2 DEF EndsHeld
<1>6. Verdicts'
  BY <1>1, <1>2 DEF Verdicts, EndsHeld
<1>7. Counted'
  BY <1>1, <1>2 DEF Counted
<1>8. UpstreamInOrder'
  BY <1>1, <1>2 DEF UpstreamInOrder
<1>9. DecodedIsImage'
  BY <1>1, <1>2 DEF DecodedIsImage, Trusted
<1>10. WrittenInOrder'
  BY <1>1, <1>2 DEF WrittenInOrder, Trusted, AtWchan, AtToWrite
<1>11. DownstreamInOrder'
  BY <1>1, <1>2 DEF DownstreamInOrder, Trusted, Delivering, AtWchan, AtToWrite, AtDetecting,
     AtDchan, AtInput
<1> QED BY <1>3, <1>4, <1>5, <1>6, <1>7, <1>8, <1>9, <1>10, <1>11

LEMMA DecodeEndKeeps ==
  ASSUME FlashInv, DecodeEnd,
         UNCHANGED <<source, downloaderVars, writerTaskVars, blockWriterVars>>
  PROVE  FlashInv'
<1> USE DEF FlashInv, DecodeEnd, AtStreamEnd, ThreadReturns, downloaderVars, writerTaskVars,
        blockWriterVars
<1>1. /\ buf' \in Channels(Chunks) /\ buf'.q = <<>> /\ (buf'.tx <=> buf.tx) /\ ~buf'.rx
      /\ permits' = permits
  BY InvTypes, RxDroppedFacts DEF DropRx
<1>2. /\ dchan' \in Channels(Blocks) /\ dchan'.q = dchan.q /\ ~dchan'.tx
      /\ (dchan'.rx <=> dchan.rx)
  BY InvTypes, TxDroppedFacts
<1>3. TypeOK'
  BY <1>1, <1>2, SourceFacts DEF TypeOK, Counted, Blocks, Chunks
<1>4. BufferPaidFor'
  BY <1>1, <1>2 DEF BufferPaidFor, PaidFor, TypeOK
<1>5. EndsHeld'
  BY <1>1, <1>2 DEF EndsHeld
<1>6. Verdicts'
  BY <1>1, <1>2, SourceFacts DEF Verdicts, EndsHeld, NoMore, AtEof, StreamComplete
<1>7. Counted'
  BY <1>1, <1>2 DEF Counted
<1>8. UpstreamInOrder'
  <2>1. SUFFICES ASSUME HonoursRange, ~derailed, StreamEnd = N
               PROVE  UpstreamInOrder'
    BY DEF UpstreamInOrder
  <2>2. /\ Run(input, decoded) /\ decoded + Len(input) + Len(buf.q) = received /\ received <= N
    BY <2>1 DEF UpstreamInOrder, Counted
  <2>3. decoded \in Nat /\ Len(input) \in Nat /\ Len(buf.q) \in Nat /\ buf.q \in Seq(Chunks) /\ Len(<<>>) = 0
    BY InvTypes, LenProperties
  <2>4. CASE Format = "gzip"
    <3>1. decoded = N
      BY <2>1, <2>4 DEF StreamComplete
    <3>2. Len(input) = 0 /\ received = N
      BY <2>2, <2>3, <3>1, SourceFacts
    <3> QED BY <1>1, <2>2, <2>3, <3>1, <3>2, EmptyRun DEF UpstreamInOrder
  <2>5. CASE Format # "gzip"
    <3>1. buf.q = <<>>
      BY <2>5, SourceFacts DEF NoMore, AtEof
    <3> QED BY <1>1, <2>2, <2>3, <3>1, EmptyRun DEF UpstreamInOrder
  <2> QED BY <2>4, <2>5
<1>9. DecodedIsImage'
  BY <1>1, <1>2 DEF DecodedIsImage, Trusted
<1>10. WrittenInOrder'
  BY <1>1, <1>2 DEF WrittenInOrder, Trusted, AtWchan, AtToWrite
<1>11. DownstreamInOrder'
  BY <1>1, <1>2 DEF DownstreamInOrder, Trusted, Delivering, AtWchan, AtToWrite, AtDetecting,
     AtDchan, AtInput
<1> QED BY <1>3, <1>4, <1>5, <1>6, <1>7, <1>8, <1>9, <1>10, <1>11

LEMMA ThreadFailsKeeps ==
  ASSUME FlashInv, bpc \in {"opening", "running"}, ThreadFails,
         UNCHANGED <<source, downloaderVars, writerTaskVars, decoderVars>>
  PROVE  FlashInv'
<1> USE DEF FlashInv, ThreadFails, downloaderVars, writerTaskVars, decoderVars
<1>1. /\ wchan' \in Channels(Blocks) /\ wchan'.q = <<>> /\ (wchan'.tx <=> wchan.tx) /\ ~wchan'.rx
  BY InvTypes, RxDroppedFacts
<1>2. TypeOK'
  BY <1>1, SourceFacts DEF TypeOK, Counted, Blocks, Chunks
<1>3. BufferPaidFor'
  BY <1>1 DEF BufferPaidFor, PaidFor, TypeOK
<1>4. EndsHeld'
  BY <1>1 DEF EndsHeld
<1>5. Verdicts'
  BY <1>1 DEF Verdicts, EndsHeld
<1>6. Counted'
  BY <1>1 DEF Counted
<1>7. UpstreamInOrder'
  BY <1>1 DEF UpstreamInOrder
<1>8. DecodedIsImage'
  BY <1>1 DEF DecodedIsImage, Trusted
<1>9. WrittenInOrder'
  <2>1. Len(device) \in Nat /\ Len(wchan.q) \in Nat /\ Len(wchan'.q) = 0 /\ StreamEnd \in Nat
    <3>1. Len(<<>>) = 0 /\ StreamEnd \in Nat
      BY SourceFacts
    <3> QED BY <1>1, <3>1, InvTypes, LenProperties
  <2> QED BY <1>1, <2>1, EmptyRun DEF WrittenInOrder, Trusted, AtWchan, AtToWrite
<1>10. DownstreamInOrder'
  BY <1>1 DEF DownstreamInOrder, Trusted, Delivering, AtWchan, AtToWrite, AtDetecting, AtDchan,
     AtInput
<1> QED BY <1>2, <1>3, <1>4, <1>5, <1>6, <1>7, <1>8, <1>9, <1>10

LEMMA OpenedKeeps ==
  ASSUME FlashInv, bpc = "opening", bpc' = "running", UNCHANGED <<wchan, device, synced>>,
         UNCHANGED <<source, downloaderVars, writerTaskVars, decoderVars>>
  PROVE  FlashInv'
<1> USE DEF FlashInv, downloaderVars, writerTaskVars, decoderVars
<1>1. TypeOK'
  BY SourceFacts DEF TypeOK, Counted, Blocks, Chunks
<1>2. BufferPaidFor'
  BY DEF BufferPaidFor, PaidFor, TypeOK
<1>3. EndsHeld'
  BY DEF EndsHeld
<1>4. Verdicts'
  BY DEF Verdicts, EndsHeld
<1>5. Counted'
  BY DEF Counted
<1>6. UpstreamInOrder'
  BY DEF UpstreamInOrder
<1>7. DecodedIsImage'
  BY DEF DecodedIsImage, Trusted
<1>8. WrittenInOrder'
  BY DEF WrittenInOrder, Trusted, AtWchan, AtToWrite
<1>9. DownstreamInOrder'
  BY DEF DownstreamInOrder, Trusted, Delivering, AtWchan, AtToWrite, AtDetecting, AtDchan, AtInput
<1> QED BY <1>1, <1>2, <1>3, <1>4, <1>5, <1>6, <1>7, <1>8, <1>9

LEMMA ExecuteKeeps ==
  ASSUME FlashInv, bpc = "running", CanRecv(wchan), device' = Append(device, Head(wchan.q)),
         wchan' = Received(wchan), synced' = FALSE, UNCHANGED bpc, UNCHANGED <<source, downloaderVars, writerTaskVars, decoderVars>>
  PROVE  FlashInv'
<1> USE DEF FlashInv, downloaderVars, writerTaskVars, decoderVars
<1>1. wchan \in Channels(Blocks) /\ wchan.q \in Seq(Blocks) /\ wchan.q # <<>> /\ wchan.rx
  BY ChannelFields DEF CanRecv, TypeOK
<1>2. /\ wchan' \in Channels(Blocks) /\ wchan'.q = Tail(wchan.q) /\ (wchan'.tx <=> wchan.tx)
      /\ (wchan'.rx <=> wchan.rx)
  BY <1>1, ReceivedFacts
<1>3. /\ Head(wchan.q) \in Blocks /\ Len(wchan'.q) = Len(wchan.q) - 1
      /\ Len(wchan.q) \in Nat \ {0}
  BY <1>1, <1>2, NonEmptyFacts
<1>4. /\ device \in Seq(Blocks) /\ device' \in Seq(Blocks) /\ Len(device') = Len(device) + 1
      /\ Len(device) \in Nat /\ AtToWrite \in Nat
  BY <1>3, InvTypes
<1>5. AtWchan \in Nat /\ AtWchan' = AtWchan + 1
  BY <1>4 DEF AtWchan
<1>6. AtToWrite = AtWchan + Len(wchan.q) /\ AtToWrite' = AtWchan' + Len(wchan'.q)
  BY DEF AtToWrite
<1>7. AtToWrite' = AtToWrite
  BY <1>1, <1>2, <1>3, <1>5, <1>6 DEF Channels
<1>8. /\ AtDetecting' = AtDetecting /\ AtDchan' = AtDchan /\ AtInput' = AtInput
  BY <1>7 DEF AtDetecting, AtDchan, AtInput
<1>9. TypeOK'
  <2>1. Blocks' = Blocks /\ N' = N
    BY DEF Blocks
  <2>2. wchan' \in Channels(Blocks) /\ device' \in Seq(Blocks) /\ synced' \in BOOLEAN
    BY <1>2, <1>4
  <2>3. /\ TypeOK /\ UNCHANGED <<source, pc, result, conn, received, retries, buf, permits, bpc>>
        /\ UNCHANGED <<wpc, determined, detecting, toWrite, dpc, input, decoded, derailed, dchan>>
    OBVIOUS
  <2> HIDE DEF FlashInv, downloaderVars, writerTaskVars, decoderVars
  <2> QED BY <2>1, <2>2, <2>3 DEF TypeOK
<1>10. BufferPaidFor'
  BY <1>1, <1>2, <1>3, <1>4, <1>5, <1>6, <1>7, <1>8 DEF BufferPaidFor, PaidFor, TypeOK
<1>11. EndsHeld'
  BY <1>1, <1>2, <1>3, <1>4, <1>5, <1>6, <1>7, <1>8 DEF EndsHeld
<1>12. Verdicts'
  BY <1>1, <1>2, <1>3, <1>4, <1>5, <1>6, <1>7, <1>8 DEF Verdicts, EndsHeld
<1>13. Counted'
  BY <1>1, <1>2, <1>3, <1>4, <1>5, <1>6, <1>7, <1>8 DEF Counted
<1>14. UpstreamInOrder'
  BY <1>1, <1>2, <1>3, <1>4, <1>5, <1>6, <1>7, <1>8 DEF UpstreamInOrder
<1>15. DecodedIsImage'
  BY <1>1, <1>2, <1>3, <1>4, <1>5, <1>6, <1>7, <1>8 DEF DecodedIsImage, Trusted
<1>16. WrittenInOrder'
  <2>1. SUFFICES ASSUME Trusted PROVE WrittenInOrder'
    BY DEF WrittenInOrder, Trusted
  <2>2. Run(device, 0) /\ Run(wchan.q, AtWchan) /\ AtToWrite <= StreamEnd
    BY <2>1 DEF WrittenInOrder
  <2>3. Head(wchan.q) = AtWchan + 1 /\ Run(wchan'.q, AtWchan + 1)
    BY <1>1, <1>2, <1>5, <2>2, RunTail
  <2>4. Run(device', 0)
    <3>1. /\ device \in Seq(Blocks) /\ Head(wchan.q) \in Blocks
          /\ Head(wchan.q) = 0 + Len(device) + 1
      BY <1>3, <1>4, <2>3 DEF AtWchan
    <3> HIDE DEF FlashInv
    <3> QED BY <1>4, <2>2, <3>1, RunAppend
  <2> QED BY <1>5, <1>7, <2>2, <2>3, <2>4 DEF WrittenInOrder
<1>17. DownstreamInOrder'
  BY <1>7, <1>8 DEF DownstreamInOrder, Trusted, Delivering
<1> QED BY <1>9, <1>10, <1>11, <1>12, <1>13, <1>14, <1>15, <1>16, <1>17

LEMMA FinishWritingKeeps ==
  ASSUME FlashInv, bpc = "running", AtEof(wchan), bpc' = "ok", synced' = TRUE,
         wchan' = RxDropped(wchan), UNCHANGED device, UNCHANGED <<source, downloaderVars, writerTaskVars, decoderVars>>
  PROVE  FlashInv'
<1> USE DEF FlashInv, AtEof, downloaderVars, writerTaskVars, decoderVars
<1>1. /\ wchan' \in Channels(Blocks) /\ wchan'.q = <<>> /\ (wchan'.tx <=> wchan.tx) /\ ~wchan'.rx
  BY InvTypes, RxDroppedFacts
<1>2. TypeOK'
  BY <1>1, SourceFacts DEF TypeOK, Counted, Blocks, Chunks
<1>3. BufferPaidFor'
  BY <1>1 DEF BufferPaidFor, PaidFor, TypeOK
<1>4. EndsHeld'
  BY <1>1 DEF EndsHeld
<1>5. Verdicts'
  BY <1>1 DEF Verdicts, EndsHeld
<1>6. Counted'
  BY <1>1 DEF Counted
<1>7. UpstreamInOrder'
  BY <1>1 DEF UpstreamInOrder
<1>8. DecodedIsImage'
  BY <1>1 DEF DecodedIsImage, Trusted
<1>9. WrittenInOrder'
  BY <1>1 DEF WrittenInOrder, Trusted, AtWchan, AtToWrite
<1>10. DownstreamInOrder'
  BY <1>1 DEF DownstreamInOrder, Trusted, Delivering, AtWchan, AtToWrite, AtDetecting, AtDchan,
     AtInput
<1> QED BY <1>2, <1>3, <1>4, <1>5, <1>6, <1>7, <1>8, <1>9, <1>10

-----------------------------------------------------------------------------
(* Every step is one of these.                                             *)

(* handle_download_retry.                                                  *)
LEMMA RetryKeeps ==
  ASSUME FlashInv, pc \in {"connect", "broken"}, RetryOrGiveUp,
         UNCHANGED <<source, conn, received>>, DownloaderOnly
  PROVE  FlashInv'
<1>1. CASE retries < MaxRetries
  <2>1. Goto("check") /\ retries' = retries + 1
    BY <1>1 DEF RetryOrGiveUp
  <2>2. retries' \in 0 .. MaxRetries
    BY <1>1, <2>1, SourceFacts DEF FlashInv, TypeOK
  <2> QED BY <2>1, <2>2, MoveOnKeeps
<1>2. CASE ~(retries < MaxRetries)
  <2>1. Return("err") /\ UNCHANGED retries
    BY <1>2 DEF RetryOrGiveUp
  <2> QED BY <2>1, GiveUpKeeps
<1> QED BY <1>1, <1>2

LEMMA DownloaderKeeps ==
  ASSUME FlashInv, DownloaderNext, UNCHANGED source
  PROVE  FlashInv'
<1>1. retries \in 0 .. MaxRetries /\ wpc \in {"running", "closing", "ok", "err"}
      /\ dpc \in {"running", "ok", "err"}
  BY DEF FlashInv, TypeOK
<1>2. CASE CheckWriter
  <2>1. CASE WriterFinished
    BY <1>2, <2>1, GiveUpKeeps DEF CheckWriter
  <2>2. CASE ~WriterFinished
    <3>1. Goto("connect") /\ pc = "check" /\ UNCHANGED <<conn, received, retries>>
          /\ DownloaderOnly
      BY <1>2, <2>2 DEF CheckWriter
    <3>2. retries' \in 0 .. MaxRetries
      BY <1>1, <3>1
    <3> QED BY <3>1, <3>2, MoveOnKeeps
  <2> QED BY <2>1, <2>2
<1>3. CASE ConnectOk
  BY <1>3, ConnectOkKeeps
<1>4. CASE ConnectRetryable
  BY <1>4, RetryKeeps DEF ConnectRetryable
<1>5. CASE ConnectFatal
  BY <1>5, GiveUpKeeps DEF ConnectFatal
<1>6. CASE StreamChunk
  BY <1>6, StreamChunkKeeps
<1>7. CASE StreamEnds
  BY <1>7, StreamEndsKeeps
<1>8. CASE StreamBreaks
  <2>1. Goto("broken") /\ pc = "stream" /\ UNCHANGED <<conn, received, retries>>
        /\ DownloaderOnly
    BY <1>8 DEF StreamBreaks
  <2>2. retries' \in 0 .. MaxRetries
    BY <1>1, <2>1
  <2> QED BY <2>1, <2>2, MoveOnKeeps
<1>9. CASE Acquire
  BY <1>9, AcquireKeeps
<1>10. CASE Enqueue
  BY <1>10, EnqueueKeeps
<1>11. CASE EnqueueFails
  BY <1>11, EnqueueFailsKeeps
<1>12. CASE ConnectionBroken
  <2>1. CASE WriterFinished
    BY <1>12, <2>1, GiveUpKeeps DEF ConnectionBroken
  <2>2. CASE ~WriterFinished
    BY <1>12, <2>2, RetryKeeps DEF ConnectionBroken
  <2> QED BY <2>1, <2>2
<1>13. CASE JoinDecoder
  <2>1. CASE dpc = "ok"
    BY <1>13, <2>1, JoinedKeeps DEF JoinDecoder
  <2>2. CASE dpc # "ok"
    BY <1>13, <2>2, GiveUpKeeps DEF JoinDecoder
  <2> QED BY <2>1, <2>2
<1>14. CASE AwaitWriter
  <2>1. CASE wpc = "ok"
    BY <1>14, <2>1, SucceedKeeps DEF AwaitWriter
  <2>2. CASE wpc = "err"
    BY <1>14, <2>2, GiveUpKeeps DEF AwaitWriter
  <2> QED BY <1>14, <2>1, <2>2 DEF AwaitWriter, WriterFinished
<1> QED BY <1>2, <1>3, <1>4, <1>5, <1>6, <1>7, <1>8, <1>9, <1>10, <1>11, <1>12, <1>13, <1>14
        DEF DownloaderNext

LEMMA WriterTaskKeeps ==
  ASSUME FlashInv, WriterTaskNext, UNCHANGED source
  PROVE  FlashInv'
<1>1. CASE ReceiveBlock
  BY <1>1, ReceiveBlockKeeps
<1>2. CASE ReceiveUnparsable
  BY <1>2, TaskFailsKeeps DEF ReceiveUnparsable
<1>3. CASE ReceiveAbandoned
  BY <1>3, ReceiveAbandonedKeeps
<1>4. CASE FinalizeDetection
  BY <1>4, FinalizeDetectionKeeps
<1>5. CASE HandOver
  BY <1>5, HandOverKeeps
<1>6. CASE HandOverFails
  BY <1>6, TaskFailsKeeps DEF HandOverFails
<1>7. CASE CloseWriter
  BY <1>7, CloseWriterKeeps
<1>8. CASE WriterClosed
  BY <1>8, WriterClosedKeeps
<1> QED BY <1>1, <1>2, <1>3, <1>4, <1>5, <1>6, <1>7, <1>8 DEF WriterTaskNext

LEMMA DecoderKeeps ==
  ASSUME FlashInv, DecoderStep, UNCHANGED source
  PROVE  FlashInv'
<1>1. UNCHANGED <<source, downloaderVars, writerTaskVars, blockWriterVars>>
  BY DEF DecoderStep
<1>2. CASE ReadChunk
  BY <1>1, <1>2, ReadChunkKeeps
<1>3. CASE Decode
  BY <1>1, <1>3, DecodeKeeps
<1>4. CASE DecodedUnwanted
  BY <1>1, <1>4, DecoderFailsKeeps DEF DecodedUnwanted
<1>5. CASE DecodeError
  BY <1>1, <1>5, DecoderFailsKeeps DEF DecodeError
<1>6. CASE DecodeEnd
  BY <1>1, <1>6, DecodeEndKeeps
<1> QED BY <1>2, <1>3, <1>4, <1>5, <1>6 DEF DecoderStep, DecoderNext

LEMMA BlockWriterKeeps ==
  ASSUME FlashInv, BlockWriterStep, UNCHANGED source
  PROVE  FlashInv'
<1>1. UNCHANGED <<source, downloaderVars, writerTaskVars, decoderVars>>
  BY DEF BlockWriterStep
<1>2. CASE Open
  BY <1>1, <1>2, OpenedKeeps, ThreadFailsKeeps DEF Open
<1>3. CASE Execute
  BY <1>1, <1>3, ExecuteKeeps, ThreadFailsKeeps DEF Execute
<1>4. CASE FinishWriting
  BY <1>1, <1>4, FinishWritingKeeps, ThreadFailsKeeps DEF FinishWriting
<1> QED BY <1>2, <1>3, <1>4 DEF BlockWriterStep, BlockWriterNext

LEMMA StutterKeeps ==
  ASSUME FlashInv, UNCHANGED vars
  PROVE  FlashInv'
<1> USE DEF FlashInv, vars, downloaderVars, writerTaskVars, decoderVars, blockWriterVars
<1>1. TypeOK'
  BY DEF TypeOK, Blocks
<1>2. BufferPaidFor' /\ EndsHeld' /\ Verdicts' /\ Counted'
  BY DEF BufferPaidFor, PaidFor, EndsHeld, Verdicts, Counted
<1>3. UpstreamInOrder' /\ DecodedIsImage' /\ WrittenInOrder' /\ DownstreamInOrder'
  BY DEF UpstreamInOrder, DecodedIsImage, WrittenInOrder, DownstreamInOrder, Trusted,
         Delivering, AtWchan, AtToWrite, AtDetecting, AtDchan, AtInput
<1> QED BY <1>1, <1>2, <1>3

LEMMA NextKeeps ==
  ASSUME FlashInv, [Next]_vars
  PROVE  FlashInv'
<1>1. CASE UNCHANGED vars
  BY <1>1, StutterKeeps
<1>2. CASE Next
  BY <1>2, DownloaderKeeps, WriterTaskKeeps, DecoderKeeps, BlockWriterKeeps DEF Next
<1> QED BY <1>1, <1>2

(* The inductive invariant holds for every file and server, every budget,  *)
(* channel capacity, retry limit and detection length.                     *)
THEOREM FlashInvariant == Spec => []FlashInv
<1>1. FlashInv /\ [Next]_vars => FlashInv'
  BY NextKeeps
<1> QED BY <1>1, InitHolds, PTL DEF Spec

(* Every variable of flash_from_url, its tasks and channels keeps its type; *)
(* among other things bytes received by the writer are a sequence of       *)
(* blocks of the file, and retry_count never exceeds max_retries.          *)
THEOREM TypeTheorem == Spec => []TypeOK
<1>1. FlashInv => TypeOK
  BY DEF FlashInv
<1> QED BY <1>1, FlashInvariant, PTL

(* While the decompressor lives, every byte of the download buffer is paid *)
(* for by a permit (byte_channel.rs 22-23): what is queued never exceeds   *)
(* the budget, whatever the retry loop does.                               *)
THEOREM BufferTheorem == Spec => []BufferPaidFor
<1>1. FlashInv => BufferPaidFor
  BY DEF FlashInv
<1> QED BY <1>1, FlashInvariant, PTL

-----------------------------------------------------------------------------
(* "Resume from the HTTP download position, not the decompressor write     *)
(* position" (from_url.rs 317): between the connection and the device lies *)
(* the file up to bytes_received, across every reconnect.                  *)
LEMMA InFlightIsTheFile == FlashInv => NothingLost
<1> SUFFICES ASSUME FlashInv, HonoursRange, StreamEnd = N, NoStageFailed
             PROVE  InFlight = [k \in 1 .. received |-> k]
  BY DEF NothingLost
<1>1. Trusted /\ Delivering /\ (dpc = "running" \/ dpc = "ok")
  BY DEF NoStageFailed, Trusted, Delivering, FlashInv, TypeOK
<1>2. /\ Run(device, 0) /\ Run(wchan.q, AtWchan)
      /\ Run(toWrite, AtToWrite) /\ Run(detecting, AtDetecting) /\ Run(dchan.q, AtDchan)
      /\ AtInput = decoded
  BY <1>1 DEF FlashInv, WrittenInOrder, DownstreamInOrder
<1>3. /\ Run(input, decoded) /\ Run(buf.q, decoded + Len(input))
      /\ decoded + Len(input) + Len(buf.q) = received
  BY <1>1 DEF FlashInv, UpstreamInOrder, NoStageFailed
<1> DEFINE a == device \o wchan.q
           b == a \o toWrite
           c == b \o detecting
           d == c \o dchan.q
           e == d \o input
           f == e \o buf.q
<1>4. /\ device \in Seq(Nat) /\ wchan.q \in Seq(Nat) /\ toWrite \in Seq(Nat)
      /\ detecting \in Seq(Nat) /\ dchan.q \in Seq(Nat) /\ input \in Seq(Nat)
      /\ buf.q \in Seq(Nat)
  <2>1. Blocks \subseteq Nat /\ Chunks \subseteq Nat
    BY SourceFacts DEF FlashInv, Blocks, Chunks
  <2> QED BY <2>1, InvTypes, SeqOfMore
<1>5. a \in Seq(Nat) /\ Len(a) = AtToWrite /\ Run(a, 0)
  BY <1>2, <1>4, RunJoin DEF AtWchan, AtToWrite
<1> HIDE DEF a
<1>6. b \in Seq(Nat) /\ Len(b) = AtDetecting /\ Run(b, 0)
  BY <1>2, <1>4, <1>5, RunJoin DEF AtDetecting
<1> HIDE DEF b
<1>7. c \in Seq(Nat) /\ Len(c) = AtDchan /\ Run(c, 0)
  BY <1>2, <1>4, <1>6, RunJoin DEF AtDchan
<1> HIDE DEF c
<1>8. d \in Seq(Nat) /\ Len(d) = decoded /\ Run(d, 0)
  BY <1>2, <1>4, <1>7, RunJoin DEF AtInput
<1> HIDE DEF d
<1>9. e \in Seq(Nat) /\ Len(e) = decoded + Len(input) /\ Run(e, 0)
  BY <1>3, <1>4, <1>8, RunJoin
<1> HIDE DEF e
<1>10. f \in Seq(Nat) /\ Len(f) = received /\ Run(f, 0)
  BY <1>3, <1>4, <1>9, RunJoin, SMTT(30)
<1> HIDE DEF f
<1>11. f = [k \in 1 .. received |-> k]
  BY <1>10, RunFromStart
<1> QED BY <1>11 DEF a, b, c, d, e, f, InFlight

(* Nothing the server sent is skipped, repeated or reordered on its way to *)
(* the device while no stage has failed, however often the connection      *)
(* breaks and wherever it does.                                            *)
THEOREM NothingLostTheorem == Spec => []NothingLost
<1> QED BY InFlightIsTheFile, FlashInvariant, PTL

-----------------------------------------------------------------------------
(* What success means.                                                     *)

(* The servers whose answers can be told complete: a plain image has no    *)
(* end mark of its own, so that its length must come from the server, and  *)
(* from one that resumes.                                                  *)
Reliable == Format = "none" => HonoursRange /\ Framed

(* When the decoder and the writer task have answered Ok, the image is on  *)
(* the device; and the decoder and the parser found nothing wrong with it. *)
LEMMA OkMeansFlashed ==
  ASSUME FlashInv, Reliable, pc = "await" \/ result = "ok", wpc = "ok"
  PROVE  device = Image /\ synced /\ (HonoursRange => Sound)
<1>1. /\ dpc = "ok" /\ bpc = "ok" /\ synced /\ result # "err"
      /\ toWrite = <<>> /\ detecting = <<>> /\ dchan.q = <<>>
  BY DEF FlashInv, Verdicts
<1>2. wchan.q = <<>> /\ buf.q = <<>>
  BY <1>1 DEF FlashInv, EndsHeld
<1>3. Trusted /\ Delivering
  BY <1>1 DEF FlashInv, Verdicts, Trusted, Delivering, Reliable
<1>4. /\ Run(device, 0) /\ AtInput = decoded /\ decoded <= StreamEnd
      /\ Format # "none" => \A k \in 1 .. decoded : k \notin Undecodable
      /\ \A k \in 1 .. AtDchan : k \notin Unparsable
  BY <1>3 DEF FlashInv, WrittenInOrder, DownstreamInOrder, DecodedIsImage
<1>5. Len(<<>>) = 0 /\ Len(device) \in Nat /\ device \in Seq(Blocks)
  BY InvTypes DEF AtWchan
<1>6. Len(device) = AtInput /\ AtDchan = AtInput
  BY <1>1, <1>2, <1>5 DEF AtWchan, AtToWrite, AtDetecting, AtDchan, AtInput
<1>7. decoded = StreamEnd
  <2>1. CASE Format # "none"
    BY <1>1, <2>1 DEF FlashInv, Verdicts
  <2>2. CASE Format = "none"
    <3>1. HonoursRange /\ Framed /\ StreamEnd = N
      BY <2>2, SourceFacts DEF Reliable, FlashInv
    <3>2. received = N /\ input = <<>>
      BY <1>1, <2>2, <3>1 DEF FlashInv, Counted, Verdicts
    <3>3. decoded + Len(input) + Len(buf.q) = received
      BY <1>1, <1>3, <3>1 DEF FlashInv, UpstreamInOrder, Trusted
    <3> QED BY <1>2, <1>5, <3>1, <3>2, <3>3, InvTypes
  <2> QED BY <2>1, <2>2
<1>8. device = Image
  <2>1. device = [k \in 1 .. Len(device) |-> k]
    BY <1>4, <1>5, RunFromStart
  <2> QED BY <1>4, <1>6, <1>7, <2>1 DEF Image
<1>9. ASSUME HonoursRange PROVE Sound
  BY <1>4, <1>6, <1>7, <1>9 DEF Sound
<1> QED BY <1>1, <1>8, <1>9

(* flash_from_url answers Ok only if the device holds the whole image, in  *)
(* order and once, and has been synced (from_url.rs 433-585), for every    *)
(* compressed file, whatever the server, and for every plain one from a    *)
(* server that resumes and says where the file ends.                       *)
THEOREM SuccessTheorem == Spec => [](Reliable => SuccessMeansFlashed)
<1>1. FlashInv => (Reliable => SuccessMeansFlashed)
  <2> SUFFICES ASSUME FlashInv, Reliable, result = "ok" PROVE device = Image /\ synced
    BY DEF SuccessMeansFlashed
  <2>1. wpc = "ok"
    BY DEF FlashInv, Verdicts
  <2> QED BY <2>1, OkMeansFlashed
<1> QED BY <1>1, FlashInvariant, PTL

-----------------------------------------------------------------------------
(* flash_from_url implements module Flash.                                 *)

(* The decoder meets nothing unexpected in a file that has nothing         *)
(* unexpected in it: no reconnect makes a sound stream look corrupt.       *)
NoFalseAlarm == Sound => ~derailed

LEMMA NoFalseAlarmKeeps ==
  ASSUME FlashInv, NoFalseAlarm, [Next]_vars
  PROVE  NoFalseAlarm'
<1> SUFFICES ASSUME Sound', NoFalseAlarm PROVE ~derailed'
  BY DEF NoFalseAlarm
<1>1. source' = source
  BY DEF Next, vars
<1>types. input \in Seq(Chunks) /\ decoded \in Nat /\ StreamEnd \in Nat
  BY InvTypes
<1>2. Sound /\ ~derailed
  BY <1>1 DEF Sound, NoFalseAlarm
<1>3. CASE UNCHANGED derailed
  BY <1>2, <1>3
<1>4. CASE Decode
  <2>1. /\ input \in Seq(Chunks) /\ Head(input) \in Chunks /\ input # <<>> /\ decoded \in Nat
        /\ StreamEnd \in Nat
    <3>1. input # <<>>
      BY <1>4 DEF Decode
    <3> QED BY <1>types, <3>1, NonEmptyFacts
  <2>2. Run(input, decoded)
    BY <1>2, <1>4 DEF FlashInv, UpstreamInOrder, Sound, Decode
  <2>3. Head(input) = decoded + 1
    BY <2>1, <2>2, RunTail
  <2>4. CASE Format = "none"
    BY <1>4, <2>4 DEF Decode
  <2>5. CASE Format # "none"
    <3>1. decoded <= StreamEnd /\ decoded # StreamEnd
      BY <1>2, <1>4, <2>5 DEF FlashInv, DecodedIsImage, Trusted, Decode, StreamComplete
    <3>2. Head(input) \in 1 .. StreamEnd
      BY <2>1, <2>3, <3>1
    <3>3. IsNext(Head(input))
      BY <1>2, <2>3, <2>5, <3>2 DEF IsNext, Sound
    <3> QED BY <1>4, <3>3 DEF Decode
  <2> QED BY <2>4, <2>5
<1>5. CASE UNCHANGED vars
  BY <1>2, <1>5 DEF vars, decoderVars
<1>6. CASE Next
  <2>1. CASE DownloaderNext
    <3>1. UNCHANGED derailed
      BY <2>1 DEF DownloaderNext, CheckWriter, ConnectOk, ConnectRetryable, ConnectFatal,
         StreamChunk, StreamEnds, StreamBreaks, Acquire, Enqueue, EnqueueFails,
         ConnectionBroken, JoinDecoder, AwaitWriter, DownloaderOnly
    <3> QED BY <1>3, <3>1
  <2>2. CASE WriterTaskNext
    <3>1. UNCHANGED derailed
      BY <2>2 DEF WriterTaskNext, ReceiveBlock, ReceiveUnparsable, ReceiveAbandoned,
         FinalizeDetection, HandOver, HandOverFails, CloseWriter, WriterClosed, WriterTaskOnly
    <3> QED BY <1>3, <3>1
  <2>3. CASE DecoderStep
    <3>1. Decode \/ UNCHANGED derailed
      BY <2>3 DEF DecoderStep, DecoderNext, ReadChunk, DecodedUnwanted, DecodeError,
         DecodeEnd, ThreadReturns
    <3> QED BY <1>3, <1>4, <3>1
  <2>4. CASE BlockWriterStep
    BY <1>3, <2>4 DEF BlockWriterStep, decoderVars
  <2> QED BY <1>6, <2>1, <2>2, <2>3, <2>4 DEF Next
<1> QED BY <1>5, <1>6

(* What a step does to what the user sees.                                 *)
WriteOne ==
  /\ bpc = "running" /\ CanRecv(wchan)
  /\ device' = Append(device, Head(wchan.q)) /\ synced' = FALSE /\ result' = result

SyncAll == synced' = TRUE /\ device' = device /\ result' = result

AnswerOk ==
  /\ pc = "await" /\ wpc = "ok"
  /\ result' = "ok" /\ device' = device /\ synced' = synced

AnswerErr ==
  /\ pc # "returned"
  /\ result' = "err" /\ device' = device /\ synced' = synced

NothingSeen == result' = result /\ device' = device /\ synced' = synced

LEMMA StepKinds ==
  ASSUME FlashInv, [Next]_vars
  PROVE  /\ source' = source
         /\ WriteOne \/ SyncAll \/ AnswerOk \/ AnswerErr \/ NothingSeen
<1>1. CASE UNCHANGED vars
  BY <1>1 DEF vars, downloaderVars, blockWriterVars, NothingSeen
<1>2. CASE DownloaderNext /\ UNCHANGED source
  <2>1. device' = device /\ synced' = synced
    BY <1>2 DEF DownloaderNext, CheckWriter, ConnectOk, ConnectRetryable, ConnectFatal,
       StreamChunk, StreamEnds, StreamBreaks, Acquire, Enqueue, EnqueueFails,
       ConnectionBroken, JoinDecoder, AwaitWriter, DownloaderOnly, blockWriterVars
  <2>2. CASE AwaitWriter
    BY <1>2, <2>1, <2>2 DEF AwaitWriter, WriterFinished, Return, AnswerOk, AnswerErr
  <2>3. CASE DownloaderNext /\ ~AwaitWriter
    <3>1. pc # "returned" /\ (result' = result \/ result' = "err")
      BY <2>3 DEF DownloaderNext, CheckWriter, ConnectOk, ConnectRetryable, ConnectFatal,
         StreamChunk, StreamEnds, StreamBreaks, Acquire, Enqueue, EnqueueFails,
         ConnectionBroken, JoinDecoder, Goto, Return, RetryOrGiveUp
    <3> QED BY <1>2, <2>1, <3>1 DEF AnswerErr, NothingSeen
  <2> QED BY <1>2, <2>2, <2>3
<1>3. CASE WriterTaskNext /\ UNCHANGED source
  BY <1>3 DEF WriterTaskNext, ReceiveBlock, ReceiveUnparsable, ReceiveAbandoned,
     FinalizeDetection, HandOver, HandOverFails, CloseWriter, WriterClosed, WriterTaskOnly,
     TaskFails, LetGo, Submit, downloaderVars, blockWriterVars, NothingSeen
<1>4. CASE DecoderStep /\ UNCHANGED source
  BY <1>4 DEF DecoderStep, downloaderVars, blockWriterVars, NothingSeen
<1>5. CASE BlockWriterStep /\ UNCHANGED source
  <2>1. result' = result
    BY <1>5 DEF BlockWriterStep, downloaderVars
  <2>2. CASE Open
    BY <1>5, <2>1, <2>2 DEF Open, ThreadFails, NothingSeen
  <2>3. CASE Execute
    BY <1>5, <2>1, <2>3 DEF Execute, ThreadFails, WriteOne, NothingSeen
  <2>4. CASE FinishWriting
    BY <1>5, <2>1, <2>4 DEF FinishWriting, ThreadFails, SyncAll, NothingSeen
  <2> QED BY <1>5, <2>2, <2>3, <2>4 DEF BlockWriterStep, BlockWriterNext
<1> QED BY <1>1, <1>2, <1>3, <1>4, <1>5 DEF Next

(* A plain image comes from a server that says where it ends, if from one  *)
(* that resumes.                                                           *)
PlainIsFramed == \A s \in Sources : s.format = "none" /\ s.honoursRange => s.framed

LEMMA FlashInit ==
  ASSUME Init
  PROVE  AFlash!Init
<1>1. device = <<>> /\ synced = FALSE /\ result = "none"
  BY DEF Init, BlockWriterInit
<1>2. Image \in Seq(Nat)
  <2>1. StreamEnd \in Nat
    BY InitHolds, SourceFacts DEF FlashInv
  <2> QED BY <2>1 DEF Image
<1> QED BY <1>1, <1>2 DEF AFlash!Init

LEMMA FlashStep ==
  ASSUME PlainIsFramed, FlashInv, NoFalseAlarm, [Next]_vars
  PROVE  [AFlash!Next]_(AFlash!vars)
<1> USE DEF AFlash!vars
<1>1. /\ source' = source /\ Image' = Image /\ (Sound' <=> Sound)
      /\ (HonoursRange' <=> HonoursRange)
  BY StepKinds DEF Image, Sound
<1>types. /\ wchan.q \in Seq(Blocks) /\ Len(wchan.q) \in Nat
          /\ AtWchan \in Nat /\ StreamEnd \in Nat
  <2>1. wchan \in Channels(Blocks)
    BY DEF FlashInv, TypeOK
  <2>2. wchan.q \in Seq(Blocks) /\ Len(wchan.q) \in Nat
    BY <2>1, ChannelFields
  <2>3. AtWchan \in Nat /\ StreamEnd \in Nat
    BY InvNumbers
  <2> QED BY <2>2, <2>3
<1>2. CASE WriteOne
  <2>1. CASE Sound
    <3>1. Trusted /\ HonoursRange
      BY <2>1 DEF Trusted, NoFalseAlarm, Sound
    <3>2. Run(wchan.q, AtWchan) /\ AtToWrite <= StreamEnd
      BY <3>1 DEF FlashInv, WrittenInOrder
    <3>3. wchan.q # <<>> /\ wchan.q \in Seq(Blocks) /\ AtWchan \in Nat /\ StreamEnd \in Nat
      <4>1. wchan.q # <<>>
        BY <1>2 DEF WriteOne, CanRecv
      <4> QED BY <1>types, <4>1
    <3>4. Head(wchan.q) = AtWchan + 1 /\ Len(wchan.q) \in Nat \ {0}
      BY <3>2, <3>3, RunTail
    <3>5. AtWchan < StreamEnd
      BY <1>types, <3>2, <3>4 DEF AtToWrite
    <3>6. Len(Image) = StreamEnd /\ Image[AtWchan + 1] = Head(wchan.q)
      BY <3>3, <3>4, <3>5 DEF Image
    <3>7. result # "ok"
      BY <1>2 DEF FlashInv, Verdicts, WriteOne
    <3>8. AFlash!WriteBlock
      BY <1>1, <1>2, <2>1, <3>1, <3>5, <3>6, <3>7 DEF AFlash!WriteBlock, WriteOne, AtWchan
    <3> QED BY <3>8 DEF AFlash!Next
  <2>2. CASE ~Sound
    BY <1>1, <1>2, <2>2 DEF WriteOne
  <2> QED BY <2>1, <2>2
<1>3. CASE SyncAll
  <2>1. CASE Sound
    <3>1. AFlash!Sync
      BY <1>1, <1>3, <2>1 DEF SyncAll, AFlash!Sync
    <3> QED BY <3>1 DEF AFlash!Next
  <2>2. CASE ~Sound
    BY <1>1, <1>3, <2>2 DEF SyncAll
  <2> QED BY <2>1, <2>2
<1>4. CASE AnswerOk
  <2>1. CASE HonoursRange
    <3>1. Reliable
      BY <2>1 DEF Reliable, PlainIsFramed, FlashInv, TypeOK
    <3>2. device = Image /\ synced /\ Sound
      BY <1>4, <2>1, <3>1, OkMeansFlashed DEF AnswerOk
    <3>3. result = "none"
      BY <1>4 DEF FlashInv, Verdicts, TypeOK, AnswerOk
    <3>4. AFlash!Succeed
      BY <1>1, <1>4, <2>1, <3>2, <3>3 DEF AFlash!Succeed, AnswerOk
    <3> QED BY <3>4 DEF AFlash!Next
  <2>2. CASE ~HonoursRange
    BY <1>1, <1>4, <2>2 DEF AnswerOk
  <2> QED BY <2>1, <2>2
<1>5. CASE AnswerErr
  <2>1. CASE HonoursRange
    <3>1. result = "none"
      BY <1>5 DEF FlashInv, Verdicts, TypeOK, AnswerErr
    <3>2. AFlash!Fail
      BY <1>1, <1>5, <2>1, <3>1 DEF AFlash!Fail, AnswerErr
    <3> QED BY <3>2 DEF AFlash!Next
  <2>2. CASE ~HonoursRange
    BY <1>1, <1>5, <2>2 DEF AnswerErr
  <2> QED BY <2>1, <2>2
<1>6. CASE NothingSeen
  BY <1>1, <1>6 DEF NothingSeen
<1> QED BY <1>2, <1>3, <1>4, <1>5, <1>6, StepKinds

(* On a sound source, flash_from_url writes the image to the device front  *)
(* to back, nothing skipped, repeated or foreign, and answers Ok once all  *)
(* of it is there and synced; an image that the decoder or the parser      *)
(* refuses is never announced as flashed (decompress.rs 163-170,           *)
(* from_url.rs 97-101, 279-282).                                           *)
THEOREM FlashTheorem ==
  ASSUME PlainIsFramed
  PROVE  Spec => FlashSpec
<1>1. Init => AFlash!Init /\ NoFalseAlarm
  BY FlashInit DEF Init, DecoderInit, NoFalseAlarm
<1>2. FlashInv /\ NoFalseAlarm /\ [Next]_vars => NoFalseAlarm'
  BY NoFalseAlarmKeeps
<1>3. FlashInv /\ NoFalseAlarm /\ [Next]_vars => [AFlash!Next]_(AFlash!vars)
  BY FlashStep
<1> QED BY <1>1, <1>2, <1>3, FlashInvariant, PTL DEF Spec, FlashSpec, AFlash!Spec
=============================================================================
