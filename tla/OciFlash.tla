------------------------------- MODULE OciFlash -------------------------------
(***************************************************************************)
(* flash_from_oci (oci/from_oci.rs): an image layer is streamed to the     *)
(* device, by one of two pipelines that the first 2 MB of it choose from:  *)
(*                                                                         *)
(*   disk image:  registry -> buf -> decoder thread -> dchan               *)
(*                  -> writer task -> wchan -> block writer                *)
(*   tar archive: registry -> buf -> extractor thread -> dchan             *)
(*                  -> feeder -> stdin -> child process -> stdout          *)
(*                  -> writer task -> wchan -> block writer                *)
(*                                                                         *)
(* The layer is chunks 1 .. N, chunk 1 being what the detection has        *)
(* collected; chunk k decompresses to block k, and the disk image is       *)
(* blocks First .. Last.  There is no retry here: a connection that breaks *)
(* or a body that ends early fails the flash.                              *)
(***************************************************************************)
EXTENDS AsyncBlockWriter, InprocessDecoder

CONSTANTS
  DetectLen,      (* blocks the format detector needs                      *)
  PipeCap         (* what an OS pipe holds, in blocks                      *)

Compressions == {"none", "gzip", "xz"}

ASSUME OciFlashAssumption ==
  /\ DetectLen \in Nat \ {0} /\ PipeCap \in Nat \ {0}
  /\ BufBytes \in Nat \ {0} /\ DecCap \in Nat \ {0} /\ WrCap \in Nat \ {0}
  /\ DeviceMayFail \in BOOLEAN
  /\ \A s \in Sources :
       /\ s.length \in Nat \ {0} /\ s.end \in 1 .. s.length
       /\ s.first \in Nat \ {0} /\ s.last \in s.first .. s.length + 1
       /\ s.undecodable \subseteq 1 .. s.length /\ s.unparsable \subseteq 0 .. s.length
       /\ {s.format, s.declared, s.inner} \subseteq Compressions
       /\ s.pattern \in Compressions \cup {"unset"}
       /\ s.format = "none" => s.undecodable = {} /\ s.end = s.length
       /\ s.tar \in BOOLEAN
       /\ ~s.tar => s.first = 1 /\ s.last = s.end

N     == source.length
First == source.first
Last  == source.last

(* Compression of the file in the tar, and of its name in the pattern.     *)
Inner      == source.inner
Unparsable == source.unparsable

(* detect_content_and_compression: what does not decompress is taken for a *)
(* tar, too.                                                               *)
Tar == source.tar \/ (Format # "none" /\ 1 \in Undecodable)

(* The extractor believes a manifest that says gzip, and the data if it    *)
(* says anything else.                                                     *)
Misdeclared == source.declared = "gzip" /\ Format # "gzip"

(* get_decompressor_hint: the pattern's extension, or else what the LAYER  *)
(* is compressed with.                                                     *)
Program == IF source.pattern = "unset" THEN Format ELSE source.pattern

VARIABLES
  pc,           (* where flash_from_oci is                                 *)
  result,       (* "none" yet, "ok", "err" from the pipeline, "broken"     *)
                (* from the connection, "refused" before it all began      *)
  conn,         (* chunks the connection has delivered                     *)
  fpc,          (* decompressor_writer_handle: "running", "ok", "err"      *)
  stdin,        (* the child's input pipe                                  *)
  child,        (* the child: "running", "exit0", "failed"                 *)
  eaten,        (* blocks it has read                                      *)
  stdout,       (* its output pipe                                         *)
  wpc,          (* the writer task: "running", "joining", "closing", "ok", *)
                (* "err"                                                   *)
  determined,   (* format_determined                                       *)
  detecting,    (* detector.buffer                                         *)
  toWrite       (* blocks the writer task has still to hand over           *)

coordinatorVars == <<pc, result, conn>>
childVars       == <<fpc, stdin, child, eaten, stdout>>
writerTaskVars  == <<wpc, determined, detecting, toWrite>>
vars == <<source, coordinatorVars, childVars, writerTaskVars, decoderVars, blockWriterVars>>

Init ==
  /\ BlockWriterInit /\ DecoderInit
  /\ pc = "prepare" /\ result = "none" /\ conn = 0
  /\ fpc = "running" /\ stdin = NewChannel /\ stdout = NewChannel
  /\ child = "running" /\ eaten = 0
  /\ wpc = "running" /\ determined = FALSE /\ detecting = <<>> /\ toWrite = <<>>

Launched == pc # "prepare" /\ result # "refused"

-----------------------------------------------------------------------------
(* The coordinator: coordinate_raw_disk_download or                        *)
(* coordinate_download_and_processing.                                     *)

CoordinatorOnly ==
  UNCHANGED <<childVars, writerTaskVars, blockWriterVars, dpc, input, decoded, derailed, dchan>>

(* Every return drops http_tx and the progress receivers.                  *)
Return(how) == pc' = "returned" /\ result' = how /\ DropTx

Goto(label) == pc' = label /\ UNCHANGED <<result, buf, permits>>

(* Authentication, manifest, the checks of the layer and the detection.    *)
Prepare ==
  /\ pc = "prepare"
  /\ \/ conn' = 1 /\ Goto("seed-acquire")
     \/ Return("refused") /\ UNCHANGED conn
  /\ CoordinatorOnly

(* Mutant of StreamChunk: the end of the body goes unnoticed.              *)
StreamChunkUnbounded ==
  /\ pc = "stream"
  /\ conn' = conn + 1
  /\ Goto("acquire")
  /\ CoordinatorOnly

StreamChunk ==
  /\ pc = "stream" /\ conn < N
  /\ conn' = conn + 1
  /\ Goto("acquire")
  /\ CoordinatorOnly

StreamEnds ==
  /\ pc = "stream" /\ conn = N
  /\ pc' = "drain" /\ DropTx
  /\ UNCHANGED <<result, conn>> /\ CoordinatorOnly

(* "Download error", "Download timeout".                                   *)
StreamBreaks ==
  /\ pc = "stream"
  /\ Return("broken")
  /\ UNCHANGED conn /\ CoordinatorOnly

(* The two halves of http_tx.send, for the detection buffer and after it.  *)
Acquire ==
  /\ pc \in {"seed-acquire", "acquire"} /\ TakePermit
  /\ pc' = IF pc = "acquire" THEN "enqueue" ELSE "seed-enqueue"
  /\ UNCHANGED <<result, conn>> /\ CoordinatorOnly

Enqueue ==
  /\ pc \in {"seed-enqueue", "enqueue"} /\ QueueChunk(conn)
  /\ pc' = "stream"
  /\ UNCHANGED <<result, conn>> /\ CoordinatorOnly

(* Mutant of EnqueueRefused: a reader that has gone is an error.           *)
EnqueueRefusedIsFatal ==
  /\ pc \in {"seed-enqueue", "enqueue"} /\ SendFails(buf)
  /\ Return("err")
  /\ UNCHANGED conn /\ CoordinatorOnly

(* Only the detection buffer must find a reader, and it does: nothing can  *)
(* have failed in a reader that has read nothing.                          *)
EnqueueRefused ==
  /\ pc \in {"seed-enqueue", "enqueue"} /\ SendFails(buf)
  /\ IF pc = "enqueue"
     THEN pc' = "drain" /\ DropTx /\ UNCHANGED result
     ELSE Return("err")
  /\ UNCHANGED conn /\ CoordinatorOnly

(* One stage after the other, from the connection to the device; a disk    *)
(* image has only the writer task to wait for.                             *)
JoinExtractor ==
  /\ pc = "drain" /\ Tar /\ dpc # "running"
  /\ IF dpc = "ok" THEN Goto("join-feeder") ELSE Return("err")
  /\ UNCHANGED conn /\ CoordinatorOnly

JoinFeeder ==
  /\ pc = "join-feeder" /\ fpc # "running"
  /\ IF fpc = "ok" THEN Goto("reap") ELSE Return("err")
  /\ UNCHANGED conn /\ CoordinatorOnly

Reap ==
  /\ pc = "reap" /\ child # "running"
  /\ IF child = "exit0" THEN Goto("join-writer") ELSE Return("err")
  /\ UNCHANGED conn /\ CoordinatorOnly

JoinWriter ==
  /\ pc = "join-writer" \/ (pc = "drain" /\ ~Tar)
  /\ wpc \in {"ok", "err"}
  /\ Return(wpc)
  /\ UNCHANGED conn /\ CoordinatorOnly

CoordinatorNext ==
  \/ Prepare \/ StreamChunk \/ StreamEnds \/ StreamBreaks
  \/ Acquire \/ Enqueue \/ EnqueueRefused
  \/ JoinExtractor \/ JoinFeeder \/ Reap \/ JoinWriter

-----------------------------------------------------------------------------
(* The thread that reads the buffer.  For a disk image it is the one of    *)
(* InprocessDecoder; for a tar it is extract_tar_archive_from_stream,      *)
(* which shares its variables: decoded is the position in the archive.     *)

Extractable(c) ==
  ~Misdeclared /\ (Format = "none" \/ IsNext(c))

(* What comes before the image is skipped, the image passed on.  A block   *)
(* that did not decompress to what was compressed is one of the image's,   *)
(* too, once the header has been read.                                     *)
ExtractBlock ==
  /\ dpc = "running" /\ input # <<>> /\ decoded < Last /\ ~StreamComplete
  /\ LET c    == Head(input)
         good == Extractable(c)
     IN  /\ IF decoded + 1 < First
            THEN good /\ UNCHANGED dchan
            ELSE /\ ~Misdeclared /\ CanSend(dchan, DecCap)
                 /\ dchan' = Sent(dchan, IF good THEN c ELSE Garbage)
         /\ derailed' = ~good
  /\ decoded' = decoded + 1 /\ input' = Tail(input)
  /\ UNCHANGED <<buf, permits, dpc>>

(* "Done - we only extract one file": what follows is not read, the        *)
(* checksum of a compressed layer included.                                *)
ExtractDone ==
  /\ dpc = "running" /\ decoded = Last
  /\ ThreadReturns("ok")

ExtractUnwanted ==
  /\ dpc = "running" /\ input # <<>> /\ decoded < Last
  /\ decoded + 1 >= First /\ SendFails(dchan)
  /\ ThreadReturns("err")

(* The decoder rejects what it is given, or the layer or the archive ends  *)
(* too early.                                                              *)
ExtractError ==
  /\ dpc = "running" /\ decoded < Last
  /\ \/ input # <<>> /\ ~Extractable(Head(input)) /\ (StreamComplete => Format = "xz")
     \/ input = <<>> /\ NoMore /\ Format # "none" /\ ~StreamComplete
     \/ AtStreamEnd /\ decoded < First
  /\ ThreadReturns("err")

(* The end of the archive is taken for the end of the file, whose size the *)
(* extractor has read and does not compare.                                *)
ExtractTruncated ==
  /\ dpc = "running" /\ decoded \in First .. Last - 1 /\ AtStreamEnd
  /\ ThreadReturns("ok")

ExtractorNext ==
  \/ ReadChunk /\ decoded < Last
  \/ ExtractBlock \/ ExtractDone \/ ExtractUnwanted \/ ExtractError \/ ExtractTruncated

ReaderStep ==
  /\ Launched
  /\ IF Tar THEN ExtractorNext ELSE DecoderNext
  /\ UNCHANGED <<coordinatorVars, childVars, writerTaskVars, blockWriterVars>>

-----------------------------------------------------------------------------
(* The feeder task and the child process of the tar pipeline.  A block     *)
(* moves on when there is room for it; the pipes are what holds it.        *)

ChildOnly ==
  UNCHANGED <<coordinatorVars, writerTaskVars, blockWriterVars, buf, permits, dpc, input,
              decoded, derailed>>

Feed ==
  /\ fpc = "running" /\ CanRecv(dchan) /\ CanSend(stdin, PipeCap)
  /\ stdin' = Sent(stdin, Head(dchan.q)) /\ dchan' = Received(dchan)
  /\ UNCHANGED <<fpc, child, eaten, stdout>>

(* Mutant of FeedEnds: the child's stdin stays open.                       *)
FeedEndsLeavingStdinOpen ==
  /\ fpc = "running"
  /\ \/ CanRecv(dchan) /\ SendFails(stdin) /\ fpc' = "err"
     \/ AtEof(dchan) /\ fpc' = "ok"
  /\ dchan' = RxDropped(dchan)
  /\ UNCHANGED <<stdin, child, eaten, stdout>>

FeedEnds ==
  /\ fpc = "running"
  /\ \/ CanRecv(dchan) /\ SendFails(stdin) /\ fpc' = "err"
     \/ AtEof(dchan) /\ fpc' = "ok"
  /\ stdin' = TxDropped(stdin) /\ dchan' = RxDropped(dchan)
  /\ UNCHANGED <<child, eaten, stdout>>

(* cat passes on what it gets, a decompressor only its own format.         *)
Digestible(b) == Program = "none" \/ (Program = Inner /\ b # Garbage)

ChildPasses ==
  /\ child = "running" /\ CanRecv(stdin) /\ CanSend(stdout, PipeCap)
  /\ Digestible(Head(stdin.q))
  /\ stdin' = Received(stdin) /\ eaten' = eaten + 1
  /\ stdout' = Sent(stdout, IF Program = Inner THEN Head(stdin.q) ELSE Garbage)
  /\ UNCHANGED <<fpc, child, dchan>>

ChildExits ==
  /\ child = "running"
  /\ \/ /\ AtEof(stdin)
        /\ child' = IF Program = "none" \/ eaten = Last - First + 1
                    THEN "exit0" ELSE "failed"
     \/ /\ CanRecv(stdin) /\ (SendFails(stdout) \/ ~Digestible(Head(stdin.q)))
        /\ child' = "failed"
  /\ stdin' = RxDropped(stdin) /\ stdout' = TxDropped(stdout)
  /\ UNCHANGED <<fpc, eaten, dchan>>

FeederStep == Launched /\ Tar /\ (Feed \/ FeedEnds) /\ ChildOnly
ChildStep  == Launched /\ Tar /\ (ChildPasses \/ ChildExits) /\ ChildOnly

-----------------------------------------------------------------------------
(* The writer task: it reads dchan, or the child's stdout.                 *)

WriterTaskOnly ==
  UNCHANGED <<coordinatorVars, buf, permits, dpc, input, decoded, derailed,
              fpc, stdin, child, eaten>>

Inlet == IF Tar THEN stdout ELSE dchan

InletBecomes(ch) ==
  IF Tar THEN stdout' = ch /\ UNCHANGED dchan ELSE dchan' = ch /\ UNCHANGED stdout

Reading == wpc = "running" /\ toWrite = <<>> /\ CanRecv(Inlet)

(* An early return drops the source and the AsyncBlockWriter.              *)
TaskFails ==
  /\ wpc' = "err"
  /\ InletBecomes(RxDropped(Inlet)) /\ LetGo
  /\ UNCHANGED <<determined, detecting, toWrite>>

(* Only the tar pipeline minds if nobody listens to its progress.          *)
Abandoned == Tar /\ result # "none"

(* process_buffer_with_format_detection.                                   *)
ProcessBlock ==
  /\ Reading /\ ~Abandoned /\ Head(Inlet.q) \notin Unparsable
  /\ InletBecomes(Received(Inlet))
  /\ LET seen == Append(detecting, Head(Inlet.q))
     IN  IF determined \/ Len(seen) >= DetectLen
         THEN determined' = TRUE /\ detecting' = <<>> /\ toWrite' = seen
         ELSE detecting' = seen /\ UNCHANGED <<determined, toWrite>>
  /\ UNCHANGED <<wpc, blockWriterVars>>

ProcessFails ==
  /\ Reading /\ ~Abandoned /\ Head(Inlet.q) \in Unparsable
  /\ TaskFails

ProcessAbandoned ==
  /\ Reading /\ Abandoned
  /\ wpc' = "closing"
  /\ InletBecomes(Received(Inlet)) /\ LetGo
  /\ UNCHANGED <<determined, detecting, toWrite>>

HandOver ==
  /\ wpc = "running" /\ toWrite # <<>>
  /\ CanSubmit /\ Submit(Head(toWrite))
  /\ toWrite' = Tail(toWrite)
  /\ UNCHANGED <<wpc, determined, detecting, dchan, stdout>>

HandOverFails ==
  /\ wpc = "running" /\ toWrite # <<>> /\ SubmitFails
  /\ TaskFails

AtInletEnd == wpc = "running" /\ toWrite = <<>> /\ AtEof(Inlet)

(* Mutant of FinalizeFormat: what was held back for detection is lost.     *)
FinalizeFormatEmpty ==
  /\ AtInletEnd /\ ~determined /\ detecting # <<>>
  /\ determined' = TRUE /\ detecting' = <<>>
  /\ UNCHANGED <<wpc, toWrite, dchan, stdout, blockWriterVars>>

(* finalize_format_at_eof.                                                 *)
FinalizeFormat ==
  /\ AtInletEnd /\ ~determined /\ detecting # <<>>
  /\ determined' = TRUE /\ detecting' = <<>> /\ toWrite' = detecting
  /\ UNCHANGED <<wpc, dchan, stdout, blockWriterVars>>

(* Then writer.close(), but for a disk image only after reader_handle.     *)
FinishInlet ==
  /\ AtInletEnd /\ detecting = <<>>
  /\ IF Tar THEN wpc' = "closing" /\ LetGo
            ELSE wpc' = "joining" /\ UNCHANGED blockWriterVars
  /\ UNCHANGED <<determined, detecting, toWrite, dchan, stdout>>

(* Mutant of JoinReader: the decoder's error is not looked at.             *)
JoinReaderUnchecked ==
  /\ wpc = "joining" /\ dpc # "running"
  /\ wpc' = "closing" /\ LetGo
  /\ UNCHANGED <<determined, detecting, toWrite, dchan, stdout>>

JoinReader ==
  /\ wpc = "joining" /\ dpc # "running"
  /\ wpc' = (IF dpc = "ok" THEN "closing" ELSE "err") /\ LetGo
  /\ UNCHANGED <<determined, detecting, toWrite, dchan, stdout>>

WriterClosed ==
  /\ wpc = "closing" /\ WriterDone
  /\ wpc' = bpc /\ InletBecomes(RxDropped(Inlet))
  /\ UNCHANGED <<determined, detecting, toWrite, blockWriterVars>>

WriterTaskStep ==
  /\ Launched
  /\ \/ ProcessBlock \/ ProcessFails \/ ProcessAbandoned
     \/ HandOver \/ HandOverFails
     \/ FinalizeFormat \/ FinishInlet \/ JoinReader \/ WriterClosed
  /\ WriterTaskOnly

BlockWriterStep ==
  /\ Launched /\ BlockWriterNext
  /\ UNCHANGED <<coordinatorVars, childVars, writerTaskVars, decoderVars>>

-----------------------------------------------------------------------------
Next ==
  /\ CoordinatorNext \/ ReaderStep \/ FeederStep \/ ChildStep \/ WriterTaskStep
       \/ BlockWriterStep
  /\ UNCHANGED source

Spec == Init /\ [][Next]_vars

(* Tasks, threads and a process, each scheduled again and again; every     *)
(* wait for the connection ends within 30 s.                               *)
Fairness ==
  /\ WF_vars(CoordinatorNext /\ UNCHANGED source)
  /\ WF_vars(ReaderStep /\ UNCHANGED source)
  /\ WF_vars(FeederStep /\ UNCHANGED source)
  /\ WF_vars(ChildStep /\ UNCHANGED source)
  /\ WF_vars(WriterTaskStep /\ UNCHANGED source)
  /\ WF_vars(BlockWriterStep /\ UNCHANGED source)

FairSpec == Spec /\ Fairness

-----------------------------------------------------------------------------
(* Properties.                                                             *)

Blocks == 0 .. N

TypeOK ==
  /\ source \in Sources
  /\ pc \in {"prepare", "seed-acquire", "seed-enqueue", "stream", "acquire", "enqueue",
             "drain", "join-feeder", "reap", "join-writer", "returned"}
  /\ result \in {"none", "ok", "err", "broken", "refused"} /\ conn \in 0 .. N
  /\ buf \in Channels(1 .. N) /\ permits \in 0 .. BufBytes
  /\ dpc \in {"running", "ok", "err"} /\ input \in Seq(1 .. N) /\ decoded \in 0 .. N
  /\ derailed \in BOOLEAN /\ dchan \in Channels(Blocks)
  /\ fpc \in {"running", "ok", "err"} /\ child \in {"running", "exit0", "failed"}
  /\ stdin \in Channels(Blocks) /\ stdout \in Channels(Blocks) /\ eaten \in 0 .. N
  /\ wpc \in {"running", "joining", "closing", "ok", "err"} /\ determined \in BOOLEAN
  /\ detecting \in Seq(Blocks) /\ toWrite \in Seq(Blocks)
  /\ wchan \in Channels(Blocks) /\ bpc \in {"opening", "running", "ok", "err"}
  /\ device \in Seq(Blocks) /\ synced \in BOOLEAN

FromTo(a, b) == [k \in 1 .. (IF b < a THEN 0 ELSE b - a + 1) |-> a + k - 1]

Image == FromTo(First, Last)

(* The layer decompresses and parses, and what its tar holds is whole and  *)
(* in the format the child expects; nothing follows an xz disk image.      *)
Sound ==
  /\ Undecodable \cap 1 .. Last = {} /\ Unparsable \cap First .. Last = {}
  /\ Tar => Last <= StreamEnd /\ ~Misdeclared /\ Program = Inner
  /\ ~Tar /\ Format = "xz" => StreamEnd = N

NoStageFailed ==
  /\ dpc # "err" /\ fpc # "err" /\ child # "failed" /\ wpc # "err" /\ bpc # "err"
  /\ result \in {"none", "ok"}

(* What has left the reader, and what has not reached it.                  *)
Downstream == device \o wchan.q \o toWrite \o detecting \o stdout.q \o stdin.q \o dchan.q
Upstream   == input \o buf.q

Accepted == IF pc \in {"seed-acquire", "seed-enqueue", "acquire", "enqueue"}
            THEN conn - 1 ELSE conn

(* "Send the already-downloaded detection buffer first" (from_oci.rs 1276, *)
(* 1566): across the change from detection to streaming, the end of the    *)
(* format detection and the early end of the extraction, the pipeline      *)
(* holds the image without gap, repetition or foreign block.               *)
NothingLost ==
  Sound /\ NoStageFailed =>
    /\ Downstream = FromTo(First, decoded)
    /\ dpc = "running" => Upstream = FromTo(decoded + 1, Accepted)

(* What the stages do to each other when they end (an extractor that has   *)
(* its file and leaves, a child whose stdin is closed) is never taken for  *)
(* a failure (from_oci.rs 1313-1322, 1378-1381, 1942): with a sound layer  *)
(* and a device that works, only the connection can fail the flash.        *)
NoFalseAlarm == Sound /\ bpc # "err" => result # "err"

Stuck == pc = "acquire" /\ NeverAcquires

(* flash_from_oci returns, whoever fails, unless it waits for permits that *)
(* nobody gives back.                                                      *)
FlashReturns == <>(result # "none" \/ Stuck)

(* A tar whose file cat passes on: nobody looks at what is in it, or       *)
(* whether it is whole.                                                    *)
Unnoticed ==
  Tar /\ Program = "none" /\ (Inner # "none" \/ Undecodable # {} \/ Last > StreamEnd)

(* The user's view, the same as of a flash from a URL: from a sound layer  *)
(* the device gets the image front to back, and success is announced when  *)
(* all of it is there; a layer that is not sound is never announced as     *)
(* flashed, unless nothing in the pipeline can tell.                       *)
OFlash == INSTANCE Flash WITH
  image  <- Image,
  device <- IF Sound THEN device ELSE <<>>,
  synced <- Sound /\ synced,
  result <- IF Unnoticed THEN "none"
            ELSE IF result \in {"broken", "refused"} THEN "err" ELSE result
FlashSpec == OFlash!Spec

(* "use content compression to determine what decompressor the extracted   *)
(* file needs" (from_oci.rs 2014-2015): what is announced as flashed is    *)
(* the image, not its compressed form.                                     *)
ExtractedFileIsDecompressed == result = "ok" => device = Image
=============================================================================
