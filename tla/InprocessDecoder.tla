--------------------------- MODULE InprocessDecoder ---------------------------
(***************************************************************************)
(* The decompressor thread of decompress.rs, reading the byte-bounded      *)
(* download buffer through ChannelReader and sending decoded blocks to a   *)
(* channel of capacity DecCap.                                             *)
(*                                                                         *)
(* The source is cut into numbered chunks of one permit each; chunk k      *)
(* decodes to block k.  What the decoders promise (liblzma, flate2 are not *)
(* part of the repository): a stream that is not the one they expect is    *)
(* rejected in the end, perhaps after some garbage has come out; gzip ends *)
(* at the end of its member, xz reads on to the end of the input, and      *)
(* neither ends well before the stream is complete.                        *)
(***************************************************************************)
EXTENDS DownloadBuffer

CONSTANTS Sources,       (* what may be downloaded, and from what server   *)
          DecCap         (* capacity of the channel of decoded blocks (8)  *)

Garbage == 0

VARIABLES
  source,     (* the file, its format and its server: chosen by the user   *)
  dpc,        (* the thread: "running", "ok", "err"                        *)
  input,      (* chunks taken from the buffer and not yet decoded          *)
  decoded,    (* good blocks sent so far                                   *)
  derailed,   (* a decoder met input that is not the stream's next         *)
  dchan       (* decompressed_tx, decompressed_rx                          *)

Format      == source.format       (* "none", "gzip" or "xz"             *)
StreamEnd   == source.end          (* the last chunk of what it encodes  *)
Undecodable == source.undecodable  (* chunks the decoder rejects         *)

decoderVars == <<buf, permits, dpc, input, decoded, derailed, dchan>>

DecoderInit ==
  /\ source \in Sources
  /\ BufferInit
  /\ dpc = "running" /\ input = <<>> /\ decoded = 0 /\ derailed = FALSE
  /\ dchan = NewChannel

(* Returning drops both ends the thread holds; the permits of what was     *)
(* still queued in the buffer are never given back.                        *)
ThreadReturns(how) ==
  /\ dpc' = how
  /\ DropRx
  /\ dchan' = TxDropped(dchan)
  /\ UNCHANGED <<input, decoded, derailed>>

StreamComplete == Format # "none" /\ decoded = StreamEnd /\ ~derailed

(* ChannelReader::read takes the next chunk (and blocking_recv returns its *)
(* permits).  Without compression it wants one only when the last has been *)
(* passed on; a decoder may read ahead.                                    *)
ReadChunk ==
  /\ dpc = "running"
  /\ Format = "none" => input = <<>>
  /\ StreamComplete => Format = "xz"
  /\ ChunkReady
  /\ input' = Append(input, NextChunk)
  /\ TakeChunk
  /\ UNCHANGED <<dpc, decoded, derailed, dchan>>

IsNext(c) == c = decoded + 1 /\ c <= StreamEnd /\ c \notin Undecodable /\ ~derailed

(* decoder.read and the blocking_send of what it returned.                 *)
Decode ==
  /\ dpc = "running" /\ input # <<>> /\ ~StreamComplete
  /\ CanSend(dchan, DecCap)
  /\ input' = Tail(input)
  /\ LET c    == Head(input)
         good == Format = "none" \/ IsNext(c)
     IN  /\ dchan' = Sent(dchan, IF good THEN c ELSE Garbage)
         /\ decoded' = IF good THEN decoded + 1 ELSE decoded
         /\ derailed' = ~good
  /\ UNCHANGED <<buf, permits, dpc>>

(* blocking_send fails: "Writer task closed, stopping decompression".      *)
DecodedUnwanted ==
  /\ dpc = "running" /\ input # <<>>
  /\ SendFails(dchan)
  /\ ThreadReturns("err")

(* "Decompression error": the input is not what the decoder needs, or it   *)
(* has ended too early.                                                    *)
DecodeError ==
  /\ dpc = "running" /\ Format # "none"
  /\ \/ input # <<>> /\ ~IsNext(Head(input)) /\ (StreamComplete => Format = "xz")
     \/ input = <<>> /\ NoMore /\ ~StreamComplete
  /\ ThreadReturns("err")

(* What a read meets that returns 0, ...                                   *)
AtStreamEnd ==
  CASE Format = "none" -> input = <<>> /\ NoMore
    [] Format = "gzip" -> StreamComplete
    [] Format = "xz"   -> StreamComplete /\ input = <<>> /\ NoMore

(* ... and what the thread makes of it.                                    *)
DecodeEnd ==
  /\ dpc = "running" /\ AtStreamEnd
  /\ ThreadReturns("ok")

DecoderNext == ReadChunk \/ Decode \/ DecodedUnwanted \/ DecodeError \/ DecodeEnd
=============================================================================
