------------------------------ MODULE ImageWriter ------------------------------
(***************************************************************************)
(* The writer task between the decompressed stream and the device: format  *)
(* detection, the sparse parser behind it, and the end of the stream       *)
(* (from_url.rs 43-161 and 224-295; from_oci.rs 915-1075 is the same code).*)
(*                                                                         *)
(* The detector (FormatDetector) and the parser (SparseParser, here P) are *)
(* composed: what the detector lets through is the parser's file.  The     *)
(* unit of both is the 4-byte word.                                        *)
(***************************************************************************)
EXTENDS FormatDetector, Integers

CONSTANTS
  ChunkHeaderWords,   (* CHUNK_HEADER_SIZE                                 *)
  BlockWords,         (* the image's block_size                            *)
  Images,             (* the sparse images (SparseParser)                  *)
  Cuts                (* by how much a stream may stop short of its image  *)

(* The code's chunk header is 3 words, of a sparse header's 7.             *)
ASSUME WriterAssumption ==
  /\ ChunkHeaderWords \in 2 .. Threshold - 1
  /\ BlockWords \in Nat \ {0}
  /\ \A im \in Images :
       /\ im.body \in Seq([type : {"raw", "fill", "dont_care", "invalid"}, blocks : Nat])
       /\ im.chunks \in Nat /\ im.blocks \in Nat /\ im.trailing \in Nat

VARIABLES image, state, pbuffer, processed, raw, offset, next, avail, at, device

P == INSTANCE SparseParser WITH HeaderWords <- Threshold, buffer <- pbuffer

parserVars ==
  <<image, state, pbuffer, processed, raw, offset, next, avail, at, device>>
writerVars == <<vars, parserVars>>

-----------------------------------------------------------------------------
(* A sparse stream is the image, or the front of it; of any other stream   *)
(* only the length matters.                                                *)
WriterInit ==
  /\ P!Init
  /\ Init
  /\ IF begins = "sparse" THEN P!FileEnd(image) - length \in Cuts
                          ELSE image = CHOOSE im \in Images : TRUE

(* The task is back at the head of its loop: all it has handed to          *)
(* process() was worked off, with no error.                                *)
Receiving ==
  /\ state # "Failed" /\ P!Remaining = 0
  /\ format = "SparseImage" => avail = Len(onward)

(* decompressed_rx.recv() answers with a piece.                            *)
ReceivePiece ==
  /\ Receiving
  /\ \E n \in PieceSizes : Detect(n) \/ PassOn(n)
  /\ UNCHANGED parserVars

(* process_sparse_data: when the format has just been found, first with    *)
(* the consumed_bytes of the detector and then with the rest of the piece; *)
(* later with the piece.                                                   *)
ParseMore ==
  /\ format = "SparseImage" /\ avail < Len(onward)
  /\ P!Feed((IF avail = 0 THEN Len(buffer) ELSE Len(onward)) - avail)
  /\ UNCHANGED vars

ParserTurn == P!Turn /\ UNCHANGED vars

(* recv() answers None: the writer is closed and the task returns Ok,      *)
(* whatever the parser's state.                                            *)
StreamEnds == Receiving /\ Finalize /\ UNCHANGED parserVars

WriterNext == ReceivePiece \/ ParseMore \/ ParserTurn \/ StreamEnds

WriterSpec == WriterInit /\ [][WriterNext]_writerVars

-----------------------------------------------------------------------------
WriterTypeOK == TypeOK /\ P!TypeOK

(* However the stream is cut into pieces, by the network, the decompressor *)
(* or the detector, the device holds at every moment exactly the expansion *)
(* of what lies before current_output_offset, and the writer stands there. *)
DeviceIsExpansion == P!DeviceIsExpansion

(* A well-formed image is accepted however it is cut, and once the stream  *)
(* has brought its last chunk nothing is left waiting in the parser.       *)
AcceptsWellFormed ==
  /\ P!AcceptsWellFormed
  /\ begins = "sparse" /\ ended /\ length >= Threshold /\ P!WellFormed(image) =>
       avail = length

(* The stream holds all the chunks that the header counts, and it counts   *)
(* some: a count of 0, which is looked at only after a chunk, is never     *)
(* reached.  (An empty RAW chunk may take a word of the next header with   *)
(* it: see the README.)                                                    *)
Holds ==
  /\ image.chunks \in 1 .. Len(image.body) /\ P!NoEmptyRaw(image)
  /\ length >= P!ChunkStarts(image)[image.chunks + 1]

(* The writer answers Ok for a sparse image only when it was expanded to   *)
(* the size and the number of chunks its header states, unless the stream  *)
(* stopped before it had brought these chunks or there are none to bring.  *)
(* For such a stream the task never asks is_complete(), and its Ok means   *)
(* nothing: see the README.                                                *)
OkMeansWhole ==
  /\ P!CompleteMeansWhole
  /\ ended /\ format = "SparseImage" /\ Holds => state = "Complete"
=============================================================================
