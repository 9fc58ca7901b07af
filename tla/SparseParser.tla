----------------------------- MODULE SparseParser -----------------------------
(***************************************************************************)
(* The streaming parser of Android sparse images (simg.rs) and the effect  *)
(* of its commands on the device.                                          *)
(*                                                                         *)
(* The unit is the 4-byte word: a sparse header has 7, a chunk header 3, a *)
(* FILL chunk one more.  A file is known by its layout, so a word is known *)
(* by its position in the file, and the bytes in a buffer are a sequence   *)
(* of positions.  process() may be called with pieces of any size (Feed);  *)
(* every turn of its loop is a step (Turn).  ImageWriter puts the parser   *)
(* behind the format detector.  Block sizes that are no multiple of 4 are  *)
(* not modelled.                                                           *)
(***************************************************************************)
EXTENDS Integers, Sequences, Overlay

CONSTANTS
  HeaderWords,       (* SPARSE_HEADER_SIZE: 7 words                        *)
  ChunkHeaderWords,  (* CHUNK_HEADER_SIZE: 3 words                         *)
  BlockWords,        (* header.block_size, in words                        *)
  Images             (* the files it may be given: total_blocks and        *)
                     (* total_chunks as the header states them, the chunks,*)
                     (* and words that follow the last chunk               *)

VARIABLES
  image,      (* the file being parsed                                     *)
  state,      (* ParserState, or "Failed" once process() returned an error *)
  buffer,     (* self.buffer                                               *)
  processed,  (* chunks_processed                                          *)
  raw,        (* raw_remaining                                             *)
  offset,     (* current_output_offset                                     *)
  next,       (* the file position of the first word of `remaining`        *)
  avail,      (* where the input of this process() call ends               *)
  at,         (* the block writer's position                               *)
  device      (* what was written, by position on the device               *)

vars == <<image, state, buffer, processed, raw, offset, next, avail, at, device>>

-----------------------------------------------------------------------------
(* The file.                                                               *)

OutputWords(c) == c.blocks * BlockWords

FileWords(c) ==
  CASE c.type = "raw"       -> ChunkHeaderWords + OutputWords(c)
    [] c.type = "fill"      -> ChunkHeaderWords + 1
    [] c.type = "dont_care" -> ChunkHeaderWords
    [] c.type = "invalid"   -> ChunkHeaderWords

(* Where chunk i begins; the last value is where the chunks end.           *)
ChunkStarts(im) ==
  LET start[i \in 1 .. Len(im.body) + 1] ==
        IF i = 1 THEN HeaderWords ELSE start[i - 1] + FileWords(im.body[i - 1])
  IN  start

FileEnd(im) == ChunkStarts(im)[Len(im.body) + 1] + im.trailing

(* parse_chunk_header on the words of a buffer: the index of the chunk, 0  *)
(* while a FILL pattern is still missing, and -1 for an error: a chunk     *)
(* that is invalid, or words that are not a chunk header at all.           *)
ParseChunkHeader(words) ==
  LET here == {i \in 1 .. Len(image.body) :
                 \A k \in 1 .. ChunkHeaderWords : words[k] = ChunkStarts(image)[i] + k - 1}
  IN  CASE \A i \in here : image.body[i].type = "invalid" -> -1
        [] \E i \in here : image.body[i].type = "fill" /\ Len(words) = ChunkHeaderWords -> 0
        [] OTHER -> CHOOSE i \in here : TRUE

-----------------------------------------------------------------------------
Init ==
  /\ image \in Images
  /\ state = "WaitingHeader" /\ buffer = <<>> /\ processed = 0 /\ raw = 0 /\ offset = 0
  /\ next = 0 /\ avail = 0
  /\ at = 0 /\ device = <<>>

Remaining == avail - next
Smaller(a, b) == IF a < b THEN a ELSE b

(* The next n words of the input.                                          *)
Words(n) == [k \in 1 .. n |-> next + k - 1]

(* What a command does to the device (block_writer.rs).                    *)
Written(n, Content(_)) == Over([o \in at .. at + n - 1 |-> Content(o - at)], device)

(* process() is called with the next n words of the file.                  *)
Feed(n) ==
  /\ state # "Failed" /\ Remaining = 0
  /\ avail' = avail + n
  /\ UNCHANGED <<image, state, buffer, processed, raw, offset, next, at, device>>

(* ParserState::WaitingHeader                                              *)
HeaderTurn ==
  /\ state = "WaitingHeader" /\ Remaining > 0
  /\ LET take == Smaller(HeaderWords - Len(buffer), Remaining)
     IN  /\ next' = next + take
         /\ IF Len(buffer) + take = HeaderWords
            THEN buffer' = <<>> /\ state' = "WaitingChunkHeader"
            ELSE buffer' = buffer \o Words(take) /\ UNCHANGED state
  /\ UNCHANGED <<image, processed, raw, offset, avail, at, device>>

(* Mutant of ChunkDone: the final offset is not looked at.                 *)
ChunkDoneUnchecked(newOffset) ==
  /\ processed' = processed + 1
  /\ state' = IF processed + 1 = image.chunks THEN "Complete" ELSE "WaitingChunkHeader"

(* A chunk is done: the output offset must be the size the header promised *)
(* if it was the last one.                                                 *)
ChunkDone(newOffset) ==
  /\ processed' = processed + 1
  /\ LET last  == processed + 1 = image.chunks
         whole == newOffset = image.blocks * BlockWords
     IN  state' = CASE ~last          -> "WaitingChunkHeader"
                    [] last /\ ~whole -> "Failed"
                    [] last /\ whole  -> "Complete"

(* RAW: words in the buffer after the header are data; what is left of the *)
(* data comes in RawTurn.  The buffer is emptied.                          *)
RawChunk(c, words) ==
  LET extra == Smaller(Len(words) - ChunkHeaderWords, OutputWords(c))
  IN  /\ device' = Written(extra, LAMBDA k : <<"raw", words[ChunkHeaderWords + 1 + k]>>)
      /\ at' = at + extra
      /\ offset' = offset + extra
      /\ raw' = OutputWords(c) - extra
      /\ buffer' = <<>>
      /\ IF raw' = 0
         THEN ChunkDone(offset')
         ELSE state' = "RawData" /\ UNCHANGED processed

FillChunk(c, words) ==
  /\ device' = Written(OutputWords(c), LAMBDA k : <<"fill", words[ChunkHeaderWords + 1]>>)
  /\ at' = at + OutputWords(c)
  /\ offset' = offset + OutputWords(c)
  /\ buffer' = SubSeq(words, ChunkHeaderWords + 2, Len(words))
  /\ ChunkDone(offset')
  /\ UNCHANGED raw

(* Mutants of DontCareChunk: no Seek; the word after the header is lost.   *)
DontCareWithoutSeek(c, words) ==
  /\ offset' = offset + OutputWords(c)
  /\ buffer' = SubSeq(words, ChunkHeaderWords + 1, Len(words))
  /\ ChunkDone(offset')
  /\ UNCHANGED <<raw, at, device>>

DontCareClearing(c, words) ==
  /\ offset' = offset + OutputWords(c)
  /\ at' = offset'
  /\ buffer' = <<>>
  /\ ChunkDone(offset')
  /\ UNCHANGED <<raw, device>>

(* DONT_CARE: a Seek to the offset after it.                               *)
DontCareChunk(c, words) ==
  /\ offset' = offset + OutputWords(c)
  /\ at' = offset'
  /\ buffer' = SubSeq(words, ChunkHeaderWords + 1, Len(words))
  /\ ChunkDone(offset')
  /\ UNCHANGED <<raw, device>>

(* ParserState::WaitingChunkHeader: the buffer is filled up to the longest *)
(* header there is and then parsed.                                        *)
ChunkHeaderTurn ==
  /\ state = "WaitingChunkHeader" /\ Remaining > 0
  /\ LET take   == Smaller(ChunkHeaderWords + 1 - Len(buffer), Remaining)
         words  == buffer \o Words(take)
         parsed == IF Len(words) < ChunkHeaderWords THEN 0 ELSE ParseChunkHeader(words)
     IN  /\ next' = next + take
         /\ CASE parsed = 0  ->
                   /\ buffer' = words
                   /\ UNCHANGED <<state, processed, raw, offset, at, device>>
              [] parsed = -1 ->
                   /\ buffer' = words /\ state' = "Failed"
                   /\ UNCHANGED <<processed, raw, offset, at, device>>
              [] parsed > 0  ->
                   LET c == image.body[parsed]
                   IN  CASE c.type = "raw"       -> RawChunk(c, words)
                         [] c.type = "fill"      -> FillChunk(c, words)
                         [] c.type = "dont_care" -> DontCareChunk(c, words)
  /\ UNCHANGED <<image, avail>>

(* ParserState::RawData                                                    *)
RawTurn ==
  /\ state = "RawData" /\ Remaining > 0
  /\ LET take == Smaller(raw, Remaining)
     IN  /\ device' = Written(take, LAMBDA k : <<"raw", next + k>>)
         /\ at' = at + take
         /\ offset' = offset + take
         /\ raw' = raw - take
         /\ next' = next + take
         /\ IF raw' = 0
            THEN ChunkDone(offset')
            ELSE UNCHANGED <<state, processed>>
  /\ UNCHANGED <<image, buffer, avail>>

(* ParserState::Complete: trailing data is ignored.                        *)
CompleteTurn ==
  /\ state = "Complete" /\ Remaining > 0
  /\ next' = avail
  /\ UNCHANGED <<image, state, buffer, processed, raw, offset, avail, at, device>>

(* A turn of the loop in process().                                        *)
Turn == HeaderTurn \/ ChunkHeaderTurn \/ RawTurn \/ CompleteTurn

-----------------------------------------------------------------------------
(* Properties.                                                             *)

States == {"WaitingHeader", "WaitingChunkHeader", "RawData", "Complete", "Failed"}

TypeOK ==
  /\ image \in Images /\ state \in States
  /\ buffer \in Seq(Nat) /\ Len(buffer) <= HeaderWords
  /\ processed \in Nat /\ raw \in Nat /\ offset \in Nat
  /\ next \in Nat /\ avail \in Nat /\ next <= avail
  /\ at \in Nat /\ DOMAIN device \subseteq Nat

(* Where the output of chunk i begins.                                     *)
OutputStarts(im) ==
  LET start[i \in 1 .. Len(im.body) + 1] ==
        IF i = 1 THEN 0 ELSE start[i - 1] + OutputWords(im.body[i - 1])
  IN  start

(* The reference: what the chunks, taken as a whole, put at each position  *)
(* of the device; nothing where a DONT_CARE chunk lies.                    *)
ExpandedChunk(im, i) ==
  LET c    == im.body[i]
      from == OutputStarts(im)[i]
      to   == IF c.type \in {"raw", "fill"} THEN from + OutputWords(c) - 1 ELSE from - 1
      head == ChunkStarts(im)[i] + ChunkHeaderWords
  IN  [o \in from .. to |-> IF c.type = "raw" THEN <<"raw", head + (o - from)>>
                                             ELSE <<"fill", head>>]

Expanded(im) ==
  LET upTo[i \in 0 .. Len(im.body)] ==
        IF i = 0 THEN <<>> ELSE Over(ExpandedChunk(im, i), upTo[i - 1])
  IN  upTo[Len(im.body)]

(* An image as img2simg makes them: the header counts the chunks, and they *)
(* add up to the size it states.                                           *)
WellFormed(im) ==
  /\ im.chunks = Len(im.body) /\ im.chunks > 0
  /\ \A i \in 1 .. Len(im.body) : im.body[i].type # "invalid"
  /\ OutputStarts(im)[Len(im.body) + 1] = im.blocks * BlockWords

NoEmptyRaw(im) == \A i \in 1 .. Len(im.body) : im.body[i].type = "raw" => im.body[i].blocks > 0

(* However the file is cut into pieces, the device holds at every moment   *)
(* exactly the expansion of what lies before current_output_offset, and    *)
(* the writer stands there (simg.rs 362-367).                              *)
DeviceIsExpansion ==
  WellFormed(image) /\ NoEmptyRaw(image) =>
    /\ at = offset
    /\ DOMAIN device = {o \in DOMAIN Expanded(image) : o < offset}
    /\ \A o \in DOMAIN device : device[o] = Expanded(image)[o]

(* A well-formed image is accepted, and when its last chunk has been fed   *)
(* nothing is left waiting in the parser.                                  *)
AcceptsWellFormed ==
  WellFormed(image) /\ NoEmptyRaw(image) =>
    /\ state # "Failed"
    /\ Remaining = 0 /\ avail >= FileEnd(image) - image.trailing => state = "Complete"

(* "Validate final output offset matches expected size" (simg.rs 444, 488, *)
(* 527): an image is complete only when it has been expanded to the size   *)
(* and with the number of chunks that its header states.                   *)
CompleteMeansWhole ==
  state = "Complete" =>
    /\ processed = image.chunks
    /\ image.chunks <= Len(image.body)
    /\ offset = OutputStarts(image)[image.chunks + 1]
    /\ offset = image.blocks * BlockWords
=============================================================================
