----------------------------- MODULE BlockWriter -----------------------------
(***************************************************************************)
(* BlockWriter of block_writer.rs: writes are collected in an aligned      *)
(* buffer and reach the device a block at a time, with padding if direct   *)
(* I/O flushes a part of a block, and with a sync every SyncInterval if it *)
(* does not.  The unit is what the configuration makes of it (in the code: *)
(* a block is 1 MiB, the alignment 4 KiB, the interval 64 MiB).            *)
(*                                                                         *)
(* What is written is marked with the number of the write() call it comes  *)
(* from, so that data that is overwritten, lost or misplaced shows.        *)
(***************************************************************************)
EXTENDS Integers, Sequences, FiniteSets, Overlay

CONSTANTS
  BlockSize,      (* BLOCK_SIZE                                            *)
  Alignment,      (* ALIGNMENT                                             *)
  SyncInterval,   (* SYNC_INTERVAL                                         *)
  FillSize,       (* FILL_BUFFER_SIZE of write_fill_pattern                *)
  MediumMayFail,  (* may a write to the device fail?                       *)
  Sizes,          (* lengths of the data given to write() and fill()       *)
  Offsets,        (* targets of seek()                                     *)
  MaxCommands,    (* bound on the commands of a run                        *)
  DeviceSize      (* bound on the offsets written                          *)

ASSUME BlockWriterAssumption ==
  /\ Alignment \in Nat \ {0} /\ BlockSize \in Nat \ {0} /\ BlockSize % Alignment = 0
  /\ SyncInterval \in Nat \ {0} /\ FillSize \in Nat \ {0}
  /\ MediumMayFail \in BOOLEAN
  /\ Sizes \subseteq Nat /\ Offsets \subseteq Nat /\ DeviceSize \in Nat /\ MaxCommands \in Nat

VARIABLES
  target,       (* what the path names: a block device ("block"), a file   *)
                (* ("file"), nothing ("none"), or a name under /dev/ that  *)
                (* is no block device ("dev")                              *)
  useDirectIO,  (* use_direct_io: O_DIRECT is asked for (and then given,   *)
                (* or the device is not opened)                            *)
  phase,        (* "opening", "idle", "write" (in a loop over data),       *)
                (* "failed", "done"                                        *)
  pending,      (* the part of the data the loop has not copied yet, ...   *)
  piece,        (* ... and of that, what this write() call was given       *)
  commands,     (* commands so far                                         *)
  buffer,       (* the first buffer_pos units of the aligned buffer        *)
  bytesWritten, (* bytes_written                                           *)
  sinceSync,    (* bytes_since_sync                                        *)
  cursor,       (* the position of the file                                *)
  medium,       (* what is on the device, where it has been written        *)
  unsynced,     (* the offsets written since the last sync                 *)
  wanted        (* what the commands so far put at each offset             *)

vars == <<target, useDirectIO, phase, pending, piece, commands, buffer, bytesWritten, sinceSync, cursor,
          medium, unsynced, wanted>>

Padding == 0
RoundUp(n) == ((n + Alignment - 1) \div Alignment) * Alignment
AtMost(a, b) == IF a < b THEN a ELSE b

(* What is on a device or in a file before the flash.                      *)
Old == -1
Before == [o \in 0 .. DeviceSize |-> Old]

Init ==
  /\ target \in {"block", "file", "none", "dev"} /\ useDirectIO \in BOOLEAN
  /\ medium = IF target \in {"block", "file"} THEN Before ELSE <<>>
  /\ phase = "opening" /\ pending = 0 /\ piece = 0 /\ commands = 0
  /\ buffer = <<>> /\ bytesWritten = 0 /\ sinceSync = 0
  /\ cursor = 0 /\ unsynced = {} /\ wanted = <<>>

-----------------------------------------------------------------------------
(* Mutant of Open: a device is opened the way a file is.                   *)
OpenTruncating ==
  /\ phase = "opening" /\ target # "dev"
  /\ phase' = "idle" /\ medium' = <<>>
  /\ UNCHANGED <<pending, piece, commands, buffer, bytesWritten, sinceSync, cursor,
                 unsynced, wanted>>

(* BlockWriter::new: a block device is opened as it is, a file is created  *)
(* or truncated, and under /dev/ nothing is.  Opening may fail, with       *)
(* O_DIRECT twice; the file may be empty by then.                          *)
Open ==
  /\ phase = "opening"
  /\ \/ /\ target # "dev"
        /\ phase' = "idle"
        /\ medium' = IF target = "block" THEN medium ELSE <<>>
     \/ /\ phase' = "failed"
        /\ medium' \in {medium} \union (IF target = "file" THEN {<<>>} ELSE {})
  /\ UNCHANGED <<pending, piece, commands, buffer, bytesWritten, sinceSync, cursor,
                 unsynced, wanted>>

-----------------------------------------------------------------------------
(* flush_buffer for buffer content `data`: written at the file's position, *)
(* and synced if that is due.  `after` is where the file then stands.      *)
(* Mutant of WriteSize: a partial block is padded to a whole one.          *)
WriteSizeWholeBlock(data) ==
  IF useDirectIO /\ data # <<>> THEN BlockSize ELSE Len(data)

WriteSize(data) ==
  IF useDirectIO /\ Len(data) < BlockSize THEN RoundUp(Len(data)) ELSE Len(data)

OnMedium(data, count) ==
  Over([o \in cursor .. cursor + count - 1 |->
          IF o - cursor < Len(data) THEN data[o - cursor + 1] ELSE Padding], medium)

(* Mutant of FlushBuffer: the interval is checked before the block counts. *)
FlushBufferLate(data, after) ==
  LET size == WriteSize(data)
      due  == ~useDirectIO /\ data # <<>> /\ sinceSync >= SyncInterval
  IN  /\ medium' = OnMedium(data, size)
      /\ cursor' = after
      /\ buffer' = <<>>
      /\ sinceSync' = IF due THEN 0 ELSE sinceSync + Len(data)
      /\ unsynced' = IF due THEN {} ELSE unsynced \union cursor .. cursor + size - 1

FlushBuffer(data, after) ==
  LET size == WriteSize(data)
      due  == ~useDirectIO /\ data # <<>> /\ sinceSync + Len(data) >= SyncInterval
  IN  /\ medium' = OnMedium(data, size)
      /\ cursor' = after
      /\ buffer' = <<>>
      /\ sinceSync' = IF due THEN 0 ELSE sinceSync + Len(data)
      /\ unsynced' = IF due THEN {} ELSE unsynced \union cursor .. cursor + size - 1

(* write_all fails after some of it, or what comes after it (the sync, the *)
(* seek) does: the caller stops using the writer.                          *)
FlushFails(data) ==
  /\ MediumMayFail
  /\ \E count \in 0 .. WriteSize(data) : medium' = OnMedium(data, count)
  /\ phase' = "failed"
  /\ UNCHANGED <<pending, piece, commands, buffer, bytesWritten, sinceSync, cursor,
                 unsynced>>

(* Mutant of Begin: a fill shorter than the pattern buffer writes all of it.*)
BeginWhole(n, step) ==
  /\ phase = "idle" /\ commands < MaxCommands
  /\ bytesWritten + n <= DeviceSize
  /\ phase' = "write" /\ pending' = n /\ piece' = step
  /\ commands' = commands + 1
  /\ wanted' = Over([o \in bytesWritten .. bytesWritten + n - 1 |-> commands + 1], wanted)
  /\ UNCHANGED <<buffer, bytesWritten, sinceSync, cursor, medium, unsynced>>

(* A Write, or a Fill, which is a sequence of writes of at most FillSize.  *)
Begin(n, step) ==
  /\ phase = "idle" /\ commands < MaxCommands
  /\ bytesWritten + n <= DeviceSize
  /\ phase' = "write" /\ pending' = n /\ piece' = AtMost(n, step)
  /\ commands' = commands + 1
  /\ wanted' = Over([o \in bytesWritten .. bytesWritten + n - 1 |-> commands + 1], wanted)
  /\ UNCHANGED <<buffer, bytesWritten, sinceSync, cursor, medium, unsynced>>

BeginWrite(n) == Begin(n, n)
BeginFill(n)  == Begin(n, FillSize)

(* One turn of the loop of write(): copy what fits, flush a full buffer.   *)
CopyTurn ==
  /\ phase = "write" /\ piece > 0
  /\ LET count == AtMost(BlockSize - Len(buffer), piece)
         data  == buffer \o [i \in 1 .. count |-> commands]
     IN  \/ /\ pending' = pending - count
            /\ piece' = IF piece - count > 0 THEN piece - count
                        ELSE AtMost(pending - count, FillSize)
            /\ bytesWritten' = bytesWritten + count
            /\ IF Len(data) = BlockSize
               THEN FlushBuffer(data, cursor + BlockSize)
               ELSE buffer' = data /\ UNCHANGED <<sinceSync, cursor, medium, unsynced>>
            /\ UNCHANGED <<phase, commands, wanted>>
         \/ Len(data) = BlockSize /\ FlushFails(data) /\ UNCHANGED wanted

EndWrite ==
  /\ phase = "write" /\ piece = 0
  /\ phase' = "idle"
  /\ UNCHANGED <<pending, piece, commands, buffer, bytesWritten, sinceSync, cursor,
                 medium, unsynced, wanted>>

(* Mutants of Seek: the buffer stays for later; any offset will do with    *)
(* direct I/O.                                                             *)
SeekWithoutFlush(offset) ==
  /\ phase = "idle" /\ commands < MaxCommands /\ offset >= bytesWritten
  /\ ~(useDirectIO /\ offset % Alignment # 0)
  /\ commands' = commands + 1
  /\ cursor' = offset /\ bytesWritten' = offset
  /\ UNCHANGED <<phase, pending, piece, buffer, sinceSync, medium, unsynced, wanted>>

SeekAnywhere(offset) ==
  /\ phase = "idle" /\ commands < MaxCommands /\ offset >= bytesWritten
  /\ commands' = commands + 1
  /\ FlushBuffer(buffer, offset)
  /\ bytesWritten' = offset
  /\ UNCHANGED <<phase, pending, piece, wanted>>

(* seek(): with direct I/O only to an aligned offset.  The sparse parser,  *)
(* which is its only caller, never goes back (SparseParser: its offset     *)
(* only grows); going back would let the padding wipe what lies ahead.     *)
Seek(offset) ==
  /\ phase = "idle" /\ commands < MaxCommands /\ offset >= bytesWritten
  /\ ~(useDirectIO /\ offset % Alignment # 0)
  /\ \/ /\ commands' = commands + 1
        /\ FlushBuffer(buffer, offset)
        /\ bytesWritten' = offset
        /\ UNCHANGED <<phase, pending, piece>>
     \/ FlushFails(buffer)
  /\ UNCHANGED wanted

SeekRefused(offset) ==
  /\ phase = "idle" /\ commands < MaxCommands
  /\ useDirectIO /\ offset % Alignment # 0
  /\ phase' = "failed"
  /\ UNCHANGED <<pending, piece, commands, buffer, bytesWritten, sinceSync, cursor,
                 medium, unsynced, wanted>>

(* flush(), which the writer thread calls once, at the end.                *)
Flush ==
  /\ phase = "idle"
  /\ \/ /\ medium' = OnMedium(buffer, WriteSize(buffer))
        /\ cursor' = cursor + WriteSize(buffer)
        /\ buffer' = <<>> /\ sinceSync' = 0 /\ unsynced' = {}
        /\ phase' = "done"
        /\ UNCHANGED <<pending, piece, commands, bytesWritten>>
     \/ FlushFails(buffer)
  /\ UNCHANGED wanted

Next ==
  /\ \/ Open
     \/ \E n \in Sizes : BeginWrite(n) \/ BeginFill(n)
     \/ CopyTurn
     \/ EndWrite
     \/ \E offset \in Offsets : Seek(offset) \/ SeekRefused(offset)
     \/ Flush
  /\ UNCHANGED <<target, useDirectIO>>

Spec == Init /\ [][Next]_vars

-----------------------------------------------------------------------------
(* Properties.                                                             *)

Marks == 0 .. MaxCommands

TypeOK ==
  /\ target \in {"block", "file", "none", "dev"} /\ useDirectIO \in BOOLEAN
  /\ phase \in {"opening", "idle", "write", "failed", "done"}
  /\ pending \in Nat /\ piece \in 0 .. pending /\ commands \in 0 .. MaxCommands
  /\ buffer \in Seq(Marks) /\ Len(buffer) < BlockSize
  /\ bytesWritten \in Nat /\ sinceSync \in Nat /\ cursor \in Nat
  /\ DOMAIN medium \subseteq Nat /\ DOMAIN wanted \subseteq Nat
  /\ unsynced \subseteq Nat

(* The device as a reader would see it once the buffer is written where    *)
(* the file stands.                                                        *)
Settled ==
  Over([o \in cursor .. cursor + Len(buffer) - 1 |-> buffer[o - cursor + 1]], medium)

(* Offsets the loop in progress has still to write.                        *)
StillToCome == bytesWritten .. bytesWritten + pending - 1

(* bytes_written is where the next unit goes: what the file has, and the   *)
(* buffer after it, however flushes and seeks were mixed.                  *)
PositionTracked ==
  phase \in {"idle", "write"} => bytesWritten = cursor + Len(buffer)

(* After any sequence of write, fill and seek, in any sizes, every offset  *)
(* holds what was last written to it: on the device, or in the buffer      *)
(* where the next flush will put it (block_writer.rs 312-434), and the     *)
(* count the sparse parser's seeks are compared with has not drifted.      *)
NothingLostOrMoved ==
  /\ PositionTracked
  /\ phase # "failed" =>
       \A o \in DOMAIN wanted \ StillToCome :
         o \in DOMAIN Settled /\ Settled[o] = wanted[o]

(* At an offset nobody asked to write: what was there, or a padding zero   *)
(* between the end of what was written and the next aligned offset.        *)
Untouched(o) == o \notin DOMAIN medium \/ medium[o] = Old
Padded(o) ==
  /\ useDirectIO /\ o \in DOMAIN medium /\ medium[o] = Padding
  /\ \E e \in DOMAIN wanted : e < o /\ o < RoundUp(e + 1)

(* What nobody asked to write stays as it was on a device, and is nothing  *)
(* in a file, but for the zeros that pad a block up to the alignment: a    *)
(* DONT_CARE chunk leaves the device alone ("seeking instead of writing    *)
(* zeros", docs/sparse-image-support.md 97, and 84 for the padding).       *)
OnlyPaddingIsAdded ==
  /\ \A o \in (DOMAIN medium \union DOMAIN Before) \ DOMAIN wanted : Untouched(o) \/ Padded(o)
  /\ target = "block" => DOMAIN Before \subseteq DOMAIN medium
  /\ target # "block" /\ phase \notin {"opening", "failed"} =>
       \A o \in DOMAIN medium : medium[o] # Old
  /\ target = "dev" => medium = <<>>

(* With direct I/O every block goes to an aligned position: a partial      *)
(* flush leaves the file aligned, whatever came before.                    *)
DirectWritesAligned == useDirectIO => cursor % Alignment = 0

(* "Sync periodically to avoid losing too much data on failure"            *)
(* (block_writer.rs 417): less than an interval is ever unsynced.          *)
UnsyncedBounded == ~useDirectIO /\ phase # "failed" => Cardinality(unsynced) < SyncInterval
=============================================================================
