---------------------------- MODULE FormatDetector ----------------------------
(***************************************************************************)
(* FormatDetector (format_detector.rs) in front of the parser or the       *)
(* writer, as handle_detected_format and the writer task of from_url.rs    *)
(* use it.  The stream comes in pieces of any size; a unit of it is known  *)
(* by its position.                                                        *)
(***************************************************************************)
EXTENDS Naturals, Sequences

CONSTANTS
  Threshold,    (* DETECTION_THRESHOLD                                     *)
  MaxBuffer,    (* MAX_BUFFER_SIZE                                         *)
  PieceSizes,   (* sizes of the pieces                                     *)
  StreamLengths,(* lengths the stream may have                             *)
  Starts        (* how it may begin: "sparse" (a valid sparse header),     *)
                (* "corrupt" (its magic, with invalid fields) or "other"   *)

ASSUME DetectorAssumption ==
  /\ Threshold \in Nat \ {0} /\ MaxBuffer \in Nat /\ Threshold <= MaxBuffer
  /\ PieceSizes \subseteq Nat /\ StreamLengths \subseteq Nat
  /\ Starts \subseteq {"sparse", "corrupt", "other"}

VARIABLES
  length,       (* of the stream                                           *)
  begins,       (* how it begins                                           *)
  fed,          (* units of it that have been fed                          *)
  buffer,       (* detector.buffer                                         *)
  format,       (* "unknown", "SparseImage", "Regular", or "Error"         *)
  onward,       (* what the parser or the writer has been given            *)
  ended         (* the stream has ended and finalize_at_eof was called     *)

vars == <<length, begins, fed, buffer, format, onward, ended>>

Init ==
  /\ length \in StreamLengths /\ begins \in Starts
  /\ fed = 0 /\ buffer = <<>> /\ format = "unknown" /\ onward = <<>> /\ ended = FALSE

Units(from, count) == [i \in 1 .. count |-> from + i]
AtMost(a, b) == IF a < b THEN a ELSE b

(* attempt_detection_with_consumed, on parse_header's verdict.             *)
Verdict ==
  CASE begins = "sparse"  -> "SparseImage"
    [] begins = "other"   -> "Regular"
    [] begins = "corrupt" -> "Error"

(* Mutants of Detect: no limit to the buffer; the rest of the piece is     *)
(* forgotten; only the piece at hand is looked at.                         *)
DetectUnbounded(n) ==
  LET seen == buffer \o Units(fed, n)
  IN  /\ format = "unknown" /\ ~ended /\ fed + n <= length
      /\ fed' = fed + n
      /\ buffer' = seen
      /\ IF Len(seen) < Threshold
         THEN UNCHANGED <<format, onward>>
         ELSE format' = Verdict /\ onward' = IF Verdict = "Error" THEN onward ELSE seen
      /\ UNCHANGED <<length, begins, ended>>

DetectForgettingRest(n) ==
  LET seen == buffer \o Units(fed, AtMost(n, MaxBuffer - Len(buffer)))
  IN  /\ format = "unknown" /\ ~ended /\ fed + n <= length
      /\ fed' = fed + n
      /\ buffer' = seen
      /\ IF Len(seen) < Threshold
         THEN UNCHANGED <<format, onward>>
         ELSE format' = Verdict /\ onward' = IF Verdict = "Error" THEN onward ELSE seen
      /\ UNCHANGED <<length, begins, ended>>

DetectPieceOnly(n) ==
  LET take == AtMost(n, MaxBuffer - Len(buffer))
      seen == buffer \o Units(fed, take)
  IN  /\ format = "unknown" /\ ~ended /\ fed + n <= length
      /\ fed' = fed + n
      /\ buffer' = seen
      /\ IF n < Threshold
         THEN UNCHANGED <<format, onward>>
         ELSE /\ format' = Verdict
              /\ onward' = IF Verdict = "Error" THEN onward
                           ELSE seen \o Units(fed + take, n - take)
      /\ UNCHANGED <<length, begins, ended>>

(* process(): the buffer takes what it has room for.  Once the format is   *)
(* known, the buffer and the rest of the piece go onward in that order;    *)
(* after an error nothing does.                                            *)
Detect(n) ==
  LET take == AtMost(n, MaxBuffer - Len(buffer))
      seen == buffer \o Units(fed, take)
  IN  /\ format = "unknown" /\ ~ended /\ fed + n <= length
      /\ fed' = fed + n
      /\ buffer' = seen
      /\ IF Len(seen) < Threshold
         THEN UNCHANGED <<format, onward>>
         ELSE /\ format' = Verdict
              /\ onward' = IF Verdict = "Error" THEN onward
                           ELSE seen \o Units(fed + take, n - take)
      /\ UNCHANGED <<length, begins, ended>>

(* Later pieces go straight on.                                            *)
PassOn(n) ==
  /\ format \in {"SparseImage", "Regular"} /\ ~ended /\ fed + n <= length
  /\ fed' = fed + n
  /\ onward' = onward \o Units(fed, n)
  /\ UNCHANGED <<length, begins, buffer, format, ended>>

(* finalize_at_eof: what was too short to tell is written as regular data. *)
Finalize ==
  /\ fed = length /\ ~ended /\ format # "Error"
  /\ ended' = TRUE
  /\ IF format = "unknown" /\ buffer # <<>>
     THEN format' = "Regular" /\ onward' = buffer /\ buffer' = <<>>
     ELSE UNCHANGED <<format, onward, buffer>>
  /\ UNCHANGED <<length, begins, fed>>

Next ==
  \/ \E n \in PieceSizes : Detect(n) \/ PassOn(n)
  \/ Finalize

Spec == Init /\ [][Next]_vars

-----------------------------------------------------------------------------
TypeOK ==
  /\ length \in StreamLengths /\ begins \in Starts
  /\ fed \in Nat /\ buffer \in Seq(Nat) /\ Len(buffer) <= MaxBuffer /\ onward \in Seq(Nat)
  /\ format \in {"unknown", "SparseImage", "Regular", "Error"} /\ ended \in BOOLEAN

(* Whatever the pieces, what detection held back and what it let through   *)
(* add up to the stream: no unit is lost, passed twice or out of order     *)
(* (format_detector.rs 66-94 with from_url.rs 120-161, 255-277).           *)
PassedExactlyOnce ==
  /\ format = "unknown" => onward = <<>> /\ buffer = Units(0, fed)
  /\ format \in {"SparseImage", "Regular"} => onward = Units(0, fed)
  /\ format = "Error" => onward = <<>>

(* The answer does not depend on how the stream was cut: a stream long     *)
(* enough to tell is recognised for what it is, and a shorter one, whatever*)
(* it begins with, is regular data (format_detector.rs 148-159).           *)
SameAnswerForAllCuts ==
  /\ format # "unknown" /\ ~ended => fed >= Threshold /\ format = Verdict
  /\ ended => format = IF length >= Threshold THEN Verdict
                       ELSE IF length = 0 THEN "unknown" ELSE "Regular"
=============================================================================
