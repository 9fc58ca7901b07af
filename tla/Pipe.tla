-------------------------------- MODULE Pipe --------------------------------
(***************************************************************************)
(* What a byte-bounded channel promises its two ends: a lossless, ordered  *)
(* pipe of bytes whose content is limited to MaxBytes, except that a chunk *)
(* of any size is let into an empty pipe.  Bytes are numbered by their     *)
(* position in the stream: `put` have entered the pipe, `got` have left.   *)
(***************************************************************************)
EXTENDS Naturals

CONSTANTS MaxBytes,     (* byte budget of the pipe                         *)
          StreamLen     (* number of bytes the producer has to send        *)

VARIABLES put, got,     (* stream positions of the two ends                *)
          writing,      (* the producer may still write                    *)
          reading       (* the consumer may still read                     *)

vars == <<put, got, writing, reading>>

Init ==
  /\ put = 0 /\ got = 0
  /\ writing = TRUE /\ reading = TRUE

Write(n) ==
  /\ writing /\ reading
  /\ put + n - got <= MaxBytes \/ put = got
  /\ put' = put + n
  /\ UNCHANGED <<got, writing, reading>>

Read(n) ==
  /\ reading
  /\ got + n <= put
  /\ got' = got + n
  /\ UNCHANGED <<put, writing, reading>>

CloseWrite ==
  /\ writing' = FALSE
  /\ UNCHANGED <<put, got, reading>>

CloseRead ==
  /\ reading' = FALSE
  /\ UNCHANGED <<put, got, writing>>

Next ==
  \/ \E n \in 1 .. StreamLen : Write(n) \/ Read(n)
  \/ CloseWrite
  \/ CloseRead

Spec == Init /\ [][Next]_vars
=============================================================================
