---------------------------- MODULE MCByteChannel ----------------------------
(* ByteChannel for TLC.  A budget of 3 bytes, chunks that are empty, small  *)
(* (two fit together), filling and oversized, and fewer slots than bytes,   *)
(* so that either limit can be the one that makes send() wait.              *)
EXTENDS ByteChannel

Sizes == {0, 1, 2, 3, 4}
=============================================================================
