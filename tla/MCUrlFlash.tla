----------------------------- MODULE MCUrlFlash -----------------------------
(***************************************************************************)
(* UrlFlash for TLC: the sources a user may name.                          *)
(***************************************************************************)
EXTENDS UrlFlash

Raw(length) ==
  [length |-> length, end |-> length, format |-> "none", undecodable |-> {},
   unparsable |-> {}, honoursRange |-> TRUE, framed |-> TRUE, faultLimit |-> 3]

RawImage       == Raw(6)
DamagedSparse  == [Raw(5) EXCEPT !.unparsable = {3}]
XzImage        == [Raw(4) EXCEPT !.format = "xz"]

(* A gzip member that ends well before the file does.                      *)
PaddedGzip     == [Raw(6) EXCEPT !.format = "gzip", !.end = 3]

(* The decoder rejects chunk 3; what it lets out before is not an image.   *)
DamagedGzip    == [Raw(5) EXCEPT !.format = "gzip", !.undecodable = {3},
                                 !.unparsable = {Garbage}]

(* No Range, no Content-Length: only the decoder can tell what is missing. *)
UnreliableXz   == [Raw(4) EXCEPT !.format = "xz", !.honoursRange = FALSE, !.framed = FALSE]

AllSources ==
  {RawImage, DamagedSparse, XzImage, PaddedGzip, DamagedGzip, UnreliableXz}

(* A raw image from a server that ignores Range.                           *)
NoRangeSource == {[Raw(4) EXCEPT !.honoursRange = FALSE]}

OneSource == {Raw(5)}
=============================================================================
