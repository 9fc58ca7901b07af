----------------------------- MODULE MCOciFlash -----------------------------
(***************************************************************************)
(* OciFlash for TLC: the layers a registry may hold.                       *)
(***************************************************************************)
EXTENDS OciFlash

RawDisk ==
  [length |-> 5, end |-> 5, format |-> "none", undecodable |-> {}, unparsable |-> {},
   declared |-> "none", tar |-> FALSE, first |-> 1, last |-> 5,
   inner |-> "none", pattern |-> "unset"]

(* Ends before the format detector has seen enough.                        *)
TinyDisk      == [RawDisk EXCEPT !.length = 1, !.end = 1, !.last = 1]

GzipDisk      == [RawDisk EXCEPT !.format = "gzip", !.declared = "gzip",
                                 !.end = 3, !.last = 3]
DamagedXz     == [RawDisk EXCEPT !.format = "xz", !.undecodable = {3}]
TrailingXz    == [RawDisk EXCEPT !.format = "xz", !.end = 4, !.last = 4]
DamagedSparse == [RawDisk EXCEPT !.unparsable = {3}]

(* Begins with what looks like gzip and is not.                            *)
NotGzip       == [RawDisk EXCEPT !.format = "gzip", !.undecodable = {1}]

(* The image is at the front of a long archive.                            *)
TarDisk       == [RawDisk EXCEPT !.length = 6, !.end = 6, !.tar = TRUE, !.last = 2]

(* Both the layer and the file in it are compressed.                       *)
TarGzip       == [RawDisk EXCEPT !.tar = TRUE, !.format = "gzip", !.declared = "gzip",
                                 !.length = 4, !.end = 4, !.first = 2, !.last = 3,
                                 !.inner = "gzip"]
TarXzFile     == [TarGzip EXCEPT !.inner = "xz", !.pattern = "xz"]
DamagedTar    == [TarXzFile EXCEPT !.undecodable = {3}]
PlainInGzip   == [TarGzip EXCEPT !.inner = "none"]
WrongManifest == [TarGzip EXCEPT !.format = "none", !.inner = "none"]
NoImage       == [TarDisk EXCEPT !.length = 3, !.end = 3, !.first = 4, !.last = 4]

(* The archive ends within the image.                                      *)
TruncatedTar  == [TarDisk EXCEPT !.length = 3, !.end = 3, !.first = 2, !.last = 4]
TruncatedGzip == [TarXzFile EXCEPT !.end = 3, !.last = 4]

AllLayers ==
  {RawDisk, TinyDisk, GzipDisk, DamagedXz, TrailingXz, DamagedSparse, NotGzip, TarDisk,
   TarGzip, TarXzFile, DamagedTar, PlainInGzip, WrongManifest, NoImage, TruncatedTar,
   TruncatedGzip}

(* disk.img.xz in an uncompressed tar.                                     *)
XzInTar == {[TarDisk EXCEPT !.inner = "xz"]}
=============================================================================
