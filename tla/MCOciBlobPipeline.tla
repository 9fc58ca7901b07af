-------------------------- MODULE MCOciBlobPipeline --------------------------
(***************************************************************************)
(* OciBlobPipeline for TLC: the jobs it is given.                          *)
(***************************************************************************)
EXTENDS OciBlobPipeline

GzipFile ==
  [length |-> 5, wanted |-> 5, tar |-> FALSE, compressed |-> TRUE, detect |-> 2,
   honoursRange |-> TRUE, consumerMayFail |-> TRUE, childMayFail |-> TRUE]

PlainFile    == [GzipFile EXCEPT !.compressed = FALSE, !.childMayFail = FALSE]
ShortBlob    == [PlainFile EXCEPT !.length = 2, !.wanted = 2, !.detect = 3]
NoRangeFile  == [GzipFile EXCEPT !.honoursRange = FALSE]

(* A tar whose wanted files are the first blocks of many.                  *)
TarFiles     == [GzipFile EXCEPT !.tar = TRUE, !.length = 7, !.wanted = 2]
TarToTheEnd  == [GzipFile EXCEPT !.tar = TRUE]

AllJobs == {GzipFile, PlainFile, ShortBlob, NoRangeFile, TarFiles, TarToTheEnd}

IntactFile == {[GzipFile EXCEPT !.consumerMayFail = FALSE, !.childMayFail = FALSE]}
=============================================================================
