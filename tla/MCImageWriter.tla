---------------------------- MODULE MCImageWriter ----------------------------
(***************************************************************************)
(* ImageWriter for TLC: sparse images of up to three chunks, headers that  *)
(* are off by one chunk or one block, and streams that stop short.  The    *)
(* unit is 4 bytes: threshold 7, buffer 16.                                *)
(***************************************************************************)
EXTENDS ImageWriter

Chunk(types, sizes) == [type : types, blocks : sizes]

Total(body) ==
  LET sum[i \in 0 .. Len(body)] == IF i = 0 THEN 0 ELSE sum[i - 1] + body[i].blocks
  IN  sum[Len(body)]

UpTo(n, chunks) == UNION {[1 .. k -> chunks] : k \in 1 .. n}

File(body, chunks, blocks, trailing) ==
  [body |-> body, chunks |-> chunks, blocks |-> blocks, trailing |-> trailing]

Types == {"raw", "fill", "dont_care"}

GoodFiles ==
  {File(body, Len(body), Total(body), trailing) :
     body \in UpTo(2, Chunk(Types, {1, 2})), trailing \in {0, 2}}
  \union {File(body, 3, 3, 0) : body \in [1 .. 3 -> Chunk(Types, {1})]}

BadFiles ==
  {File(body, Len(body) + more, Total(body) + larger, 1) :
     body \in UpTo(2, Chunk(Types \union {"invalid"}, {1})), more \in {0, 1}, larger \in {0, 1}}
  \union {File(body, Len(body) - 1, Total(body) - 1, 1) :
     body \in UpTo(3, Chunk(Types, {1})) \ UpTo(1, Chunk(Types, {1}))}

(* A RAW chunk of no blocks, before every other type.                      *)
EmptyRawFiles ==
  {File(<<[type |-> "raw", blocks |-> 0], c>>, 2, c.blocks, 0) : c \in Chunk(Types, {1})}

(* Headers that count no chunk, with nothing behind them or with chunks.   *)
UncountedFiles ==
  {File(<<>>, 0, 0, trailing) : trailing \in {0, 4}}
  \union {File(body, 0, blocks, 1) : body \in UpTo(2, Chunk(Types, {1})), blocks \in {0, 1}}

SomeFiles == GoodFiles \union BadFiles \union EmptyRawFiles \union UncountedFiles

Pieces   == {0, 1, 2, 6, 7, 13, 20}
Lengths  == 0 .. 40
AnyStart == {"sparse", "corrupt", "other"}
Missing  == {0, 1, 4, 9}
=============================================================================
